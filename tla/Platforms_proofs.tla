--------------------------- MODULE Platforms_proofs ---------------------------
(***************************************************************************)
(* Proofs about one process and its platform: whose connection a success   *)
(* is on, that the rooms of a platform are those of its server, and that   *)
(* the DAV jobs of Platforms are those of DavPlatform.                     *)
(***************************************************************************)
EXTENDS Platforms, DavPlatform_proofs, SequenceTheorems

(***************************************************************************)
(* IRC                                                                     *)
(***************************************************************************)

\* An address update: from its NICK on, the nick of the connection and the
\* credentials of the process may differ, and the job never ends.
Address == job.verb = "address" /\ job.at \in {"queued", "renaming"}

HarmlessLines == (Lines \ {"NICK"}) \X Channels

\* A process opens one connection to the end; while that is open, everybody
\* who was let in had the credentials it was opened with.
IrcInv ==
  /\ sent \in Seq(Lines \X Channels)
  /\ Address => job.answer = "none"
  /\ socket = "opening" =>
       job.at = "opening" /\ job.with = opened /\ opened \in Credentials
  /\ (~forceDisconnect /\ socket # "open") => sent = <<>>
  /\ job.at = "waiting" => socket # "open" /\ job.with # NoCredentials
  /\ socket = "open" => client /\ ~forceDisconnect
  /\ (socket = "open" /\ ~Address) =>
       /\ hash = opened /\ opened \in Credentials
       /\ sent \in Seq(HarmlessLines)
       /\ job.with \in {NoCredentials, opened}

LEMMA IrcInvProves == IrcInv => IrcProven
BY DEF IrcInv, IrcProven

LEMMA InitIrc == IrcInit => IrcInv
BY EmptySeq DEF IrcInit, ChildInit, Idle, IrcInv, Address

LEMMA HarmlessAreLines ==
  ASSUME NEW s \in Seq(HarmlessLines) PROVE s \in Seq(Lines \X Channels)
<1>1. HarmlessLines \subseteq Lines \X Channels
  BY DEF HarmlessLines
<1> QED
  BY <1>1, SeqMonotonic

\* What is written to the connection.
LEMMA RawLines ==
  ASSUME IrcInv, NEW lines \in Seq(Lines \X Channels), Raw(lines)
  PROVE  /\ sent' \in Seq(Lines \X Channels)
         /\ socket # "open" => sent' = sent
         /\ lines \in Seq(HarmlessLines) /\ sent \in Seq(HarmlessLines)
              => sent' \in Seq(HarmlessLines)
BY ConcatProperties DEF Raw, IrcInv

\* A verb that is called when there is a client, and so, if its connection is
\* open, with the credentials of that connection or without any.
LEMMA VerbKeeps ==
  ASSUME IrcInv, ~Address, socket # "opening", NEW verb, NEW with, CallVerb(verb, with),
         socket = "open" => with \in {NoCredentials, opened},
         UNCHANGED <<socket, opened, forceDisconnect, client>>
  PROVE  IrcInv'
<1>1. ASSUME NEW answer, NEW w \in {NoCredentials, with}, job' = Idle(w, answer),
             hash' \in {hash, w}, w = NoCredentials => hash' = hash,
             NEW lines \in Seq(HarmlessLines), Raw(lines) \/ UNCHANGED sent
      PROVE  IrcInv'
  <2>1. /\ sent' \in Seq(Lines \X Channels)
        /\ socket # "open" => sent' = sent
        /\ sent \in Seq(HarmlessLines) => sent' \in Seq(HarmlessLines)
    BY <1>1, RawLines, HarmlessAreLines DEF IrcInv
  <2>2. /\ job'.with = w /\ job'.at = "idle"
    BY <1>1 DEF Idle
  <2> QED
    BY <1>1, <2>1, <2>2 DEF IrcInv, Address
<1>2. ASSUME NEW what \in {"join", "send", "topic"}, NEW on,
             NEW w \in {NoCredentials, with}, Await(what, on, w, "queued"), hash' = hash,
             NEW lines \in Seq(HarmlessLines), Raw(lines)
      PROVE  IrcInv'
  <2>1. /\ sent' \in Seq(Lines \X Channels)
        /\ socket # "open" => sent' = sent
        /\ sent \in Seq(HarmlessLines) => sent' \in Seq(HarmlessLines)
    BY <1>2, RawLines, HarmlessAreLines
  <2>2. job'.with = w /\ job'.at = "queued" /\ job'.verb = what
    BY <1>2 DEF Await
  <2> QED
    BY <1>2, <2>1, <2>2 DEF IrcInv, Address
<1>3. ASSUME NEW c \in Channels PROVE
        /\ \A l \in Lines \ {"NICK"} : <<<<l, c>>>> \in Seq(HarmlessLines)
        /\ \A l, m \in Lines \ {"NICK"} : <<<<l, c>>, <<m, c>>>> \in Seq(HarmlessLines)
  BY DEF HarmlessLines
<1>4. <<>> \in Seq(HarmlessLines)
  BY EmptySeq
<1>5. CASE Refuse(with)
  BY <1>1, <1>4, <1>5 DEF Refuse, Fail, Settle
<1>6. ASSUME NEW c \in Channels, Join(c) PROVE IrcInv'
  <2>1. CASE Succeed(NoCredentials) /\ UNCHANGED sent
    BY <1>1, <1>4, <2>1 DEF Succeed, Settle
  <2>2. CASE /\ Await("join", c, NoCredentials, "queued") /\ UNCHANGED hash
             /\ Raw(<<<<"JOIN", c>>, <<"PING", c>>>>)
    <3>1. <<<<"JOIN", c>>, <<"PING", c>>>> \in Seq(HarmlessLines)
      BY <1>3 DEF Lines
    <3> QED
      BY <1>2, <2>2, <3>1
  <2> QED
    BY <1>6, <2>1, <2>2 DEF Join
<1>7. ASSUME NEW c \in Channels, NEW l \in Lines \ {"NICK"},
             Succeed(NoCredentials), Raw(<<<<l, c>>>>)
      PROVE  IrcInv'
  BY <1>1, <1>3, <1>7 DEF Succeed, Settle
<1>8. ASSUME NEW c \in Channels, Leave(c) \/ Query(c) PROVE IrcInv'
  BY <1>7, <1>8 DEF Leave, Query, Lines
<1>9. ASSUME NEW c \in Channels, Send(c) PROVE IrcInv'
  <2>1. CASE Raw(<<<<"PRIVMSG", c>>>>) /\ Succeed(NoCredentials)
    BY <1>7, <2>1 DEF Lines
  <2>2. CASE /\ Await("send", "none", NoCredentials, "queued") /\ UNCHANGED hash
             /\ Raw(<<<<"PRIVMSG", c>>, <<"PING", c>>>>)
    <3>1. <<<<"PRIVMSG", c>>, <<"PING", c>>>> \in Seq(HarmlessLines)
      BY <1>3 DEF Lines
    <3> QED
      BY <1>2, <2>2, <3>1
  <2>3. CASE Fail(NoCredentials) /\ UNCHANGED sent
    BY <1>1, <1>4, <2>3 DEF Fail, Settle
  <2> QED
    BY <1>9, <2>1, <2>2, <2>3 DEF Send
<1>10. ASSUME NEW c \in Channels, Update(c, with) PROVE IrcInv'
  <2>1. CASE /\ Await("topic", "none", with, "queued") /\ UNCHANGED hash
             /\ Raw(<<<<"TOPIC", c>>, <<"PING", c>>>>)
    <3>1. <<<<"TOPIC", c>>, <<"PING", c>>>> \in Seq(HarmlessLines)
      BY <1>3 DEF Lines
    <3> QED
      BY <1>2, <2>1, <3>1
  <2>2. CASE /\ Await("address", "none", with, "queued")
             /\ Raw(<<<<"NICK", c>>, <<"PING", c>>>>)
    <3>1. <<<<"NICK", c>>, <<"PING", c>>>> \in Seq(Lines \X Channels)
      BY DEF Lines
    <3>2. sent' \in Seq(Lines \X Channels) /\ (socket # "open" => sent' = sent)
      BY <2>2, <3>1, RawLines
    <3>3. job'.answer = "none" /\ job'.at = "queued" /\ job'.verb = "address"
      BY <2>2 DEF Await
    <3> QED
      BY <3>2, <3>3 DEF IrcInv, Address
  <2> QED
    BY <1>10, <2>1, <2>2 DEF Update
<1> QED
  BY <1>5, <1>6, <1>8, <1>9, <1>10 DEF CallVerb

LEMMA WhenClientKeeps ==
  ASSUME IrcInv, ~Address, socket # "opening", NEW with, WhenClient(with),
         socket = "open" => with \in {NoCredentials, opened}, with # NoCredentials,
         UNCHANGED <<forceDisconnect, client>>
  PROVE  IrcInv'
<1>1. CASE CallVerb("update", with)
  BY <1>1, VerbKeeps DEF WhenClient
<1>2. CASE Succeed(with) /\ UNCHANGED sent
  <2>1. job'.with = with /\ job'.at = "idle" /\ hash' = with
    BY <1>2 DEF Succeed, Settle, Idle
  <2> QED
    BY <1>2, <2>1 DEF WhenClient, IrcInv, Address
<1> QED
  BY <1>1, <1>2 DEF WhenClient

\* The lines the server has not acted on.
LEMMA TailOfLines ==
  ASSUME NEW S, NEW s \in Seq(S), s # <<>>
  PROVE  Head(s) \in S /\ Tail(s) \in Seq(S)
BY HeadTailProperties

LEMMA StepIrc ==
  ASSUME IrcInv, [IrcNext]_<<childVars, ircVars>> PROVE IrcInv'
<1> USE ChildAssumption, IrcAssumption
<1>1. ASSUME UNCHANGED <<sent, socket, opened, client, forceDisconnect, hash>>,
             ~Address, ~Address',
             socket # "opening", job'.at # "waiting", job'.with = NoCredentials
      PROVE  IrcInv'
  BY <1>1 DEF IrcInv
<1>2. CASE IrcFetch
  <2>1. ~Address /\ ~Address' /\ job'.with = NoCredentials /\ job'.at = "fetching"
    BY <1>2 DEF IrcFetch, TakeWithCredentials, MayTake, Busy, Await, Address
  <2> QED
    BY <1>1, <1>2, <2>1 DEF IrcFetch, TakeWithCredentials, MayTake, Busy, ircVars, IrcInv
<1>3. CASE IrcReject
  <2>1. ~Address /\ ~Address' /\ job'.with = NoCredentials /\ job'.at = "idle"
    BY <1>3 DEF IrcReject, TakeUninitialized, MayTake, Busy, Settle, Idle, Address
  <2> QED
    BY <1>1, <1>3, <2>1 DEF IrcReject, TakeUninitialized, MayTake, Busy, ircVars, IrcInv
<1>4. CASE IrcTake
  <2>1. ~Address /\ socket # "opening"
    BY <1>4 DEF IrcTake, MayTake, Busy, Address, IrcInv
  <2> QED
    BY <1>4, <2>1, VerbKeeps DEF IrcTake
<1>5. CASE IrcGetClient
  <2> PICK with \in Credentials :
        /\ Busy("fetching") /\ Proves(with)
        /\ IF client THEN WhenClient(with) ELSE WithoutClient(with)
        /\ UNCHANGED <<up, taken, client, forceDisconnect>>
    BY <1>5 DEF IrcGetClient
  <2>1. ~Address /\ socket # "opening" /\ with # NoCredentials
    BY DEF Busy, Address, IrcInv
  <2>2. socket = "open" => with = opened /\ client
    BY <2>1 DEF Proves, IrcInv
  <2>3. CASE client
    BY <2>1, <2>2, <2>3, WhenClientKeeps
  <2>4. CASE ~client
    <3>1. /\ ~Address' /\ (job'.at = "waiting" => job'.with = with)
          /\ UNCHANGED sent
          /\ \/ UNCHANGED <<socket, opened>>
             \/ /\ socket' = "opening" /\ opened' = with
                /\ job'.at = "opening" /\ job'.with = with
      BY <2>4 DEF WithoutClient, Await, Fail, Settle, Idle, Address
    <3>2. socket' # "open" /\ socket # "open"
      BY <2>2, <2>4, <3>1
    <3> QED
      BY <2>1, <3>1, <3>2 DEF IrcInv
  <2> QED
    BY <2>3, <2>4
<1>6. CASE IrcWaitOver
  <2>1. ~Address /\ socket \notin {"opening", "open"} /\ UNCHANGED <<forceDisconnect, client>>
    BY <1>6 DEF IrcWaitOver, Busy, Address, IrcInv
  <2>2. job.with # NoCredentials
    BY <1>6 DEF IrcWaitOver, Busy, IrcInv
  <2>3. CASE client
    BY <1>6, <2>1, <2>2, <2>3, WhenClientKeeps DEF IrcWaitOver
  <2>4. CASE ~client
    <3>1. Fail(job.with) /\ UNCHANGED <<socket, opened, sent>>
      BY <1>6, <2>4 DEF IrcWaitOver
    <3>2. job'.at = "idle"
      BY <3>1 DEF Fail, Settle, Idle
    <3> QED
      BY <2>1, <3>1, <3>2 DEF IrcInv, Address
  <2> QED
    BY <2>3, <2>4
<1>7. CASE IrcDisconnect
  <2>1. socket' # "open" /\ socket' # "opening" /\ forceDisconnect' /\ UNCHANGED sent
    BY <1>7 DEF IrcDisconnect, MayTake, Busy, IrcInv
  <2>2. job'.at = "idle"
    BY <1>7 DEF IrcDisconnect, Succeed, Settle, Idle
  <2> QED
    BY <2>1, <2>2 DEF IrcInv, Address
<1>8. CASE IrcConnected
  <2>1. ~Address /\ job.with = opened /\ opened \in Credentials /\ UNCHANGED <<sent, opened>>
    BY <1>8 DEF IrcConnected, IrcInv, Address
  <2>2. job'.at = "idle" /\ job'.with = opened
    BY <1>8, <2>1 DEF IrcConnected, Fail, Succeed, Settle, Idle
  <2>3. CASE forceDisconnect
    <3>1. socket' = "ending" /\ forceDisconnect'
      BY <1>8, <2>3 DEF IrcConnected
    <3> QED
      BY <2>1, <2>2, <3>1 DEF IrcInv, Address
  <2>4. CASE ~forceDisconnect
    <3>1. socket' = "open" /\ client' /\ ~forceDisconnect'
      BY <1>8, <2>4 DEF IrcConnected
    <3>2. hash' = opened
      BY <1>8, <2>1, <2>4 DEF IrcConnected, Succeed
    <3>3. sent = <<>>
      BY <1>8, <2>4 DEF IrcConnected, IrcInv
    <3> QED
      BY <2>1, <2>2, <3>1, <3>2, <3>3, EmptySeq DEF IrcInv, Address
  <2> QED
    BY <2>3, <2>4
<1>9. CASE IrcRefused
  <2>1. socket' = "failed" /\ UNCHANGED <<sent, forceDisconnect>> /\ socket = "opening"
    BY <1>9 DEF IrcRefused
  <2>2. job'.at = "idle"
    BY <1>9 DEF IrcRefused, Fail, Settle, Idle
  <2> QED
    BY <2>1, <2>2 DEF IrcInv, Address
<1>10. CASE IrcCloses
  <2>1. socket' = "closed" /\ sent' = <<>> /\ forceDisconnect'
    BY <1>10 DEF IrcCloses
  <2>2. job'.at = "idle" \/ UNCHANGED job
    BY <1>10 DEF IrcCloses, Fail, Settle, Idle
  <2> QED
    BY <2>1, <2>2, EmptySeq DEF IrcInv, Address
<1>11. ASSUME NEW answers, Serve(answers), UNCHANGED opened \/ Line = "NICK"
       PROVE  IrcInv'
  <2>1. /\ UNCHANGED <<job, hash, client, forceDisconnect, socket>>
        /\ socket \in {"open", "ending"} /\ sent # <<>> /\ sent' = Tail(sent)
    BY <1>11 DEF Serve, childVars
  <2>2. sent' \in Seq(Lines \X Channels)
    BY <2>1, TailOfLines DEF IrcInv
  <2>3. ASSUME sent \in Seq(HarmlessLines)
        PROVE  sent' \in Seq(HarmlessLines) /\ UNCHANGED opened
    BY <1>11, <2>1, <2>3, TailOfLines DEF Line, HarmlessLines
  <2> QED
    BY <2>1, <2>2, <2>3 DEF IrcInv, Address
<1>12. CASE IrcServerJoins
  BY <1>11, <1>12 DEF IrcServerJoins
<1>13. CASE IrcServerParts
  BY <1>11, <1>13 DEF IrcServerParts
<1>14. CASE IrcServerRenames
  BY <1>11, <1>14 DEF IrcServerRenames
<1>15. CASE IrcServerRefuses
  BY <1>11, <1>15 DEF IrcServerRefuses
<1>16. CASE IrcServerAnswers
  BY <1>11, <1>16 DEF IrcServerAnswers
<1>17. ASSUME UNCHANGED <<job, hash, client, forceDisconnect, socket, opened, sent>>
       PROVE  IrcInv'
  BY <1>17 DEF IrcInv, Address
<1>18. CASE IrcKick
  BY <1>17, <1>18 DEF IrcKick, childVars
<1>19. CASE IrcHears
  <2>1. UNCHANGED <<client, forceDisconnect, socket, opened, sent>>
    BY <1>19 DEF IrcHears
  <2>2. CASE UNCHANGED <<job, hash>>
    BY <1>17, <2>1, <2>2
  <2>3. CASE job.at = "queued" /\ CompleteJob /\ job.verb = "address"
    <3>1. job'.at = "renaming" /\ job'.verb = "address" /\ job'.answer = "none"
      BY <2>3 DEF CompleteJob, Await
    <3>2. socket # "opening"
      BY <2>3 DEF IrcInv
    <3> QED
      BY <2>1, <3>1, <3>2 DEF IrcInv, Address
  <2>4. CASE job.at = "queued" /\ CompleteJob /\ job.verb # "address"
    <3>1. Succeed(job.with)
      BY <2>4 DEF CompleteJob
    <3>2. job'.at = "idle" /\ job'.with = job.with
      BY <3>1 DEF Succeed, Settle, Idle
    <3>3. hash' \in {hash, job.with} /\ (job.with = NoCredentials => hash' = hash)
      BY <3>1 DEF Succeed
    <3>4. ~Address /\ socket # "opening"
      BY <2>4 DEF IrcInv, Address
    <3> QED
      BY <2>1, <3>2, <3>3, <3>4 DEF IrcInv, Address
  <2>5. \/ UNCHANGED <<job, hash>>
        \/ job.at = "queued" /\ CompleteJob
    BY <1>19 DEF IrcHears, CompleteJob
  <2> QED
    BY <2>2, <2>3, <2>4, <2>5
<1>20. CASE IrcChildEnds
  BY <1>17, <1>20 DEF IrcChildEnds, ChildEnds, ircVars
<1>21. CASE IrcCredentialError
  <2>1. /\ job.at = "fetching" /\ job'.at = "idle" /\ job'.with = NoCredentials
        /\ UNCHANGED <<hash, client, forceDisconnect, socket, opened, sent>>
    BY <1>21 DEF IrcCredentialError, CredentialError, Busy, Settle, Idle, ircVars
  <2> QED
    BY <2>1 DEF IrcInv, Address
<1>22. CASE UNCHANGED <<childVars, ircVars>>
  BY <1>17, <1>22 DEF childVars, ircVars
<1> QED
  BY <1>2, <1>3, <1>4, <1>5, <1>6, <1>7, <1>8, <1>9, <1>10, <1>12, <1>13, <1>14,
     <1>15, <1>16, <1>18, <1>19, <1>20, <1>21, <1>22 DEF IrcNext

(***************************************************************************)
(* The channels of IRC                                                     *)
(***************************************************************************)

\* The lines that move the user into a channel, or out of it.
Touches(line, c) == line \in {<<"JOIN", c>>, <<"PART", c>>}

\* The channels the platform takes itself to be in, and the one it waits for.
Joining == {c \in Channels : job.at = "queued" /\ job.verb = "join" /\ job.on = c}
In == channels \cup Joining

\* For every channel the last of the lines under way puts the server where the
\* platform takes it to be, or the server is there already.
Follows(s, in, m, gone) ==
  \A c \in Channels :
    \/ \E k \in 1..Len(s) : /\ s[k] = <<IF c \in in THEN "JOIN" ELSE "PART", c>>
                            /\ \A j \in 1..Len(s) : j > k => ~ Touches(s[j], c)
    \/ /\ \A k \in 1..Len(s) : ~ Touches(s[k], c)
       /\ c \in m <=> c \in in \ gone

\* A refusal of the server is under way: whatever it finds, the process ends.
ErrorDue == \E k \in 1..Len(received) : received[k] = "error"

ServerLines == Lines \X Channels

\* One line more.
LEMMA FollowsLine ==
  ASSUME NEW s \in Seq(ServerLines), NEW in, NEW m, NEW gone, Follows(s, in, m, gone),
         NEW line \in ServerLines, NEW to,
         \A c \in Channels :
           \/ line = <<IF c \in to THEN "JOIN" ELSE "PART", c>>
           \/ ~ Touches(line, c) /\ (c \in to <=> c \in in)
  PROVE  Follows(Append(s, line), to, m, gone)
<1>1. PICK t : t = Append(s, line)
  OBVIOUS
<1>2. /\ t \in Seq(ServerLines) /\ Len(t) = Len(s) + 1 /\ Len(s) \in Nat
      /\ \A k \in 1..Len(s) : t[k] = s[k] /\ k \in 1..Len(t)
      /\ t[Len(s) + 1] = line /\ Len(s) + 1 \in 1..Len(t)
      /\ \A k \in 1..Len(t) : k \in 1..Len(s) \/ k = Len(s) + 1
      /\ \A k \in 1..Len(t) : ~ (k > Len(s) + 1)
  BY <1>1
<1> SUFFICES ASSUME NEW c \in Channels PROVE
      \/ \E k \in 1..Len(t) : /\ t[k] = <<IF c \in to THEN "JOIN" ELSE "PART", c>>
                              /\ \A j \in 1..Len(t) : j > k => ~ Touches(t[j], c)
      \/ /\ \A k \in 1..Len(t) : ~ Touches(t[k], c)
         /\ c \in m <=> c \in to \ gone
  BY <1>1 DEF Follows
<1>3. CASE line = <<IF c \in to THEN "JOIN" ELSE "PART", c>>
  BY <1>2, <1>3
<1>4. CASE ~ Touches(line, c) /\ (c \in to <=> c \in in)
  <2>1. PICK word : word = IF c \in in THEN "JOIN" ELSE "PART"
    OBVIOUS
  <2>2. word = IF c \in to THEN "JOIN" ELSE "PART"
    BY <1>4, <2>1
  <2>3. CASE \E k \in 1..Len(s) : s[k] = <<word, c>> /\ \A j \in 1..Len(s) : j > k => ~ Touches(s[j], c)
    <3>1. PICK k \in 1..Len(s) : s[k] = <<word, c>> /\ \A j \in 1..Len(s) : j > k => ~ Touches(s[j], c)
      BY <2>3
    <3>2. \A j \in 1..Len(t) : j > k => ~ Touches(t[j], c)
      BY <1>2, <1>4, <3>1
    <3>3. k \in 1..Len(t) /\ t[k] = <<word, c>>
      BY <1>2, <3>1
    <3> QED
      BY <2>2, <3>2, <3>3
  <2>4. CASE (\A k \in 1..Len(s) : ~ Touches(s[k], c)) /\ (c \in m <=> c \in in \ gone)
    BY <1>2, <1>4, <2>4
  <2> QED
    BY <2>1, <2>3, <2>4 DEF Follows
<1> QED
  BY <1>3, <1>4

\* The server acts on the first line.
LEMMA FollowsServed ==
  ASSUME NEW s \in Seq(ServerLines), s # <<>>, NEW in, NEW m, NEW gone, Follows(s, in, m, gone),
         NEW now, NEW away,
         \A c \in Channels :
           \/ Head(s) = <<"JOIN", c>> /\ c \in now /\ c \notin away
           \/ Head(s) = <<"PART", c>> /\ c \notin now
           \/ ~ Touches(Head(s), c) /\ (c \in now <=> c \in m) /\ (c \in away <=> c \in gone)
  PROVE  Follows(Tail(s), in, now, away)
<1>1. PICK t : t = Tail(s)
  OBVIOUS
<1>2. /\ t \in Seq(ServerLines) /\ Len(s) = Len(t) + 1 /\ Len(t) \in Nat /\ Head(s) = s[1]
      /\ \A k \in 1..Len(t) : t[k] = s[k + 1] /\ k + 1 \in 1..Len(s) /\ k + 1 > 1
      /\ \A k \in 1..Len(s) : k = 1 \/ (k - 1 \in 1..Len(t) /\ s[k] = t[k - 1])
      /\ \A j, k \in 1..Len(s) : j > k - 1 => j + 1 > k
  BY <1>1
<1> SUFFICES ASSUME NEW c \in Channels PROVE
      \/ \E k \in 1..Len(t) : /\ t[k] = <<IF c \in in THEN "JOIN" ELSE "PART", c>>
                              /\ \A j \in 1..Len(t) : j > k => ~ Touches(t[j], c)
      \/ /\ \A k \in 1..Len(t) : ~ Touches(t[k], c)
         /\ c \in now <=> c \in in \ away
  BY <1>1 DEF Follows
<1>3. PICK word : word = IF c \in in THEN "JOIN" ELSE "PART"
  OBVIOUS
<1>4. CASE \E k \in 1..Len(s) : s[k] = <<word, c>> /\ \A j \in 1..Len(s) : j > k => ~ Touches(s[j], c)
  <2>1. PICK k \in 1..Len(s) : s[k] = <<word, c>> /\ \A j \in 1..Len(s) : j > k => ~ Touches(s[j], c)
    BY <1>4
  <2>2. CASE k = 1
    <3>1. \A j \in 1..Len(t) : ~ Touches(t[j], c)
      BY <1>2, <2>1, <2>2
    <3>2. Head(s) = <<word, c>>
      BY <1>2, <2>1, <2>2
    <3>3. CASE c \in in
      <4>1. Head(s) = <<"JOIN", c>>
        BY <1>3, <3>2, <3>3
      <4>2. Head(s) # <<"PART", c>> /\ Touches(Head(s), c)
        BY <4>1 DEF Touches
      <4>3. c \in now /\ c \notin away
        BY <4>2
      <4> QED
        BY <3>1, <3>3, <4>3
    <3>4. CASE c \notin in
      <4>1. Head(s) = <<"PART", c>>
        BY <1>3, <3>2, <3>4
      <4>2. Head(s) # <<"JOIN", c>> /\ Touches(Head(s), c)
        BY <4>1 DEF Touches
      <4>3. c \notin now
        BY <4>2
      <4> QED
        BY <3>1, <3>4, <4>3
    <3> QED
      BY <3>3, <3>4
  <2>3. CASE k # 1
    <3>1. k - 1 \in 1..Len(t) /\ t[k - 1] = <<word, c>>
      BY <1>2, <2>1, <2>3
    <3>2. ASSUME NEW j \in 1..Len(t), j > k - 1 PROVE ~ Touches(t[j], c)
      <4>1. j + 1 \in 1..Len(s) /\ j + 1 > k /\ t[j] = s[j + 1]
        BY <1>2, <3>2
      <4> QED
        BY <2>1, <4>1
    <3> QED
      BY <1>3, <3>1, <3>2
  <2> QED
    BY <2>2, <2>3
<1>5. CASE (\A k \in 1..Len(s) : ~ Touches(s[k], c)) /\ (c \in m <=> c \in in \ gone)
  <2>1. ~ Touches(Head(s), c)
    BY <1>2, <1>5
  <2>2. Head(s) # <<"JOIN", c>> /\ Head(s) # <<"PART", c>>
    BY <2>1 DEF Touches
  <2>3. (c \in now <=> c \in m) /\ (c \in away <=> c \in gone)
    BY <2>2
  <2>4. \A k \in 1..Len(t) : ~ Touches(t[k], c)
    BY <1>2, <1>5
  <2> QED
    BY <1>5, <2>3, <2>4
<1> QED
  BY <1>3, <1>4, <1>5 DEF Follows

\* The server removes the user from a channel.
LEMMA FollowsKick ==
  ASSUME NEW s, NEW in, NEW m, NEW gone, Follows(s, in, m, gone), NEW c
  PROVE  Follows(s, in, m \ {c}, gone \cup {c})
<1> SUFFICES ASSUME NEW d \in Channels PROVE
      \/ \E k \in 1..Len(s) : /\ s[k] = <<IF d \in in THEN "JOIN" ELSE "PART", d>>
                              /\ \A j \in 1..Len(s) : j > k => ~ Touches(s[j], d)
      \/ /\ \A k \in 1..Len(s) : ~ Touches(s[k], d)
         /\ d \in m \ {c} <=> d \in in \ (gone \cup {c})
  BY DEF Follows
<1>1. CASE \E k \in 1..Len(s) : /\ s[k] = <<IF d \in in THEN "JOIN" ELSE "PART", d>>
                                /\ \A j \in 1..Len(s) : j > k => ~ Touches(s[j], d)
  BY <1>1
<1>2. CASE (\A k \in 1..Len(s) : ~ Touches(s[k], d)) /\ (d \in m <=> d \in in \ gone)
  BY <1>2
<1> QED
  BY <1>1, <1>2 DEF Follows

\* Whose channels the platform keeps: none before the connection is open, and
\* then, unless a refusal is about to end it, those that the lines under way
\* lead the server to. It is this that ChannelsFollowTheServer needs to be
\* inductive: what the server has now says nothing of where the lines go.
IrcRoomsInv ==
  /\ job.with \in Credentials \cup {NoCredentials}
  /\ (job.at = "queued" /\ job.verb = "join") => job.on \in Channels
  /\ members \cap kicked = {}
  /\ (~forceDisconnect /\ socket # "open") =>
       ~initialized /\ received = <<>> /\ channels = {} /\ members = {}
  /\ (up /\ socket = "open" /\ ~ErrorDue) => Follows(sent, In, members, kicked)

\* What a line does to where the user will be: JOIN and PART, and all others.
LEMMA FollowsWord ==
  ASSUME NEW s \in Seq(ServerLines), NEW in, NEW m, NEW gone, Follows(s, in, m, gone),
         NEW word \in Lines, NEW c \in Channels
  PROVE  /\ Append(s, <<word, c>>) \in Seq(ServerLines)
         /\ word = "JOIN" => Follows(Append(s, <<word, c>>), in \cup {c}, m, gone)
         /\ word = "PART" => Follows(Append(s, <<word, c>>), in \ {c}, m, gone)
         /\ word \notin {"JOIN", "PART"} => Follows(Append(s, <<word, c>>), in, m, gone)
<1>1. PICK line \in ServerLines : line = <<word, c>>
  BY DEF ServerLines
<1>2. Append(s, line) \in Seq(ServerLines)
  OBVIOUS
<1>3. \A d \in Channels : d # c => ~ Touches(line, d)
  BY <1>1 DEF Touches
<1>4. ASSUME word = "JOIN" PROVE Follows(Append(s, line), in \cup {c}, m, gone)
  <2>1. \A d \in Channels :
          \/ line = <<IF d \in in \cup {c} THEN "JOIN" ELSE "PART", d>>
          \/ ~ Touches(line, d) /\ (d \in in \cup {c} <=> d \in in)
    BY <1>1, <1>3, <1>4
  <2> QED
    BY <2>1, FollowsLine
<1>5. ASSUME word = "PART" PROVE Follows(Append(s, line), in \ {c}, m, gone)
  <2>1. \A d \in Channels :
          \/ line = <<IF d \in in \ {c} THEN "JOIN" ELSE "PART", d>>
          \/ ~ Touches(line, d) /\ (d \in in \ {c} <=> d \in in)
    BY <1>1, <1>3, <1>5
  <2> QED
    BY <2>1, FollowsLine
<1>6. ASSUME word \notin {"JOIN", "PART"} PROVE Follows(Append(s, line), in, m, gone)
  <2>1. \A d \in Channels : ~ Touches(line, d)
    BY <1>1, <1>6 DEF Touches
  <2> QED
    BY <2>1, FollowsLine
<1> QED
  BY <1>1, <1>2, <1>4, <1>5, <1>6

\* What the verbs write.
LEMMA RawFollows ==
  ASSUME NEW lines, Raw(lines), socket = "open", sent \in Seq(ServerLines),
         NEW in, NEW m, NEW gone, Follows(sent, in, m, gone), NEW c \in Channels
  PROVE  /\ lines = <<<<"PART", c>>>> => Follows(sent', in \ {c}, m, gone)
         /\ lines = <<<<"JOIN", c>>, <<"PING", c>>>> => Follows(sent', in \cup {c}, m, gone)
         /\ \A word \in {"PRIVMSG", "NAMES"} :
              lines = <<<<word, c>>>> => Follows(sent', in, m, gone)
         /\ \A word \in {"PRIVMSG", "TOPIC", "NICK"} :
              lines = <<<<word, c>>, <<"PING", c>>>> => Follows(sent', in, m, gone)
<1>0. sent' = sent \o lines
  BY DEF Raw
<1>1. \A x : sent \o <<x>> = Append(sent, x)
  OBVIOUS
<1>2. ASSUME NEW x \in ServerLines, NEW y \in ServerLines
      PROVE  sent \o <<x, y>> = Append(Append(sent, x), y)
  <2>1. PICK s \in Seq(ServerLines) : s = sent
    OBVIOUS
  <2>2. PICK l : l = s \o <<x, y>>
    OBVIOUS
  <2>3. PICK a : a = Append(s, x)
    OBVIOUS
  <2>4. PICK r : r = Append(a, y)
    OBVIOUS
  <2>5. <<x, y>> \in Seq(ServerLines) /\ Len(<<x, y>>) = 2
    OBVIOUS
  <2>6. /\ l \in Seq(ServerLines) /\ Len(l) = Len(s) + 2 /\ Len(s) \in Nat
        /\ \A k \in 1..Len(s) : l[k] = s[k]
        /\ l[Len(s) + 1] = x /\ l[Len(s) + 2] = y
    BY <2>2, <2>5
  <2>7. /\ a \in Seq(ServerLines) /\ Len(a) = Len(s) + 1
        /\ \A k \in 1..Len(s) : a[k] = s[k]
        /\ a[Len(s) + 1] = x
    BY <2>3
  <2>8. /\ r \in Seq(ServerLines) /\ Len(r) = Len(s) + 2
        /\ \A k \in 1..Len(s) : r[k] = s[k]
        /\ r[Len(s) + 1] = x /\ r[Len(s) + 2] = y
    BY <2>4, <2>6, <2>7
  <2>9. \A k \in 1..(Len(s) + 2) : k \in 1..Len(s) \/ k = Len(s) + 1 \/ k = Len(s) + 2
    BY <2>6
  <2>10. \A k \in 1..Len(l) : l[k] = r[k]
    BY <2>6, <2>8, <2>9
  <2>11. l = r
    BY <2>6, <2>8, <2>10, SeqEqual
  <2> QED
    BY <2>1, <2>2, <2>3, <2>4, <2>11
<1>w. \A word \in Lines : <<word, c>> \in ServerLines
  BY DEF ServerLines
<1>3. ASSUME lines = <<<<"PART", c>>>> PROVE Follows(sent', in \ {c}, m, gone)
  <2>1. Follows(Append(sent, <<"PART", c>>), in \ {c}, m, gone)
    BY FollowsWord DEF Lines
  <2>2. sent \o <<<<"PART", c>>>> = Append(sent, <<"PART", c>>)
    BY <1>1
  <2> QED
    BY <1>0, <1>3, <2>1, <2>2
<1>4. ASSUME lines = <<<<"JOIN", c>>, <<"PING", c>>>> PROVE Follows(sent', in \cup {c}, m, gone)
  <2> PICK s : s = Append(sent, <<"JOIN", c>>)
    OBVIOUS
  <2>1. s \in Seq(ServerLines) /\ Follows(s, in \cup {c}, m, gone)
    BY FollowsWord DEF Lines
  <2>2. Follows(Append(s, <<"PING", c>>), in \cup {c}, m, gone)
    BY <2>1, FollowsWord DEF Lines
  <2>3. sent \o <<<<"JOIN", c>>, <<"PING", c>>>> = Append(Append(sent, <<"JOIN", c>>), <<"PING", c>>)
    BY <1>2, <1>w DEF Lines
  <2> QED
    BY <1>0, <1>4, <2>2, <2>3
<1>5. ASSUME NEW word \in {"PRIVMSG", "NAMES"}, lines = <<<<word, c>>>>
      PROVE  Follows(sent', in, m, gone)
  <2>1. word \in Lines /\ word \notin {"JOIN", "PART"}
    BY DEF Lines
  <2>2. Follows(Append(sent, <<word, c>>), in, m, gone)
    BY <2>1, FollowsWord
  <2> QED
    BY <1>0, <1>1, <1>5, <2>2
<1>6. ASSUME NEW word \in {"PRIVMSG", "TOPIC", "NICK"}, lines = <<<<word, c>>, <<"PING", c>>>>
      PROVE  Follows(sent', in, m, gone)
  <2> PICK s : s = Append(sent, <<word, c>>)
    OBVIOUS
  <2>0. word \in Lines /\ word \notin {"JOIN", "PART"}
    BY DEF Lines
  <2>1. s \in Seq(ServerLines) /\ Follows(s, in, m, gone)
    BY <2>0, FollowsWord
  <2>2. Follows(Append(s, <<"PING", c>>), in, m, gone)
    BY <2>1, FollowsWord DEF Lines
  <2>3. sent \o <<<<word, c>>, <<"PING", c>>>> = Append(Append(sent, <<word, c>>), <<"PING", c>>)
    BY <1>2, <1>w, <2>0 DEF Lines
  <2> QED
    BY <1>0, <1>6, <2>2, <2>3
<1> QED
  BY <1>3, <1>4, <1>5, <1>6

\* The types of what a verb of IRC changes, and where the user will be.
LEMMA VerbRooms ==
  ASSUME IrcInv, IrcRoomsInv, IrcType, ChildType, job.at # "queued",
         NEW verb, NEW with \in Credentials \cup {NoCredentials}, CallVerb(verb, with),
         UNCHANGED <<up, initialized, socket, forceDisconnect, received, members, kicked>>
  PROVE  /\ IrcRoomsInv' /\ channels' \subseteq Channels
         /\ hash' \in Credentials \cup {NoCredentials}
<1>0. In = channels /\ sent \in Seq(ServerLines) /\ UNCHANGED ErrorDue
  BY DEF In, Joining, IrcInv, ServerLines, ErrorDue
<1>f. (up /\ socket = "open" /\ ~ErrorDue) => Follows(sent, channels, members, kicked)
  BY <1>0 DEF IrcRoomsInv
<1>h. hash \in Credentials \cup {NoCredentials} /\ channels \subseteq Channels
  BY DEF ChildType, IrcType
<1>1. ASSUME job'.with \in Credentials \cup {NoCredentials},
             (job'.at = "queued" /\ job'.verb = "join") => job'.on \in Channels,
             hash' \in Credentials \cup {NoCredentials},
             channels' \subseteq channels,
             (up /\ socket = "open" /\ ~ErrorDue) => Follows(sent', In', members, kicked)
      PROVE  /\ IrcRoomsInv' /\ channels' \subseteq Channels
             /\ hash' \in Credentials \cup {NoCredentials}
  BY <1>0, <1>1, <1>h DEF IrcRoomsInv
<1>2. ASSUME Succeed(NoCredentials) \/ Fail(with) \/ Fail(NoCredentials)
      PROVE  /\ job'.with \in Credentials \cup {NoCredentials} /\ job'.at = "idle"
             /\ hash' \in Credentials \cup {NoCredentials} /\ In' = channels'
  BY <1>2, <1>h DEF Succeed, Fail, Settle, Idle, In, Joining
<1>3. ASSUME NEW what, what # "join", NEW w \in {NoCredentials, with},
             Await(what, "none", w, "queued"), hash' = hash
      PROVE  /\ job'.with \in Credentials \cup {NoCredentials} /\ job'.verb # "join"
             /\ hash' \in Credentials \cup {NoCredentials} /\ In' = channels'
  BY <1>3, <1>h DEF Await, In, Joining
<1>4. CASE Refuse(with)
  BY <1>1, <1>2, <1>4, <1>f DEF Refuse
<1>5. ASSUME NEW c \in Channels, Join(c)
      PROVE  /\ IrcRoomsInv' /\ channels' \subseteq Channels
             /\ hash' \in Credentials \cup {NoCredentials}
  <2>1. CASE Succeed(NoCredentials) /\ UNCHANGED <<sent, channels>>
    BY <1>1, <1>2, <1>f, <2>1
  <2>2. CASE /\ Await("join", c, NoCredentials, "queued")
             /\ Raw(<<<<"JOIN", c>>, <<"PING", c>>>>) /\ UNCHANGED <<hash, channels>>
    <3>1. job'.with = NoCredentials /\ job'.on = c /\ In' = channels \cup {c}
      BY <2>2 DEF Await, In, Joining
    <3>2. (up /\ socket = "open" /\ ~ErrorDue) => Follows(sent', channels \cup {c}, members, kicked)
      BY <1>0, <1>f, <2>2, RawFollows
    <3> QED
      BY <1>1, <1>h, <2>2, <3>1, <3>2
  <2> QED
    BY <1>5, <2>1, <2>2 DEF Join
<1>6. ASSUME NEW c \in Channels, Leave(c)
      PROVE  /\ IrcRoomsInv' /\ channels' \subseteq Channels
             /\ hash' \in Credentials \cup {NoCredentials}
  <2>1. Succeed(NoCredentials) /\ channels' = channels \ {c} /\ Raw(<<<<"PART", c>>>>)
    BY <1>6 DEF Leave
  <2>2. (up /\ socket = "open" /\ ~ErrorDue) => Follows(sent', channels \ {c}, members, kicked)
    BY <1>0, <1>f, <2>1, RawFollows
  <2> QED
    BY <1>1, <1>2, <2>1, <2>2
<1>7. ASSUME NEW c \in Channels, Send(c)
      PROVE  /\ IrcRoomsInv' /\ channels' \subseteq Channels
             /\ hash' \in Credentials \cup {NoCredentials}
  <2>0. UNCHANGED channels
    BY <1>7 DEF Send
  <2>1. CASE Raw(<<<<"PRIVMSG", c>>>>) /\ Succeed(NoCredentials)
    <3>1. (up /\ socket = "open" /\ ~ErrorDue) => Follows(sent', channels, members, kicked)
      BY <1>0, <1>f, <2>1, RawFollows
    <3> QED
      BY <1>1, <1>2, <2>0, <2>1, <3>1
  <2>2. CASE /\ Await("send", "none", NoCredentials, "queued") /\ UNCHANGED hash
             /\ Raw(<<<<"PRIVMSG", c>>, <<"PING", c>>>>)
    <3>1. (up /\ socket = "open" /\ ~ErrorDue) => Follows(sent', channels, members, kicked)
      BY <1>0, <1>f, <2>2, RawFollows
    <3> QED
      BY <1>1, <1>3, <2>0, <2>2, <3>1
  <2>3. CASE Fail(NoCredentials) /\ UNCHANGED sent
    BY <1>1, <1>2, <1>f, <2>0, <2>3
  <2> QED
    BY <1>7, <2>1, <2>2, <2>3 DEF Send
<1>8. ASSUME NEW c \in Channels, Update(c, with)
      PROVE  /\ IrcRoomsInv' /\ channels' \subseteq Channels
             /\ hash' \in Credentials \cup {NoCredentials}
  <2>1. PICK what \in {"topic", "address"} :
          /\ Await(what, "none", with, "queued") /\ UNCHANGED <<hash, channels>>
          /\ Raw(<<<<IF what = "topic" THEN "TOPIC" ELSE "NICK", c>>, <<"PING", c>>>>)
    BY <1>8 DEF Update
  <2>2. PICK word \in {"PRIVMSG", "TOPIC", "NICK"} : word = IF what = "topic" THEN "TOPIC" ELSE "NICK"
    OBVIOUS
  <2>3. (up /\ socket = "open" /\ ~ErrorDue) => Follows(sent', channels, members, kicked)
    BY <1>0, <1>f, <2>1, <2>2, RawFollows
  <2> QED
    BY <1>1, <1>3, <2>1, <2>3
<1>9. ASSUME NEW c \in Channels, Query(c)
      PROVE  /\ IrcRoomsInv' /\ channels' \subseteq Channels
             /\ hash' \in Credentials \cup {NoCredentials}
  <2>1. Succeed(NoCredentials) /\ UNCHANGED channels /\ Raw(<<<<"NAMES", c>>>>)
    BY <1>9 DEF Query
  <2>2. (up /\ socket = "open" /\ ~ErrorDue) => Follows(sent', channels, members, kicked)
    BY <1>0, <1>f, <2>1, RawFollows
  <2> QED
    BY <1>1, <1>2, <2>1, <2>2
<1> QED
  BY <1>4, <1>5, <1>6, <1>7, <1>8, <1>9 DEF CallVerb

\* A job that is not waiting for the server has no channel to come.
LEMMA NothingToJoin ==
  ASSUME job.at # "queued" PROVE In = channels
BY DEF In, Joining

\* All but the job, its answer and its credentials as it was.
LEMMA QuietIrc ==
  ASSUME IrcRoomsInv, IrcType, ChildType,
         UNCHANGED ircVars, UNCHANGED <<initialized, hash>>,
         job.at # "queued" \/ UNCHANGED job, job'.at # "queued" \/ UNCHANGED job,
         job'.with \in Credentials \cup {NoCredentials},
         up' \in BOOLEAN, up' => up, taken' \in 0..MaxJobs
  PROVE  IrcRoomsInv' /\ IrcType' /\ ChildType'
<1>1. IrcType' /\ ChildType' /\ UNCHANGED <<channels, ErrorDue>>
  BY DEF IrcType, ChildType, ircVars, ErrorDue
<1>2. In' = In
  BY <1>1, NothingToJoin DEF In, Joining
<1> QED
  BY <1>1, <1>2 DEF IrcRoomsInv, ircVars

\* A connection that is not open, or will not be: nobody is in a channel, or
\* it does not matter any more.
LEMMA NotOpenIrc ==
  ASSUME IrcRoomsInv, UNCHANGED channels, socket' # "open",
         forceDisconnect \/ socket # "open",
         forceDisconnect' \/ (UNCHANGED <<received, members>> /\ ~initialized'),
         ~forceDisconnect' => ~forceDisconnect,
         members' \cap kicked' = {},
         job'.with \in Credentials \cup {NoCredentials},
         (job'.at = "queued" /\ job'.verb = "join") => job'.on \in Channels
  PROVE  IrcRoomsInv'
BY DEF IrcRoomsInv

\* The server acts on a line.
LEMMA ServedIrc ==
  ASSUME IrcInv, IrcInv', IrcRoomsInv, IrcType, ChildType,
         NEW answers \in Seq(Replies), Serve(answers),
         opened' \in Credentials \cup {NoCredentials},
         members' \subseteq Channels, kicked' \subseteq Channels, members' \cap kicked' = {},
         \/ \E k \in 1..Len(answers) : answers[k] = "error"
         \/ \A c \in Channels :
              \/ Head(sent) = <<"JOIN", c>> /\ c \in members' /\ c \notin kicked'
              \/ Head(sent) = <<"PART", c>> /\ c \notin members'
              \/ ~ Touches(Head(sent), c) /\ (c \in members' <=> c \in members)
                                          /\ (c \in kicked' <=> c \in kicked)
  PROVE  IrcRoomsInv' /\ IrcType' /\ ChildType'
<1>1. /\ UNCHANGED <<childVars, client, clientConnecting, forceDisconnect, channels, socket, kicks>>
      /\ socket \in {"open", "ending"} /\ sent # <<>>
      /\ sent' = Tail(sent) /\ received' = received \o answers
  BY DEF Serve
<1>2. UNCHANGED <<job, up, initialized, hash, taken>>
  BY <1>1 DEF childVars
<1>3. /\ received' \in Seq(Replies)
      /\ \A k \in 1..Len(received) : k \in 1..Len(received') /\ received'[k] = received[k]
      /\ \A k \in 1..Len(answers) : Len(received) + k \in 1..Len(received')
                                    /\ received'[Len(received) + k] = answers[k]
  <2>1. PICK r \in Seq(Replies) : r = received
    BY DEF IrcType
  <2>2. PICK n : n = r \o answers
    OBVIOUS
  <2>3. /\ n \in Seq(Replies)
        /\ \A k \in 1..Len(r) : k \in 1..Len(n) /\ n[k] = r[k]
        /\ \A k \in 1..Len(answers) : Len(r) + k \in 1..Len(n) /\ n[Len(r) + k] = answers[k]
    BY <2>2
  <2> QED
    BY <1>1, <2>1, <2>2, <2>3
<1>4. sent \in Seq(ServerLines) /\ sent' \in Seq(ServerLines)
  BY DEF IrcInv, ServerLines
<1>5. IrcType'
  BY <1>1, <1>3, <1>4 DEF IrcType, ServerLines
<1>6. ChildType'
  BY <1>2 DEF ChildType
<1>7. In' = In
  BY <1>1, <1>2 DEF In, Joining
<1>8. ErrorDue => ErrorDue'
  BY <1>3 DEF ErrorDue
<1>9. ASSUME up', socket' = "open", ~ErrorDue'
      PROVE  Follows(sent', In', members', kicked')
  <2>1. up /\ socket = "open" /\ ~ErrorDue
    BY <1>1, <1>2, <1>8, <1>9
  <2>2. Follows(sent, In, members, kicked)
    BY <2>1 DEF IrcRoomsInv
  <2>3. ~ \E k \in 1..Len(answers) : answers[k] = "error"
    BY <1>3, <1>9 DEF ErrorDue
  <2>4. Follows(Tail(sent), In, members', kicked')
    BY <1>1, <1>4, <2>2, <2>3, FollowsServed
  <2> QED
    BY <1>1, <1>7, <2>4
<1>10. ~forceDisconnect' /\ socket' # "open" => FALSE
  BY <1>1 DEF IrcInv
<1> QED
  BY <1>1, <1>2, <1>5, <1>6, <1>9, <1>10 DEF IrcRoomsInv

\* No step of an IRC process breaks its rooms or its types.
LEMMA StepIrcRooms ==
  ASSUME IrcInv, IrcInv', IrcRoomsInv, IrcType, ChildType, [IrcNext]_<<childVars, ircVars>>
  PROVE  IrcRoomsInv' /\ IrcType' /\ ChildType'
<1> USE ChildAssumption, IrcAssumption
<1>t. /\ up \in BOOLEAN /\ initialized \in BOOLEAN
      /\ hash \in Credentials \cup {NoCredentials} /\ taken \in 0..MaxJobs
      /\ job.with \in Credentials \cup {NoCredentials}
      /\ sent' \in Seq(Lines \X Channels) /\ received \in Seq(Replies)
  BY DEF ChildType, IrcType, IrcRoomsInv, IrcInv
<1>m. taken < MaxJobs => taken + 1 \in 0..MaxJobs
  BY <1>t
<1>1. CASE IrcFetch
  <2>1. /\ job.at = "idle" /\ job'.at = "fetching" /\ job'.with = NoCredentials
        /\ UNCHANGED <<up, initialized, hash>> /\ taken' \in 0..MaxJobs /\ UNCHANGED ircVars
    BY <1>1, <1>m DEF IrcFetch, TakeWithCredentials, MayTake, Busy, Await
  <2> QED
    BY <1>t, <2>1, QuietIrc
<1>2. CASE IrcReject
  <2>1. /\ job.at = "idle" /\ job'.at = "idle" /\ job'.with = NoCredentials
        /\ UNCHANGED <<up, initialized, hash>> /\ taken' \in 0..MaxJobs /\ UNCHANGED ircVars
    BY <1>2, <1>m DEF IrcReject, TakeUninitialized, MayTake, Busy, Settle, Idle
  <2> QED
    BY <1>t, <2>1, QuietIrc
<1>3. CASE IrcTake
  <2>1. PICK verb : CallVerb(verb, NoCredentials)
    BY <1>3 DEF IrcTake
  <2>2. /\ job.at = "idle" /\ taken' \in 0..MaxJobs
        /\ UNCHANGED <<up, initialized, client, clientConnecting, forceDisconnect,
                       socket, opened, received, members, kicked, kicks>>
    BY <1>3, <1>m DEF IrcTake, MayTake, Busy
  <2>3. IrcRoomsInv' /\ channels' \subseteq Channels /\ hash' \in Credentials \cup {NoCredentials}
    BY <2>1, <2>2, VerbRooms
  <2> QED
    BY <1>t, <2>2, <2>3 DEF IrcType, ChildType
<1>4. ASSUME NEW with \in Credentials, WhenClient(with), job.at # "queued",
             UNCHANGED <<up, taken, client, forceDisconnect, received, members, kicked, kicks>>
      PROVE  IrcRoomsInv' /\ IrcType' /\ ChildType'
  <2>0. UNCHANGED <<initialized, clientConnecting, socket, opened>>
    BY <1>4 DEF WhenClient
  <2>1. CASE CallVerb("update", with)
    <3>1. IrcRoomsInv' /\ channels' \subseteq Channels /\ hash' \in Credentials \cup {NoCredentials}
      BY <1>4, <2>0, <2>1, VerbRooms
    <3> QED
      BY <1>t, <1>4, <2>0, <3>1 DEF IrcType, ChildType
  <2>2. CASE Succeed(with) /\ UNCHANGED <<sent, channels>>
    <3>1. job'.at = "idle" /\ job'.with = with /\ hash' = with
      BY <2>2 DEF Succeed, Settle, Idle
    <3>2. In' = In /\ UNCHANGED ErrorDue
      BY <1>4, <2>2, <3>1, NothingToJoin DEF In, Joining, ErrorDue
    <3>3. IrcRoomsInv'
      BY <1>4, <2>0, <2>2, <3>1, <3>2 DEF IrcRoomsInv
    <3> QED
      BY <1>t, <1>4, <2>0, <2>2, <3>1, <3>3 DEF IrcType, ChildType
  <2> QED
    BY <1>4, <2>1, <2>2 DEF WhenClient
<1>5. CASE IrcGetClient
  <2>1. PICK with \in Credentials :
        /\ Busy("fetching") /\ Proves(with)
        /\ IF client THEN WhenClient(with) ELSE WithoutClient(with)
        /\ UNCHANGED <<up, taken, client, forceDisconnect, received, members, kicked, kicks>>
    BY <1>5 DEF IrcGetClient
  <2>2. job.at = "fetching"
    BY <2>1 DEF Busy
  <2>3. CASE client
    BY <1>4, <2>1, <2>2, <2>3
  <2>4. CASE ~client
    <3>1. UNCHANGED <<sent, channels>> /\ WithoutClient(with)
      BY <2>1, <2>4 DEF WithoutClient
    <3>2. /\ hash' = hash /\ job'.with = with /\ job'.at # "queued"
      <4>1. \/ Fail(with)
            \/ Await(job.verb, "none", with, "waiting") /\ hash' = hash
            \/ Await("connect", "none", with, "opening") /\ hash' = hash
        BY <3>1 DEF WithoutClient
      <4> QED
        BY <4>1 DEF Fail, Await, Settle, Idle
    <3>4. /\ initialized' \in {initialized, FALSE} /\ clientConnecting' \in {clientConnecting, TRUE}
          /\ socket' \in {socket, "opening"} /\ opened' \in {opened, with}
      BY <3>1 DEF WithoutClient
    <3>3. socket # "open"
      BY <2>4 DEF IrcInv
    <3>5. forceDisconnect \/ ~ initialized'
      BY <1>t, <3>3, <3>4 DEF IrcRoomsInv
    <3>6. members' \cap kicked' = {} /\ socket' # "open"
      BY <2>1, <3>3, <3>4 DEF IrcRoomsInv
    <3>7. IrcRoomsInv'
      BY <2>1, <3>1, <3>2, <3>3, <3>5, <3>6, NotOpenIrc
    <3> QED
      BY <1>t, <2>1, <3>1, <3>2, <3>4, <3>7 DEF IrcType, ChildType
  <2> QED
    BY <2>3, <2>4
<1>6. CASE IrcWaitOver
  <2>1. /\ job.at = "waiting" /\ job.with # NoCredentials /\ socket # "open"
        /\ UNCHANGED <<up, taken, client, forceDisconnect, received, members, kicked, kicks>>
    BY <1>6 DEF IrcWaitOver, Busy, IrcInv
  <2>2. job.with \in Credentials
    BY <1>t, <2>1
  <2>3. CASE client
    BY <1>4, <1>6, <2>1, <2>2, <2>3 DEF IrcWaitOver
  <2>4. CASE ~client
    <3>1. /\ Fail(job.with)
          /\ UNCHANGED <<initialized, clientConnecting, socket, opened, sent, channels>>
      BY <1>6, <2>4 DEF IrcWaitOver
    <3>2. job'.at = "idle" /\ job'.with = job.with /\ hash' = hash
      BY <3>1 DEF Fail, Settle, Idle
    <3>3. IrcRoomsInv'
      BY <1>t, <2>1, <3>1, <3>2, NotOpenIrc DEF IrcRoomsInv
    <3> QED
      BY <1>t, <2>1, <3>1, <3>2, <3>3 DEF IrcType, ChildType
  <2> QED
    BY <2>3, <2>4
<1>7. CASE IrcDisconnect
  <2>1. /\ job'.at = "idle" /\ job'.with = NoCredentials /\ hash' = hash
        /\ initialized' = FALSE /\ forceDisconnect' = TRUE /\ client' = FALSE
        /\ socket' = IF socket = "open" THEN "ending" ELSE socket
        /\ taken' \in 0..MaxJobs
        /\ UNCHANGED <<up, clientConnecting, channels, opened, sent, received, members, kicked, kicks>>
    BY <1>7, <1>m DEF IrcDisconnect, MayTake, Succeed, Settle, Idle
  <2>2. IrcRoomsInv'
    BY <2>1 DEF IrcRoomsInv
  <2> QED
    BY <1>t, <2>1, <2>2 DEF IrcType, ChildType
<1>8. CASE IrcConnected
  <2>1. /\ job.with = opened /\ opened \in Credentials /\ socket = "opening"
        /\ clientConnecting' = FALSE
        /\ UNCHANGED <<up, taken, forceDisconnect, channels, opened, sent, received,
                       members, kicked, kicks>>
    BY <1>8 DEF IrcConnected, IrcInv
  <2>2. job'.at = "idle" /\ job'.with = opened /\ hash' \in {hash, opened}
    BY <1>8, <2>1 DEF IrcConnected, Fail, Succeed, Settle, Idle
  <2>3. CASE forceDisconnect
    <3>1. socket' = "ending" /\ initialized' = FALSE /\ UNCHANGED client
      BY <1>8, <2>3 DEF IrcConnected
    <3>2. IrcRoomsInv'
      BY <2>1, <2>2, <2>3, <3>1 DEF IrcRoomsInv
    <3> QED
      BY <1>t, <2>1, <2>2, <3>1, <3>2 DEF IrcType, ChildType
  <2>4. CASE ~forceDisconnect
    <3>1. socket' = "open" /\ client' = TRUE /\ initialized' = TRUE
      BY <1>8, <2>4 DEF IrcConnected
    <3>2. sent = <<>> /\ channels = {} /\ members = {}
      BY <2>1, <2>4 DEF IrcInv, IrcRoomsInv
    <3>3. In' = {}
      BY <2>1, <2>2, <3>2 DEF In, Joining
    <3>4. Follows(<<>>, {}, {}, kicked)
      <4>1. 1..Len(<<>>) = {}
        OBVIOUS
      <4> QED
        BY <4>1 DEF Follows
    <3>5. Follows(sent', In', members', kicked')
      BY <2>1, <3>2, <3>3, <3>4
    <3>6. IrcRoomsInv'
      BY <2>1, <2>2, <3>1, <3>5 DEF IrcRoomsInv
    <3> QED
      BY <1>t, <2>1, <2>2, <3>1, <3>6 DEF IrcType, ChildType
  <2> QED
    BY <2>3, <2>4
<1>9. CASE IrcRefused
  <2>1. /\ socket = "opening" /\ socket' = "failed" /\ initialized' = FALSE
        /\ clientConnecting' \in {TRUE, ~forceDisconnect}
        /\ job'.at = "idle" /\ job'.with = job.with /\ hash' = hash
        /\ UNCHANGED <<up, taken, client, forceDisconnect, channels, opened, sent,
                       received, members, kicked, kicks>>
    BY <1>9 DEF IrcRefused, Fail, Settle, Idle
  <2>2. IrcRoomsInv'
    BY <1>t, <2>1, NotOpenIrc DEF IrcRoomsInv
  <2>3. clientConnecting' \in BOOLEAN
    BY <2>1 DEF IrcType
  <2> QED
    BY <1>t, <2>1, <2>2, <2>3 DEF IrcType, ChildType
<1>10. CASE IrcCloses
  <2>1. /\ socket' = "closed" /\ received' = <<>> /\ members' = {}
        /\ forceDisconnect' = TRUE /\ clientConnecting' = FALSE /\ initialized' = FALSE
        /\ UNCHANGED <<up, taken, client, channels, opened, kicked, kicks>>
    BY <1>10 DEF IrcCloses
  <2>2. hash' = hash /\ (UNCHANGED job \/ (job'.at = "idle" /\ job'.with = job.with))
    BY <1>10 DEF IrcCloses, Fail, Settle, Idle
  <2>3. IrcRoomsInv'
    BY <1>t, <2>1, <2>2 DEF IrcRoomsInv
  <2>4. received' \in Seq(Replies)
    BY <2>1, EmptySeq
  <2> QED
    BY <1>t, <2>1, <2>2, <2>3, <2>4 DEF IrcType, ChildType
<1>l. sent # <<>> => /\ Line \in Lines /\ Target \in Channels /\ Head(sent) = <<Line, Target>>
  <2>1. PICK s \in Seq(Lines \X Channels) : s = sent
    BY DEF IrcInv
  <2>2. s # <<>> => Head(s) \in Lines \X Channels
    OBVIOUS
  <2> QED
    BY <2>1, <2>2 DEF Line, Target
<1>r. /\ <<>> \in Seq(Replies) /\ <<"own">> \in Seq(Replies) /\ <<"own", "own">> \in Seq(Replies)
      /\ <<"error">> \in Seq(Replies) /\ <<"PONG">> \in Seq(Replies)
      /\ Len(<<"error">>) = 1 /\ <<"error">>[1] = "error"
  BY DEF Replies
<1>k. /\ members \cap kicked = {} /\ members \subseteq Channels /\ kicked \subseteq Channels
      /\ opened \in Credentials \cup {NoCredentials}
  BY DEF IrcRoomsInv, IrcType
<1>11. CASE IrcServerJoins
  <2>1. /\ Serve(<<"own", "own">>) /\ Line = "JOIN" /\ sent # <<>> /\ UNCHANGED opened
        /\ members' = members \cup {Target} /\ kicked' = kicked \ {Target}
    BY <1>11 DEF IrcServerJoins, Serve
  <2>2. Head(sent) = <<"JOIN", Target>> /\ Target \in Channels
    BY <1>l, <2>1
  <2>3. \A c \in Channels : c # Target => ~ Touches(Head(sent), c)
    BY <2>2 DEF Touches
  <2> QED
    BY <1>k, <1>r, <2>1, <2>2, <2>3, ServedIrc
<1>12. CASE IrcServerParts
  <2>1. /\ Serve(<<"own">>) /\ Line = "PART" /\ sent # <<>> /\ UNCHANGED <<opened, kicked>>
        /\ members' = members \ {Target}
    BY <1>12 DEF IrcServerParts, Serve
  <2>2. Head(sent) = <<"PART", Target>> /\ Target \in Channels
    BY <1>l, <2>1
  <2>3. \A c \in Channels : c # Target => ~ Touches(Head(sent), c)
    BY <2>2 DEF Touches
  <2> QED
    BY <1>k, <1>r, <2>1, <2>2, <2>3, ServedIrc
<1>13. CASE IrcServerRenames
  <2>1. /\ Serve(<<"own">>) /\ Line = "NICK" /\ sent # <<>> /\ UNCHANGED <<members, kicked>>
        /\ opened' = Renamed
    BY <1>13 DEF IrcServerRenames, Serve
  <2>2. Head(sent) = <<"NICK", Target>>
    BY <1>l, <2>1
  <2>3. \A c \in Channels : ~ Touches(Head(sent), c)
    BY <2>2 DEF Touches
  <2> QED
    BY <1>k, <1>r, <2>1, <2>3, ServedIrc
<1>14. CASE IrcServerRefuses
  <2>1. Serve(<<"error">>) /\ UNCHANGED <<opened, members, kicked>>
    BY <1>14 DEF IrcServerRefuses
  <2>2. \E k \in 1..Len(<<"error">>) : <<"error">>[k] = "error"
    BY <1>r
  <2> QED
    BY <1>k, <1>r, <2>1, <2>2, ServedIrc
<1>15. CASE IrcServerAnswers
  <2>1. PICK answers \in {<<"PONG">>, <<"own">>, <<>>} : Serve(answers)
    BY <1>15 DEF IrcServerAnswers
  <2>2. /\ UNCHANGED <<opened, members, kicked>> /\ sent # <<>>
        /\ Line # "NICK" /\ (Line = "JOIN" => Inside) /\ (Line = "PART" => ~Inside)
    BY <1>15 DEF IrcServerAnswers, Serve
  <2>3. Line \in Lines /\ Target \in Channels /\ Head(sent) = <<Line, Target>>
    BY <1>l, <2>2
  <2>4. ASSUME NEW c \in Channels
        PROVE  \/ Head(sent) = <<"JOIN", c>> /\ c \in members' /\ c \notin kicked'
               \/ Head(sent) = <<"PART", c>> /\ c \notin members'
               \/ ~ Touches(Head(sent), c) /\ (c \in members' <=> c \in members)
                                           /\ (c \in kicked' <=> c \in kicked)
    <3>1. CASE Line = "JOIN" /\ c = Target
      BY <1>k, <2>2, <2>3, <3>1 DEF Inside
    <3>2. CASE Line = "PART" /\ c = Target
      BY <2>2, <2>3, <3>2 DEF Inside
    <3>3. CASE Line \notin {"JOIN", "PART"} \/ c # Target
      <4>1. ~ Touches(Head(sent), c)
        BY <2>3, <3>3 DEF Touches
      <4> QED
        BY <2>2, <4>1
    <3> QED
      BY <3>1, <3>2, <3>3
  <2>5. answers \in Seq(Replies)
    BY <1>r
  <2> QED
    BY <1>k, <2>1, <2>2, <2>4, <2>5, ServedIrc
<1>16. CASE IrcKick
  <2>1. PICK c \in members :
          /\ kicks < MaxKicks /\ socket = "open"
          /\ kicks' = kicks + 1
          /\ members' = members \ {c} /\ kicked' = kicked \cup {c}
    BY <1>16 DEF IrcKick
  <2>2. UNCHANGED <<up, initialized, hash, job, taken, client, clientConnecting, forceDisconnect,
                    channels, socket, opened, sent, received>>
    BY <1>16 DEF IrcKick, childVars
  <2>3. In' = In /\ UNCHANGED ErrorDue
    BY <2>2 DEF In, Joining, ErrorDue
  <2>4. Follows(sent, In, members, kicked) => Follows(sent', In', members', kicked')
    BY <2>1, <2>2, <2>3, FollowsKick
  <2>5. IrcRoomsInv'
    BY <1>k, <2>1, <2>2, <2>3, <2>4 DEF IrcRoomsInv
  <2>6. kicks' \in 0..MaxKicks
    BY <2>1 DEF IrcType
  <2> QED
    BY <1>t, <1>k, <2>1, <2>2, <2>5, <2>6 DEF IrcType, ChildType
<1>17. CASE IrcHears
  <2>1. /\ up /\ received # <<>> /\ received' = Tail(received)
        /\ UNCHANGED <<initialized, taken, client, clientConnecting, forceDisconnect,
                       socket, opened, sent, members, kicked, kicks>>
    BY <1>17 DEF IrcHears
  <2>2. /\ received' \in Seq(Replies)
        /\ ErrorDue => ErrorDue' \/ Head(received) = "error"
    <3>1. PICK r \in Seq(Replies) : r = received
      BY <1>t
    <3>2. PICK t : t = Tail(r)
      OBVIOUS
    <3>3. /\ t \in Seq(Replies)
          /\ \A k \in 1..Len(r) : (k = 1 /\ r[k] = Head(r)) \/ (k - 1 \in 1..Len(t) /\ r[k] = t[k - 1])
      BY <2>1, <3>1, <3>2
    <3> QED
      BY <2>1, <3>1, <3>2, <3>3 DEF ErrorDue
  <2>3. CASE Head(received) = "error"
    <3>1. up' = FALSE /\ UNCHANGED <<job, hash, channels>>
      BY <1>17, <2>3 DEF IrcHears
    <3>2. IrcRoomsInv'
      BY <2>1, <3>1 DEF IrcRoomsInv
    <3> QED
      BY <1>t, <2>1, <2>2, <3>1, <3>2 DEF IrcType, ChildType
  <2>4. CASE Head(received) # "error"
    <3>1. UNCHANGED up /\ CompleteJob
      BY <1>17, <2>4 DEF IrcHears
    <3>2. /\ job'.with = job.with /\ In' = In /\ channels' \subseteq Channels
          /\ hash' \in Credentials \cup {NoCredentials}
          /\ (job'.at = "queued" /\ job'.verb = "join") => job'.on \in Channels
      <4>1. CASE job.at # "queued"
        <5>1. UNCHANGED <<job, hash, channels>>
          BY <3>1, <4>1 DEF CompleteJob
        <5> QED
          BY <1>t, <4>1, <5>1 DEF In, Joining, IrcType
      <4>2. CASE job.at = "queued" /\ job.verb = "address"
        <5>1. /\ hash' = Renamed /\ UNCHANGED channels /\ job'.with = job.with
              /\ job'.at = "renaming"
          BY <3>1, <4>2 DEF CompleteJob, Await
        <5> QED
          BY <4>2, <5>1 DEF In, Joining, IrcType
      <4>3. CASE job.at = "queued" /\ job.verb # "address"
        <5>1. /\ channels' = IF job.verb = "join" THEN channels \cup {job.on} ELSE channels
              /\ Succeed(job.with)
          BY <3>1, <4>3 DEF CompleteJob
        <5>2. job'.at = "idle" /\ job'.with = job.with /\ hash' \in {hash, job.with}
          BY <5>1 DEF Succeed, Settle, Idle
        <5>3. job.verb = "join" => job.on \in Channels
          BY <4>3 DEF IrcRoomsInv
        <5>4. In' = channels'
          BY <5>2 DEF In, Joining
        <5>5. In = channels'
          BY <4>3, <5>1, <5>3 DEF In, Joining
        <5> QED
          BY <1>t, <5>1, <5>2, <5>3, <5>4, <5>5 DEF IrcType
      <4> QED
        BY <4>1, <4>2, <4>3
    <3>3. ~ (~forceDisconnect /\ socket # "open")
      BY <2>1 DEF IrcRoomsInv
    <3>4. IrcRoomsInv'
      BY <1>t, <2>1, <2>2, <2>4, <3>1, <3>2, <3>3 DEF IrcRoomsInv
    <3> QED
      BY <1>t, <2>1, <2>2, <3>1, <3>2, <3>4 DEF IrcType, ChildType
  <2> QED
    BY <2>3, <2>4
<1>18. CASE IrcChildEnds
  <2>1. up' = FALSE /\ UNCHANGED <<initialized, hash, job, taken, ircVars>>
    BY <1>18 DEF IrcChildEnds, ChildEnds
  <2> QED
    BY <1>t, <2>1, QuietIrc
<1>19. CASE IrcCredentialError
  <2>1. /\ job.at = "fetching" /\ job'.at = "idle" /\ job'.with = NoCredentials
        /\ UNCHANGED <<up, initialized, hash, taken, ircVars>>
    BY <1>19 DEF IrcCredentialError, CredentialError, Busy, Settle, Idle
  <2> QED
    BY <1>t, <2>1, QuietIrc
<1>20. CASE UNCHANGED <<childVars, ircVars>>
  <2>1. UNCHANGED <<up, initialized, hash, job, taken, ircVars>>
    BY <1>20 DEF childVars
  <2> QED
    BY <1>t, <2>1, QuietIrc
<1> QED
  BY <1>1, <1>2, <1>3, <1>5, <1>6, <1>7, <1>8, <1>9, <1>10, <1>11, <1>12, <1>13, <1>14,
     <1>15, <1>16, <1>17, <1>18, <1>19, <1>20 DEF IrcNext

(***************************************************************************)
(* XMPP                                                                    *)
(***************************************************************************)

ClientObjects ==
  [status: {"none", "starting", "online", "dropped", "stopping", "gone"},
   with: Credentials \cup {NoCredentials},
   listens: BOOLEAN, handles: BOOLEAN, joined: SUBSET Rooms]

ClientShape ==
  /\ made \in 0..MaxClients /\ current \in 0..made
  /\ xmpp \in [Clients -> ClientObjects]

\* At most one client is starting, the last one made, and for the job that waits
\* for it; every other one the platform has or listens to was opened with the
\* credentials that let a job in.
XmppInv ==
  /\ ClientShape
  /\ (job.at = "sending" /\ job.verb = "join") => job.on \in Rooms
  /\ job.at = "starting" =>
       /\ job.with \in Credentials /\ hash \in {NoCredentials, job.with}
       /\ current \in {0, made}
  /\ \A c \in Clients : xmpp[c].status = "starting" =>
       job.at = "starting" /\ c = made /\ xmpp[c].with = job.with
  /\ \A c \in Clients : xmpp[c].handles => xmpp[c].with = hash /\ hash \in Credentials
  /\ current # 0 =>
       \/ xmpp[current].with = hash /\ hash \in Credentials
       \/ job.at = "starting" /\ xmpp[current].with = job.with
  /\ (job.answer = "result" /\ job.with # NoCredentials) => job.with = hash

LEMMA XmppInvProves == XmppInv => XmppProven
BY DEF XmppInv, XmppProven

LEMMA InitXmpp == XmppInit => XmppInv
BY ChildAssumption, XmppAssumption
DEF XmppInit, ChildInit, Idle, XmppInv, ClientShape, ClientObjects, Clients, NoClient

LEMMA CurrentIsAClient ==
  ASSUME ClientShape, current # 0
  PROVE  current \in Clients
BY XmppAssumption DEF ClientShape, Clients

LEMMA NobodyIsClientZero == 0 \notin Clients
BY XmppAssumption DEF Clients

\* A step that makes no client, starts none and lets nobody in.
LEMMA ClientsOnlyLose ==
  ASSUME XmppInv, ClientShape', UNCHANGED <<hash, made>>, current' \in {0, current},
         \A c \in Clients :
           /\ xmpp'[c].with = xmpp[c].with
           /\ xmpp'[c].handles => xmpp[c].handles
           /\ xmpp'[c].status = "starting" => xmpp[c].status = "starting",
         \/ UNCHANGED job
         \/ /\ job'.at # "starting"
            /\ (job'.at = "sending" /\ job'.verb = "join") => job'.on \in Rooms
            /\ job'.answer = "result" => job'.with = NoCredentials
            /\ job.at = "starting" =>
                 current' = 0 /\ \A c \in Clients : xmpp'[c].status # "starting"
  PROVE  XmppInv'
<1>1. current' # 0 => current \in Clients /\ current' = current
  BY CurrentIsAClient DEF XmppInv
<1> QED
  BY <1>1 DEF XmppInv

LEMMA SettledJob ==
  ASSUME NEW w, NEW answer, Settle(w, answer)
  PROVE  job'.at = "idle" /\ job'.with = w /\ job'.answer = answer
BY DEF Settle, Idle

\* A client that is told to stop.
LEMMA StoppedClients ==
  ASSUME ClientShape, NEW k \in Clients
  PROVE  /\ Stopped(k) \in [Clients -> ClientObjects]
         /\ \A c \in Clients :
              /\ Stopped(k)[c].with = xmpp[c].with
              /\ Stopped(k)[c].handles = xmpp[c].handles
              /\ Stopped(k)[c].status \in {xmpp[c].status, "stopping"}
<1>1. xmpp[k] \in ClientObjects /\ xmpp \in [Clients -> ClientObjects]
  BY DEF ClientShape
<1>2. Stopped(k) = [xmpp EXCEPT ![k] = [xmpp[k] EXCEPT
        !.status = IF Alive(k) THEN "stopping" ELSE xmpp[k].status, !.joined = {}]]
  BY <1>1 DEF Stopped, ClientObjects
<1>3. PICK r \in ClientObjects :
        /\ Stopped(k) = [xmpp EXCEPT ![k] = r]
        /\ r.with = xmpp[k].with /\ r.handles = xmpp[k].handles
        /\ r.status \in {xmpp[k].status, "stopping"}
  <2>1. [xmpp[k] EXCEPT !.status = IF Alive(k) THEN "stopping" ELSE xmpp[k].status,
                        !.joined = {}] \in ClientObjects
    BY <1>1 DEF ClientObjects
  <2> QED
    BY <1>1, <1>2, <2>1 DEF ClientObjects
<1> QED
  BY <1>1, <1>3

LEMMA StepXmpp ==
  ASSUME XmppInv, [XmppNext]_<<childVars, xmppVars>> PROVE XmppInv'
<1> USE ChildAssumption, XmppAssumption
<1>0. ClientShape /\ \A c \in Clients : xmpp[c] \in ClientObjects
  BY DEF XmppInv, ClientShape
<1>1. ASSUME UNCHANGED <<hash, xmppVars>>, job'.at # "starting", job.at # "starting",
             (job'.at = "sending" /\ job'.verb = "join") => job'.on \in Rooms,
             job'.answer = "result" => job'.with = NoCredentials
      PROVE  XmppInv'
  <2>1. ClientShape'
    BY <1>0, <1>1 DEF ClientShape, xmppVars
  <2> QED
    BY <1>1, <2>1, ClientsOnlyLose DEF xmppVars
<1>2. CASE XmppFetch
  <2>1. /\ UNCHANGED <<hash, xmppVars>>
        /\ job.at = "idle" /\ job'.at = "fetching" /\ job'.answer = "none"
    BY <1>2 DEF XmppFetch, TakeWithCredentials, MayTake, Busy, Await
  <2> QED
    BY <1>1, <2>1
<1>3. CASE XmppReject
  <2>1. UNCHANGED <<hash, xmppVars>> /\ job.at = "idle" /\ Settle(NoCredentials, "error")
    BY <1>3 DEF XmppReject, TakeUninitialized, MayTake, Busy
  <2> QED
    BY <1>1, <2>1, SettledJob
<1>4. CASE XmppConnect
  <2> PICK with \in Credentials :
        /\ job.at = "fetching" /\ hash \in {NoCredentials, with}
        /\ \/ Online(current) /\ Succeed(with) /\ UNCHANGED xmppVars
           \/ Fail(with) /\ UNCHANGED xmppVars
           \/ /\ made < MaxClients
              /\ made' = made + 1 /\ current' = made'
              /\ xmpp' = [xmpp EXCEPT ![made'] =
                   [status |-> "starting", with |-> with, listens |-> TRUE,
                    handles |-> FALSE, joined |-> {}]]
              /\ Await("connect", "none", with, "starting")
              /\ UNCHANGED hash
    BY <1>4 DEF XmppConnect, Busy, Proves
  <2>1. CASE Online(current) /\ Succeed(with) /\ UNCHANGED xmppVars
    <3>1. xmpp[current].with = hash /\ hash = with
      BY <2>1 DEF Online, XmppInv
    <3>2. hash' = hash /\ job'.at = "idle" /\ job'.with = with
      BY <2>1, <3>1, SettledJob DEF Succeed
    <3>3. ClientShape' /\ UNCHANGED <<current, made, xmpp>>
      BY <1>0, <2>1 DEF ClientShape, xmppVars
    <3>4. \A c \in Clients : xmpp[c].status # "starting"
      BY DEF XmppInv
    <3> QED
      BY <3>1, <3>2, <3>3, <3>4 DEF XmppInv
  <2>2. CASE Fail(with) /\ UNCHANGED xmppVars
    <3>1. job'.at = "idle" /\ job'.answer = "error" /\ UNCHANGED hash
      BY <2>2, SettledJob DEF Fail
    <3> QED
      BY <1>1, <2>2, <3>1
  <2>3. CASE /\ made < MaxClients
             /\ made' = made + 1 /\ current' = made'
             /\ xmpp' = [xmpp EXCEPT ![made'] =
                  [status |-> "starting", with |-> with, listens |-> TRUE,
                   handles |-> FALSE, joined |-> {}]]
             /\ Await("connect", "none", with, "starting")
             /\ UNCHANGED hash
    <3>1. made' \in Clients /\ made' \in 0..MaxClients /\ current' \in 0..made' /\ made' # 0
      BY <1>0, <2>3 DEF ClientShape, Clients
    <3>2. [status |-> "starting", with |-> with, listens |-> TRUE,
           handles |-> FALSE, joined |-> {}] \in ClientObjects
      BY DEF ClientObjects
    <3>3. ClientShape'
      BY <1>0, <2>3, <3>1, <3>2 DEF ClientShape
    <3>4. /\ xmpp'[made'].status = "starting" /\ xmpp'[made'].with = with
          /\ ~xmpp'[made'].handles
          /\ \A c \in Clients : c # made' => xmpp'[c] = xmpp[c]
      BY <1>0, <2>3, <3>1 DEF ClientShape
    <3>5. /\ job'.at = "starting" /\ job'.with = with /\ job'.answer = "none"
      BY <2>3 DEF Await
    <3>6. \A c \in Clients : xmpp[c].status # "starting"
      BY DEF XmppInv
    <3> QED
      BY <2>3, <3>1, <3>3, <3>4, <3>5, <3>6 DEF XmppInv
  <2> QED
    BY <2>1, <2>2, <2>3
<1>5. CASE XmppTake
  <2>1. job.at = "idle" /\ UNCHANGED xmppVars
    BY <1>5 DEF XmppTake, MayTake, Busy
  <2>2. CASE Fail(NoCredentials)
    BY <1>1, <2>1, <2>2, SettledJob DEF Fail
  <2>3. ASSUME NEW verb, NEW room \in Rooms \cup {"none"}, verb = "join" => room \in Rooms,
               Await(verb, room, NoCredentials, "sending"), UNCHANGED hash
        PROVE  XmppInv'
    BY <1>1, <2>1, <2>3 DEF Await
  <2> QED
    BY <1>5, <2>2, <2>3 DEF XmppTake
<1>6. CASE XmppSent
  <2>1. /\ job.at = "sending" /\ UNCHANGED <<current, made>>
        /\ Succeed(NoCredentials)
    BY <1>6 DEF XmppSent, Busy
  <2>2. job'.at = "idle" /\ job'.with = NoCredentials /\ UNCHANGED hash
    BY <2>1, SettledJob DEF Succeed
  <2>3. PICK rooms :
          /\ rooms \in SUBSET Rooms
          /\ \/ UNCHANGED xmpp
             \/ Online(current) /\ xmpp' = [xmpp EXCEPT ![current].joined = rooms]
    <3>1. CASE ~Online(current)
      BY <1>6, <3>1 DEF XmppSent
    <3>2. CASE Online(current)
      <4>1. current \in Clients /\ xmpp[current].joined \in SUBSET Rooms
        BY <1>0, <3>2, CurrentIsAClient DEF Online, ClientObjects
      <4>2. job.verb = "join" => job.on \in Rooms
        BY <2>1 DEF XmppInv
      <4>3. xmpp' = [xmpp EXCEPT ![current].joined =
              CASE job.verb = "join"  -> xmpp[current].joined \cup {job.on}
                [] job.verb = "leave" -> xmpp[current].joined \ {job.on}
                [] OTHER -> xmpp[current].joined]
        BY <1>6, <3>2 DEF XmppSent
      <4> QED
        BY <3>2, <4>1, <4>2, <4>3
    <3> QED
      BY <3>1, <3>2
  <2>4. /\ ClientShape'
        /\ \A c \in Clients :
             /\ xmpp'[c].with = xmpp[c].with
             /\ xmpp'[c].handles = xmpp[c].handles
             /\ xmpp'[c].status = xmpp[c].status
    <3>1. CASE UNCHANGED xmpp
      BY <1>0, <2>1, <3>1 DEF ClientShape
    <3>2. CASE Online(current) /\ xmpp' = [xmpp EXCEPT ![current].joined = rooms]
      <4>1. current \in Clients
        BY <1>0, <3>2, CurrentIsAClient DEF Online
      <4> QED
        BY <1>0, <2>1, <2>3, <3>2, <4>1 DEF ClientShape, ClientObjects
    <3> QED
      BY <2>3, <3>1, <3>2
  <2> QED
    BY <2>1, <2>2, <2>4, ClientsOnlyLose
<1>7. CASE XmppSendFails
  <2>1. job.at = "sending" /\ Fail(NoCredentials) /\ UNCHANGED xmppVars
    BY <1>7 DEF XmppSendFails, Busy
  <2> QED
    BY <1>1, <2>1, SettledJob DEF Fail
<1>8. CASE XmppDisconnect
  <2>1. job.at = "idle" /\ job'.at = "idle" /\ job'.with = NoCredentials
    BY <1>8, SettledJob DEF XmppDisconnect, MayTake, Busy, Succeed
  <2>2. current' = 0 /\ UNCHANGED <<hash, made>>
    BY <1>8 DEF XmppDisconnect, Succeed
  <2>3. /\ ClientShape'
        /\ \A c \in Clients :
             /\ xmpp'[c].with = xmpp[c].with
             /\ xmpp'[c].handles => xmpp[c].handles
             /\ xmpp'[c].status = "starting" => xmpp[c].status = "starting"
    <3>1. CASE current = 0
      BY <1>0, <1>8, <2>2, <3>1 DEF XmppDisconnect, ClientShape
    <3>2. CASE current # 0
      <4>1. current \in Clients
        BY <1>0, <3>2, CurrentIsAClient
      <4>2. xmpp' = [Stopped(current) EXCEPT ![current].listens = FALSE,
                                             ![current].handles = FALSE]
        BY <1>8, <3>2 DEF XmppDisconnect
      <4>3. Stopped(current)[current] \in ClientObjects
        BY <1>0, <4>1, StoppedClients
      <4>4. xmpp' = [Stopped(current) EXCEPT ![current] =
              [Stopped(current)[current] EXCEPT !.listens = FALSE, !.handles = FALSE]]
        BY <1>0, <4>1, <4>2, <4>3, StoppedClients DEF ClientObjects
      <4>5. xmpp' \in [Clients -> ClientObjects]
        BY <1>0, <4>1, <4>3, <4>4, StoppedClients DEF ClientObjects
      <4>6. \A c \in Clients :
             /\ xmpp'[c].with = xmpp[c].with
             /\ xmpp'[c].handles => xmpp[c].handles
             /\ xmpp'[c].status = "starting" => xmpp[c].status = "starting"
        BY <1>0, <4>1, <4>3, <4>4, StoppedClients DEF ClientObjects
      <4> QED
        BY <1>0, <2>2, <4>5, <4>6 DEF ClientShape
    <3> QED
      BY <3>1, <3>2
  <2> QED
    BY <2>1, <2>2, <2>3, ClientsOnlyLose
<1>9. CASE XmppStarted
  <2> PICK k \in Clients :
        /\ xmpp[k].status = "starting"
        /\ xmpp' = [d \in Clients |->
             [xmpp[d] EXCEPT !.status  = IF d = k THEN "online" ELSE @,
                             !.handles = @ \/ d = current]]
        /\ Succeed(job.with) /\ UNCHANGED <<current, made>>
    BY <1>9 DEF XmppStarted
  <2>1. /\ job.at = "starting" /\ k = made /\ xmpp[k].with = job.with
        /\ job.with \in Credentials /\ hash \in {NoCredentials, job.with}
        /\ current \in {0, k}
    BY DEF XmppInv
  <2>2. hash' = job.with /\ job'.at = "idle" /\ job'.with = job.with
    BY <2>1, SettledJob DEF Succeed
  <2>3. \A c \in Clients :
          /\ xmpp'[c] \in ClientObjects
          /\ xmpp'[c].with = xmpp[c].with
          /\ xmpp'[c].handles => xmpp[c].handles \/ c = current
          /\ xmpp'[c].status = "starting" => c # k /\ xmpp[c].status = "starting"
    BY <1>0 DEF ClientObjects
  <2>4. ClientShape'
    BY <1>0, <2>3 DEF ClientShape
  <2>5. \A c \in Clients : xmpp'[c].status # "starting"
    BY <2>1, <2>3 DEF XmppInv
  <2>6. \A c \in Clients : xmpp'[c].handles => xmpp'[c].with = hash'
    <3> SUFFICES ASSUME NEW c \in Clients, xmpp'[c].handles PROVE xmpp'[c].with = hash'
      OBVIOUS
    <3>1. xmpp[c].handles \/ c = k
      <4>1. xmpp[c].handles \/ c = current
        BY <2>3
      <4> QED
        BY <2>1, <4>1, NobodyIsClientZero
    <3>2. xmpp[c].handles => xmpp[c].with = hash /\ hash \in Credentials
      BY DEF XmppInv
    <3> QED
      BY <2>1, <2>2, <2>3, <3>1, <3>2
  <2>7. current' # 0 => xmpp'[current'].with = hash'
    BY <2>1, <2>2, <2>3
  <2> QED
    BY <2>1, <2>2, <2>4, <2>5, <2>6, <2>7 DEF XmppInv
<1>10. CASE XmppStartFails
  <2> PICK k \in Clients, recoverable \in BOOLEAN :
        /\ job.at = "starting" /\ k = made
        /\ xmpp' = LET marked == IF recoverable \/ current = 0 THEN xmpp ELSE Stopped(current)
                   IN [marked EXCEPT ![k].status = IF @ = "starting" THEN "dropped" ELSE @]
        /\ current' = 0 /\ Fail(job.with) /\ UNCHANGED made
    BY <1>10 DEF XmppStartFails, Busy
  <2>1. job'.at = "idle" /\ job'.answer = "error" /\ UNCHANGED hash
    BY SettledJob DEF Fail
  <2>2. PICK marked :
          /\ marked \in [Clients -> ClientObjects]
          /\ \A c \in Clients :
               /\ marked[c].with = xmpp[c].with
               /\ marked[c].handles = xmpp[c].handles
               /\ marked[c].status \in {xmpp[c].status, "stopping"}
          /\ xmpp' = [marked EXCEPT ![k].status = IF @ = "starting" THEN "dropped" ELSE @]
    <3>1. CASE recoverable \/ current = 0
      BY <1>0, <3>1 DEF ClientShape
    <3>2. CASE ~recoverable /\ current # 0
      <4>1. current \in Clients
        BY <1>0, <3>2, CurrentIsAClient
      <4> QED
        BY <1>0, <3>2, <4>1, StoppedClients
    <3> QED
      BY <3>1, <3>2
  <2>3. marked[k] \in ClientObjects
    BY <2>2
  <2>4. xmpp' = [marked EXCEPT ![k] = [marked[k] EXCEPT !.status =
          IF marked[k].status = "starting" THEN "dropped" ELSE marked[k].status]]
    BY <2>2, <2>3 DEF ClientObjects
  <2>5. /\ xmpp' \in [Clients -> ClientObjects]
        /\ \A c \in Clients :
             /\ xmpp'[c].with = xmpp[c].with
             /\ xmpp'[c].handles = xmpp[c].handles
             /\ xmpp'[c].status = "starting" => c # k /\ xmpp[c].status = "starting"
    <3>1. PICK r \in ClientObjects :
            /\ xmpp' = [marked EXCEPT ![k] = r]
            /\ r.with = marked[k].with /\ r.handles = marked[k].handles
            /\ r.status # "starting"
      <4>1. [marked[k] EXCEPT !.status =
              IF marked[k].status = "starting" THEN "dropped" ELSE marked[k].status]
              \in ClientObjects
        BY <2>3 DEF ClientObjects
      <4> QED
        BY <2>3, <2>4, <4>1 DEF ClientObjects
    <3>2. \A c \in Clients : xmpp'[c] = IF c = k THEN r ELSE marked[c]
      BY <2>2, <3>1
    <3>3. xmpp' \in [Clients -> ClientObjects]
      BY <2>2, <3>1
    <3> QED
      BY <2>2, <3>1, <3>2, <3>3
  <2>6. \A c \in Clients : xmpp'[c].status # "starting"
    BY <2>5 DEF XmppInv
  <2>7. ClientShape'
    BY <1>0, <2>5 DEF ClientShape
  <2> QED
    BY <2>1, <2>5, <2>6, <2>7, ClientsOnlyLose
<1>11. CASE XmppDrops
  <2> PICK k \in Clients :
        /\ xmpp' = [xmpp EXCEPT ![k].status = "dropped", ![k].joined = {}]
        /\ UNCHANGED <<job, hash, current, made>>
    BY <1>11 DEF XmppDrops, childVars
  <2>1. xmpp' = [xmpp EXCEPT ![k] = [xmpp[k] EXCEPT !.status = "dropped", !.joined = {}]]
    BY <1>0 DEF ClientShape, ClientObjects
  <2>2. /\ ClientShape'
        /\ \A c \in Clients :
             /\ xmpp'[c].with = xmpp[c].with
             /\ xmpp'[c].handles = xmpp[c].handles
             /\ xmpp'[c].status = "starting" => xmpp[c].status = "starting"
    BY <1>0, <2>1 DEF ClientShape, ClientObjects
  <2> QED
    BY <2>2, ClientsOnlyLose
<1>12. CASE XmppReconnects
  <2> PICK k \in Clients :
        /\ xmpp' = [xmpp EXCEPT ![k].status = "online"]
        /\ UNCHANGED <<job, hash, current, made>>
    BY <1>12 DEF XmppReconnects, childVars
  <2>1. /\ ClientShape'
        /\ \A c \in Clients :
             /\ xmpp'[c].with = xmpp[c].with
             /\ xmpp'[c].handles = xmpp[c].handles
             /\ xmpp'[c].status = "starting" => xmpp[c].status = "starting"
    BY <1>0 DEF ClientShape, ClientObjects
  <2> QED
    BY <2>1, ClientsOnlyLose
<1>13. CASE XmppFatalError
  <2>1. current' = 0 /\ UNCHANGED <<job, hash, made>>
    BY <1>13 DEF XmppFatalError, MarkDisconnected
  <2>2. /\ ClientShape'
        /\ \A c \in Clients :
             /\ xmpp'[c].with = xmpp[c].with
             /\ xmpp'[c].handles = xmpp[c].handles
             /\ xmpp'[c].status = "starting" => xmpp[c].status = "starting"
    <3>1. CASE current = 0
      BY <1>0, <1>13, <2>1, <3>1 DEF XmppFatalError, MarkDisconnected, ClientShape
    <3>2. CASE current # 0
      <4>1. current \in Clients /\ xmpp' = Stopped(current)
        BY <1>0, <1>13, <3>2, CurrentIsAClient DEF XmppFatalError, MarkDisconnected
      <4> QED
        BY <1>0, <2>1, <4>1, StoppedClients DEF ClientShape
    <3> QED
      BY <3>1, <3>2
  <2> QED
    BY <2>1, <2>2, ClientsOnlyLose
<1>14. CASE XmppInternalError
  <2>1. current' = 0 /\ UNCHANGED <<job, hash, made, xmpp>>
    BY <1>14 DEF XmppInternalError
  <2>2. ClientShape'
    BY <1>0, <2>1 DEF ClientShape
  <2> QED
    BY <2>1, <2>2, ClientsOnlyLose
<1>15. CASE XmppOffline
  <2> PICK k \in Clients :
        /\ xmpp' = [xmpp EXCEPT ![k].status = "gone"]
        /\ current' \in {0, current} /\ UNCHANGED <<job, hash, made>>
    BY <1>15 DEF XmppOffline, childVars
  <2>1. /\ ClientShape'
        /\ \A c \in Clients :
             /\ xmpp'[c].with = xmpp[c].with
             /\ xmpp'[c].handles = xmpp[c].handles
             /\ xmpp'[c].status = "starting" => xmpp[c].status = "starting"
    BY <1>0 DEF ClientShape, ClientObjects
  <2> QED
    BY <2>1, ClientsOnlyLose
<1>16. ASSUME UNCHANGED <<job, hash, xmppVars>> PROVE XmppInv'
  <2>1. ClientShape'
    BY <1>0, <1>16 DEF ClientShape, xmppVars
  <2> QED
    BY <1>16, <2>1, ClientsOnlyLose DEF xmppVars
<1>17. CASE XmppChildEnds
  BY <1>16, <1>17 DEF XmppChildEnds, ChildEnds
<1>18. CASE XmppCredentialError
  <2>1. /\ job.at = "fetching" /\ UNCHANGED <<hash, xmppVars>>
        /\ job'.at = "idle" /\ job'.with = NoCredentials
    BY <1>18, SettledJob DEF XmppCredentialError, CredentialError, Busy
  <2> QED
    BY <1>1, <2>1
<1>19. CASE UNCHANGED <<childVars, xmppVars>>
  BY <1>16, <1>19 DEF childVars
<1> QED
  BY <1>2, <1>3, <1>4, <1>5, <1>6, <1>7, <1>8, <1>9, <1>10, <1>11, <1>12, <1>13,
     <1>14, <1>15, <1>17, <1>18, <1>19 DEF XmppNext

(***************************************************************************)
(* The rooms of XMPP                                                       *)
(***************************************************************************)

\* Who is not connected is in no room, and of the client it uses the platform
\* knows every room.
XmppRoomsInv ==
  /\ \A c \in Clients : xmpp[c].status # "online" => xmpp[c].joined = {}
  /\ current # 0 => xmpp[current].joined \subseteq knownRooms

\* Of a client that goes on, or loses its rooms, the rooms are known as before.
LEMMA RoomsOnlyLost ==
  ASSUME ClientShape, XmppRoomsInv, current' \in {0, current},
         current' # 0 => UNCHANGED knownRooms,
         \A c \in Clients :
           \/ xmpp'[c].joined = {}
           \/ /\ xmpp'[c].joined = xmpp[c].joined
              /\ xmpp'[c].status # "online" => xmpp[c].status # "online"
  PROVE  XmppRoomsInv'
<1>1. \A c \in Clients : xmpp'[c].status # "online" => xmpp'[c].joined = {}
  BY DEF XmppRoomsInv
<1>2. current' # 0 => xmpp'[current'].joined \subseteq knownRooms'
  <2>1. current' # 0 => current' = current /\ current \in Clients
    BY CurrentIsAClient
  <2> QED
    BY <2>1 DEF XmppRoomsInv
<1> QED
  BY <1>1, <1>2 DEF XmppRoomsInv

\* A client that is told to stop is in no room any more.
LEMMA StoppedRooms ==
  ASSUME ClientShape, NEW k \in Clients
  PROVE  \A c \in Clients :
           \/ Stopped(k)[c].joined = {}
           \/ Stopped(k)[c] = xmpp[c]
<1>1. xmpp[k] \in ClientObjects /\ xmpp \in [Clients -> ClientObjects]
  BY DEF ClientShape
<1>2. Stopped(k) = [xmpp EXCEPT ![k] = [xmpp[k] EXCEPT
        !.status = IF Alive(k) THEN "stopping" ELSE xmpp[k].status, !.joined = {}]]
  BY <1>1 DEF Stopped, ClientObjects
<1>3. [xmpp[k] EXCEPT !.status = IF Alive(k) THEN "stopping" ELSE xmpp[k].status,
                      !.joined = {}].joined = {}
  BY <1>1 DEF ClientObjects
<1> QED
  BY <1>1, <1>2, <1>3

\* No step of an XMPP process takes a client where the platform does not know.
LEMMA StepXmppRooms ==
  ASSUME XmppInv, XmppRoomsInv, ClientShape', [XmppNext]_<<childVars, xmppVars>>
  PROVE  XmppRoomsInv'
<1> USE ChildAssumption, XmppAssumption
<1>0. ClientShape /\ xmpp \in [Clients -> ClientObjects] /\ \A c \in Clients : xmpp[c] \in ClientObjects
  BY DEF XmppInv, ClientShape
<1>1. ASSUME UNCHANGED xmppVars PROVE XmppRoomsInv'
  BY <1>1 DEF XmppRoomsInv, xmppVars
<1>2. CASE XmppFetch \/ XmppReject \/ XmppTake \/ XmppSendFails \/ XmppChildEnds \/ XmppCredentialError
  BY <1>1, <1>2 DEF XmppFetch, XmppReject, XmppTake, XmppSendFails, XmppChildEnds, XmppCredentialError
<1>3. CASE XmppConnect
  <2>1. CASE UNCHANGED xmppVars
    BY <1>1, <2>1
  <2>2. CASE ~ UNCHANGED xmppVars
    <3>1. PICK new : /\ made < MaxClients /\ made' = made + 1 /\ current' = made'
                     /\ new.status = "starting" /\ new.joined = {}
                     /\ xmpp' = [xmpp EXCEPT ![made'] = new]
      <4>1. PICK with \in Credentials :
              /\ made < MaxClients /\ made' = made + 1 /\ current' = made'
              /\ xmpp' = [xmpp EXCEPT ![made'] =
                   [status |-> "starting", with |-> with, listens |-> TRUE,
                    handles |-> FALSE, joined |-> {}]]
        BY <1>3, <2>2 DEF XmppConnect, xmppVars
      <4>2. PICK new : new = [status |-> "starting", with |-> with, listens |-> TRUE,
                              handles |-> FALSE, joined |-> {}]
        OBVIOUS
      <4> QED
        BY <4>1, <4>2
    <3>2. made' \in Clients
      BY <1>0, <3>1 DEF ClientShape, Clients
    <3>3. xmpp'[made'] = new /\ \A c \in Clients : c # made' => xmpp'[c] = xmpp[c]
      BY <1>0, <3>1, <3>2
    <3>4. \A c \in Clients : xmpp'[c].status # "online" => xmpp'[c].joined = {}
      BY <3>1, <3>3 DEF XmppRoomsInv
    <3>5. xmpp'[current'].joined \subseteq knownRooms'
      BY <3>1, <3>3
    <3> QED
      BY <3>4, <3>5 DEF XmppRoomsInv
  <2> QED
    BY <2>1, <2>2
<1>4. CASE XmppSent
  <2>1. UNCHANGED current
    BY <1>4 DEF XmppSent
  <2>2. CASE ~ Online(current)
    <3>1. UNCHANGED xmpp
      BY <1>4, <2>2 DEF XmppSent
    <3>2. current # 0 => current \in Clients /\ xmpp[current].joined = {}
      BY <1>0, <2>2, CurrentIsAClient DEF Online, XmppRoomsInv
    <3> QED
      BY <2>1, <3>1, <3>2 DEF XmppRoomsInv
  <2>3. CASE Online(current)
    <3>1. current \in Clients /\ current # 0 /\ xmpp[current].joined \subseteq knownRooms
          /\ xmpp[current].status = "online"
      BY <1>0, <2>3, CurrentIsAClient DEF Online, XmppRoomsInv
    <3>2. PICK rooms : /\ xmpp' = [xmpp EXCEPT ![current].joined = rooms]
                       /\ rooms \subseteq knownRooms'
      <4>1. /\ knownRooms' = CASE job.verb = "join"  -> knownRooms \cup {job.on}
                               [] job.verb = "leave" -> knownRooms \ {job.on}
                               [] OTHER -> knownRooms
            /\ xmpp' = [xmpp EXCEPT ![current].joined =
                 CASE job.verb = "join"  -> xmpp[current].joined \cup {job.on}
                   [] job.verb = "leave" -> xmpp[current].joined \ {job.on}
                   [] OTHER -> xmpp[current].joined]
        BY <1>4, <2>3 DEF XmppSent
      <4>2. CASE job.verb = "join"
        BY <3>1, <4>1, <4>2
      <4>3. CASE job.verb = "leave"
        BY <3>1, <4>1, <4>3
      <4>4. CASE job.verb \notin {"join", "leave"}
        BY <3>1, <4>1, <4>4
      <4> QED
        BY <4>2, <4>3, <4>4
    <3>3. xmpp' = [xmpp EXCEPT ![current] = [xmpp[current] EXCEPT !.joined = rooms]]
      BY <1>0, <3>1, <3>2
    <3>4. PICK new : new = [xmpp[current] EXCEPT !.joined = rooms]
      OBVIOUS
    <3>5. new.joined = rooms /\ new.status = "online"
      BY <1>0, <3>1, <3>4 DEF ClientObjects
    <3>6. xmpp'[current] = new /\ \A c \in Clients : c # current => xmpp'[c] = xmpp[c]
      BY <1>0, <3>1, <3>3, <3>4
    <3> QED
      BY <2>1, <3>2, <3>5, <3>6 DEF XmppRoomsInv
  <2> QED
    BY <2>2, <2>3
<1>5. CASE XmppDisconnect
  <2>1. current' = 0
    BY <1>5 DEF XmppDisconnect
  <2>2. CASE current = 0
    BY <1>0, <1>5, <2>1, <2>2, RoomsOnlyLost DEF XmppDisconnect
  <2>3. CASE current # 0
    <3>1. current \in Clients
      BY <1>0, <2>3, CurrentIsAClient
    <3>2. Stopped(current) \in [Clients -> ClientObjects]
      BY <1>0, <3>1, StoppedClients
    <3>3. xmpp' = [Stopped(current) EXCEPT ![current] =
            [Stopped(current)[current] EXCEPT !.listens = FALSE, !.handles = FALSE]]
      BY <1>5, <2>3, <3>1, <3>2 DEF XmppDisconnect, ClientObjects
    <3>4. PICK new : new = [Stopped(current)[current] EXCEPT !.listens = FALSE, !.handles = FALSE]
      OBVIOUS
    <3>5. new.joined = Stopped(current)[current].joined /\ new.status = Stopped(current)[current].status
      BY <3>1, <3>2, <3>4 DEF ClientObjects
    <3>6. xmpp'[current] = new /\ \A c \in Clients : c # current => xmpp'[c] = Stopped(current)[c]
      BY <3>1, <3>2, <3>3, <3>4
    <3>7. \A c \in Clients : \/ xmpp'[c].joined = {}
                             \/ xmpp'[c].joined = xmpp[c].joined /\ xmpp'[c].status = xmpp[c].status
      BY <1>0, <3>1, <3>5, <3>6, StoppedRooms
    <3> QED
      BY <1>0, <2>1, <3>7, RoomsOnlyLost
  <2> QED
    BY <2>2, <2>3
<1>6. CASE XmppStarted
  <2>1. PICK k \in Clients :
        /\ xmpp[k].status = "starting"
        /\ xmpp' = [d \in Clients |->
             [xmpp[d] EXCEPT !.status  = IF d = k THEN "online" ELSE @,
                             !.handles = @ \/ d = current]]
        /\ UNCHANGED <<current, knownRooms>>
    BY <1>6 DEF XmppStarted
  <2>2. ASSUME NEW c \in Clients
        PROVE  /\ xmpp'[c].joined = xmpp[c].joined
               /\ xmpp'[c].status # "online" => xmpp[c].status # "online"
    <3>1. xmpp'[c] = [xmpp[c] EXCEPT !.status  = IF c = k THEN "online" ELSE @,
                                     !.handles = @ \/ c = current]
      BY <2>1
    <3> QED
      BY <1>0, <3>1 DEF ClientObjects
  <2> QED
    BY <1>0, <2>1, <2>2, RoomsOnlyLost
<1>7. CASE XmppStartFails
  <2>1. PICK k \in Clients, recoverable \in BOOLEAN :
        /\ xmpp' = LET marked == IF recoverable \/ current = 0 THEN xmpp ELSE Stopped(current)
                   IN [marked EXCEPT ![k].status = IF @ = "starting" THEN "dropped" ELSE @]
        /\ current' = 0
    BY <1>7 DEF XmppStartFails
  <2>2. PICK marked :
          /\ marked \in [Clients -> ClientObjects]
          /\ \A c \in Clients : marked[c].joined = {} \/ marked[c] = xmpp[c]
          /\ xmpp' = [marked EXCEPT ![k].status = IF @ = "starting" THEN "dropped" ELSE @]
    <3>1. CASE recoverable \/ current = 0
      BY <1>0, <2>1, <3>1
    <3>2. CASE ~recoverable /\ current # 0
      <4>1. current \in Clients
        BY <1>0, <3>2, CurrentIsAClient
      <4> QED
        BY <1>0, <2>1, <3>2, <4>1, StoppedClients, StoppedRooms
    <3> QED
      BY <3>1, <3>2
  <2>3. PICK new : new = [marked[k] EXCEPT !.status =
                            IF marked[k].status = "starting" THEN "dropped" ELSE marked[k].status]
    OBVIOUS
  <2>4. /\ new.joined = marked[k].joined
        /\ new.status = IF marked[k].status = "starting" THEN "dropped" ELSE marked[k].status
    BY <2>2, <2>3 DEF ClientObjects
  <2>5. xmpp'[k] = new /\ \A c \in Clients : c # k => xmpp'[c] = marked[c]
    BY <2>2, <2>3 DEF ClientObjects
  <2>6. ASSUME NEW c \in Clients
        PROVE  \/ xmpp'[c].joined = {}
               \/ /\ xmpp'[c].joined = xmpp[c].joined
                  /\ xmpp'[c].status # "online" => xmpp[c].status # "online"
    BY <2>2, <2>4, <2>5
  <2> QED
    BY <1>0, <2>1, <2>6, RoomsOnlyLost
<1>8. ASSUME NEW k \in Clients, NEW new, xmpp' = [xmpp EXCEPT ![k] = new],
             \/ new.joined = {}
             \/ /\ new.joined = xmpp[k].joined
                /\ new.status # "online" => xmpp[k].status # "online",
             current' \in {0, current}, UNCHANGED knownRooms
      PROVE  XmppRoomsInv'
  <2>1. xmpp'[k] = new /\ \A c \in Clients : c # k => xmpp'[c] = xmpp[c]
    BY <1>0, <1>8
  <2>2. ASSUME NEW c \in Clients
        PROVE  \/ xmpp'[c].joined = {}
               \/ /\ xmpp'[c].joined = xmpp[c].joined
                  /\ xmpp'[c].status # "online" => xmpp[c].status # "online"
    BY <1>8, <2>1
  <2> QED
    BY <1>0, <1>8, <2>2, RoomsOnlyLost
<1>9. CASE XmppDrops
  <2>1. PICK k \in Clients : xmpp' = [xmpp EXCEPT ![k].status = "dropped", ![k].joined = {}]
                             /\ UNCHANGED <<current, knownRooms>>
    BY <1>9 DEF XmppDrops
  <2>2. PICK new : new = [xmpp[k] EXCEPT !.status = "dropped", !.joined = {}]
    OBVIOUS
  <2>3. new.joined = {}
    BY <1>0, <2>2 DEF ClientObjects
  <2>4. xmpp' = [xmpp EXCEPT ![k] = new]
    BY <1>0, <2>1, <2>2 DEF ClientObjects
  <2> QED
    BY <1>8, <2>1, <2>3, <2>4
<1>10. CASE XmppReconnects
  <2>1. PICK k \in Clients : xmpp' = [xmpp EXCEPT ![k].status = "online"]
                             /\ UNCHANGED <<current, knownRooms>>
    BY <1>10 DEF XmppReconnects
  <2>2. PICK new : new = [xmpp[k] EXCEPT !.status = "online"]
    OBVIOUS
  <2>3. new.joined = xmpp[k].joined /\ new.status = "online"
    BY <1>0, <2>2 DEF ClientObjects
  <2>4. xmpp' = [xmpp EXCEPT ![k] = new]
    BY <1>0, <2>1, <2>2 DEF ClientObjects
  <2> QED
    BY <1>8, <2>1, <2>3, <2>4
<1>11. CASE XmppFatalError
  <2>1. current' = 0 /\ xmpp' = IF current # 0 THEN Stopped(current) ELSE xmpp
    BY <1>11 DEF XmppFatalError, MarkDisconnected
  <2>2. \A c \in Clients : xmpp'[c].joined = {} \/ xmpp'[c] = xmpp[c]
    BY <1>0, <2>1, CurrentIsAClient, StoppedRooms
  <2> QED
    BY <1>0, <2>1, <2>2, RoomsOnlyLost
<1>12. CASE XmppInternalError
  BY <1>0, <1>12, RoomsOnlyLost DEF XmppInternalError
<1>13. CASE XmppOffline
  <2>1. PICK k \in Clients : /\ xmpp[k].status = "stopping"
                             /\ xmpp' = [xmpp EXCEPT ![k].status = "gone"]
                             /\ current' \in {0, current} /\ UNCHANGED knownRooms
    BY <1>13 DEF XmppOffline
  <2>2. PICK new : new = [xmpp[k] EXCEPT !.status = "gone"]
    OBVIOUS
  <2>3. new.joined = xmpp[k].joined
    BY <1>0, <2>2 DEF ClientObjects
  <2>4. xmpp' = [xmpp EXCEPT ![k] = new]
    BY <1>0, <2>1, <2>2 DEF ClientObjects
  <2> QED
    BY <1>8, <2>1, <2>3, <2>4
<1>14. CASE UNCHANGED <<childVars, xmppVars>>
  BY <1>1, <1>14
<1> QED
  BY <1>2, <1>3, <1>4, <1>5, <1>6, <1>7, <1>9, <1>10, <1>11, <1>12, <1>13, <1>14 DEF XmppNext

\* The types of XMPP; those of the clients are in XmppInv.
\* No step of an XMPP process breaks its types.
LEMMA StepXmppType ==
  ASSUME XmppInv, ClientShape', XmppType, ChildType, [XmppNext]_<<childVars, xmppVars>>
  PROVE  XmppType' /\ ChildType'
<1> USE ChildAssumption, XmppAssumption
<1>1. ASSUME up' \in BOOLEAN, initialized' \in BOOLEAN, taken' \in 0..MaxJobs,
             hash' \in Credentials \cup {NoCredentials},
             drops' \in 0..MaxDrops, knownRooms' \subseteq Rooms
      PROVE  XmppType' /\ ChildType'
  BY <1>1 DEF XmppType, ChildType, ClientShape, ClientObjects
<1>t. /\ up \in BOOLEAN /\ initialized \in BOOLEAN /\ taken \in 0..MaxJobs
      /\ hash \in Credentials \cup {NoCredentials} /\ drops \in 0..MaxDrops /\ knownRooms \subseteq Rooms
  BY DEF XmppType, ChildType
<1>m. taken < MaxJobs => taken + 1 \in 0..MaxJobs
  BY <1>t
<1>2. CASE XmppFetch \/ XmppReject \/ XmppTake \/ XmppSendFails \/ XmppChildEnds \/ XmppCredentialError
  <2>1. /\ up' \in {up, FALSE} /\ UNCHANGED <<initialized, hash, knownRooms, drops>>
        /\ taken' \in {taken, taken + 1} /\ (taken' # taken => taken < MaxJobs)
    BY <1>2 DEF XmppFetch, XmppReject, XmppTake, XmppSendFails, XmppChildEnds, XmppCredentialError,
                TakeWithCredentials, TakeUninitialized, MayTake, Fail, ChildEnds, CredentialError, xmppVars
  <2> QED
    BY <1>1, <1>t, <1>m, <2>1
<1>3. CASE XmppConnect
  <2>1. PICK with \in Credentials : hash' \in {hash, with} /\ initialized' \in {initialized, TRUE}
                                    /\ UNCHANGED <<up, taken, knownRooms, drops>>
    BY <1>3 DEF XmppConnect, Succeed, Fail, xmppVars
  <2> QED
    BY <1>1, <1>t, <2>1
<1>4. CASE XmppSent
  <2>1. /\ hash' = hash /\ UNCHANGED <<up, initialized, taken, drops>>
        /\ knownRooms' = CASE job.verb = "join"  -> knownRooms \cup {job.on}
                           [] job.verb = "leave" -> knownRooms \ {job.on}
                           [] OTHER -> knownRooms
        /\ job.at = "sending"
    BY <1>4 DEF XmppSent, Succeed, Busy
  <2>2. job.verb = "join" => job.on \in Rooms
    BY <2>1 DEF XmppInv
  <2>3. knownRooms' \subseteq Rooms
    <3>1. CASE job.verb = "join"
      BY <1>t, <2>1, <2>2, <3>1
    <3>2. CASE job.verb # "join"
      BY <1>t, <2>1, <3>2
    <3> QED
      BY <3>1, <3>2
  <2> QED
    BY <1>1, <1>t, <2>1, <2>3
<1>5. CASE XmppDisconnect
  <2>1. /\ hash' = hash /\ initialized' = FALSE /\ knownRooms' = {}
        /\ UNCHANGED <<up, drops>> /\ taken' = taken + 1 /\ taken < MaxJobs
    BY <1>5 DEF XmppDisconnect, Succeed, MayTake
  <2> QED
    BY <1>1, <1>t, <1>m, <2>1
<1>6. CASE XmppStarted
  <2>1. PICK k \in Clients : xmpp[k].status = "starting" /\ Succeed(job.with) /\ initialized' = TRUE
                             /\ UNCHANGED <<up, taken, knownRooms, drops>>
    BY <1>6 DEF XmppStarted
  <2>2. job.with \in Credentials
    BY <2>1 DEF XmppInv
  <2>3. hash' = job.with
    BY <2>1, <2>2 DEF Succeed
  <2> QED
    BY <1>1, <1>t, <2>1, <2>2, <2>3
<1>7. CASE XmppStartFails
  <2>1. /\ initialized' \in BOOLEAN /\ hash' = hash
        /\ UNCHANGED <<up, taken, knownRooms, drops>>
    BY <1>7 DEF XmppStartFails, Fail
  <2> QED
    BY <1>1, <1>t, <2>1
<1>8. CASE XmppDrops
  <2>1. drops' = drops + 1 /\ drops < MaxDrops /\ UNCHANGED <<childVars, knownRooms>>
    BY <1>8 DEF XmppDrops
  <2>2. drops' \in 0..MaxDrops
    BY <1>t, <2>1
  <2> QED
    BY <1>1, <1>t, <2>1, <2>2 DEF childVars
<1>9. CASE XmppReconnects \/ XmppOffline
  BY <1>1, <1>t, <1>9 DEF XmppReconnects, XmppOffline, childVars
<1>10. CASE XmppFatalError
  BY <1>1, <1>t, <1>10 DEF XmppFatalError, MarkDisconnected
<1>11. CASE XmppInternalError
  BY <1>1, <1>t, <1>11 DEF XmppInternalError
<1>12. CASE UNCHANGED <<childVars, xmppVars>>
  BY <1>1, <1>t, <1>12 DEF childVars, xmppVars
<1> QED
  BY <1>2, <1>3, <1>4, <1>5, <1>6, <1>7, <1>8, <1>9, <1>10, <1>11, <1>12 DEF XmppNext

(***************************************************************************)
(* One process                                                             *)
(***************************************************************************)

\* The jobs of a DAV process are those of DavPlatform; those of another process
\* leave its variables alone.
THEOREM DavJobsAreThoseOfDavPlatform == Spec => DavSpec
<1>1. Init => DavInit
  BY DEF Init
<1>2. [Next]_vars => [DavNext]_davVars
  BY DEF Next, vars
<1> QED
  BY <1>1, <1>2, PTL DEF Spec, DavSpec

PlatformsInv ==
  /\ platform = "irc" => IrcInv
  /\ platform = "xmpp" => XmppInv

LEMMA InitPlatforms == Init => PlatformsInv
BY InitIrc, InitXmpp DEF Init, PlatformsInv

LEMMA StepPlatforms == PlatformsInv /\ [Next]_vars => PlatformsInv'
<1> SUFFICES ASSUME PlatformsInv, [Next]_vars PROVE PlatformsInv'
  OBVIOUS
<1>1. UNCHANGED platform
  BY DEF Next, vars
<1>2. CASE platform = "irc"
  <2>1. [IrcNext]_<<childVars, ircVars>>
    BY <1>2 DEF Next, vars
  <2> QED
    BY <1>1, <1>2, <2>1, StepIrc DEF PlatformsInv
<1>3. CASE platform = "xmpp"
  <2>1. [XmppNext]_<<childVars, xmppVars>>
    BY <1>3 DEF Next, vars
  <2> QED
    BY <1>1, <1>3, <2>1, StepXmpp DEF PlatformsInv
<1> QED
  BY <1>1, <1>2, <1>3 DEF PlatformsInv

\* In every process, for any number of credentials, jobs, clients, rooms and
\* channels, a verb with credentials succeeds only on the connection that was
\* opened with them (getJobHandler with the client handling of the platform).
THEOREM SuccessIsOnTheConnectionItProvesHolds ==
  Spec => []SuccessIsOnTheConnectionItProves
<1>1. PlatformsInv => SuccessIsOnTheConnectionItProves
  BY IrcInvProves, XmppInvProves DEF PlatformsInv, SuccessIsOnTheConnectionItProves
<1> QED
  BY <1>1, InitPlatforms, StepPlatforms, PTL DEF Spec

LEMMA InitIrcRooms == IrcInit => IrcRoomsInv /\ IrcType /\ ChildType
<1> SUFFICES ASSUME IrcInit PROVE IrcRoomsInv /\ IrcType /\ ChildType
  OBVIOUS
<1> USE DEF IrcInit, ChildInit, Idle
<1>1. IrcRoomsInv
  BY DEF IrcRoomsInv
<1>2. IrcType
  <2>1. sent \in Seq(Lines \X Channels) /\ received \in Seq(Replies)
    BY EmptySeq
  <2>2. kicks \in 0..MaxKicks
    BY IrcAssumption
  <2> QED
    BY <2>1, <2>2 DEF IrcType
<1>3. ChildType
  <2>1. taken \in 0..MaxJobs
    BY ChildAssumption
  <2>2. up \in BOOLEAN /\ initialized \in BOOLEAN
    OBVIOUS
  <2>3. hash \in Credentials \cup {NoCredentials}
    OBVIOUS
  <2> QED
    BY <2>1, <2>2, <2>3 DEF ChildType
<1> QED
  BY <1>1, <1>2, <1>3

LEMMA InitXmppRooms == XmppInit => XmppRoomsInv /\ XmppType
<1> SUFFICES ASSUME XmppInit PROVE XmppRoomsInv /\ XmppType
  OBVIOUS
<1> USE DEF XmppInit, NoClient
<1>1. XmppRoomsInv
  BY DEF XmppRoomsInv
<1>2. XmppType
  BY XmppAssumption DEF XmppType
<1> QED
  BY <1>1, <1>2

\* The rooms and the types of one process, of whichever platform; those of
\* the platforms it does not run stay as they were.
RoomsInv ==
  /\ ChildType /\ IrcType /\ XmppType
  /\ platform = "irc" => IrcRoomsInv
  /\ platform = "xmpp" => XmppRoomsInv
  /\ platform # "irc" => socket = "none"
  /\ platform # "xmpp" => current = 0

\* The invariant of every process.
LEMMA ProcessRooms == Spec => [](PlatformsInv /\ RoomsInv)
<1>1. Init => PlatformsInv /\ RoomsInv
  BY InitIrc, InitXmpp, InitIrcRooms, InitXmppRooms
     DEF Init, PlatformsInv, RoomsInv, IrcInit, XmppInit
<1>2. PlatformsInv /\ RoomsInv /\ [Next]_vars => (PlatformsInv /\ RoomsInv)'
  <2> SUFFICES ASSUME PlatformsInv, RoomsInv, [Next]_vars PROVE PlatformsInv' /\ RoomsInv'
    OBVIOUS
  <2>1. PlatformsInv' /\ UNCHANGED platform
    BY StepPlatforms DEF Next, vars
  <2>2. platform \in {"irc", "xmpp"} \/ UNCHANGED <<childVars, ircVars, xmppVars>>
    BY DEF Next, vars
  <2>3. CASE platform = "irc"
    <3>1. [IrcNext]_<<childVars, ircVars>> /\ UNCHANGED xmppVars
      BY <2>3 DEF Next, vars
    <3>2. IrcRoomsInv' /\ IrcType' /\ ChildType'
      BY <2>1, <2>3, <3>1, StepIrcRooms DEF PlatformsInv, RoomsInv
    <3> QED
      BY <2>1, <2>3, <3>1, <3>2 DEF RoomsInv, XmppType, xmppVars
  <2>4. CASE platform = "xmpp"
    <3>1. [XmppNext]_<<childVars, xmppVars>> /\ UNCHANGED ircVars
      BY <2>4 DEF Next, vars
    <3>2. ClientShape'
      BY <2>1, <2>4 DEF PlatformsInv, XmppInv
    <3>3. XmppRoomsInv' /\ XmppType' /\ ChildType'
      BY <2>4, <3>1, <3>2, StepXmppRooms, StepXmppType DEF PlatformsInv, RoomsInv
    <3> QED
      BY <2>1, <2>4, <3>1, <3>3 DEF RoomsInv, IrcType, ircVars
  <2>5. CASE UNCHANGED <<childVars, ircVars, xmppVars>> /\ platform \notin {"irc", "xmpp"}
    BY <2>1, <2>5 DEF RoomsInv, ChildType, IrcType, XmppType, childVars, ircVars, xmppVars
  <2> QED
    BY <2>1, <2>2, <2>3, <2>4, <2>5
<1> QED
  BY <1>1, <1>2, PTL DEF Spec

\* Every process keeps its types, for any number of jobs, lines, clients,
\* rooms and channels; what a server is sent is made of the known lines.
THEOREM TypeCorrect == Spec => []TypeOK
BY ProcessRooms, DavJobsAreThoseOfDavPlatform, DavTypeCorrect, PTL DEF TypeOK, RoomsInv

\* Once all lines are acted on and heard, the channels of IRC's getJobHandler
\* are those the server has the user in, but for those it kicked it from; and
\* XMPP knows every room its client is in: for any number of channels, lines
\* under way, jobs, kicks and clients.
THEOREM RoomsFollowTheServerHolds == Spec => []RoomsFollowTheServer
<1>1. ASSUME PlatformsInv, RoomsInv PROVE RoomsFollowTheServer
  <2>1. ChannelsFollowTheServer
    <3> SUFFICES ASSUME Busy("idle"), socket = "open", sent = <<>>, received = <<>>
                 PROVE  members = channels \ kicked
      BY DEF ChannelsFollowTheServer
    <3>1. IrcRoomsInv /\ up /\ In = channels
      BY <1>1, NothingToJoin DEF RoomsInv, Busy
    <3>2. ~ErrorDue
      BY DEF ErrorDue
    <3>3. \A c \in Channels : c \in members <=> c \in channels \ kicked
      BY <3>1, <3>2 DEF IrcRoomsInv, Follows
    <3> QED
      BY <1>1, <3>3 DEF RoomsInv, IrcType
  <2>2. RoomsAreKnown
    BY <1>1 DEF RoomsInv, XmppRoomsInv, RoomsAreKnown
  <2> QED
    BY <2>1, <2>2 DEF RoomsFollowTheServer
<1> QED
  BY <1>1, ProcessRooms, PTL
=============================================================================
