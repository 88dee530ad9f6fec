----------------------------- MODULE IrcPlatform -----------------------------
(***************************************************************************)
(* The IRC platform (packages/platform-irc/src/index.ts) with the          *)
(* translation of what the server says (packages/irc2as) and the server    *)
(* itself, one line at a time in each direction. A verb whose outcome only *)
(* the server knows leaves its callback in jobQueue; any line that names   *)
(* an actor of this connection, and every PONG, completes the oldest entry *)
(* there. As jobs come one at a time that queue holds the job in progress  *)
(* or nothing: job.at = "queued". Lines that complete nothing are left out.*)
(***************************************************************************)
EXTENDS PlatformChild, Sequences

CONSTANTS
  Channels,
  Renamed,      \* the credentials with the nick that an address update sets
  MaxKicks      \* bound: times the server removes the user from a channel

ASSUME IrcAssumption == Renamed \in Credentials /\ MaxKicks \in Nat

VARIABLES
  client,           \* this.client is set
  clientConnecting,
  forceDisconnect,
  channels,         \* this.channels
  socket,           \* the connection of the last ircConnect()
  opened,           \* the credentials it was opened with
  sent, received,   \* lines on their way to the server, and back
  members,          \* the channels the server has the user in
  kicked, kicks     \* those it removed the user from, and how often it did

ircVars == <<client, clientConnecting, forceDisconnect, channels, socket,
             opened, sent, received, members, kicked, kicks>>

IrcVerbs        == {"connect", "join", "leave", "send", "update", "query", "disconnect"}
WithCredentials == {"connect", "update"}

IrcInit ==
  /\ ChildInit
  /\ client = FALSE /\ clientConnecting = FALSE /\ forceDisconnect = FALSE
  /\ channels = {}
  /\ socket = "none" /\ opened = NoCredentials
  /\ sent = <<>> /\ received = <<>> /\ members = {} /\ kicked = {} /\ kicks = 0

\* client.raw(): what is written to a connection that is gone is lost.
Raw(lines) == sent' = IF socket = "open" THEN sent \o lines ELSE sent

(* -------------------- the verbs, once there is a client ----------------- *)

Join(c) ==
  IF c \in channels
  THEN Succeed(NoCredentials) /\ UNCHANGED <<sent, channels>>
  ELSE /\ Await("join", c, NoCredentials, "queued")
       /\ Raw(<<<<"JOIN", c>>, <<"PING", c>>>>)
       /\ UNCHANGED <<hash, channels>>

Leave(c) ==
  /\ channels' = channels \ {c}
  /\ Raw(<<<<"PART", c>>>>)
  /\ Succeed(NoCredentials)

\* A /me is answered at once; a notice, a message to a user and one to a joined
\* channel wait for the PONG; a message to another channel is refused.
Send(c) ==
  /\ UNCHANGED channels
  /\ \/ Raw(<<<<"PRIVMSG", c>>>>) /\ Succeed(NoCredentials)
     \/ /\ Await("send", "none", NoCredentials, "queued")
        /\ Raw(<<<<"PRIVMSG", c>>, <<"PING", c>>>>) /\ UNCHANGED hash
     \/ c \notin channels /\ Fail(NoCredentials) /\ UNCHANGED sent

Update(c, with) == \E what \in {"topic", "address"} :
  /\ Await(what, "none", with, "queued")
  /\ Raw(<<<<IF what = "topic" THEN "TOPIC" ELSE "NICK", c>>, <<"PING", c>>>>)
  /\ UNCHANGED <<hash, channels>>

Query(c) ==
  /\ Raw(<<<<"NAMES", c>>>>)
  /\ Succeed(NoCredentials) /\ UNCHANGED channels

\* Line breaks, no content, an unknown type, a query without a channel.
Refuse(with) == Fail(with) /\ UNCHANGED <<sent, channels>>

CallVerb(verb, with) ==
  \/ Refuse(with)
  \/ \E c \in Channels :
       \/ verb = "join"   /\ Join(c)
       \/ verb = "leave"  /\ Leave(c)
       \/ verb = "send"   /\ Send(c)
       \/ verb = "update" /\ Update(c, with)
       \/ verb = "query"  /\ Query(c)

IrcFetch == \E verb \in WithCredentials :
  TakeWithCredentials(verb) /\ UNCHANGED ircVars

IrcReject == \E verb \in IrcVerbs \ WithCredentials :
  TakeUninitialized(verb) /\ UNCHANGED ircVars

IrcTake == \E verb \in IrcVerbs \ (WithCredentials \cup {"disconnect"}) :
  /\ MayTake /\ initialized /\ taken' = taken + 1
  /\ CallVerb(verb, NoCredentials)
  /\ UNCHANGED <<up, initialized, client, clientConnecting, forceDisconnect,
                 socket, opened, received, members, kicked, kicks>>

\* getClient(): the client there is, or the one under way after its time-out.
\* Without either, connect() opens one and update() fails.
WhenClient(with) ==
  /\ IF job.verb = "update" THEN CallVerb("update", with)
                            ELSE Succeed(with) /\ UNCHANGED <<sent, channels>>
  /\ UNCHANGED <<initialized, clientConnecting, socket, opened>>

WithoutClient(with) ==
  /\ UNCHANGED <<sent, channels>>
  /\ \/ /\ clientConnecting
        /\ Await(job.verb, "none", with, "waiting")
        /\ UNCHANGED <<hash, initialized, clientConnecting, socket, opened>>
     \/ /\ ~clientConnecting /\ job.verb = "update" /\ Fail(with)
        /\ UNCHANGED <<initialized, clientConnecting, socket, opened>>
     \/ /\ ~clientConnecting /\ job.verb = "connect"          \* a line break
        /\ Fail(with) /\ initialized' = FALSE
        /\ UNCHANGED <<clientConnecting, socket, opened>>
     \/ /\ ~clientConnecting /\ job.verb = "connect"
        /\ Await("connect", "none", with, "opening")
        /\ clientConnecting' = TRUE /\ socket' = "opening" /\ opened' = with
        /\ UNCHANGED <<hash, initialized>>

IrcGetClient == \E with \in Credentials :
  /\ Busy("fetching") /\ Proves(with)
  /\ IF client THEN WhenClient(with) ELSE WithoutClient(with)
  /\ UNCHANGED <<up, taken, client, forceDisconnect, received, members, kicked, kicks>>

\* The timer of getClient(), connectTimeoutMs.
IrcWaitOver ==
  /\ Busy("waiting")
  /\ IF client THEN WhenClient(job.with)
     ELSE /\ Fail(job.with)
          /\ UNCHANGED <<initialized, clientConnecting, socket, opened, sent, channels>>
  /\ UNCHANGED <<up, taken, client, forceDisconnect, received, members, kicked, kicks>>

\* disconnect() is cleanup(); what is queued and joined stays as it is.
IrcDisconnect ==
  /\ MayTake /\ initialized /\ taken' = taken + 1
  /\ initialized' = FALSE /\ forceDisconnect' = TRUE /\ client' = FALSE
  /\ socket' = IF socket = "open" THEN "ending" ELSE socket
  /\ Succeed(NoCredentials)
  /\ UNCHANGED <<up, clientConnecting, channels, opened, sent, received,
                 members, kicked, kicks>>

(* ---------------------- the connection to the server -------------------- *)

IrcConnected ==
  /\ up /\ socket = "opening"
  /\ clientConnecting' = FALSE
  /\ IF forceDisconnect
     THEN /\ socket' = "ending" /\ initialized' = FALSE /\ Fail(job.with)
          /\ UNCHANGED client
     ELSE /\ socket' = "open" /\ client' = TRUE /\ initialized' = TRUE /\ Succeed(job.with)
  /\ UNCHANGED <<up, taken, forceDisconnect, channels, opened, sent, received,
                 members, kicked, kicks>>

\* Mutant of IrcRefused: the callback is not called.
IrcRefusedSilently ==
  /\ up /\ socket = "opening"
  /\ socket' = "failed" /\ initialized' = FALSE
  /\ UNCHANGED <<up, taken, hash, job, client, clientConnecting, forceDisconnect,
                 channels, opened, sent, received, members, kicked, kicks>>

\* The server refuses the registration: clientConnecting stays set until this
\* connection closes, unless the one before it closed in the meantime.
IrcRefused ==
  /\ up /\ socket = "opening"
  /\ socket' = "failed" /\ initialized' = FALSE /\ Fail(job.with)
  /\ clientConnecting' \in {TRUE, ~forceDisconnect}
  /\ UNCHANGED <<up, taken, client, forceDisconnect, channels, opened, sent,
                 received, members, kicked, kicks>>

\* error, close or timeout of the connection. Whoever opened it has its answer
\* already, unless it was still opening; this.client stays. (What a connection
\* before this one does on its close is done already, but for IrcRefused.)
IrcCloses ==
  /\ up /\ socket \in {"opening", "open", "ending", "failed"}
  /\ socket' = "closed" /\ sent' = <<>> /\ received' = <<>> /\ members' = {}
  /\ forceDisconnect' = TRUE /\ clientConnecting' = FALSE /\ initialized' = FALSE
  /\ IF socket = "opening" THEN Fail(job.with) ELSE UNCHANGED <<job, hash>>
  /\ UNCHANGED <<up, taken, client, channels, opened, kicked, kicks>>

\* The server acts on a line and answers: "own" names the user of this
\* connection, as the echo of a command and every list of names do.
Line   == Head(sent)[1]
Target == Head(sent)[2]
Inside == Target \in members

Serve(answers) ==
  /\ socket \in {"open", "ending"} /\ sent # <<>>
  /\ sent' = Tail(sent) /\ received' = received \o answers
  /\ UNCHANGED <<childVars, client, clientConnecting, forceDisconnect, channels,
                 socket, kicks>>

IrcServerJoins ==
  /\ Serve(<<"own", "own">>) /\ Line = "JOIN" /\ ~Inside
  /\ members' = members \cup {Target} /\ kicked' = kicked \ {Target}
  /\ UNCHANGED opened

IrcServerParts ==
  /\ Serve(<<"own">>) /\ Line = "PART" /\ Inside
  /\ members' = members \ {Target}
  /\ UNCHANGED <<opened, kicked>>

IrcServerRenames ==
  /\ Serve(<<"own">>) /\ Line = "NICK"
  /\ opened' = Renamed
  /\ UNCHANGED <<members, kicked>>

IrcServerRefuses ==
  /\ Serve(<<"error">>)
  /\ Line \in {"NICK", "TOPIC"} \/ (Line \in {"JOIN", "PART"} /\ ~Inside)
  /\ UNCHANGED <<opened, members, kicked>>

IrcServerAnswers ==
  /\ Serve(CASE Line = "PING" -> <<"PONG">>
             [] Line \in {"TOPIC", "NAMES"} /\ Inside -> <<"own">>
             [] OTHER -> <<>>)
  /\ Line # "NICK" /\ (Line = "JOIN" => Inside) /\ (Line = "PART" => ~Inside)
  /\ UNCHANGED <<opened, members, kicked>>

IrcServerActs ==
  \/ IrcServerJoins \/ IrcServerParts \/ IrcServerRenames \/ IrcServerRefuses
  \/ IrcServerAnswers

IrcKick == \E c \in members :
  /\ kicks < MaxKicks /\ socket = "open"
  /\ kicks' = kicks + 1
  /\ members' = members \ {c} /\ kicked' = kicked \cup {c}
  /\ UNCHANGED <<childVars, client, clientConnecting, forceDisconnect, channels,
                 socket, opened, sent, received>>

(* --------------------------- what the server says ----------------------- *)

\* completeJob(): the handler of an address update waits for updateActor(),
\* which waits for the worker, which waits for this job.
CompleteJob ==
  IF job.at # "queued" THEN UNCHANGED <<job, hash, channels>>
  ELSE \/ /\ job.verb = "address"
          /\ hash' = Renamed
          /\ Await("address", "none", job.with, "renaming") /\ UNCHANGED channels
       \/ /\ job.verb # "address"
          /\ channels' = IF job.verb = "join" THEN channels \cup {job.on} ELSE channels
          /\ Succeed(job.with)

\* Mutant of IrcHears: an error reply is one that completes a job. (The
\* callback of a join does not look at the error it is given.)
IrcHearsErrors ==
  /\ up /\ received # <<>>
  /\ received' = Tail(received)
  /\ CompleteJob
  /\ UNCHANGED <<up, initialized, taken, client, clientConnecting, forceDisconnect,
                 socket, opened, sent, members, kicked, kicks>>

\* An error reply has no object, and the listener that reads its content
\* throws: reportFatal() ends the process.
IrcHears ==
  /\ up /\ received # <<>>
  /\ received' = Tail(received)
  /\ IF Head(received) = "error"
     THEN up' = FALSE /\ UNCHANGED <<job, hash, channels>>
     ELSE UNCHANGED up /\ CompleteJob
  /\ UNCHANGED <<initialized, taken, client, clientConnecting, forceDisconnect,
                 socket, opened, sent, members, kicked, kicks>>

IrcChildEnds == ChildEnds /\ UNCHANGED ircVars
IrcCredentialError == CredentialError /\ UNCHANGED ircVars

IrcNext ==
  \/ IrcFetch \/ IrcReject \/ IrcTake \/ IrcGetClient \/ IrcWaitOver
  \/ IrcDisconnect \/ IrcConnected \/ IrcRefused \/ IrcCloses
  \/ IrcServerJoins \/ IrcServerParts \/ IrcServerRenames \/ IrcServerRefuses
  \/ IrcServerAnswers
  \/ IrcKick \/ IrcHears \/ IrcChildEnds \/ IrcCredentialError

\* Redis, the timer, the attempt to connect, the server and the wire. Nothing
\* makes an open connection close.
IrcFairness ==
  /\ WF_<<childVars, ircVars>>(IrcGetClient \/ IrcCredentialError)
  /\ WF_<<childVars, ircVars>>(IrcWaitOver)
  /\ WF_<<childVars, ircVars>>(IrcConnected \/ IrcRefused)
  /\ WF_<<childVars, ircVars>>(IrcServerActs)
  /\ WF_<<childVars, ircVars>>(IrcHears)

IrcSpec == IrcInit /\ [][IrcNext]_<<childVars, ircVars>>

(* ------------------------------ properties ------------------------------ *)

Lines   == {"JOIN", "PART", "PRIVMSG", "TOPIC", "NICK", "NAMES", "PING"}
Replies == {"own", "error", "PONG"}

\* The state of the platform, of its connection and of the server.
IrcType ==
  /\ client \in BOOLEAN /\ clientConnecting \in BOOLEAN
  /\ forceDisconnect \in BOOLEAN
  /\ socket \in {"none", "opening", "open", "ending", "failed", "closed"}
  /\ opened \in Credentials \cup {NoCredentials}
  /\ channels \subseteq Channels /\ members \subseteq Channels
  /\ kicked \subseteq Channels /\ kicks \in 0..MaxKicks
  /\ sent \in Seq(Lines \X Channels) /\ received \in Seq(Replies)

\* Once every line has been acted on and heard, the channels the platform
\* takes itself to be in are those the server has it in, but for the ones it
\* was removed from: a join that a line of an earlier job completed too early
\* has come true by then, or its refusal has ended the process.
ChannelsFollowTheServer ==
  (Busy("idle") /\ socket = "open" /\ sent = <<>> /\ received = <<>>)
    => channels \ kicked = members

\* A verb that needs credentials succeeds over an open connection only with
\* the credentials the connection was opened with, or renamed to since.
IrcProven ==
  (up /\ socket = "open" /\ job.answer = "result" /\ job.with # NoCredentials)
    => job.with = opened

\* A connection that was ended or lost is the last of its process: whatever
\* connect() is tried afterwards, no verb finds the platform initialized.
LostMeansUninitialized == forceDisconnect => ~initialized
=============================================================================
