------------------------ MODULE ConnectionScope_proofs ------------------------
(***************************************************************************)
(* Proofs about ConnectionScope, for every set of sessions, addresses,     *)
(* actors and secrets: where a message is led, who shares a worker, and    *)
(* what the records of anonymous sessions say.                             *)
(***************************************************************************)
EXTENDS ConnectionScope, FiniteSetTheorems, TLAPS

-----------------------------------------------------------------------------
(* Types. *)

\* What the type invariant says, variable by variable, without what `turn' is.
Promised == [session : Sessions, secret : Secrets \cup {NoSecret},
             state : {"saving", "stored", "failed"}]
PCs == {"idle", "waiting", "resolving", "ensuring", "blocked"}
Turn == {s \in Sessions : pc[s] \in {"resolving", "ensuring"}}

LEMMA NoPromiseIsZero == 0 \notin Promises
  BY ScopeAssumption, FS_CardinalityType

\* The values chosen for what nothing has set yet are of the right kind.
LEMMA Defaults == AnIp \in Ips /\ AnActor \in Actors /\ ASession \in Sessions
  BY ScopeAssumption DEF AnIp, AnActor, ASession

\* What the initial values are.
LEMMA TypeInit == Init => TypeOK
  BY Defaults DEF Init, TypeOK, Scopes, Workers

LEMMA SettlesType ==
  ASSUME TypeOK, NEW s \in Sessions, Settles(s)
  PROVE  /\ pc' \in [Sessions -> PCs] /\ actor' \in [Sessions -> Actors]
         /\ awaits' \in [Sessions -> Promises \cup {0}]
         /\ scope' \in [Sessions -> Scopes]
         /\ due' \in [Sessions -> Secrets \cup {NoSecret}]
         /\ turn' = Turn'
  BY Defaults DEF Settles, TypeOK, Turn, PCs, Scopes

\* What a client and Redis do.
LEMMA SessionType ==
  ASSUME TypeOK, NEW s \in Sessions, NEW a \in Actors,
         \/ Connect(s) \/ Disconnect(s) \/ Forgotten(s) \/ Message(s, a)
         \/ \E c \in Secrets \cup {NoSecret} : SubmitCredentials(s, a, c)
         \/ \E P \in SUBSET Promises, ok \in BOOLEAN : SavesAnswered(P, ok)
  PROVE  TypeOK'
<1> USE DEF sessionVars, messageVars, workerVars, NewTask
<1>1. CASE Connect(s)
  BY <1>1 DEF Connect, TypeOK
<1>2. CASE Disconnect(s)
  BY <1>2 DEF Disconnect, TypeOK
<1>3. CASE Forgotten(s)
  BY <1>3, Defaults DEF Forgotten, TypeOK
<1>4. CASE Message(s, a)
  <2>1. \/ pc' = [pc EXCEPT ![s] = "resolving"] /\ turn' = {s}
        \/ pc' = [pc EXCEPT ![s] = "waiting"] /\ turn' = turn
    BY <1>4 DEF Message
  <2>2. pc' \in [Sessions -> PCs]
    BY <2>1 DEF TypeOK, PCs
  <2>3. turn = {} /\ pc[s] = "idle" /\ turn = Turn
    BY <1>4 DEF Message, TypeOK, Turn
  <2>4. turn' = Turn'
    BY <2>1, <2>3 DEF TypeOK, Turn
  <2> QED BY <1>4, <2>2, <2>4 DEF Message, TypeOK, PCs, Turn
<1>5. ASSUME NEW c \in Secrets \cup {NoSecret}, SubmitCredentials(s, a, c)
      PROVE  TypeOK'
  BY <1>5 DEF SubmitCredentials, BeginCredentialScope, TypeOK
<1>6. ASSUME NEW P \in SUBSET Promises, NEW ok \in BOOLEAN, SavesAnswered(P, ok)
      PROVE  TypeOK'
  <2>1. promise' \in [Promises -> Promised]
    <3>1. \A p \in Promises : promise[p] \in Promised
      BY DEF TypeOK, Promised
    <3>2. \A p \in Promises : [promise[p] EXCEPT !.state = SettledAs(ok)] \in Promised
      BY <3>1 DEF SettledAs, Promised
    <3> QED BY <1>6, <3>1, <3>2 DEF SavesAnswered
  <2>2. pc' \in [Sessions -> PCs] /\ turn' = Turn'
    BY <1>6 DEF SavesAnswered, TypeOK, PCs, Turn
  <2> QED BY <1>6, <2>1, <2>2 DEF SavesAnswered, TypeOK, Promised, PCs, Turn
<1> QED BY <1>1, <1>2, <1>3, <1>4, <1>5, <1>6

\* What the table of anonymous scopes becomes.
LEMMA TableType ==
  ASSUME TypeOK
  PROVE  /\ \A s \in Sessions : Remembered(s) \in [Actors \X Ips -> Records \cup {NoRecord}]
         /\ \A w \in Workers : Without(w) \in [Actors \X Ips -> Records \cup {NoRecord}]
         /\ \A w \in Workers, a \in Actors :
              Reassigned(w, a) \in [Actors \X Ips -> Records \cup {NoRecord}]
<1>1. ASSUME NEW s \in Sessions
      PROVE  Remembered(s) \in [Actors \X Ips -> Records \cup {NoRecord}]
  <2> DEFINE r == [scope |-> scope[s], session |-> s, worker |-> <<actor[s], scope[s]>>]
  <2>1. <<actor[s], ip[s]>> \in Actors \X Ips
    BY DEF TypeOK
  <2>2. Resumable(s) => r \in Records
    BY DEF TypeOK, Resumable, Records, Workers, Scopes
  <2>3. Remembered(s) \in {anonymous, [anonymous EXCEPT ![<<actor[s], ip[s]>>] = r]}
    BY DEF Remembered
  <2>4. ~ Resumable(s) => Remembered(s) = anonymous
    BY DEF Remembered
  <2> HIDE DEF r
  <2> QED BY <2>1, <2>2, <2>3, <2>4 DEF TypeOK
<1>2. ASSUME NEW w \in Workers
      PROVE  Without(w) \in [Actors \X Ips -> Records \cup {NoRecord}]
  BY DEF Without, TypeOK
<1>3. ASSUME NEW w \in Workers, NEW a \in Actors
      PROVE  Reassigned(w, a) \in [Actors \X Ips -> Records \cup {NoRecord}]
  <2>1. <<a, w[2]>> \in Workers
    BY DEF Workers
  <2>2. ASSUME NEW x \in Actors \X Ips
        PROVE  Reassigned(w, a)[x] \in Records \cup {NoRecord}
    <3> DEFINE Theirs(r) == \E b \in Actors :
                 RecordOf(w, <<b, x[2]>>) /\ r = anonymous[<<b, x[2]>>]
               chosen == CHOOSE r \in Records : Theirs(r)
    <3>1. CASE x[1] = a /\ \E b \in Actors : RecordOf(w, <<b, x[2]>>)
      <4>1. \E r \in Records : Theirs(r)
        BY <3>1 DEF RecordOf, TypeOK
      <4>2. chosen \in Records
        BY <4>1
      <4>3. Reassigned(w, a)[x] = [chosen EXCEPT !.worker = <<a, w[2]>>]
        BY <3>1 DEF Reassigned
      <4> HIDE DEF chosen
      <4> QED BY <4>2, <4>3, <2>1 DEF Records
    <3>2. CASE ~ (x[1] = a /\ \E b \in Actors : RecordOf(w, <<b, x[2]>>))
      <4>1. Reassigned(w, a)[x] \in {NoRecord, anonymous[x]}
        BY <3>2 DEF Reassigned
      <4> QED BY <4>1 DEF TypeOK
    <3> QED BY <3>1, <3>2
  <2> QED BY <2>2 DEF Reassigned
<1> QED BY <1>1, <1>2, <1>3

\* A message that goes on, and what happens to workers.
LEMMA WorkerType ==
  ASSUME TypeOK,
         \/ \E s \in Sessions :
              ResolveConnectionScope(s) \/ EnsureAttaches(s) \/ EnsureAwaitsTeardown(s)
         \/ \E w \in Workers :
              \/ ChildDies(w) \/ TeardownStarts(w) \/ TeardownEnds(w)
              \/ \E a \in Actors \ {w[1]} : Rekey(w, a)
  PROVE  TypeOK'
<1> USE DEF sessionVars, messageVars, workerVars, NewTask
<1>1. ASSUME NEW s \in Sessions, ResolveConnectionScope(s)
      PROVE  TypeOK'
  <2>1. CASE Settles(s)
    BY <1>1, <2>1, SettlesType DEF ResolveConnectionScope, TypeOK, PCs, Turn
  <2>2. CASE ~ Settles(s)
    <3>1. awaits[s] # 0 => promise[awaits[s]].secret \in Secrets \cup {NoSecret}
      BY DEF TypeOK
    <3>2. Fingerprint(s) # NoSecret => Fingerprint(s) \in Scopes
      BY <3>1 DEF Fingerprint, Scopes
    <3>3. AnonymousScope(s) \in Scopes
      BY DEF TypeOK, AnonymousScope, Records, Scopes
    <3>4. scope' \in [Sessions -> Scopes]
      BY <1>1, <2>2, <3>2, <3>3 DEF ResolveConnectionScope, TypeOK
    <3>5. pc' \in [Sessions -> PCs] /\ turn' = Turn'
      BY <1>1, <2>2 DEF ResolveConnectionScope, TypeOK, PCs, Turn
    <3> QED BY <1>1, <2>2, <3>4, <3>5 DEF ResolveConnectionScope, TypeOK, PCs, Turn
  <2> QED BY <2>1, <2>2
<1>2. ASSUME NEW s \in Sessions, EnsureAttaches(s)
      PROVE  TypeOK'
  <2>1. anonymous' \in [Actors \X Ips -> Records \cup {NoRecord}]
    BY <1>2, TableType DEF EnsureAttaches
  <2>2. <<actor[s], scope[s]>> \in Workers
    BY DEF TypeOK, Workers
  <2>3. attached' \in [Workers -> SUBSET Sockets]
    BY <1>2, <2>2 DEF EnsureAttaches, TypeOK, Sockets
  <2>4. life' \in [Workers -> {"none", "up", "dying", "crashed", "ending"}]
    BY <1>2, <2>2 DEF EnsureAttaches, TypeOK
  <2> QED BY <1>2, <2>1, <2>3, <2>4, SettlesType DEF EnsureAttaches, TypeOK, PCs, Turn
<1>3. ASSUME NEW s \in Sessions, EnsureAwaitsTeardown(s)
      PROVE  TypeOK'
  <2>1. <<actor[s], scope[s]>> \in Workers
    BY DEF TypeOK, Workers
  <2>2. anonymous' \in [Actors \X Ips -> Records \cup {NoRecord}]
    BY <1>3, <2>1, TableType DEF EnsureAwaitsTeardown, TypeOK
  <2>3. pc' \in [Sessions -> PCs] /\ turn' = Turn'
    BY <1>3 DEF EnsureAwaitsTeardown, TypeOK, PCs, Turn
  <2> QED BY <1>3, <2>1, <2>2, <2>3 DEF EnsureAwaitsTeardown, TypeOK, PCs, Turn
<1>4. ASSUME NEW w \in Workers, ChildDies(w) \/ TeardownStarts(w)
      PROVE  TypeOK'
  <2>1. life' \in [Workers -> {"none", "up", "dying", "crashed", "ending"}]
    BY <1>4 DEF ChildDies, TeardownStarts, TypeOK
  <2>2. anonymous' \in [Actors \X Ips -> Records \cup {NoRecord}]
    <3>1. CASE ChildDies(w)
      BY <3>1 DEF ChildDies, TypeOK
    <3>2. CASE TeardownStarts(w)
      BY <3>2, TableType DEF TeardownStarts
    <3> QED BY <1>4, <3>1, <3>2
  <2>3. turn' = Turn'
    BY <1>4 DEF ChildDies, TeardownStarts, TypeOK, Turn
  <2> QED BY <1>4, <2>1, <2>2, <2>3 DEF ChildDies, TeardownStarts, TypeOK, Turn
<1>5. ASSUME NEW w \in Workers, TeardownEnds(w)
      PROVE  TypeOK'
  <2>1. pc' \in [Sessions -> PCs] /\ turn' = Turn'
    BY <1>5 DEF TeardownEnds, TypeOK, PCs, Turn
  <2> QED BY <1>5, <2>1 DEF TeardownEnds, TypeOK, PCs, Turn
<1>6. ASSUME NEW w \in Workers, NEW a \in Actors, Rekey(w, a)
      PROVE  TypeOK'
  <2>1. <<a, w[2]>> \in Workers
    BY DEF Workers
  <2>2. anonymous' \in [Actors \X Ips -> Records \cup {NoRecord}]
    BY <1>6, TableType DEF Rekey
  <2> QED BY <1>6, <2>1, <2>2 DEF Rekey, TypeOK
<1> QED BY <1>1, <1>2, <1>3, <1>4, <1>5, <1>6

LEMMA TypeNext == TypeOK /\ [Next]_vars => TypeOK'
<1> SUFFICES ASSUME TypeOK, [Next]_vars PROVE TypeOK'
  OBVIOUS
<1>1. CASE UNCHANGED vars
  BY <1>1 DEF vars, sessionVars, messageVars, workerVars, TypeOK
<1>2. CASE Next
  <2>1. AnActor \in Actors /\ ASession \in Sessions
    BY Defaults
  <2> QED BY <1>2, <2>1, SessionType, WorkerType DEF Next
<1> QED BY <1>1, <1>2

\* Types, for every value of the constants.
THEOREM TypeCorrect == Spec => []TypeOK
  BY TypeInit, TypeNext, PTL DEF Spec

-----------------------------------------------------------------------------
(* The invariant, in parts. *)

\* The promise that is in place for an actor is that of the credentials last
\* submitted for it, and a message that awaits one awaits the one that was in
\* place when it came.
SecretOf(p) == IF p = 0 THEN NoSecret ELSE promise[p].secret

PromiseInv ==
  /\ \A s \in Sessions, a \in Actors : last[s][a] = SecretOf(pending[s][a])
  /\ \A s \in Sessions :
       pc[s] \in {"waiting", "resolving"} => due[s] = SecretOf(awaits[s])

\* A record is one of a session that has been connected, for a scope that is a
\* session's: the session's own, or one whose client has gone.
RecordInv ==
  \A x \in Actors \X Ips : anonymous[x] # NoRecord =>
    LET r == anonymous[x] IN
    /\ r.scope \in Sessions /\ status[r.session] # "new"
    /\ r.scope = r.session \/ status[r.scope] = "gone"

\* So is the scope that a message was given, and its name is not free again
\* while the message waits, since the worker it waits for bears it.
MessageInv ==
  \A s \in Sessions :
    /\ pc[s] # "idle" => status[s] # "new"
    /\ pc[s] \in {"ensuring", "blocked"} /\ scope[s] \in Sessions
         => scope[s] = s \/ status[scope[s]] = "gone"
    /\ pc[s] = "blocked" => life[<<actor[s], scope[s]>>] = "ending"

\* Those who are attached to a worker named after a session are that session,
\* or it has gone; a worker that is no more has nobody attached.
AttachedInv ==
  \A w \in Workers :
    /\ life[w] = "none" => attached[w] = {}
    /\ \A s \in attached[w] : w[2] \in Sessions => s = w[2] \/ status[w[2]] = "gone"

Leading ==
  /\ PromiseInv /\ RecordInv /\ MessageInv /\ AttachedInv
  /\ ScopeFollowsCredentials /\ RecordsFollowTheirWorker

IInv == TypeOK /\ Leading

\* What a record is made of.
LEMMA RecordType ==
  ASSUME TypeOK, NEW x \in Actors \X Ips, anonymous[x] # NoRecord
  PROVE  /\ anonymous[x] \in Records /\ anonymous[x].scope \in Scopes
         /\ anonymous[x].session \in Sessions /\ anonymous[x].session \in Sockets
         /\ anonymous[x].worker \in Workers
  BY DEF TypeOK, Records, Sockets

\* Nothing has happened yet.
LEMMA IInvInit == Init => IInv
<1> SUFFICES ASSUME Init PROVE IInv
  OBVIOUS
<1>1. TypeOK
  BY TypeInit
<1>2. PromiseInv /\ RecordInv /\ MessageInv
  BY NoPromiseIsZero DEF Init, PromiseInv, SecretOf, RecordInv, MessageInv
<1>3. AttachedInv /\ ScopeFollowsCredentials /\ RecordsFollowTheirWorker
  BY DEF Init, AttachedInv, ScopeFollowsCredentials, RecordsFollowTheirWorker
<1> QED BY <1>1, <1>2, <1>3 DEF IInv, Leading

-----------------------------------------------------------------------------
(* What clients do. *)

LEMMA ConnectKeeps ==
  ASSUME IInv, NEW s \in Sessions, Connect(s)
  PROVE  Leading'
<1> USE DEF sessionVars, messageVars, workerVars, IInv, Leading
<1>1. /\ UNCHANGED <<promise, pending, last, messageVars, workerVars>>
      /\ status[s] = "new" /\ status' = [status EXCEPT ![s] = "open"]
  BY DEF Connect
<1>2. PromiseInv' /\ ScopeFollowsCredentials' /\ RecordsFollowTheirWorker'
  BY <1>1 DEF PromiseInv, SecretOf, ScopeFollowsCredentials, RecordsFollowTheirWorker
<1>3. \A t \in Sessions : /\ status[t] = "gone" => status'[t] = "gone"
                          /\ status[t] # "new" => status'[t] # "new"
  BY <1>1 DEF TypeOK
<1>4. RecordInv'
  BY <1>1, <1>3, RecordType DEF RecordInv
<1>5. MessageInv' /\ AttachedInv'
  BY <1>1, <1>3 DEF MessageInv, AttachedInv
<1> QED BY <1>2, <1>4, <1>5

LEMMA DisconnectKeeps ==
  ASSUME IInv, NEW s \in Sessions, Disconnect(s)
  PROVE  Leading'
<1> USE DEF sessionVars, messageVars, workerVars, IInv, Leading
<1>1. /\ UNCHANGED <<promise, messageVars, workerVars>>
      /\ status[s] = "open" /\ status' = [status EXCEPT ![s] = "gone"]
      /\ pending' = [pending EXCEPT ![s] = [a \in Actors |-> 0]]
      /\ last' = [last EXCEPT ![s] = [a \in Actors |-> NoSecret]]
  BY DEF Disconnect
<1>2. PromiseInv'
  BY <1>1 DEF PromiseInv, SecretOf, TypeOK
<1>3. ScopeFollowsCredentials' /\ RecordsFollowTheirWorker'
  BY <1>1 DEF ScopeFollowsCredentials, RecordsFollowTheirWorker
<1>4. \A t \in Sessions : /\ status[t] = "gone" => status'[t] = "gone"
                          /\ status[t] # "new" => status'[t] # "new"
  BY <1>1 DEF TypeOK
<1>5. RecordInv'
  BY <1>1, <1>4, RecordType DEF RecordInv
<1>6. MessageInv' /\ AttachedInv'
  BY <1>1, <1>4 DEF MessageInv, AttachedInv
<1> QED BY <1>2, <1>3, <1>5, <1>6

\* A name is free again only when no record, message and worker bears it.
LEMMA ForgottenKeeps ==
  ASSUME IInv, NEW s \in Sessions, Forgotten(s)
  PROVE  Leading'
<1> USE DEF sessionVars, messageVars, workerVars, IInv, Leading
<1>1. /\ UNCHANGED <<promise, pending, last, messageVars, turn, workerVars>>
      /\ status' = [status EXCEPT ![s] = "new"]
      /\ turn = {} /\ pc[s] = "idle"
      /\ \A w \in Workers : life[w] # "none" => s \notin attached[w] /\ w[2] # s
      /\ \A x \in Actors \X Ips :
           anonymous[x] # NoRecord => anonymous[x].session # s /\ anonymous[x].scope # s
  BY DEF Forgotten, NewTask
<1>2. PromiseInv' /\ ScopeFollowsCredentials' /\ RecordsFollowTheirWorker'
  BY <1>1 DEF PromiseInv, SecretOf, ScopeFollowsCredentials, RecordsFollowTheirWorker
<1>3. \A t \in Sessions \ {s} : status'[t] = status[t]
  BY <1>1 DEF TypeOK
<1>4. RecordInv'
  BY <1>1, <1>3, RecordType DEF RecordInv
<1>5. \A t \in Sessions : pc[t] \in {"ensuring", "blocked"} => scope[t] # s
  <2> SUFFICES ASSUME NEW t \in Sessions, pc[t] \in {"ensuring", "blocked"}
               PROVE  scope[t] # s
    OBVIOUS
  <2>1. pc[t] = "blocked"
    BY <1>1 DEF TypeOK
  <2>2. life[<<actor[t], scope[t]>>] = "ending" /\ <<actor[t], scope[t]>> \in Workers
    BY <2>1 DEF MessageInv, TypeOK, Workers
  <2> QED BY <1>1, <2>2
<1>6. MessageInv'
  BY <1>1, <1>3, <1>5 DEF MessageInv
<1>7. AttachedInv'
  BY <1>1, <1>3 DEF AttachedInv
<1> QED BY <1>2, <1>4, <1>6, <1>7

\* The promise taken for new credentials is one that nobody refers to.
LEMMA SubmitKeeps ==
  ASSUME IInv, NEW s \in Sessions, NEW a \in Actors, NEW c \in Secrets \cup {NoSecret},
         SubmitCredentials(s, a, c)
  PROVE  Leading'
<1> USE DEF sessionVars, messageVars, workerVars, IInv, Leading
<1>1. PICK p \in Promises :
        /\ Unused(p) /\ pending' = [pending EXCEPT ![s][a] = p]
        /\ promise' = [promise EXCEPT ![p] =
                         [session |-> s, secret |-> c, state |-> "saving"]]
  BY DEF SubmitCredentials, BeginCredentialScope
<1>2. last' = [last EXCEPT ![s][a] = c] /\ UNCHANGED <<status, messageVars, workerVars>>
  BY DEF SubmitCredentials
<1>3. p # 0 /\ promise'[p].secret = c
      /\ \A q \in Promises \ {p} : promise'[q] = promise[q]
  BY <1>1, NoPromiseIsZero DEF TypeOK
<1>4. ASSUME NEW t \in Sessions, NEW b \in Actors
      PROVE  (last[t][b] = SecretOf(pending[t][b]))'
  <2>1. CASE t = s /\ b = a
    BY <1>1, <1>2, <1>3, <2>1 DEF TypeOK, SecretOf
  <2>2. CASE ~ (t = s /\ b = a)
    <3>1. last'[t][b] = last[t][b] /\ pending'[t][b] = pending[t][b]
      BY <1>1, <1>2, <2>2 DEF TypeOK
    <3>2. pending[t][b] # p /\ pending[t][b] \in Promises \cup {0}
      BY <1>1 DEF Unused, TypeOK
    <3> QED BY <1>3, <3>1, <3>2 DEF PromiseInv, SecretOf
  <2> QED BY <2>1, <2>2
<1>5. ASSUME NEW t \in Sessions, pc'[t] \in {"waiting", "resolving"}
      PROVE  (due[t] = SecretOf(awaits[t]))'
  <2>1. awaits[t] # p /\ awaits[t] \in Promises \cup {0}
    BY <1>1 DEF Unused, TypeOK
  <2> QED BY <1>2, <1>3, <1>5, <2>1 DEF PromiseInv, SecretOf
<1>6. PromiseInv'
  BY <1>4, <1>5 DEF PromiseInv
<1>7. RecordInv' /\ MessageInv' /\ AttachedInv'
  BY <1>2 DEF RecordInv, MessageInv, AttachedInv
<1>8. ScopeFollowsCredentials' /\ RecordsFollowTheirWorker'
  BY <1>2 DEF ScopeFollowsCredentials, RecordsFollowTheirWorker
<1> QED BY <1>6, <1>7, <1>8

\* A promise keeps its secret when it settles.
LEMMA SavesAnsweredKeeps ==
  ASSUME IInv, NEW P \in SUBSET Promises, NEW ok \in BOOLEAN, SavesAnswered(P, ok)
  PROVE  Leading'
<1> USE DEF sessionVars, messageVars, workerVars, IInv, Leading
<1>1. /\ UNCHANGED <<status, pending, last, actor, awaits, scope, due, workerVars>>
      /\ \A p \in Promises : promise'[p].secret = promise[p].secret
  BY DEF SavesAnswered, TypeOK
<1>2. \A s \in Sessions : /\ pc'[s] = pc[s] \/ (pc[s] = "waiting" /\ pc'[s] = "resolving")
  BY DEF SavesAnswered
<1>3. \A q \in Promises \cup {0} : SecretOf(q)' = SecretOf(q)
  BY <1>1 DEF SecretOf
<1>4. PromiseInv'
  <2>1. \A s \in Sessions, a \in Actors : (last[s][a] = SecretOf(pending[s][a]))'
    BY <1>1, <1>3 DEF PromiseInv, TypeOK
  <2>2. \A s \in Sessions :
          (pc[s] \in {"waiting", "resolving"} => due[s] = SecretOf(awaits[s]))'
    BY <1>1, <1>2, <1>3 DEF PromiseInv, TypeOK
  <2> QED BY <2>1, <2>2 DEF PromiseInv
<1>5. RecordInv' /\ AttachedInv' /\ RecordsFollowTheirWorker'
  BY <1>1 DEF RecordInv, AttachedInv, RecordsFollowTheirWorker
<1>6. MessageInv' /\ ScopeFollowsCredentials'
  BY <1>1, <1>2 DEF MessageInv, ScopeFollowsCredentials
<1> QED BY <1>4, <1>5, <1>6

-----------------------------------------------------------------------------
(* A message on its way. *)

LEMMA MessageKeeps ==
  ASSUME IInv, NEW s \in Sessions, NEW a \in Actors, Message(s, a)
  PROVE  Leading'
<1> USE DEF sessionVars, messageVars, workerVars, IInv, Leading
<1>1. /\ UNCHANGED <<status, promise, pending, last, scope, workerVars>>
      /\ status[s] = "open" /\ pc[s] = "idle"
      /\ actor' = [actor EXCEPT ![s] = a]
      /\ awaits' = [awaits EXCEPT ![s] = pending[s][a]]
      /\ due' = [due EXCEPT ![s] = last[s][a]]
      /\ \A t \in Sessions \ {s} : pc'[t] = pc[t]
      /\ pc'[s] \in {"resolving", "waiting"}
  BY DEF Message, TypeOK
<1>2. \A t \in Sessions \ {s} : due'[t] = due[t] /\ awaits'[t] = awaits[t] /\ actor'[t] = actor[t]
  BY <1>1 DEF TypeOK
<1>3. due'[s] = SecretOf(awaits'[s])
  BY <1>1 DEF PromiseInv, TypeOK
<1>4. PromiseInv'
  BY <1>1, <1>2, <1>3 DEF PromiseInv, SecretOf
<1>5. RecordInv' /\ AttachedInv' /\ RecordsFollowTheirWorker'
  BY <1>1 DEF RecordInv, AttachedInv, RecordsFollowTheirWorker
<1>6. MessageInv' /\ ScopeFollowsCredentials'
  BY <1>1, <1>2 DEF MessageInv, ScopeFollowsCredentials
<1> QED BY <1>4, <1>5, <1>6

\* The end of a message takes nothing from the others.
LEMMA SettlesKeeps ==
  ASSUME IInv, NEW s \in Sessions, Settles(s), UNCHANGED sessionVars,
         \A t \in Sessions \ {s} : pc[t] = "blocked" =>
            life'[<<actor[t], scope[t]>>] = life[<<actor[t], scope[t]>>]
  PROVE  PromiseInv' /\ MessageInv' /\ ScopeFollowsCredentials'
<1> USE DEF sessionVars, IInv, Leading
<1>1. /\ pc'[s] = "idle"
      /\ \A t \in Sessions \ {s} : /\ pc'[t] = pc[t] /\ due'[t] = due[t]
                                   /\ awaits'[t] = awaits[t] /\ actor'[t] = actor[t]
                                   /\ scope'[t] = scope[t]
  BY DEF Settles, TypeOK
<1>2. PromiseInv'
  BY <1>1 DEF PromiseInv, SecretOf
<1>3. MessageInv'
  BY <1>1 DEF MessageInv
<1>4. ScopeFollowsCredentials'
  BY <1>1 DEF ScopeFollowsCredentials
<1> QED BY <1>2, <1>3, <1>4

\* The scope of a session without a secret is its own, or one whose client
\* has gone.
LEMMA AnonymousScopeIsFree ==
  ASSUME IInv, NEW s \in Sessions
  PROVE  /\ AnonymousScope(s) \in Sessions
         /\ AnonymousScope(s) = s \/ status[AnonymousScope(s)] = "gone"
<1> DEFINE x == <<actor[s], ip[s]>>
<1>1. x \in Actors \X Ips
  BY DEF IInv, TypeOK
<1> HIDE DEF x
<1>2. AnonymousScope(s) = s \/
      /\ anonymous[x] # NoRecord /\ AnonymousScope(s) = anonymous[x].scope
      /\ anonymous[x].session = s \/ status[anonymous[x].session] # "open"
  BY DEF AnonymousScope, SocketIsLive, x
<1>3. CASE anonymous[x] # NoRecord
  <2>1. status[anonymous[x].session] \in {"open", "gone"}
    BY <1>1, <1>3, RecordType DEF IInv, Leading, RecordInv, TypeOK
  <2>2. /\ anonymous[x].scope \in Sessions
        /\ anonymous[x].scope = anonymous[x].session \/ status[anonymous[x].scope] = "gone"
    BY <1>1, <1>3 DEF IInv, Leading, RecordInv
  <2> QED BY <1>2, <2>1, <2>2
<1>4. CASE anonymous[x] = NoRecord
  BY <1>2, <1>4
<1> QED BY <1>3, <1>4

LEMMA ResolveKeeps ==
  ASSUME IInv, NEW s \in Sessions, ResolveConnectionScope(s)
  PROVE  Leading'
<1> USE DEF IInv, Leading
<1>1. UNCHANGED <<sessionVars, workerVars>>
  BY DEF ResolveConnectionScope
<1>2. RecordInv' /\ AttachedInv' /\ RecordsFollowTheirWorker'
  BY <1>1 DEF sessionVars, workerVars, RecordInv, AttachedInv, RecordsFollowTheirWorker
<1>3. CASE Settles(s)
  BY <1>1, <1>2, <1>3, SettlesKeeps DEF workerVars
<1>4. CASE ~ Settles(s)
  <2> DEFINE given == IF Fingerprint(s) # NoSecret THEN Fingerprint(s) ELSE AnonymousScope(s)
  <2>1. /\ pc[s] = "resolving" /\ pc' = [pc EXCEPT ![s] = "ensuring"]
        /\ awaits' = [awaits EXCEPT ![s] = 0] /\ scope' = [scope EXCEPT ![s] = given]
        /\ UNCHANGED <<actor, due>>
    BY <1>4 DEF ResolveConnectionScope
  <2>2. due[s] = Fingerprint(s)
    BY <2>1 DEF PromiseInv, SecretOf, Fingerprint
  <2>3. IF given \in Secrets THEN due[s] = given ELSE due[s] = NoSecret
    BY <2>2, AnonymousScopeIsFree, ScopeAssumption DEF TypeOK
  <2>4. given \in Sessions => given = s \/ status[given] = "gone"
    BY <2>2, AnonymousScopeIsFree, ScopeAssumption DEF TypeOK
  <2> HIDE DEF given
  <2>5. /\ pc'[s] = "ensuring" /\ scope'[s] = given
        /\ \A t \in Sessions \ {s} : /\ pc'[t] = pc[t] /\ scope'[t] = scope[t]
                                     /\ awaits'[t] = awaits[t]
    BY <2>1 DEF TypeOK
  <2>6. PromiseInv'
    BY <1>1, <2>1, <2>5 DEF sessionVars, PromiseInv, SecretOf
  <2>7. MessageInv'
    BY <1>1, <2>1, <2>4, <2>5 DEF sessionVars, workerVars, MessageInv
  <2>8. ScopeFollowsCredentials'
    BY <2>1, <2>3, <2>5 DEF ScopeFollowsCredentials
  <2> QED BY <1>2, <2>6, <2>7, <2>8
<1> QED BY <1>3, <1>4

\* What a session remembers, or takes over, is a record of its own.
LEMMA RememberedKeeps ==
  ASSUME IInv, NEW s \in Sessions, s \in turn, pc[s] = "ensuring",
         UNCHANGED sessionVars, anonymous' = Remembered(s)
  PROVE  RecordInv' /\ RecordsFollowTheirWorker'
<1> USE DEF IInv, Leading
<1> DEFINE r == [scope |-> scope[s], session |-> s, worker |-> <<actor[s], scope[s]>>]
           y == <<actor[s], ip[s]>>
<1>1. CASE anonymous' = anonymous
  BY <1>1 DEF sessionVars, RecordInv, RecordsFollowTheirWorker
<1>2. CASE anonymous' # anonymous
  <2>1. Resumable(s) /\ anonymous' = [anonymous EXCEPT ![y] = r]
    BY <1>2 DEF Remembered
  <2>2. scope[s] \in Sessions
    BY <2>1 DEF Resumable, TypeOK, Scopes
  <2>3. /\ status[s] # "new"
        /\ scope[s] = s \/ status[scope[s]] = "gone"
    BY <2>2 DEF MessageInv
  <2>4. r.scope = scope[s] /\ r.session = s /\ r.worker = <<y[1], r.scope>>
    OBVIOUS
  <2> HIDE DEF r, y
  <2>5. \A x \in Actors \X Ips : anonymous'[x] = IF x = y THEN r ELSE anonymous[x]
    BY <2>1 DEF TypeOK
  <2>6. RecordInv'
    BY <2>2, <2>3, <2>4, <2>5 DEF sessionVars, RecordInv
  <2>7. RecordsFollowTheirWorker'
    BY <2>4, <2>5 DEF RecordsFollowTheirWorker
  <2> QED BY <2>6, <2>7
<1> QED BY <1>1, <1>2

LEMMA AttachesKeeps ==
  ASSUME IInv, NEW s \in Sessions, EnsureAttaches(s)
  PROVE  Leading'
<1> USE DEF IInv, Leading
<1> DEFINE w == <<actor[s], scope[s]>>
<1>1. /\ s \in turn /\ pc[s] = "ensuring" /\ UNCHANGED sessionVars
      /\ anonymous' = Remembered(s) /\ Settles(s)
      /\ life[w] \in {"none", "up", "dying"}
      /\ life' = IF life[w] = "none" THEN [life EXCEPT ![w] = "up"] ELSE life
      /\ attached' = [attached EXCEPT ![w] = @ \cup ({s} \ HttpSessions)]
  BY DEF EnsureAttaches
<1>2. w \in Workers /\ w[2] = scope[s]
  BY DEF TypeOK, Workers
<1> HIDE DEF w
<1>3. RecordInv' /\ RecordsFollowTheirWorker'
  BY <1>1, RememberedKeeps
<1>4. /\ \A v \in Workers : life'[v] # life[v] => v = w
      /\ life'[w] # "none"
  BY <1>1, <1>2 DEF TypeOK
<1>5. PromiseInv' /\ MessageInv' /\ ScopeFollowsCredentials'
  <2>1. \A t \in Sessions : pc[t] = "blocked" =>
          life'[<<actor[t], scope[t]>>] = life[<<actor[t], scope[t]>>]
    <3> SUFFICES ASSUME NEW t \in Sessions, pc[t] = "blocked"
                 PROVE  life'[<<actor[t], scope[t]>>] = life[<<actor[t], scope[t]>>]
      OBVIOUS
    <3>1. <<actor[t], scope[t]>> \in Workers /\ life[<<actor[t], scope[t]>>] = "ending"
      BY DEF MessageInv, TypeOK, Workers
    <3> QED BY <1>1, <1>4, <3>1
  <2> QED BY <1>1, <2>1, SettlesKeeps
<1>6. \A v \in Workers : attached'[v] = IF v = w THEN attached[w] \cup ({s} \ HttpSessions)
                                                 ELSE attached[v]
  BY <1>1 DEF TypeOK
<1>7. scope[s] \in Sessions => scope[s] = s \/ status[scope[s]] = "gone"
  BY <1>1 DEF MessageInv
<1>8. AttachedInv'
  BY <1>1, <1>2, <1>4, <1>6, <1>7 DEF AttachedInv, sessionVars
<1> QED BY <1>3, <1>5, <1>8

\* A table with fewer records says no more than before.
LEMMA WithoutKeeps ==
  ASSUME IInv, NEW w \in Workers, UNCHANGED sessionVars,
         anonymous' = Without(w) \/ anonymous' = anonymous
  PROVE  RecordInv' /\ RecordsFollowTheirWorker'
<1>1. \A x \in Actors \X Ips : anonymous'[x] \in {anonymous[x], NoRecord}
  BY DEF Without
<1>2. RecordInv'
  BY <1>1 DEF IInv, Leading, RecordInv, sessionVars
<1>3. RecordsFollowTheirWorker'
  BY <1>1 DEF IInv, Leading, RecordsFollowTheirWorker
<1> QED BY <1>2, <1>3

LEMMA AwaitsTeardownKeeps ==
  ASSUME IInv, NEW s \in Sessions, EnsureAwaitsTeardown(s)
  PROVE  Leading'
<1> USE DEF IInv, Leading
<1> DEFINE w == <<actor[s], scope[s]>>
<1>1. /\ UNCHANGED <<sessionVars, actor, awaits, scope, due, attached>>
      /\ pc[s] = "ensuring" /\ pc' = [pc EXCEPT ![s] = "blocked"]
      /\ life[w] \in {"crashed", "ending"} /\ life' = [life EXCEPT ![w] = "ending"]
      /\ anonymous' = Without(w) \/ anonymous' = anonymous
  BY DEF EnsureAwaitsTeardown
<1>2. w \in Workers
  BY DEF TypeOK, Workers
<1>3. RecordInv' /\ RecordsFollowTheirWorker'
  <2> HIDE DEF w
  <2> QED BY <1>1, <1>2, WithoutKeeps
<1>4. \A v \in Workers : life'[v] = IF v = w THEN "ending" ELSE life[v]
  BY <1>1 DEF TypeOK
<1>5. \A t \in Sessions : pc'[t] = IF t = s THEN "blocked" ELSE pc[t]
  BY <1>1 DEF TypeOK
<1>6. PromiseInv' /\ ScopeFollowsCredentials'
  BY <1>1, <1>5 DEF PromiseInv, SecretOf, ScopeFollowsCredentials, sessionVars
<1>7. MessageInv'
  <2>1. \A t \in Sessions : <<actor[t], scope[t]>> \in Workers
    BY DEF TypeOK, Workers
  <2> QED BY <1>1, <1>4, <1>5, <2>1 DEF MessageInv, sessionVars
<1>8. AttachedInv'
  BY <1>1, <1>4 DEF AttachedInv, sessionVars
<1> QED BY <1>3, <1>6, <1>7, <1>8

-----------------------------------------------------------------------------
(* What happens to workers. *)

\* A worker whose teardown nobody awaits yet keeps its name and its sockets.
LEMMA DyingKeeps ==
  ASSUME IInv, NEW w \in Workers, ChildDies(w) \/ TeardownStarts(w)
  PROVE  Leading'
<1> USE DEF IInv, Leading
<1>1. UNCHANGED <<sessionVars, messageVars, attached>>
  BY DEF ChildDies, TeardownStarts
<1>2. \A v \in Workers : /\ life[v] = "ending" => life'[v] = "ending"
                         /\ life'[v] = "none" => life[v] = "none"
  BY DEF ChildDies, TeardownStarts, TypeOK
<1>3. RecordInv' /\ RecordsFollowTheirWorker'
  BY <1>1, WithoutKeeps DEF ChildDies, TeardownStarts
<1>4. PromiseInv' /\ ScopeFollowsCredentials'
  BY <1>1 DEF sessionVars, messageVars, PromiseInv, SecretOf, ScopeFollowsCredentials
<1>5. MessageInv'
  <2>1. \A t \in Sessions : <<actor[t], scope[t]>> \in Workers
    BY DEF TypeOK, Workers
  <2> QED BY <1>1, <1>2, <2>1 DEF MessageInv, sessionVars, messageVars
<1>6. AttachedInv'
  BY <1>1, <1>2 DEF AttachedInv, sessionVars
<1> QED BY <1>3, <1>4, <1>5, <1>6

\* Those that waited for the worker go on, with the scope they were given.
LEMMA TeardownEndsKeeps ==
  ASSUME IInv, NEW w \in Workers, TeardownEnds(w)
  PROVE  Leading'
<1> USE DEF IInv, Leading
<1>1. /\ UNCHANGED <<sessionVars, actor, awaits, scope, due, anonymous>>
      /\ life' = [life EXCEPT ![w] = "none"] /\ attached' = [attached EXCEPT ![w] = {}]
      /\ \A s \in Sessions :
           pc'[s] = IF pc[s] = "blocked" /\ <<actor[s], scope[s]>> = w
                    THEN "ensuring" ELSE pc[s]
  BY DEF TeardownEnds
<1>2. RecordInv' /\ RecordsFollowTheirWorker'
  BY <1>1 DEF sessionVars, RecordInv, RecordsFollowTheirWorker
<1>3. PromiseInv' /\ ScopeFollowsCredentials'
  BY <1>1 DEF sessionVars, PromiseInv, SecretOf, ScopeFollowsCredentials
<1>4. MessageInv'
  <2>1. \A t \in Sessions : <<actor[t], scope[t]>> \in Workers
    BY DEF TypeOK, Workers
  <2>2. \A v \in Workers \ {w} : life'[v] = life[v]
    BY <1>1 DEF TypeOK
  <2> QED BY <1>1, <2>1, <2>2 DEF MessageInv, sessionVars
<1>5. AttachedInv'
  BY <1>1 DEF AttachedInv, sessionVars, TypeOK
<1> QED BY <1>2, <1>3, <1>4, <1>5

\* A record that moved to the new actor is one of the worker's, for its scope.
LEMMA ReassignedRecord ==
  ASSUME IInv, NEW w \in Workers, NEW a \in Actors, NEW x \in Actors \X Ips,
         anonymous' = Reassigned(w, a), anonymous'[x] # anonymous[x], anonymous'[x] # NoRecord
  PROVE  \E y \in Actors \X Ips :
           /\ anonymous[y] # NoRecord /\ anonymous[y].scope = w[2] /\ x[1] = a
           /\ anonymous'[x].scope = w[2] /\ anonymous'[x].session = anonymous[y].session
           /\ anonymous'[x].worker = <<a, w[2]>>
<1> DEFINE Theirs(q) == \E b \in Actors :
             RecordOf(w, <<b, x[2]>>) /\ q = anonymous[<<b, x[2]>>]
           chosen == CHOOSE q \in Records : Theirs(q)
<1>1. CASE x[1] = a /\ \E b \in Actors : RecordOf(w, <<b, x[2]>>)
  <2>1. \E q \in Records : Theirs(q)
    BY <1>1 DEF RecordOf, IInv, TypeOK
  <2>2. Theirs(chosen)
    BY <2>1
  <2>3. Reassigned(w, a)[x] = [chosen EXCEPT !.worker = <<a, w[2]>>]
    BY <1>1 DEF Reassigned
  <2> HIDE DEF chosen
  <2>4. PICK b \in Actors : RecordOf(w, <<b, x[2]>>) /\ chosen = anonymous[<<b, x[2]>>]
    BY <2>2
  <2>5. <<b, x[2]>> \in Actors \X Ips
    OBVIOUS
  <2>6. chosen.worker = w /\ chosen # NoRecord
    BY <2>4 DEF RecordOf
  <2>7. chosen.scope = w[2]
    BY <2>4, <2>5, <2>6 DEF IInv, Leading, RecordsFollowTheirWorker
  <2>8. chosen \in Records
    BY <2>4, <2>5, <2>6, RecordType DEF IInv
  <2>9. /\ anonymous'[x].scope = w[2] /\ anonymous'[x].session = chosen.session
        /\ anonymous'[x].worker = <<a, w[2]>>
    BY <2>3, <2>7, <2>8 DEF Records
  <2> QED BY <1>1, <2>4, <2>5, <2>6, <2>7, <2>9
<1>2. CASE ~ (x[1] = a /\ \E b \in Actors : RecordOf(w, <<b, x[2]>>))
  BY <1>2 DEF Reassigned
<1> QED BY <1>1, <1>2

\* The worker's sockets and records move with it to its new name, whose scope
\* is the old one.
LEMMA RekeyKeeps ==
  ASSUME IInv, NEW w \in Workers, NEW a \in Actors, Rekey(w, a)
  PROVE  Leading'
<1> USE DEF IInv, Leading
<1> DEFINE to == <<a, w[2]>>
<1>1. /\ UNCHANGED <<sessionVars, messageVars, turn>>
      /\ life[w] = "up" /\ life[to] = "none"
      /\ life' = [life EXCEPT ![w] = "none", ![to] = "up"]
      /\ attached' = [attached EXCEPT ![w] = {}, ![to] = attached[w]]
      /\ anonymous' = Reassigned(w, a)
  BY DEF Rekey
<1>2. to \in Workers /\ to[2] = w[2]
  BY DEF Workers
<1> HIDE DEF to
<1>3. ASSUME NEW x \in Actors \X Ips, anonymous'[x] # NoRecord
      PROVE  /\ anonymous'[x].scope \in Sessions /\ status'[anonymous'[x].session] # "new"
             /\ \/ anonymous'[x].scope = anonymous'[x].session
                \/ status'[anonymous'[x].scope] = "gone"
             /\ anonymous'[x].worker = <<x[1], anonymous'[x].scope>>
  <2>1. CASE anonymous'[x] = anonymous[x]
    BY <1>1, <1>3, <2>1 DEF sessionVars, RecordInv, RecordsFollowTheirWorker
  <2>2. CASE anonymous'[x] # anonymous[x]
    <3>1. PICK y \in Actors \X Ips :
            /\ anonymous[y] # NoRecord /\ anonymous[y].scope = w[2] /\ x[1] = a
            /\ anonymous'[x].scope = w[2] /\ anonymous'[x].session = anonymous[y].session
            /\ anonymous'[x].worker = <<a, w[2]>>
      BY <1>1, <1>3, <2>2, ReassignedRecord
    <3>2. /\ anonymous[y].scope \in Sessions /\ status[anonymous[y].session] # "new"
          /\ \/ anonymous[y].scope = anonymous[y].session
             \/ status[anonymous[y].scope] = "gone"
      BY <3>1 DEF RecordInv
    <3> QED BY <1>1, <3>1, <3>2 DEF sessionVars
  <2> QED BY <2>1, <2>2
<1>4. RecordInv' /\ RecordsFollowTheirWorker'
  BY <1>3 DEF RecordInv, RecordsFollowTheirWorker
<1>5. PromiseInv' /\ ScopeFollowsCredentials'
  BY <1>1 DEF sessionVars, messageVars, PromiseInv, SecretOf, ScopeFollowsCredentials
<1>6. \A v \in Workers : /\ life[v] = "ending" => life'[v] = "ending"
                         /\ life'[v] = "none" => v = w \/ life[v] = "none" 
  BY <1>1, <1>2 DEF TypeOK
<1>7. MessageInv'
  <2>1. \A t \in Sessions : <<actor[t], scope[t]>> \in Workers
    BY DEF TypeOK, Workers
  <2> QED BY <1>1, <1>6, <2>1 DEF MessageInv, sessionVars, messageVars
<1>8. AttachedInv'
  <2>1. w # to
    BY <1>1
  <2>2. \A v \in Workers : attached'[v] = IF v = to THEN attached[w]
                                          ELSE IF v = w THEN {} ELSE attached[v]
    BY <1>1, <1>2, <2>1 DEF TypeOK
  <2>3. life'[to] = "up"
    BY <1>1, <1>2 DEF TypeOK
  <2>4. \A v \in Workers : life'[v] = "none" => attached'[v] = {}
    BY <1>6, <2>2, <2>3 DEF AttachedInv
  <2>5. \A v \in Workers, s \in Sockets : s \in attached'[v] /\ v[2] \in Sessions
          => s = v[2] \/ status[v[2]] = "gone"
    BY <1>2, <2>2 DEF AttachedInv
  <2>6. \A v \in Workers : attached'[v] \subseteq Sockets
    BY <1>1, <2>2 DEF TypeOK
  <2>7. status' = status
    BY <1>1 DEF sessionVars
  <2> QED BY <2>4, <2>5, <2>6, <2>7 DEF AttachedInv
<1> QED BY <1>4, <1>5, <1>7, <1>8

-----------------------------------------------------------------------------
(* Every step keeps the invariant. *)

LEMMA IInvNext == IInv /\ [Next]_vars => IInv'
<1> SUFFICES ASSUME IInv, [Next]_vars PROVE IInv'
  OBVIOUS
<1>1. TypeOK'
  BY TypeNext DEF IInv
<1>2. CASE UNCHANGED vars
  <2>1. UNCHANGED <<sessionVars, messageVars, turn, workerVars>>
    BY <1>2 DEF vars
  <2>2. PromiseInv' /\ RecordInv' /\ MessageInv' /\ AttachedInv'
    BY <2>1 DEF IInv, Leading, PromiseInv, SecretOf, RecordInv, MessageInv, AttachedInv,
                sessionVars, messageVars, workerVars
  <2>3. ScopeFollowsCredentials' /\ RecordsFollowTheirWorker'
    BY <2>1 DEF IInv, Leading, ScopeFollowsCredentials, RecordsFollowTheirWorker,
                messageVars, workerVars
  <2> QED BY <1>1, <2>2, <2>3 DEF IInv, Leading
<1>3. ASSUME NEW s \in Sessions,
             \/ Connect(s) \/ Disconnect(s) \/ Forgotten(s)
             \/ \E a \in Actors :
                  \/ Message(s, a)
                  \/ \E c \in Secrets \cup {NoSecret} : SubmitCredentials(s, a, c)
             \/ ResolveConnectionScope(s)
             \/ EnsureAttaches(s) \/ EnsureAwaitsTeardown(s)
      PROVE  Leading'
  BY <1>3, ConnectKeeps, DisconnectKeeps, ForgottenKeeps, MessageKeeps, SubmitKeeps,
     ResolveKeeps, AttachesKeeps, AwaitsTeardownKeeps
<1>4. ASSUME NEW w \in Workers,
             \/ ChildDies(w) \/ TeardownStarts(w) \/ TeardownEnds(w)
             \/ \E a \in Actors \ {w[1]} : Rekey(w, a)
      PROVE  Leading'
  BY <1>4, DyingKeeps, TeardownEndsKeeps, RekeyKeeps
<1> QED BY <1>1, <1>2, <1>3, <1>4, SavesAnsweredKeeps DEF Next, IInv

LEMMA IInvHolds == Spec => []IInv
  BY IInvInit, IInvNext, PTL DEF Spec

\* Whatever the order of credentials, saves and messages, a message goes where
\* the credentials submitted before it lead (beginCredentialScope(),
\* resolveConnectionScope()).
THEOREM ScopeFollowsCredentialsHolds == Spec => []ScopeFollowsCredentials
  BY IInvHolds, PTL DEF IInv, Leading

\* A record leads the messages of its actor to the worker it was made for, also
\* after that worker's actor changed (reassignAnonymousScopes()).
THEOREM RecordsFollowTheirWorkerHolds == Spec => []RecordsFollowTheirWorker
  BY IInvHolds, PTL DEF IInv, Leading

\* Whoever opened a connection without a secret never shares it while
\* connected, whatever refreshes, crashes, teardowns and changes of the actor
\* come in between (anonymousScope(), rememberAnonymousScope()).
THEOREM OwnWorkerIsPrivateHolds == Spec => []OwnWorkerIsPrivate
<1>1. IInv => OwnWorkerIsPrivate
  BY DEF IInv, Leading, AttachedInv, OwnWorkerIsPrivate
<1> QED BY <1>1, IInvHolds, PTL
=============================================================================
