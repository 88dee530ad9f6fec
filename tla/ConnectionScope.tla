--------------------------- MODULE ConnectionScope ---------------------------
(***************************************************************************)
(* Which worker of a persistent platform a session's message goes to:      *)
(* credentials with a secret lead every session that submitted them to the *)
(* same worker, anything else leads to a worker of the session's own,      *)
(* which a page refresh may reclaim (connection-scope.ts).                 *)
(*                                                                         *)
(* `turn' holds the messages that run in the current task of the event     *)
(* loop: what only awaits settled promises goes on before the next task.   *)
(***************************************************************************)
EXTENDS Naturals, FiniteSets

CONSTANTS
  Sessions,      \* socket ids and the single-use sessions of HTTP requests
  HttpSessions,
  Ips, Actors,
  Secrets,       \* fingerprints of credentials with a password or a token
  NoSecret,      \* credentials without one, or none at all
  NoRecord,
  Promises,      \* bound: credential promises somebody may still await
  MaxReplies     \* bound: Redis replies that one read of the socket brings

ASSUME ScopeAssumption ==
  /\ HttpSessions \subseteq Sessions
  /\ Sessions # {} /\ Ips # {} /\ Actors # {}
  /\ Sessions \cap Secrets = {} /\ NoSecret \notin Secrets \cup Sessions
  /\ Promises = 1..Cardinality(Promises) /\ IsFiniteSet(Promises)
  /\ MaxReplies \in Nat \ {0}

Sockets == Sessions \ HttpSessions
Scopes  == Sessions \cup Secrets
Workers == Actors \X Scopes
Records == [scope : Scopes, worker : Workers, session : Sockets]

VARIABLES
  status,     \* of a session's socket or request
  ip,
  promise,    \* what beginCredentialScope() handed out
  pending,    \* pendingScopes: session -> actor -> promise, 0 = none
  pc,         \* where the session's message is
  actor,      \* its actor
  awaits,     \* the promise its get() awaits
  scope,      \* the scope it was given
  turn,
  life,       \* of a worker
  attached,   \* the sockets registered with it
  anonymous,  \* anonymousScopes: (actor, ip) -> record
  last, due   \* history: what was last submitted; and before the message

sessionVars == <<status, ip, promise, pending, last>>
messageVars == <<pc, actor, awaits, scope, due>>
workerVars  == <<life, attached, anonymous>>
vars == <<sessionVars, messageVars, turn, workerVars>>

TypeOK ==
  /\ status \in [Sessions -> {"new", "open", "gone"}]
  /\ ip \in [Sessions -> Ips]
  /\ promise \in [Promises -> [session : Sessions, secret : Secrets \cup {NoSecret},
                               state : {"saving", "stored", "failed"}]]
  /\ pending \in [Sessions -> [Actors -> Promises \cup {0}]]
  /\ pc \in [Sessions -> {"idle", "waiting", "resolving", "ensuring", "blocked"}]
  /\ actor \in [Sessions -> Actors]
  /\ awaits \in [Sessions -> Promises \cup {0}]
  /\ scope \in [Sessions -> Scopes]
  /\ turn = {s \in Sessions : pc[s] \in {"resolving", "ensuring"}}
  /\ life \in [Workers -> {"none", "up", "dying", "crashed", "ending"}]
  /\ attached \in [Workers -> SUBSET Sockets]
  /\ anonymous \in [Actors \X Ips -> Records \cup {NoRecord}]
  /\ last \in [Sessions -> [Actors -> Secrets \cup {NoSecret}]]
  /\ due \in [Sessions -> Secrets \cup {NoSecret}]

AnIp    == CHOOSE i \in Ips : TRUE
AnActor == CHOOSE a \in Actors : TRUE
ASession == CHOOSE s \in Sessions : TRUE

Init ==
  /\ status = [s \in Sessions |-> "new"]
  /\ ip = [s \in Sessions |-> AnIp]
  /\ promise = [p \in Promises |->
                  [session |-> ASession, secret |-> NoSecret, state |-> "stored"]]
  /\ pending = [s \in Sessions |-> [a \in Actors |-> 0]]
  /\ pc = [s \in Sessions |-> "idle"]
  /\ actor = [s \in Sessions |-> AnActor]
  /\ awaits = [s \in Sessions |-> 0]
  /\ scope = [s \in Sessions |-> s]
  /\ turn = {}
  /\ life = [w \in Workers |-> "none"]
  /\ attached = [w \in Workers |-> {}]
  /\ anonymous = [x \in Actors \X Ips |-> NoRecord]
  /\ last = [s \in Sessions |-> [a \in Actors |-> NoSecret]]
  /\ due = [s \in Sessions |-> NoSecret]

NewTask == turn = {}

\* Mutant of SocketIsLive: every recorded client counts as gone.
SocketIsNeverLive(s) == FALSE
SocketIsLive(s) == status[s] = "open"

(***************************************************************************)
(* Sessions                                                                *)
(***************************************************************************)
Connect(s) ==
  /\ NewTask /\ status[s] = "new"
  /\ status' = [status EXCEPT ![s] = "open"]
  /\ \E i \in Ips : ip' = [ip EXCEPT ![s] = i]
  /\ UNCHANGED <<promise, pending, last, messageVars, turn, workerVars>>

\* clearSessionScopes(), whatever the session's message is doing: an HTTP
\* request may time out.
Disconnect(s) ==
  /\ NewTask /\ status[s] = "open"
  /\ status' = [status EXCEPT ![s] = "gone"]
  /\ pending' = [pending EXCEPT ![s] = [a \in Actors |-> 0]]
  /\ last' = [last EXCEPT ![s] = [a \in Actors |-> NoSecret]]
  /\ UNCHANGED <<ip, promise, messageVars, turn, workerVars>>

\* Session ids are not used twice: the name is free once nothing refers to it.
Forgotten(s) ==
  /\ NewTask /\ status[s] = "gone" /\ pc[s] = "idle"
  /\ \A w \in Workers :
       life[w] # "none" => s \notin attached[w] /\ w[2] # s
  /\ \A x \in Actors \X Ips :
       anonymous[x] # NoRecord => anonymous[x].session # s /\ anonymous[x].scope # s
  /\ \A p \in Promises : promise[p].session = s => promise[p].state # "saving"
  /\ status' = [status EXCEPT ![s] = "new"]
  /\ ip' = [ip EXCEPT ![s] = AnIp]
  /\ UNCHANGED <<promise, last, pending, messageVars, turn, workerVars>>

Unused(p) ==
  /\ promise[p].state # "saving"
  /\ \A s \in Sessions : awaits[s] # p /\ \A a \in Actors : pending[s][a] # p

\* The credentials handler runs synchronously up to store.save(); the promise
\* is in place when the next message arrives.
\* Mutant: only the first credentials of an actor put one in place.
BeginCredentialScopeOnce(s, a, p) ==
  pending' = IF pending[s][a] = 0 THEN [pending EXCEPT ![s][a] = p] ELSE pending
BeginCredentialScope(s, a, p) == pending' = [pending EXCEPT ![s][a] = p]

SubmitCredentials(s, a, c) ==
  /\ NewTask /\ status[s] = "open"
  /\ \E p \in Promises :
       /\ Unused(p) /\ \A q \in Promises : Unused(q) => p <= q
       /\ BeginCredentialScope(s, a, p)
       /\ promise' = [promise EXCEPT ![p] =
                        [session |-> s, secret |-> c, state |-> "saving"]]
  /\ last' = [last EXCEPT ![s][a] = c]
  /\ UNCHANGED <<status, ip, messageVars, turn, workerVars>>

Saving  == {p \in Promises : promise[p].state = "saving"}
Settled == {p \in Promises : promise[p].state \in {"stored", "failed"}}

\* Mutant of SettledAs: a failed save does not reject the promise.
SettledAsNever(ok) == IF ok THEN "stored" ELSE "lost"
SettledAs(ok) == IF ok THEN "stored" ELSE "failed"

\* Redis answers the saves P, or one of them fails; all sessions store through
\* one connection, so several answers may come in one read.
SavesAnswered(P, ok) ==
  /\ NewTask /\ P # {} /\ P \subseteq Saving /\ Cardinality(P) <= MaxReplies
  /\ ok \/ Cardinality(P) = 1
  /\ promise' = [p \in Promises |->
                   IF p \in P THEN [promise[p] EXCEPT !.state = SettledAs(ok)]
                              ELSE promise[p]]
  /\ turn' = {s \in Sessions : pc[s] = "waiting" /\ awaits[s] \in Settled'}
  /\ pc' = [s \in Sessions |-> IF s \in turn' THEN "resolving" ELSE pc[s]]
  /\ UNCHANGED <<status, ip, pending, last, actor, awaits, scope, due, workerVars>>

(***************************************************************************)
(* A message: resolveConnectionScope(), then ensureProcess()               *)
(***************************************************************************)
Message(s, a) ==
  /\ NewTask /\ status[s] = "open" /\ pc[s] = "idle"
  /\ actor' = [actor EXCEPT ![s] = a]
  /\ awaits' = [awaits EXCEPT ![s] = pending[s][a]]
  /\ due' = [due EXCEPT ![s] = last[s][a]]
  /\ IF pending[s][a] \in Settled \cup {0}
       THEN pc' = [pc EXCEPT ![s] = "resolving"] /\ turn' = {s}
       ELSE pc' = [pc EXCEPT ![s] = "waiting"] /\ UNCHANGED turn
  /\ UNCHANGED <<sessionVars, scope, workerVars>>

\* fingerprint() of the credentials the session submitted, if they have one.
Fingerprint(s) ==
  IF awaits[s] = 0 THEN NoSecret ELSE promise[awaits[s]].secret

\* anonymousScope(): the recorded scope if the record is the caller's own or
\* its client has gone, else the session's own.
AnonymousScope(s) ==
  LET record == anonymous[<<actor[s], ip[s]>>] IN
  IF /\ s \in Sockets /\ record # NoRecord
     /\ record.session = s \/ ~SocketIsLive(record.session)
    THEN record.scope ELSE s

\* get() settles: its locals are gone.
Settles(s) ==
  /\ pc' = [pc EXCEPT ![s] = "idle"] /\ turn' = turn \ {s}
  /\ actor' = [actor EXCEPT ![s] = AnActor]
  /\ awaits' = [awaits EXCEPT ![s] = 0]
  /\ scope' = [scope EXCEPT ![s] = s]
  /\ due' = [due EXCEPT ![s] = NoSecret]

ResolveConnectionScope(s) ==
  /\ s \in turn /\ pc[s] = "resolving"
  /\ IF awaits[s] # 0 /\ promise[awaits[s]].state = "failed"
       THEN Settles(s)   \* the action fails with the error of the credentials
       ELSE /\ pc' = [pc EXCEPT ![s] = "ensuring"]
            /\ awaits' = [awaits EXCEPT ![s] = 0]
            /\ scope' = [scope EXCEPT ![s] =
                           IF Fingerprint(s) # NoSecret THEN Fingerprint(s)
                                                        ELSE AnonymousScope(s)]
            /\ UNCHANGED <<turn, actor, due>>
  /\ UNCHANGED <<sessionVars, workerVars>>

\* Only a socket's session-derived scope can be resumed.
\* Mutant: an HTTP request's too.
ResumableEvenHttp(s) == scope[s] \notin Secrets
Resumable(s) == s \in Sockets /\ scope[s] \notin Secrets

\* rememberAnonymousScope(): another connected client keeps its record.
Remembered(s) ==
  LET x == <<actor[s], ip[s]>>
      existing == anonymous[x] IN
  IF \/ ~Resumable(s)
     \/ existing # NoRecord /\ existing.session # s /\ SocketIsLive(existing.session)
    THEN anonymous
    ELSE [anonymous EXCEPT ![x] = [scope |-> scope[s], session |-> s,
                                   worker |-> <<actor[s], scope[s]>>]]

\* forgetAnonymousScopes()
RecordOf(w, x) == anonymous[x] # NoRecord /\ anonymous[x].worker = w
Without(w) ==
  [x \in Actors \X Ips |-> IF RecordOf(w, x) THEN NoRecord ELSE anonymous[x]]

\* A worker that lives, if only until the signal of its teardown reaches it,
\* is reused; without one it is forked.
EnsureAttaches(s) ==
  LET w == <<actor[s], scope[s]>> IN
  /\ s \in turn /\ pc[s] = "ensuring" /\ \A t \in turn : pc[t] # "resolving"
  /\ life[w] \in {"none", "up", "dying"}
  /\ life' = IF life[w] = "none" THEN [life EXCEPT ![w] = "up"] ELSE life
  /\ attached' = [attached EXCEPT ![w] = @ \cup ({s} \ HttpSessions)]
  /\ anonymous' = Remembered(s)
  /\ Settles(s)
  /\ UNCHANGED sessionVars

\* A dead one is torn down first, unless it already is being.
EnsureAwaitsTeardown(s) ==
  LET w == <<actor[s], scope[s]>> IN
  /\ s \in turn /\ pc[s] = "ensuring" /\ \A t \in turn : pc[t] # "resolving"
  /\ life[w] \in {"crashed", "ending"}
  /\ life' = [life EXCEPT ![w] = "ending"]
  /\ anonymous' = IF life[w] = "crashed" THEN Without(w) ELSE anonymous
  /\ pc' = [pc EXCEPT ![s] = "blocked"] /\ turn' = turn \ {s}
  /\ UNCHANGED <<sessionVars, actor, awaits, scope, due, attached>>

(***************************************************************************)
(* Workers                                                                 *)
(***************************************************************************)
ChildDies(w) ==
  /\ NewTask /\ life[w] \in {"up", "dying"}
  /\ life' = [life EXCEPT ![w] = IF @ = "up" THEN "crashed" ELSE "ending"]
  /\ UNCHANGED <<sessionVars, messageVars, turn, attached, anonymous>>

\* PlatformInstance.shutdown(), for whichever reason.
TeardownStarts(w) ==
  /\ NewTask /\ life[w] \in {"up", "crashed"}
  /\ life' = [life EXCEPT ![w] = IF @ = "up" THEN "dying" ELSE "ending"]
  /\ anonymous' = Without(w)
  /\ UNCHANGED <<sessionVars, messageVars, turn, attached>>

\* The map entry goes, and the messages that awaited it go on.
TeardownEnds(w) ==
  /\ NewTask /\ life[w] \in {"dying", "ending"}
  /\ life' = [life EXCEPT ![w] = "none"]
  /\ attached' = [attached EXCEPT ![w] = {}]
  /\ turn' = {s \in Sessions : pc[s] = "blocked" /\ <<actor[s], scope[s]>> = w}
  /\ pc' = [s \in Sessions |-> IF s \in turn' THEN "ensuring" ELSE pc[s]]
  /\ UNCHANGED <<sessionVars, actor, awaits, scope, due, anonymous>>

\* reassignAnonymousScopes(): the records of a worker move to its new actor.
\* Mutant: they point to the new worker but stay with the old actor.
ReassignedInPlace(w, a) ==
  [x \in Actors \X Ips |->
     IF RecordOf(w, x) THEN [anonymous[x] EXCEPT !.worker = <<a, w[2]>>]
                       ELSE anonymous[x]]
Reassigned(w, a) ==
  [x \in Actors \X Ips |->
     CASE x[1] = a /\ (\E b \in Actors : RecordOf(w, <<b, x[2]>>)) ->
            [(CHOOSE r \in Records : \E b \in Actors :
                RecordOf(w, <<b, x[2]>>) /\ r = anonymous[<<b, x[2]>>])
              EXCEPT !.worker = <<a, w[2]>>]
       [] x[1] # a /\ RecordOf(w, x) -> NoRecord
       [] OTHER -> anonymous[x]]

\* updateIdentifier(): the actor of the worker changed.
Rekey(w, a) ==
  LET to == <<a, w[2]>> IN
  /\ NewTask /\ life[w] = "up" /\ life[to] = "none"
  /\ life' = [life EXCEPT ![w] = "none", ![to] = "up"]
  /\ attached' = [attached EXCEPT ![w] = {}, ![to] = attached[w]]
  /\ anonymous' = Reassigned(w, a)
  /\ UNCHANGED <<sessionVars, messageVars, turn>>

Next ==
  \/ \E s \in Sessions :
       \/ Connect(s) \/ Disconnect(s) \/ Forgotten(s)
       \/ \E a \in Actors :
            \/ Message(s, a)
            \/ \E c \in Secrets \cup {NoSecret} : SubmitCredentials(s, a, c)
       \/ ResolveConnectionScope(s)
       \/ EnsureAttaches(s) \/ EnsureAwaitsTeardown(s)
  \/ \E P \in SUBSET Promises, ok \in BOOLEAN : SavesAnswered(P, ok)
  \/ \E w \in Workers :
       \/ ChildDies(w) \/ TeardownStarts(w) \/ TeardownEnds(w)
       \/ \E a \in Actors \ {w[1]} : Rekey(w, a)

Spec == Init /\ [][Next]_vars

\* The event loop goes on, Redis answers, teardowns end.  The loop serves all
\* its sources in turn: what is ready between any two tasks is taken up (SF).
Fairness ==
  /\ \A s \in Sessions :
       WF_vars(ResolveConnectionScope(s) \/ EnsureAttaches(s) \/ EnsureAwaitsTeardown(s))
  /\ \A p \in Promises :
       SF_vars(\E P \in SUBSET Promises, ok \in BOOLEAN : p \in P /\ SavesAnswered(P, ok))
  /\ \A w \in Workers : SF_vars(TeardownEnds(w))

FairSpec == Spec /\ Fairness

(***************************************************************************)
(* Properties                                                              *)
(***************************************************************************)
\* Whatever the order of credentials, saves and messages, a message goes where
\* the credentials submitted before it lead: to the worker of their secret,
\* and to a session's own worker only if they have none.  A message that
\* overtakes the write of its credentials must not fork an anonymous worker.
ScopeFollowsCredentials ==
  \A s \in Sessions :
    pc[s] \in {"ensuring", "blocked"} =>
      IF scope[s] \in Secrets THEN due[s] = scope[s] ELSE due[s] = NoSecret

\* Whoever opened a connection without a secret never shares it while
\* connected: others are registered with a session's worker only once the
\* session it is named after has gone, however refreshes, crashes, teardowns
\* and changes of the actor come in between.
OwnWorkerIsPrivate ==
  \A w \in Workers :
    w[2] \in Sessions /\ status[w[2]] = "open" => attached[w] \subseteq {w[2]}

\* A record leads the messages of its actor to the worker it was made for, also
\* after that worker's actor changed: a refresh must neither miss the
\* connection nor be led to a worker of another actor.
RecordsFollowTheirWorker ==
  \A x \in Actors \X Ips :
    anonymous[x] # NoRecord => anonymous[x].worker = <<x[1], anonymous[x].scope>>

\* Every message comes to an end: no credentials promise, chain or teardown
\* keeps it for ever.
MessageSettles == \A s \in Sessions : pc[s] # "idle" ~> pc[s] = "idle"
=============================================================================
