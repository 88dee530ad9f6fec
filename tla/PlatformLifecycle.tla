------------------------- MODULE PlatformLifecycle -------------------------
(***************************************************************************)
(* The life of the platform child processes of a sockethub server:         *)
(* ProcessManager.get() and its per-identifier chain of ensureProcess      *)
(* runs, the PlatformInstance objects with their single-flight teardown,   *)
(* the child's deaths, hangs and fatal reports, the credential results     *)
(* that initialise or condemn an instance, and the Janitor's cycles.       *)
(*                                                                         *)
(* The server is one event loop: an action is a run of synchronous code    *)
(* between two awaits.  Redis and the children act in between.             *)
(***************************************************************************)
EXTENDS Naturals, Sequences, FiniteSets

CONSTANTS
  Identifiers,      \* platform instance ids (platform + actor + scope)
  Global,           \* the ids of the non-persistent platforms
  Sessions,         \* socket.io socket ids
  Http,             \* the caller that stands for HTTP requests (no socket)
  Instances,        \* PlatformInstance objects that can exist at one time
  NoInstance,
  MaxInstances,     \* limits:maxPlatformInstances, 0 = no cap
  MaxCredentialJobs,   \* bound: credential jobs without result in one queue
  MaxHttp,             \* bound: HTTP requests in flight on one instance
  MaxRedisFailures     \* bound: teardowns that Redis makes fail

Callers == Sessions \cup {Http}
Persistent == Identifiers \ Global

ASSUME ConstantsAssumption ==
  /\ Global \subseteq Identifiers
  /\ Identifiers # {} /\ IsFiniteSet(Identifiers)
  /\ Http \notin Sessions
  /\ NoInstance \notin Instances
  /\ MaxInstances \in Nat /\ MaxCredentialJobs \in Nat
  /\ MaxHttp \in Nat /\ MaxRedisFailures \in Nat

VARIABLES
  instanceAt,    \* platformInstances: id -> instance
  ident,         \* PlatformInstance.id
  stage,         \* where the object is in its life
  proc,          \* the forked child
  errorDue,      \* an "error" IPC message of the child is on its way
  flagged,       \* flaggedForTermination
  initialized,   \* PlatformInstance.initialized
  configured,    \* get() has assigned pi.config
  failing,       \* handleJobResult awaits queue.pause()
  sessions,      \* registered sessions
  pc,            \* where the caller's get() is
  want,          \* the identifier it asked for
  got,           \* the instance it awaits or returns
  chain,         \* ensureChains: id -> callers in order
  open,          \* sessions whose socket is connected
  http,          \* httpSessionsByPlatform
  paused,        \* queues with BullMQ's paused flag
  credJobs,      \* credential jobs in the queue without a result
  janitor,       \* a clean() cycle is running or not
  visited,       \* ids the cycle's Map iteration has passed
  janitorAwaits, \* the shutdown that the cycle awaits
  redisFailures

objectVars  == <<ident, proc, errorDue, flagged, initialized, configured,
                 failing, sessions>>
callerVars  == <<pc, want, got, chain>>
queueVars   == <<paused, credJobs, redisFailures>>
janitorVars == <<janitor, visited, janitorAwaits>>
vars == <<instanceAt, stage, objectVars, callerVars, open, http, queueVars,
          janitorVars>>

(***************************************************************************)
(* Vocabulary                                                              *)
(***************************************************************************)
Stages == {"unborn", "up", "pausing", "obliterating", "closing", "down"}
Teardown == {"pausing", "obliterating", "closing"}

Alive(i) == proc[i] \in {"running", "hung"}
AtHead(c) == chain[want[c]] # <<>> /\ Head(chain[want[c]]) = c
Occupied(id) == {k \in Identifiers \ {id} : instanceAt[k] # NoInstance}
HasCapacity(id) == MaxInstances = 0 \/ Cardinality(Occupied(id)) < MaxInstances

\* What is left in the janitor's view once stale socket sessions are removed.
LiveSessions(i) == sessions[i] \cap open
\* Mutants of Stale: the janitor looks at sockets only; it trusts an instance
\* that has sessions although it never initialised.
StaleBySocketsOnly(i) == ~initialized[i] \/ LiveSessions(i) = {}
StaleWithoutSessions(i) == LiveSessions(i) = {} /\ http[ident[i]] = 0
Stale(i) == \/ ~initialized[i]
            \/ LiveSessions(i) = {} /\ http[ident[i]] = 0
Reapable(i) == ident[i] \in Persistent /\ Stale(i)

TypeOK ==
  /\ instanceAt \in [Identifiers -> Instances \cup {NoInstance}]
  /\ ident \in [Instances -> Identifiers]
  /\ stage \in [Instances -> Stages]
  /\ proc \in [Instances -> {"none", "running", "hung", "exited"}]
  /\ errorDue \in [Instances -> BOOLEAN]
  /\ flagged \in [Instances -> BOOLEAN]
  /\ initialized \in [Instances -> BOOLEAN]
  /\ configured \in [Instances -> BOOLEAN]
  /\ failing \in [Instances -> BOOLEAN]
  /\ sessions \in [Instances -> SUBSET Sessions]
  /\ pc \in [Callers -> {"idle", "queued", "teardown", "return"}]
  /\ want \in [Callers -> Identifiers]
  /\ got \in [Callers -> Instances \cup {NoInstance}]
  /\ chain \in [Identifiers -> Seq(Callers)]
  /\ open \subseteq Sessions
  /\ http \in [Identifiers -> 0..MaxHttp]
  /\ paused \subseteq Identifiers
  /\ credJobs \in [Identifiers -> 0..MaxCredentialJobs]
  /\ janitor \in {"idle", "cleaning"}
  /\ visited \subseteq Identifiers
  /\ janitorAwaits \in Instances \cup {NoInstance}
  /\ redisFailures \in 0..MaxRedisFailures

\* The server starts with no platform; `Unborn' fields are what the
\* constructor assigns.
SomeId == CHOOSE id \in Identifiers : TRUE

Init ==
  /\ instanceAt = [id \in Identifiers |-> NoInstance]
  /\ ident = [i \in Instances |-> SomeId]
  /\ stage = [i \in Instances |-> "unborn"]
  /\ proc = [i \in Instances |-> "none"]
  /\ errorDue = [i \in Instances |-> FALSE]
  /\ flagged = [i \in Instances |-> FALSE]
  /\ initialized = [i \in Instances |-> FALSE]
  /\ configured = [i \in Instances |-> FALSE]
  /\ failing = [i \in Instances |-> FALSE]
  /\ sessions = [i \in Instances |-> {}]
  /\ pc = [c \in Callers |-> "idle"]
  /\ want = [c \in Callers |-> SomeId]
  /\ got = [c \in Callers |-> NoInstance]
  /\ chain = [id \in Identifiers |-> <<>>]
  /\ open = {}
  /\ http = [id \in Identifiers |-> 0]
  /\ paused = {}
  /\ credJobs = [id \in Identifiers |-> 0]
  /\ janitor = "idle"
  /\ visited = {}
  /\ janitorAwaits = NoInstance
  /\ redisFailures = 0

(***************************************************************************)
(* PlatformInstance.shutdown(): single-flight.  teardown() runs            *)
(* synchronously up to its first await: it flags the instance, takes every *)
(* listener off the child, kills it, and decides there and then whether    *)
(* the shared queue is obliterated ("pausing" first) or only closed.       *)
(***************************************************************************)
FirstStage(i, replaced) ==
  IF replaced \/ instanceAt[ident[i]] # i THEN "closing" ELSE "pausing"

Shutdown(i, replaced) ==
  /\ flagged' = [flagged EXCEPT ![i] = TRUE]
  /\ IF stage[i] = "up"
       THEN /\ stage' = [stage EXCEPT ![i] = FirstStage(i, replaced)]
            /\ errorDue' = [errorDue EXCEPT ![i] = FALSE]
       ELSE UNCHANGED <<stage, errorDue>>

\* The last synchronous part: forget the map entry, if it is still ours.  A
\* Map entry that is deleted loses its place in a running iteration.
EndTeardown(i) ==
  /\ stage' = [stage EXCEPT ![i] = "down"]
  /\ IF instanceAt[ident[i]] = i
       THEN /\ instanceAt' = [instanceAt EXCEPT ![ident[i]] = NoInstance]
            /\ visited' = visited \ {ident[i]}
       ELSE UNCHANGED <<instanceAt, visited>>

\* queue.shutdown(): pause unless paused, obliterate with force (jobs and the
\* paused flag go with the queue), close.
TeardownPause(i) ==
  /\ stage[i] = "pausing"
  /\ paused' = paused \cup {ident[i]}
  /\ stage' = [stage EXCEPT ![i] = "obliterating"]
  /\ UNCHANGED <<instanceAt, objectVars, callerVars, open, http, credJobs,
                 redisFailures, janitorVars>>

TeardownObliterate(i) ==
  /\ stage[i] = "obliterating"
  /\ paused' = paused \ {ident[i]}
  /\ credJobs' = [credJobs EXCEPT ![ident[i]] = 0]
  /\ stage' = [stage EXCEPT ![i] = "closing"]
  /\ UNCHANGED <<instanceAt, objectVars, callerVars, open, http,
                 redisFailures, janitorVars>>

TeardownClose(i) ==
  /\ stage[i] = "closing"
  /\ EndTeardown(i)
  /\ UNCHANGED <<objectVars, callerVars, open, http, queueVars, janitor,
                 janitorAwaits>>

\* Redis rejects one of the awaited commands: the error is swallowed and the
\* rest of queue.shutdown() is skipped.
TeardownFails(i) ==
  /\ stage[i] \in Teardown
  /\ redisFailures < MaxRedisFailures
  /\ redisFailures' = redisFailures + 1
  /\ EndTeardown(i)
  /\ UNCHANGED <<objectVars, callerVars, open, http, paused, credJobs,
                 janitor, janitorAwaits>>

(***************************************************************************)
(* ProcessManager.get()                                                    *)
(***************************************************************************)
\* The caller's run joins the chain of its identifier.
Get(c, id) ==
  /\ pc[c] = "idle"
  /\ c \in open \/ (c = Http /\ http[id] < MaxHttp)
  /\ pc' = [pc EXCEPT ![c] = "queued"]
  /\ want' = [want EXCEPT ![c] = id]
  /\ chain' = [chain EXCEPT ![id] = Append(@, c)]
  /\ UNCHANGED <<instanceAt, stage, objectVars, got, open, http, queueVars,
                 janitorVars>>

\* registerSession() and platformInstances.set() of the run's last part.
Attach(c, i, before) ==
  /\ sessions' = [before EXCEPT ![i] =
                    IF c \in Sessions /\ want[c] \in Persistent
                      THEN @ \cup {c} ELSE @]
  /\ instanceAt' = [instanceAt EXCEPT ![want[c]] = i]
  /\ pc' = [pc EXCEPT ![c] = "return"]
  /\ got' = [got EXCEPT ![c] = i]

\* createPlatformInstance(): fork, open the queue, attach the listeners.
Fork(c, i) ==
  /\ stage[i] = "unborn"
  /\ stage' = [stage EXCEPT ![i] = "up"]
  /\ proc' = [proc EXCEPT ![i] = "running"]
  /\ ident' = [ident EXCEPT ![i] = want[c]]
  /\ Attach(c, i, sessions)
  /\ UNCHANGED <<errorDue, flagged, initialized, configured, failing, want,
                 chain, open, http, queueVars, janitorVars>>

\* The map holds a live child: reuse it, whatever its object is going through.
EnsureReuses(c) ==
  LET i == instanceAt[want[c]] IN
  /\ pc[c] = "queued" /\ AtHead(c)
  /\ i # NoInstance /\ Alive(i)
  /\ Attach(c, i, sessions)
  /\ UNCHANGED <<stage, ident, proc, errorDue, flagged, initialized,
                 configured, failing, want, chain, open, http, queueVars,
                 janitorVars>>

Unusable(c) ==
  instanceAt[want[c]] # NoInstance => ~Alive(instanceAt[want[c]])

\* The run settled: the next of the chain may start.
\* Mutant: the chain is not told.
LeaveChainNever(c) == UNCHANGED chain
LeaveChain(c) == chain' = [chain EXCEPT ![want[c]] = Tail(@)]

\* assertInstanceCapacity() throws; the run settles and frees the chain.
EnsureRefused(c) ==
  /\ pc[c] = "queued" /\ AtHead(c)
  /\ Unusable(c) /\ ~HasCapacity(want[c])
  /\ pc' = [pc EXCEPT ![c] = "idle"]
  /\ LeaveChain(c)
  /\ UNCHANGED <<instanceAt, stage, objectVars, want, got, open, http,
                 queueVars, janitorVars>>

\* Mutant: a dead predecessor is overwritten, not torn down.
EnsureCreatesOverTheDead(c, i) ==
  /\ pc[c] = "queued" /\ AtHead(c)
  /\ Unusable(c) /\ HasCapacity(want[c])
  /\ Fork(c, i)

EnsureCreates(c, i) ==
  /\ pc[c] = "queued" /\ AtHead(c)
  /\ instanceAt[want[c]] = NoInstance /\ HasCapacity(want[c])
  /\ Fork(c, i)

\* A dead predecessor: markReplaced(), then await its shutdown().
EnsureReplaces(c) ==
  LET i == instanceAt[want[c]] IN
  /\ pc[c] = "queued" /\ AtHead(c)
  /\ i # NoInstance /\ ~Alive(i) /\ HasCapacity(want[c])
  /\ Shutdown(i, TRUE)
  /\ pc' = [pc EXCEPT ![c] = "teardown"]
  /\ got' = [got EXCEPT ![c] = i]
  /\ UNCHANGED <<instanceAt, ident, proc, initialized, configured, failing,
                 sessions, want, chain, open, http, queueVars, janitorVars>>

\* Mutant: the predecessor's shutdown() is not awaited.
EnsureCreatesDuringTeardown(c, i) ==
  /\ pc[c] = "teardown"
  /\ Fork(c, i)

EnsureCreatesAfterTeardown(c, i) ==
  /\ pc[c] = "teardown" /\ stage[got[c]] = "down"
  /\ Fork(c, i)

\* get() returns: it assigns pi.config, an HTTP caller registers itself, and
\* the message handler adds its job, which may be one that needs credentials,
\* unless the queue is paused or already given up.
GetReturns(c, credential) ==
  LET i == got[c] IN
  /\ pc[c] = "return"
  /\ configured' = [configured EXCEPT ![i] = TRUE]
  /\ pc' = [pc EXCEPT ![c] = "idle"]
  /\ got' = [got EXCEPT ![c] = NoInstance]
  /\ LeaveChain(c)
  /\ http' = IF c = Http THEN [http EXCEPT ![want[c]] = @ + 1] ELSE http
  /\ IF credential
       THEN /\ want[c] \in Persistent \ paused /\ stage[i] # "down"
            /\ credJobs[want[c]] < MaxCredentialJobs
            /\ credJobs' = [credJobs EXCEPT ![want[c]] = @ + 1]
       ELSE UNCHANGED credJobs
  /\ UNCHANGED <<instanceAt, stage, ident, proc, errorDue, flagged,
                 initialized, failing, sessions, want, open, paused,
                 redisFailures, janitorVars>>

\* The HTTP request finishes: unregisterHttpSession().
\* Mutant: the count is taken down whatever it is.
HttpEndsTwice(id) ==
  /\ http' = [http EXCEPT ![id] = @ - 1]
  /\ UNCHANGED <<instanceAt, stage, objectVars, callerVars, open, queueVars,
                 janitorVars>>

HttpEnds(id) ==
  /\ http[id] > 0
  /\ http' = [http EXCEPT ![id] = @ - 1]
  /\ UNCHANGED <<instanceAt, stage, objectVars, callerVars, open, queueVars,
                 janitorVars>>

(***************************************************************************)
(* The child process and what the parent's listeners do about it           *)
(***************************************************************************)
\* It ends by itself, or by the SIGTERM that teardown() sent.
ChildExits(i) ==
  /\ Alive(i)
  /\ proc' = [proc EXCEPT ![i] = "exited"]
  /\ UNCHANGED <<instanceAt, stage, ident, errorDue, flagged, initialized,
                 configured, failing, sessions, callerVars, open, http,
                 queueVars, janitorVars>>

ChildHangs(i) ==
  /\ proc[i] = "running"
  /\ proc' = [proc EXCEPT ![i] = "hung"]
  /\ UNCHANGED <<instanceAt, stage, ident, errorDue, flagged, initialized,
                 configured, failing, sessions, callerVars, open, http,
                 queueVars, janitorVars>>

\* reportFatal(): ["error", ...] is sent before the child exits.
ChildReportsFatal(i) ==
  /\ proc[i] = "running" /\ stage[i] = "up" /\ ~errorDue[i]
  /\ errorDue' = [errorDue EXCEPT ![i] = TRUE]
  /\ UNCHANGED <<instanceAt, stage, ident, proc, flagged, initialized,
                 configured, failing, sessions, callerVars, open, http,
                 queueVars, janitorVars>>

\* broadcastFatalError(): every session is told, the set cleared.
BroadcastFatalError(i) ==
  /\ sessions' = [sessions EXCEPT ![i] = {}]
  /\ Shutdown(i, FALSE)

HandleErrorMessage(i) ==
  /\ stage[i] = "up" /\ errorDue[i]
  /\ BroadcastFatalError(i)
  /\ UNCHANGED <<instanceAt, ident, proc, initialized, configured, failing,
                 callerVars, open, http, queueVars, janitorVars>>

\* 'close' comes after the exit and after the IPC channel is drained.
HandleProcessClose(i) ==
  /\ stage[i] = "up" /\ proc[i] = "exited" /\ ~errorDue[i]
  /\ IF ~flagged[i]
       THEN BroadcastFatalError(i)
       ELSE Shutdown(i, FALSE) /\ UNCHANGED sessions
  /\ UNCHANGED <<instanceAt, ident, proc, initialized, configured, failing,
                 callerVars, open, http, queueVars, janitorVars>>

\* The heartbeat monitor leaves flagged instances alone.
HeartbeatTimeout(i) ==
  /\ stage[i] = "up" /\ proc[i] = "hung" /\ ~flagged[i]
  /\ Shutdown(i, FALSE)
  /\ UNCHANGED <<instanceAt, ident, proc, initialized, configured, failing,
                 sessions, callerVars, open, http, queueVars, janitorVars>>

\* The child could not match the session's credentials with its connection.
SessionUnauthorized(i, s) ==
  /\ stage[i] = "up" /\ proc[i] = "running"
  /\ s \in sessions[i] /\ ident[i] \in Persistent
  /\ sessions' = [sessions EXCEPT ![i] = @ \ {s}]
  /\ UNCHANGED <<instanceAt, stage, ident, proc, errorDue, flagged,
                 initialized, configured, failing, callerVars, open, http,
                 queueVars, janitorVars>>

(***************************************************************************)
(* handleJobResult() for jobs that require credentials.  A result that is   *)
(* still on its way when the child ends or hangs may as well be taken just *)
(* before: what sees the difference tears the instance down.               *)
(***************************************************************************)
TakeCredentialResult(i) ==
  /\ stage[i] = "up" /\ proc[i] = "running" /\ ident[i] \in Persistent
  /\ configured[i] /\ ~failing[i]
  /\ credJobs[ident[i]] > 0
  /\ credJobs' = [credJobs EXCEPT ![ident[i]] = @ - 1]

CredentialJobSucceeds(i) ==
  /\ TakeCredentialResult(i)
  /\ initialized' = [initialized EXCEPT ![i] = TRUE]
  /\ flagged' = [flagged EXCEPT ![i] = FALSE]
  /\ paused' = paused \ {ident[i]}
  /\ UNCHANGED <<instanceAt, stage, ident, proc, errorDue, configured,
                 failing, sessions, callerVars, open, http, redisFailures,
                 janitorVars>>

\* The failure pauses the queue and awaits that, unless already initialised.
CredentialJobFails(i) ==
  /\ TakeCredentialResult(i)
  /\ IF initialized[i]
       THEN UNCHANGED <<failing, paused>>
       ELSE /\ failing' = [failing EXCEPT ![i] = TRUE]
            /\ paused' = paused \cup {ident[i]}
  /\ UNCHANGED <<instanceAt, stage, ident, proc, errorDue, flagged,
                 initialized, configured, sessions, callerVars, open, http,
                 redisFailures, janitorVars>>

CredentialFailurePaused(i) ==
  /\ failing[i]
  /\ failing' = [failing EXCEPT ![i] = FALSE]
  /\ initialized' = [initialized EXCEPT ![i] = FALSE]
  /\ flagged' = [flagged EXCEPT ![i] = TRUE]
  /\ UNCHANGED <<instanceAt, stage, ident, proc, errorDue, configured,
                 sessions, callerVars, open, http, queueVars, janitorVars>>

(***************************************************************************)
(* Janitor.clean(): one pass over the live Map, awaiting every check       *)
(***************************************************************************)
JanitorStarts ==
  /\ janitor = "idle"
  /\ janitor' = "cleaning" /\ visited' = {}
  /\ UNCHANGED <<instanceAt, stage, objectVars, callerVars, open, http,
                 queueVars, janitorAwaits>>

\* runCleanCycle() catches the error and resets cycleRunning.
\* Mutant: it does not, and every later clean() throws.
GiveUpCycleRunning == janitor' = "running" /\ visited' = {}
GiveUpCycle == janitor' = "idle" /\ visited' = {}

\* performStaleCheck() of a global platform removes nothing and ends nothing.
JanitorChecks(id) ==
  LET i == instanceAt[id] IN
  /\ janitor = "cleaning" /\ janitorAwaits = NoInstance
  /\ i # NoInstance /\ id \notin visited
  /\ sessions' = [sessions EXCEPT ![i] = LiveSessions(i)]
  /\ IF id \in Persistent /\ ~configured[i]
       THEN \* reading config.persist throws: the cycle is given up
            /\ GiveUpCycle
            /\ UNCHANGED <<stage, flagged, errorDue, janitorAwaits>>
       ELSE /\ visited' = visited \cup {id}
            /\ UNCHANGED janitor
            /\ IF ~Reapable(i)
                 THEN UNCHANGED <<stage, flagged, errorDue, janitorAwaits>>
                 ELSE IF flagged[i]
                        THEN Shutdown(i, FALSE) /\ janitorAwaits' = i
                        ELSE /\ flagged' = [flagged EXCEPT ![i] = TRUE]
                             /\ UNCHANGED <<stage, errorDue, janitorAwaits>>
  /\ UNCHANGED <<instanceAt, ident, proc, initialized, configured, failing,
                 callerVars, open, http, queueVars>>

JanitorResumes ==
  /\ janitorAwaits # NoInstance /\ stage[janitorAwaits] = "down"
  /\ janitorAwaits' = NoInstance
  /\ UNCHANGED <<instanceAt, stage, objectVars, callerVars, open, http,
                 queueVars, janitor, visited>>

JanitorEnds ==
  /\ janitor = "cleaning" /\ janitorAwaits = NoInstance
  /\ \A id \in Identifiers : instanceAt[id] # NoInstance => id \in visited
  /\ janitor' = "idle" /\ visited' = {}
  /\ UNCHANGED <<instanceAt, stage, objectVars, callerVars, open, http,
                 queueVars, janitorAwaits>>

(***************************************************************************)
(* Sockets.  A socket id is never used twice: a name of Sessions is given  *)
(* to a new socket once nothing refers to the old one.                     *)
(***************************************************************************)
SocketConnects(s) ==
  /\ s \notin open /\ pc[s] = "idle"
  /\ \A i \in Instances : s \notin sessions[i]
  /\ open' = open \cup {s}
  /\ UNCHANGED <<instanceAt, stage, objectVars, callerVars, http, queueVars,
                 janitorVars>>

SocketDisconnects(s) ==
  /\ s \in open
  /\ open' = open \ {s}
  /\ UNCHANGED <<instanceAt, stage, objectVars, callerVars, http, queueVars,
                 janitorVars>>

\* An object that is down, whose child is gone and that nothing refers to is
\* garbage: its name becomes available for another one.
Collected(i) ==
  /\ stage[i] = "down" /\ ~Alive(i) /\ ~failing[i]
  /\ janitorAwaits # i
  /\ \A c \in Callers : got[c] # i
  /\ stage' = [stage EXCEPT ![i] = "unborn"]
  /\ proc' = [proc EXCEPT ![i] = "none"]
  /\ ident' = [ident EXCEPT ![i] = SomeId]
  /\ flagged' = [flagged EXCEPT ![i] = FALSE]
  /\ initialized' = [initialized EXCEPT ![i] = FALSE]
  /\ configured' = [configured EXCEPT ![i] = FALSE]
  /\ sessions' = [sessions EXCEPT ![i] = {}]
  /\ UNCHANGED <<instanceAt, errorDue, failing, callerVars, open, http,
                 queueVars, janitorVars>>

CallerStep(c) ==
  \/ \E id \in Identifiers : Get(c, id)
  \/ EnsureReuses(c) \/ EnsureRefused(c) \/ EnsureReplaces(c)
  \/ \E i \in Instances : EnsureCreates(c, i) \/ EnsureCreatesAfterTeardown(c, i)
  \/ \E credential \in BOOLEAN : GetReturns(c, credential)

InstanceStep(i) ==
  \/ TeardownPause(i) \/ TeardownObliterate(i) \/ TeardownClose(i)
  \/ TeardownFails(i)
  \/ ChildExits(i) \/ ChildHangs(i) \/ ChildReportsFatal(i)
  \/ HandleErrorMessage(i) \/ HandleProcessClose(i) \/ HeartbeatTimeout(i)
  \/ \E s \in Sessions : SessionUnauthorized(i, s)
  \/ CredentialJobSucceeds(i) \/ CredentialJobFails(i)
  \/ CredentialFailurePaused(i)
  \/ Collected(i)

JanitorStep ==
  \/ JanitorStarts \/ JanitorResumes \/ JanitorEnds
  \/ \E id \in Identifiers : JanitorChecks(id)

Next ==
  \/ \E c \in Callers : CallerStep(c)
  \/ \E i \in Instances : InstanceStep(i)
  \/ JanitorStep
  \/ \E id \in Identifiers : HttpEnds(id)
  \/ \E s \in Sessions : SocketConnects(s) \/ SocketDisconnects(s)

Spec == Init /\ [][Next]_vars

(***************************************************************************)
(* Fairness: the event loop runs what is ready, Redis answers, a killed    *)
(* child ends, a dead child's events are delivered, the janitor's timer    *)
(* and the heartbeat monitor fire.  Clients, requests and credential       *)
(* results are free to stop.                                               *)
(***************************************************************************)
KilledChildExits(i) == stage[i] # "up" /\ ChildExits(i)
TeardownStep(i) == TeardownPause(i) \/ TeardownObliterate(i) \/ TeardownClose(i)
EnsureStep(c) ==
  \/ EnsureReuses(c) \/ EnsureRefused(c) \/ EnsureReplaces(c)
  \/ \E i \in Instances : EnsureCreates(c, i) \/ EnsureCreatesAfterTeardown(c, i)
  \/ GetReturns(c, FALSE)

Fairness ==
  /\ \A c \in Callers : WF_vars(EnsureStep(c))
  /\ \A i \in Instances :
       /\ WF_vars(TeardownStep(i)) /\ WF_vars(KilledChildExits(i))
       /\ WF_vars(HandleErrorMessage(i)) /\ WF_vars(HandleProcessClose(i))
       /\ WF_vars(HeartbeatTimeout(i)) /\ WF_vars(CredentialFailurePaused(i))
       /\ WF_vars(Collected(i))
  /\ WF_vars(JanitorStep)

FairSpec == Spec /\ Fairness

(***************************************************************************)
(* Properties                                                              *)
(***************************************************************************)
\* An instance whose teardown has not begun is the one its id leads to: get()
\* and the janitor can find it, so no child is ever left without an owner and
\* no two children serve one id (the duplicate children of #1166).
NoOrphan == \A i \in Instances : stage[i] = "up" => instanceAt[ident[i]] = i

\* While an instance pauses or obliterates the Redis queue of its id, no other
\* instance lives under that id: a crash-close teardown never destroys the
\* jobs of a replacement (#1166).
QueueDestroyerIsAlone ==
  \A i, j \in Instances :
    /\ stage[i] \in {"pausing", "obliterating"}
    /\ i # j /\ ident[j] = ident[i]
    => stage[j] # "up"

\* A map entry changes hands only by the end of its holder's own teardown:
\* the holder is never overwritten by, nor evicted for, another instance.
EntryLeavesWithItsTeardown ==
  [][\A id \in Identifiers :
       LET i == instanceAt[id] IN
       i # NoInstance /\ instanceAt'[id] # i
         => /\ stage[i] \in Teardown /\ stage'[i] = "down"
            /\ instanceAt'[id] = NoInstance]_vars

\* The queue of an identifier passes from instance to instance as
\* QueueOwnership promises: the owner is the holder of the map entry, and what
\* it does to the queue follows from the stage of its life.
OwnershipPhase(i) ==
  CASE stage[i] = "up" -> "held"
    [] stage[i] \in {"pausing", "obliterating"} -> "wiping"
    [] OTHER -> "leaving"
Ownership == INSTANCE QueueOwnership WITH
  owner <- instanceAt,
  phase <- [id \in Identifiers |->
              IF instanceAt[id] = NoInstance THEN "free"
              ELSE OwnershipPhase(instanceAt[id])]
ImplementsOwnership == Ownership!Spec

\* Nobody ends a useful instance: a teardown begins only when the child died,
\* hung or reported a fatal error, or when the instance of a persistent
\* platform is uninitialised or used by no connected socket and no HTTP
\* request.  An instance of a global platform ends only with its child.
OnlyUselessIsEnded ==
  [][\A i \in Instances :
       stage[i] = "up" /\ stage'[i] # "up"
         => \/ proc[i] # "running" \/ errorDue[i]
            \/ /\ ident[i] \in Persistent
               /\ initialized[i]
                    => sessions[i] \cap open = {} /\ http[ident[i]] = 0]_vars

\* Every get() settles, whatever happens to the child it finds or forks, and
\* however many runs wait before it in the identifier's chain.
GetSettles == \A c \in Callers : pc[c] # "idle" ~> pc[c] = "idle"

\* No instance keeps a paused queue for good, where every add() is refused:
\* the janitor removes the instance, and the paused flag with its queue, or a
\* credential job resumes it.  This is about the pause of handleJobResult()
\* when it outlives its instance: a replacement that only found the dead
\* child's object inherits the paused queue and never paused it itself.
PausedQueueIsLeft ==
  \A id \in Persistent, i \in Instances :
    ~ <>[](id \in paused /\ instanceAt[id] = i)

\* An instance of a persistent platform that no connected socket, no HTTP
\* request and no get() uses any more is torn down.
Unused(i) ==
  /\ stage[i] = "up" /\ ident[i] \in Persistent
  /\ LiveSessions(i) = {} /\ http[ident[i]] = 0
  /\ \A c \in Callers : pc[c] # "idle" => want[c] # ident[i]
UnusedIsReaped == \A i \in Instances : ~ <>[]Unused(i)
=============================================================================
