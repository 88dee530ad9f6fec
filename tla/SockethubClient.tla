--------------------------- MODULE SockethubClient ---------------------------
(***************************************************************************)
(* The client library (packages/client/src/sockethub-client.ts): the       *)
(* handshake for the schema registry on every connection, the queue of     *)
(* what the application emits before the client is ready, and the replay   *)
(* of credentials, connects and joins on the next connection.              *)
(***************************************************************************)
EXTENDS Naturals, FiniteSets, SequencesExt

CONSTANTS
  Messages,    \* each emitted once by the application
  Kind, Key,   \* their event or type, and getKey(): platform, actor, target
  Invalid,     \* those that fail validation against the registry
  Calls,       \* calls of ready() without a time-out
  Registries,  \* the server's registries, as their fingerprints tell them apart
  NoRegistry,
  MaxQueued,   \* maxQueuedOutbound
  MaxConnects  \* bound: connections

Kinds == {"credentials", "connect", "join", "leave", "disconnect", "other"}

ASSUME ClientAssumption ==
  /\ IsFiniteSet(Messages) /\ Invalid \subseteq Messages
  /\ Kind \in [Messages -> Kinds] /\ DOMAIN Key = Messages
  /\ NoRegistry \notin Registries /\ MaxQueued \in Nat /\ MaxConnects \in Nat

VARIABLES
  connected, connects,
  server,      \* the registry of the server at the other end
  asked,       \* the request for the registry is under way
  initState,
  initCycle,   \* there is a cycle, hence a replay when the client gets ready
  initTimer,   \* initTimeoutTimer is set
  registry,    \* platformRegistry, with its fingerprint
  queue,       \* outboundQueue; an entry may be older than maxQueuedAgeMs
  traffic,     \* the maps kept for replay, and what became of the messages
  emitted,     \* history: the messages in the order of their emit()
  heard,       \* history: those emitted by a listener of "ready"
  calls        \* readyWaiters

connVars == <<connected, connects, server, asked>>
initVars == <<initState, initCycle, initTimer, registry>>
appVars  == <<emitted, heard>>
vars == <<connVars, initVars, queue, traffic, appVars, calls>>

TrafficType ==
  [credentials : Seq(Messages), connect : Seq(Messages), join : Seq(Messages),
   wire    : Seq([msg : Messages, replayed : BOOLEAN]),  \* of this connection
   sent    : Seq(Messages),      \* of all connections, replays left out
   refused : SUBSET Messages]    \* answered with an error by the client itself

TypeOK ==
  /\ connected \in BOOLEAN /\ connects \in 0..MaxConnects
  /\ server \in Registries /\ registry \in Registries \cup {NoRegistry}
  /\ asked \in BOOLEAN /\ initCycle \in BOOLEAN /\ initTimer \in BOOLEAN
  /\ initState \in {"idle", "initializing", "ready", "init_error"}
  /\ queue \in Seq([msg : Messages, old : BOOLEAN]) /\ Len(queue) <= MaxQueued
  /\ traffic \in TrafficType
  /\ emitted \in Seq(Messages) /\ heard \subseteq Messages
  /\ calls \in [Calls -> {"none", "waiting", "resolved"}]

Init ==
  /\ connected = FALSE /\ connects = 0 /\ server \in Registries /\ asked = FALSE
  /\ initState = "idle" /\ initCycle = FALSE /\ initTimer = FALSE /\ registry = NoRegistry
  /\ queue = << >> /\ emitted = << >> /\ heard = {}
  /\ traffic = [credentials |-> << >>, connect |-> << >>, join |-> << >>,
                wire |-> << >>, sent |-> << >>, refused |-> {}]
  /\ calls = [k \in Calls |-> "none"]

-----------------------------------------------------------------------------
(* The maps kept for replay: JavaScript's, in the order of insertion. *)

Has(map, m) == \E k \in DOMAIN map : Key[map[k]] = Key[m]

MapSet(map, m) ==
  IF Has(map, m)
  THEN [k \in DOMAIN map |-> IF Key[map[k]] = Key[m] THEN m ELSE map[k]]
  ELSE Append(map, m)

MapDelete(map, m) ==
  IF Has(map, m)
  THEN RemoveAt(map, CHOOSE k \in DOMAIN map : Key[map[k]] = Key[m])
  ELSE map

\* eventCredentials() and eventMessage().
Stored(t, m) ==
  CASE Kind[m] = "credentials" -> [t EXCEPT !.credentials = MapSet(@, m)]
    [] Kind[m] = "connect"     -> [t EXCEPT !.connect = MapSet(@, m)]
    [] Kind[m] = "join"        -> [t EXCEPT !.join = MapSet(@, m)]
    [] Kind[m] = "leave"       -> [t EXCEPT !.join = MapDelete(@, m)]
    [] Kind[m] = "disconnect"  -> [t EXCEPT !.connect = MapDelete(@, m)]
    [] Kind[m] = "other"       -> t

\* sendOutbound().
Transmitted(t, m) ==
  IF m \in Invalid
  THEN [t EXCEPT !.refused = @ \cup {m}]
  ELSE [Stored(t, m) EXCEPT !.wire = Append(@, [msg |-> m, replayed |-> FALSE]),
                            !.sent = Append(@, m)]

\* replay() of the three maps.
Replayed(t) ==
  LET all == t.credentials \o t.connect \o t.join
  IN  [t EXCEPT !.wire = @ \o [k \in DOMAIN all |-> [msg |-> all[k], replayed |-> TRUE]]]

\* An entry of the queue is sent, unless it is too old.
SentIfYoung(t, e) ==
  IF e.old THEN [t EXCEPT !.refused = @ \cup {e.msg}] ELSE Transmitted(t, e.msg)

\* flushOutboundQueue().
Flushed(t) ==
  LET upTo[k \in 0..Len(queue)] ==
        IF k = 0 THEN t ELSE SentIfYoung(upTo[k - 1], queue[k])
  IN  upTo[Len(queue)]

-----------------------------------------------------------------------------
(* The application. *)

\* What a listener of "ready" emits within the event, and has sent at once:
\* a message or nothing.
ListenerEmits(said) ==
  /\ \A k \in DOMAIN said : said[k] \notin ToSet(emitted)
  /\ emitted' = emitted \o said
  /\ heard' = heard \cup ToSet(said)

Answered(t, said) == IF said = << >> THEN t ELSE Transmitted(t, Head(said))

EnqueueUnbounded(m) ==
  /\ queue' = Append(queue, [msg |-> m, old |-> FALSE])
  /\ UNCHANGED traffic

\* enqueueOutbound(): the oldest entry makes room.
Enqueue(m) ==
  LET longer == Append(queue, [msg |-> m, old |-> FALSE])
  IN  IF Len(longer) <= MaxQueued
      THEN queue' = longer /\ UNCHANGED traffic
      ELSE /\ queue' = Tail(longer)
           /\ traffic' = [traffic EXCEPT !.refused = @ \cup {Head(longer).msg}]

EmitOnceConnected(m) ==
  /\ m \notin ToSet(emitted)
  /\ emitted' = Append(emitted, m)
  /\ \/ ~connected /\ Enqueue(m)
     \/ connected /\ traffic' = Transmitted(traffic, m) /\ UNCHANGED queue
  /\ UNCHANGED <<connVars, initVars, heard, calls>>

\* handlePublicEmit().
Emit(m) ==
  /\ m \notin ToSet(emitted)
  /\ emitted' = Append(emitted, m)
  /\ \/ initState # "ready" /\ Enqueue(m)
     \/ initState = "ready" /\ traffic' = Transmitted(traffic, m) /\ UNCHANGED queue
  /\ UNCHANGED <<connVars, initVars, heard, calls>>

\* Time passes: the oldest entries of the queue get too old to be sent.
Age ==
  /\ \E k \in DOMAIN queue :
       /\ ~ queue[k].old
       /\ queue' = [j \in DOMAIN queue |-> [queue[j] EXCEPT !.old = @ \/ j <= k]]
  /\ UNCHANGED <<connVars, initVars, traffic, appVars, calls>>

ClearCredentials ==
  /\ traffic.credentials # << >>
  /\ traffic' = [traffic EXCEPT !.credentials = << >>]
  /\ UNCHANGED <<connVars, initVars, queue, appVars, calls>>

Ready(k) ==
  /\ calls[k] = "none"
  /\ calls' = [calls EXCEPT ![k] = IF initState = "ready" THEN "resolved" ELSE "waiting"]
  /\ UNCHANGED <<connVars, initVars, queue, traffic, appVars>>

-----------------------------------------------------------------------------
(* The connection and its handshake. *)

StartWithoutReplay ==
  /\ initCycle' = FALSE /\ initState' = "initializing" /\ initTimer' = TRUE
  /\ asked' = TRUE

\* startInitialization(), which asks for the registry.
StartInitialization ==
  /\ initCycle' = TRUE /\ initState' = "initializing" /\ initTimer' = TRUE
  /\ asked' = TRUE

Connect ==
  /\ ~connected /\ connects < MaxConnects
  /\ connected' = TRUE /\ connects' = connects + 1
  /\ traffic' = [traffic EXCEPT !.wire = << >>]
  /\ StartInitialization
  /\ UNCHANGED <<server, registry, queue, appVars, calls>>

\* An answer under way is lost; the server may come back with another registry.
Disconnect ==
  /\ connected
  /\ connected' = FALSE /\ asked' = FALSE /\ server' \in Registries
  /\ initState' = "idle" /\ initTimer' = FALSE
  /\ UNCHANGED <<connects, initCycle, registry, queue, traffic, appVars, calls>>

\* The timer of startInitialization(): an error is reported, the cycle goes on.
InitTimeout ==
  /\ initTimer
  /\ initState' = "init_error" /\ initTimer' = FALSE
  /\ UNCHANGED <<connVars, initCycle, registry, queue, traffic, appVars, calls>>

\* markReady(): the listeners of "ready", the replay, the queue.
MarkReadyFlushingFirst(said) ==
  /\ initState' = "ready" /\ initCycle' = FALSE /\ initTimer' = FALSE
  /\ calls' = [k \in Calls |-> IF calls[k] = "waiting" THEN "resolved" ELSE calls[k]]
  /\ ListenerEmits(said)
  /\ LET answered == Flushed(Answered(traffic, said))
     IN  traffic' = IF initCycle THEN Replayed(answered) ELSE answered
  /\ queue' = << >>

MarkReadyKeepingTheQueue(said) ==
  /\ initState' = "ready" /\ initCycle' = FALSE /\ initTimer' = FALSE
  /\ calls' = [k \in Calls |-> IF calls[k] = "waiting" THEN "resolved" ELSE calls[k]]
  /\ ListenerEmits(said)
  /\ LET answered == Answered(traffic, said)
     IN  traffic' = Flushed(IF initCycle THEN Replayed(answered) ELSE answered)
  /\ UNCHANGED queue

MarkReady(said) ==
  /\ initState' = "ready" /\ initCycle' = FALSE /\ initTimer' = FALSE
  /\ calls' = [k \in Calls |-> IF calls[k] = "waiting" THEN "resolved" ELSE calls[k]]
  /\ ListenerEmits(said)
  /\ LET answered == Answered(traffic, said)
     IN  traffic' = Flushed(IF initCycle THEN Replayed(answered) ELSE answered)
  /\ queue' = << >>

KeepRegistry == registry' = IF registry = NoRegistry THEN server ELSE registry

\* The server's answer: "unchanged" if the fingerprint in the request is its
\* own, else its registry, which the client takes over.
ApplyRegistry == registry' = IF registry = server THEN registry ELSE server

RegistryArrivesInTime(said) ==
  /\ asked /\ asked' = FALSE /\ initState = "initializing"
  /\ ApplyRegistry /\ MarkReady(said)
  /\ UNCHANGED <<connected, connects, server>>

\* handleSchemasPayload(), the time-out passed or not.
RegistryArrives(said) ==
  /\ asked /\ asked' = FALSE
  /\ ApplyRegistry /\ MarkReady(said)
  /\ UNCHANGED <<connected, connects, server>>

Next ==
  \/ \E m \in Messages : Emit(m)
  \/ Age \/ ClearCredentials \/ \E k \in Calls : Ready(k)
  \/ Connect \/ Disconnect \/ InitTimeout
  \/ RegistryArrives(<< >>) \/ \E m \in Messages : RegistryArrives(<<m>>)

Spec == Init /\ [][Next]_vars

\* The server answers every request for the registry that reaches it.
FairSpec == Spec /\ WF_vars(RegistryArrives(<< >>) \/ \E m \in Messages : RegistryArrives(<<m>>))

-----------------------------------------------------------------------------
(* Properties. *)

Copies(m, seq) == Cardinality({k \in DOMAIN seq : seq[k] = m})
Queued == [k \in DOMAIN queue |-> queue[k].msg]

\* Through disconnects, time-outs, overflow and expiry: what the application
\* emitted waits once, was sent once, or was answered with an error.
EveryMessageIsAccountedFor ==
  \A m \in ToSet(emitted) :
    Copies(m, Queued) + Copies(m, traffic.sent) + (IF m \in traffic.refused THEN 1 ELSE 0) = 1

\* A ready client has told this connection's server of all credentials,
\* connects and joins it would replay on the next one (replay(), markReady()).
SessionIsRestored ==
  initState = "ready" =>
    ToSet(traffic.credentials \o traffic.connect \o traffic.join)
      \subseteq {traffic.wire[k].msg : k \in DOMAIN traffic.wire}

\* On each connection the replay precedes all messages, but for those that a
\* listener of "ready" emits (the comment in markReady()).
ReplayComesFirst ==
  \A j, k \in DOMAIN traffic.wire :
    j < k /\ traffic.wire[k].replayed /\ ~traffic.wire[j].replayed
      => traffic.wire[j].msg \in heard

\* Messages go out in the order of their emit(), over all connections; only
\* those that a listener of "ready" emits overtake the queue.
SentInOrder ==
  \A j, k \in DOMAIN traffic.sent :
    j < k /\ traffic.sent[j] \notin heard /\ traffic.sent[k] \notin heard
      => \E i \in DOMAIN emitted : /\ emitted[i] = traffic.sent[j]
                                   /\ traffic.sent[k] \in ToSet(SubSeq(emitted, i + 1, Len(emitted)))

\* A ready client validates with the registry its server has now, whatever it
\* kept from other connections.
ReadyWithTheServersRegistry == initState = "ready" => registry = server

\* While the connection lasts nothing waits for ever, neither a message nor a
\* call of ready(): a late answer is as good as one in time.
NothingWaitsForEver ==
  (queue # << >> \/ \E k \in Calls : calls[k] = "waiting") /\ connected
    ~> (queue = << >> /\ \A k \in Calls : calls[k] # "waiting") \/ ~connected
=============================================================================
