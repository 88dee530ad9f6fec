---------------------------- MODULE ServerShell ----------------------------
(***************************************************************************)
(* One server process around its sockets (server/src/sockethub.ts): the    *)
(* connection slots per address, the rate limiter in front of every event, *)
(* the credential key each session has in Redis, and the shutdown that a   *)
(* signal starts while clients are still connected.                        *)
(*                                                                         *)
(* All sessions and the purge share one Redis connection, which carries    *)
(* out what was written to it in order: "wire" is that order.  A page of   *)
(* the purge's SCAN, and each DEL of it, is a round trip on the same wire. *)
(***************************************************************************)
EXTENDS RateLimiter, Sequences, FiniteSets

CONSTANTS
    Ips,
    NoIp,          \* an address that could not be determined
    MaxPerIp,      \* rateLimiter:maxConnectionsPerIp, 0 = no cap
    Signals,       \* SIGTERM and SIGINT, each listened to once
    ForeignKeys,   \* credential keys of other servers in the same Redis
    MaxWire,       \* bound: commands under way
    MaxOutages,    \* bound: how often the connection to Redis is lost
    Loads          \* bound: what the clients do, [sockets, signals, timed]

ASSUME ShellAssumption ==
    /\ NoIp \notin Ips /\ MaxPerIp \in Nat
    /\ IsFiniteSet(Sockets) /\ ForeignKeys \cap Sockets = {}
    /\ Loads \subseteq [sockets : SUBSET Sockets, signals : SUBSET Signals, timed : BOOLEAN]

VARIABLES
    load,
    process,            \* "up", or how it ended: "purged" or "unpurged"
    status,             \* of a socket: "new", "open", "closed", "rejected"
    ip,
    socketsPerIp,
    activeConnections,
    link,               \* the Redis connection can be written to
    outages,
    wire,
    keys,               \* the credential keys Redis holds
    shutdown,           \* per signal: "none", "sessions", "first", "purge"
    page,               \* per signal: keys of the current page still to DEL
    unread,             \* per signal: keys SCAN has yet to return
    lastPage,           \* per signal: the last reply's cursor was "0"
    orphans,            \* history: sessions whose teardown could not be sent
    late                \* history: keys saved after a purge had begun

shellVars == <<load, process, status, ip, socketsPerIp, activeConnections, link,
               outages, wire, keys, shutdown, page, unread, lastPage,
               orphans, late>>
slotVars == <<status, ip, socketsPerIp, activeConnections>>
redisVars == <<link, outages, wire, keys, orphans, late>>
purgeVars == <<shutdown, page, unread, lastPage>>
vars == <<shellVars, limiterVars>>

Save(s) == <<"save", s>>
TearDown(s) == <<"deleteAll", s>>
Scan(g) == <<"scan", g>>
Delete(g, k) == <<"del", g, k>>

Open == {s \in Sockets : status[s] = "open"}
Own == Sockets          \* a session's key is named after the socket id

Init ==
    /\ LimiterInit
    /\ load \in Loads
    /\ process = "up"
    /\ status = [s \in Sockets |-> "new"]
    /\ ip = [s \in Sockets |-> NoIp]
    /\ socketsPerIp = [i \in Ips |-> 0]
    /\ activeConnections = 0
    /\ link = TRUE /\ outages = 0
    /\ wire = <<>>
    /\ keys = ForeignKeys
    /\ shutdown = [g \in Signals |-> "none"]
    /\ page = [g \in Signals |-> {}]
    /\ unread = [g \in Signals |-> {}]
    /\ lastPage = [g \in Signals |-> FALSE]
    /\ orphans = {} /\ late = {}

(* With enableOfflineQueue off a command is rejected at once while the     *)
(* connection is down, and otherwise written behind the others.            *)
Written(command) == link /\ Len(wire) < MaxWire /\ wire' = Append(wire, command)
Refused == ~link /\ UNCHANGED wire

(***************************************************************************)
(* Sockets                                                                 *)
(***************************************************************************)

Capped(i) == MaxPerIp > 0 /\ i # NoIp

(* claimIpSlot()                                                           *)
SlotIsFree(i) == Capped(i) => socketsPerIp[i] < MaxPerIp
Claimed(i) == IF Capped(i) THEN [socketsPerIp EXCEPT ![i] = @ + 1] ELSE socketsPerIp

(* Mutant of Released: the last slot of an address is never released.      *)
ReleasedToOne(i) ==
    IF i = NoIp THEN socketsPerIp
    ELSE [socketsPerIp EXCEPT ![i] = IF @ <= 1 THEN 1 ELSE @ - 1]

(* releaseIpSlot(): an address that has no slots left is forgotten, which  *)
(* is a count of 0.                                                        *)
Released(i) ==
    IF i = NoIp THEN socketsPerIp
    ELSE [socketsPerIp EXCEPT ![i] = IF @ <= 1 THEN 0 ELSE @ - 1]

(* handleIncomingConnection().  The shutdown does not close the listener.  *)
Connects(s, i) ==
    /\ process = "up" /\ s \in load.sockets
    /\ status[s] = "new"
    /\ SlotIsFree(i)
    /\ status' = [status EXCEPT ![s] = "open"]
    /\ ip' = [ip EXCEPT ![s] = i]
    /\ socketsPerIp' = Claimed(i)
    /\ activeConnections' = activeConnections + 1
    /\ UNCHANGED <<load, process, redisVars, purgeVars, limiterVars>>

(* A rejected socket gets no handlers: its disconnect releases nothing.    *)
IsRejected(s, i) ==
    /\ process = "up" /\ s \in load.sockets
    /\ status[s] = "new"
    /\ ~SlotIsFree(i)
    /\ status' = [status EXCEPT ![s] = "rejected"]
    /\ UNCHANGED <<load, process, ip, socketsPerIp, activeConnections,
                   redisVars, purgeVars, limiterVars>>

(* The handler of "disconnect".  A teardown that cannot be sent is only    *)
(* logged.                                                                 *)
Disconnects(s) ==
    /\ process = "up"
    /\ status[s] = "open"
    /\ \/ Written(TearDown(s)) /\ UNCHANGED orphans
       \/ Refused /\ orphans' = orphans \cup {s}
    /\ status' = [status EXCEPT ![s] = "closed"]
    /\ socketsPerIp' = Released(ip[s])
    /\ activeConnections' = IF activeConnections > 1 THEN activeConnections - 1 ELSE 0
    /\ LimiterForgets(s)
    /\ UNCHANGED <<load, process, ip, link, outages, keys, late, purgeVars>>

(* socket.use(): an event the limiter does not let through ends here.      *)
EventIsDropped(s) ==
    /\ process = "up" /\ status[s] = "open"
    /\ LimiterDrops(s) \/ LimiterBlocks(s)
    /\ UNCHANGED shellVars

(* Any other event goes on to its handler; what becomes of messages is the *)
(* other modules' subject.                                                 *)
EventIsHandled(s) ==
    /\ process = "up" /\ status[s] = "open"
    /\ LimiterAdmits(s)
    /\ UNCHANGED shellVars

(* Valid credentials reach the store within the task that received them.   *)
CredentialsArrive(s) ==
    /\ process = "up" /\ status[s] = "open"
    /\ LimiterAdmits(s)
    /\ Written(Save(s)) \/ Refused
    /\ UNCHANGED <<load, process, slotVars, link, outages, keys, orphans, late, purgeVars>>

(***************************************************************************)
(* Redis                                                                   *)
(***************************************************************************)

Carries(command) ==
    /\ link /\ wire # <<>> /\ Head(wire) = command
    /\ wire' = Tail(wire)

Purging == {g \in Signals : shutdown[g] = "purge"}

(* SCAN may or may not return a key that is added while it iterates.       *)
SaveIsDone(s) ==
    /\ Carries(Save(s))
    /\ keys' = keys \cup {s}
    /\ late' = IF Purging # {} THEN late \cup {s} ELSE late
    /\ \E seen \in SUBSET Purging :
          unread' = [g \in Signals |-> IF g \in seen THEN unread[g] \cup {s} ELSE unread[g]]
    /\ UNCHANGED <<load, process, slotVars, link, outages, orphans,
                   shutdown, page, lastPage, limiterVars>>

TearDownIsDone(s) ==
    /\ Carries(TearDown(s))
    /\ keys' = keys \ {s}
    /\ unread' = [g \in Signals |-> unread[g] \ {s}]
    /\ UNCHANGED <<load, process, slotVars, link, outages, orphans, late,
                   shutdown, page, lastPage, limiterVars>>

(* What is under way when the connection is lost is sent again, in order.  *)
RedisIsLost ==
    /\ process = "up" /\ link /\ outages < MaxOutages
    /\ link' = FALSE
    /\ outages' = outages + 1
    /\ UNCHANGED <<load, process, slotVars, wire, keys, orphans, late, purgeVars, limiterVars>>

RedisIsBack ==
    /\ process = "up" /\ ~link
    /\ link' = TRUE
    /\ UNCHANGED <<load, process, slotVars, outages, wire, keys, orphans, late,
                   purgeVars, limiterVars>>

(***************************************************************************)
(* Shutdown                                                                *)
(***************************************************************************)

(* gracefulShutdown() and shutdown() up to the await of janitor.stop(),    *)
(* which takes as long as the platform processes take to end.              *)
Signalled(g) ==
    /\ process = "up" /\ g \in load.signals
    /\ shutdown[g] = "none"
    /\ shutdown' = [shutdown EXCEPT ![g] = "sessions"]
    /\ UNCHANGED <<load, process, slotVars, redisVars, page, unread, lastPage, limiterVars>>

(* The error is logged, and the process exits all the same.                *)
PurgeFails == Refused /\ process' = "unpurged"

(* stopCleanup(), and the first SCAN.                                      *)
PurgeStarts(g) ==
    /\ process = "up"
    /\ shutdown[g] = "sessions"
    /\ shutdown' = [shutdown EXCEPT ![g] = "first"]
    /\ \/ Written(Scan(g)) /\ UNCHANGED process
       \/ PurgeFails
    /\ LimiterStops
    /\ UNCHANGED <<load, slotVars, link, outages, keys, orphans, late,
                   page, unread, lastPage>>

(* A page holds some of the keys; a cursor of "0" says that all of them    *)
(* were returned.  Keys of other servers do not match the pattern.         *)
ScanIsDone(g) ==
    /\ Carries(Scan(g))
    /\ shutdown' = [shutdown EXCEPT ![g] = "purge"]
    /\ LET there == IF shutdown[g] = "first" THEN keys \cap Own ELSE unread[g]
       IN \E found \in SUBSET there :
             /\ page' = [page EXCEPT ![g] = found]
             /\ unread' = [unread EXCEPT ![g] = there \ found]
             /\ \E end \in {TRUE, FALSE} :
                   /\ end => found = there
                   /\ lastPage' = [lastPage EXCEPT ![g] = end]
    /\ UNCHANGED <<load, process, slotVars, link, outages, keys, orphans, late, limiterVars>>

DeleteIsDone(g, k) ==
    /\ Carries(Delete(g, k))
    /\ keys' = keys \ {k}
    /\ page' = [page EXCEPT ![g] = @ \ {k}]
    /\ UNCHANGED <<load, process, slotVars, link, outages, orphans, late,
                   shutdown, unread, lastPage, limiterVars>>

(* A reply was read, and the loop sends its next command: there is one at  *)
(* a time.                                                                 *)
Idle(g) == \A n \in DOMAIN wire : wire[n][2] # g

(* Mutant of HasSentAll: the shutdown purges the first page only.          *)
HasSentAPage(g) == page[g] = {}

HasSentAll(g) == page[g] = {} /\ lastPage[g]

PurgeProceeds(g) ==
    /\ process = "up"
    /\ shutdown[g] = "purge" /\ Idle(g) /\ ~HasSentAll(g)
    /\ \/ /\ \/ page[g] = {} /\ Written(Scan(g))
             \/ \E k \in page[g] : Written(Delete(g, k))
          /\ UNCHANGED process
       \/ PurgeFails
    /\ UNCHANGED <<load, slotVars, link, outages, keys, orphans, late, purgeVars, limiterVars>>

(* The connection is reset and process.exit() called without an await.     *)
PurgeEnds(g) ==
    /\ process = "up"
    /\ shutdown[g] = "purge" /\ Idle(g) /\ HasSentAll(g)
    /\ process' = "purged"
    /\ UNCHANGED <<load, slotVars, redisVars, purgeVars, limiterVars>>

Ticks ==
    /\ process = "up" /\ load.timed
    /\ LimiterTicks
    /\ UNCHANGED shellVars

CleansUp ==
    /\ process = "up"
    /\ LimiterCleansUp
    /\ UNCHANGED shellVars

SocketStep(s) ==
    \/ \E i \in Ips \cup {NoIp} : Connects(s, i) \/ IsRejected(s, i)
    \/ Disconnects(s)
    \/ EventIsDropped(s) \/ EventIsHandled(s) \/ CredentialsArrive(s)
    \/ SaveIsDone(s) \/ TearDownIsDone(s)

SignalStep(g) ==
    \/ Signalled(g) \/ PurgeStarts(g) \/ PurgeProceeds(g) \/ PurgeEnds(g)
    \/ ScanIsDone(g)
    \/ \E k \in Own : DeleteIsDone(g, k)

Next ==
    \/ \E s \in Sockets : SocketStep(s)
    \/ \E g \in Signals : SignalStep(g)
    \/ RedisIsLost \/ RedisIsBack
    \/ Ticks \/ CleansUp

Spec == Init /\ [][Next]_vars

(***************************************************************************)
(* Properties                                                              *)
(***************************************************************************)

OpenFrom(i) == {s \in Open : ip[s] = i}

(* The counters the server keeps beside its sockets agree with them,       *)
(* whatever order sockets come, are turned away and go in: an address has  *)
(* as many slots as open sockets and never more than the cap, and the rate *)
(* limiter keeps nothing for a socket that is gone.                        *)
TheServerCountsItsSockets ==
    /\ activeConnections = Cardinality(Open)
    /\ MaxPerIp > 0 => \A i \in Ips :
          socketsPerIp[i] = Cardinality(OpenFrom(i)) /\ socketsPerIp[i] <= MaxPerIp
    /\ \A s \in Sockets : clientStates[s].known => s \in Open

(* A session's key in Redis goes with the session, although its last save  *)
(* may still be under way, and a graceful shutdown leaves none but those   *)
(* saved while it was already purging; other servers' keys stay.           *)
GoesWithItsSession(s) ==
    s \in Open \cup orphans \/ \E n \in DOMAIN wire : wire[n] = TearDown(s)

ItsKeysGoWithTheServer ==
    /\ ForeignKeys \subseteq keys
    /\ \A s \in keys \cap Own : GoesWithItsSession(s)
    /\ process = "purged" => keys \cap Own \subseteq late
=============================================================================
