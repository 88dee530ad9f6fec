-------------------------- MODULE ServerShell_proofs --------------------------
(***************************************************************************)
(* Proofs about ServerShell and its RateLimiter, for any number of         *)
(* sockets, addresses and signals and every bound.                         *)
(***************************************************************************)
EXTENDS ServerShell, FiniteSetTheorems, SequenceTheorems, NaturalsInduction,
        WellFoundedInduction, TLAPS

(***************************************************************************)
(* The counters                                                            *)
(***************************************************************************)

StateRecord == [count : Nat, age : Nat, blocked : BOOLEAN, left : Nat, known : BOOLEAN]

StatesInv == clientStates \in [Sockets -> StateRecord]

SlotsInv ==
    /\ status \in [Sockets -> {"new", "open", "closed", "rejected"}]
    /\ ip \in [Sockets -> Ips \cup {NoIp}]
    /\ socketsPerIp \in [Ips -> Nat]
    /\ activeConnections \in Nat

CountInv == StatesInv /\ SlotsInv /\ TheServerCountsItsSockets

LEMMA TicksInNat ==
    /\ OldestAge \in Nat /\ WindowMs \in Nat /\ BlockMs \in Nat /\ MaxRequests \in Nat
    /\ \A a \in Nat : Older(a) \in Nat
    /\ \A l \in Nat : Less(l) \in Nat
BY RateAssumption DEF OldestAge, Older, Less

LEMMA NewInStateRecord == NoState \in StateRecord /\ NewState \in StateRecord
BY TicksInNat DEF NoState, NewState, StateRecord

LEMMA CountedInStateRecord ==
    ASSUME StatesInv, NEW s \in Sockets
    PROVE  /\ StateOf(s) \in StateRecord
           /\ Counted(StateOf(s)) \in StateRecord /\ Counted(StateOf(s)).known
           /\ Blocked(StateOf(s)) \in StateRecord /\ Blocked(StateOf(s)).known
<1>1. StateOf(s) \in StateRecord /\ StateOf(s).known
    BY NewInStateRecord DEF StatesInv, StateOf, StateRecord, NewState
<1>2. Renewed(StateOf(s)) \in StateRecord /\ Renewed(StateOf(s)).known
    BY <1>1, NewInStateRecord DEF Renewed, NewState
<1>3. Counted(StateOf(s)) \in StateRecord /\ Counted(StateOf(s)).known
    BY <1>2 DEF Counted, StateRecord
<1>4. Blocked(StateOf(s)) \in StateRecord /\ Blocked(StateOf(s)).known
    BY <1>3, TicksInNat DEF Blocked, StateRecord
<1> QED
    BY <1>1, <1>3, <1>4

(* Whatever the limiter does, it keeps a state for none but the socket     *)
(* whose event it was.                                                     *)
KnownOnlyFor(S) == \A t \in Sockets \ S : clientStates'[t].known => clientStates[t].known

LEMMA LimiterStates ==
    ASSUME StatesInv
    PROVE  /\ \A s \in Sockets : LimiterDrops(s) \/ LimiterBlocks(s) \/ LimiterAdmits(s)
                => StatesInv' /\ KnownOnlyFor({s})
           /\ \A s \in Sockets : LimiterForgets(s)
                => StatesInv' /\ KnownOnlyFor({}) /\ ~clientStates'[s].known
           /\ LimiterCleansUp \/ LimiterStops \/ LimiterTicks \/ UNCHANGED limiterVars
                => StatesInv' /\ KnownOnlyFor({})
<1>1. ASSUME NEW s \in Sockets, NEW r \in StateRecord,
             clientStates' = [clientStates EXCEPT ![s] = r]
      PROVE  StatesInv' /\ KnownOnlyFor({s}) /\ clientStates'[s] = r
    BY <1>1 DEF StatesInv, KnownOnlyFor
<1>2. ASSUME NEW s \in Sockets, LimiterDrops(s) \/ LimiterBlocks(s) \/ LimiterAdmits(s)
      PROVE  StatesInv' /\ KnownOnlyFor({s})
    <2>1. CASE LimiterDrops(s)
        BY <2>1 DEF LimiterDrops, limiterVars, StatesInv, KnownOnlyFor
    <2>2. CASE LimiterBlocks(s) \/ LimiterAdmits(s)
        BY <1>1, <2>2, CountedInStateRecord DEF LimiterBlocks, LimiterAdmits
    <2> QED
        BY <1>2, <2>1, <2>2
<1>3. ASSUME NEW s \in Sockets, LimiterForgets(s)
      PROVE  StatesInv' /\ KnownOnlyFor({}) /\ ~clientStates'[s].known
    <2>1. StatesInv' /\ KnownOnlyFor({s}) /\ clientStates'[s] = NoState
        BY <1>1, <1>3, NewInStateRecord DEF LimiterForgets
    <2> QED
        BY <2>1 DEF KnownOnlyFor, NoState
<1>4. ASSUME LimiterCleansUp PROVE StatesInv' /\ KnownOnlyFor({})
    BY <1>4, NewInStateRecord DEF LimiterCleansUp, StatesInv, KnownOnlyFor, NoState
<1>5. ASSUME LimiterTicks PROVE StatesInv' /\ KnownOnlyFor({})
    <2>1. ASSUME NEW s \in Sockets
          PROVE  /\ [clientStates[s] EXCEPT !.age = Older(@), !.left = Less(@)] \in StateRecord
                 /\ [clientStates[s] EXCEPT !.age = Older(@), !.left = Less(@)].known
                      = clientStates[s].known
        BY TicksInNat DEF StatesInv, StateRecord
    <2> QED
        BY <1>5, <2>1 DEF LimiterTicks, StatesInv, KnownOnlyFor
<1>6. ASSUME LimiterStops \/ UNCHANGED limiterVars PROVE StatesInv' /\ KnownOnlyFor({})
    BY <1>6 DEF LimiterStops, limiterVars, StatesInv, KnownOnlyFor
<1> QED
    BY <1>2, <1>3, <1>4, <1>5, <1>6

LEMMA OpenIsFinite == /\ IsFiniteSet(Open)
                      /\ \A i : IsFiniteSet(OpenFrom(i))
<1>1. Open \in SUBSET Sockets /\ \A i : OpenFrom(i) \in SUBSET Sockets
    BY DEF Open, OpenFrom
<1> QED
    BY <1>1, ShellAssumption, FS_Subset

LEMMA InitCount == Init => CountInv
<1> SUFFICES ASSUME Init PROVE CountInv
    OBVIOUS
<1>1. StatesInv
    BY NewInStateRecord DEF Init, LimiterInit, StatesInv
<1>2. SlotsInv
    BY DEF Init, SlotsInv
<1>3. Open = {} /\ \A i : OpenFrom(i) = {}
    BY DEF Init, Open, OpenFrom
<1>4. TheServerCountsItsSockets
    <2>1. \A t \in Sockets : ~clientStates[t].known
        BY DEF Init, LimiterInit, NoState
    <2>2. activeConnections = 0 /\ \A a \in Ips : socketsPerIp[a] = 0
        BY DEF Init
    <2> QED
        BY <1>3, <2>1, <2>2, ShellAssumption, FS_EmptySet DEF TheServerCountsItsSockets
<1> QED
    BY <1>1, <1>2, <1>4 DEF CountInv

(* A step that leaves the sockets alone can only be wrong about the states *)
(* the limiter keeps.                                                      *)
LEMMA SlotsKept ==
    ASSUME CountInv, UNCHANGED slotVars, StatesInv',
           KnownOnlyFor({}) \/ \E s \in Open : KnownOnlyFor({s})
    PROVE  CountInv'
<1>1. Open' = Open /\ \A i : OpenFrom(i)' = OpenFrom(i)
    BY DEF slotVars, Open, OpenFrom
<1>2. SlotsInv'
    BY DEF CountInv, SlotsInv, slotVars
<1>3. TheServerCountsItsSockets'
    BY <1>1 DEF CountInv, TheServerCountsItsSockets, slotVars, KnownOnlyFor
<1> QED
    BY <1>2, <1>3 DEF CountInv

LEMMA ConnectsCounts ==
    ASSUME CountInv, NEW s \in Sockets, NEW i \in Ips \cup {NoIp}, Connects(s, i)
    PROVE  CountInv'
<1>1. /\ status[s] = "new" /\ SlotIsFree(i)
      /\ status' = [status EXCEPT ![s] = "open"]
      /\ ip' = [ip EXCEPT ![s] = i]
      /\ socketsPerIp' = Claimed(i)
      /\ activeConnections' = activeConnections + 1
      /\ UNCHANGED limiterVars
    BY DEF Connects
<1>2. /\ s \notin Open /\ Open' = Open \cup {s}
      /\ \A a : s \notin OpenFrom(a)
      /\ OpenFrom(i)' = OpenFrom(i) \cup {s}
      /\ \A a : a # i => OpenFrom(a)' = OpenFrom(a)
    BY <1>1 DEF Open, OpenFrom, CountInv, SlotsInv
<1>3. SlotsInv'
    BY <1>1 DEF CountInv, SlotsInv, Claimed, Capped
<1>4. activeConnections' = Cardinality(Open)'
    BY <1>1, <1>2, OpenIsFinite, FS_AddElement DEF CountInv, TheServerCountsItsSockets
<1>5. ASSUME MaxPerIp > 0, NEW a \in Ips
      PROVE  socketsPerIp'[a] = Cardinality(OpenFrom(a)') /\ socketsPerIp'[a] <= MaxPerIp
    <2>1. socketsPerIp[a] = Cardinality(OpenFrom(a)) /\ socketsPerIp[a] <= MaxPerIp
        BY <1>5 DEF CountInv, TheServerCountsItsSockets
    <2>2. CASE a = i
        <3>1. Capped(i) /\ socketsPerIp[i] < MaxPerIp
            BY <1>1, <1>5, <2>2, ShellAssumption DEF Capped, SlotIsFree
        <3>2. socketsPerIp'[a] = socketsPerIp[a] + 1
            BY <1>1, <2>2, <3>1 DEF Claimed, CountInv, SlotsInv
        <3>3. Cardinality(OpenFrom(a)') = Cardinality(OpenFrom(a)) + 1
            BY <1>2, <2>2, OpenIsFinite, FS_AddElement
        <3> QED
            BY <2>1, <2>2, <3>1, <3>2, <3>3, ShellAssumption DEF CountInv, SlotsInv
    <2>3. CASE a # i
        BY <1>1, <1>2, <2>1, <2>3 DEF Claimed, CountInv, SlotsInv
    <2> QED
        BY <2>2, <2>3
<1>6. StatesInv' /\ \A t \in Sockets : clientStates'[t].known => t \in Open'
    BY <1>1, <1>2 DEF CountInv, StatesInv, limiterVars, TheServerCountsItsSockets
<1> QED
    BY <1>3, <1>4, <1>5, <1>6 DEF CountInv, TheServerCountsItsSockets

LEMMA DisconnectsCounts ==
    ASSUME CountInv, NEW s \in Sockets, Disconnects(s)
    PROVE  CountInv'
<1> PICK i \in Ips \cup {NoIp} : i = ip[s]
    BY DEF CountInv, SlotsInv
<1>1. /\ status[s] = "open"
      /\ status' = [status EXCEPT ![s] = "closed"]
      /\ socketsPerIp' = Released(i)
      /\ activeConnections' = IF activeConnections > 1 THEN activeConnections - 1 ELSE 0
      /\ LimiterForgets(s)
      /\ ip' = ip
    BY DEF Disconnects
<1>2. /\ s \in Open /\ Open' = Open \ {s}
      /\ s \in OpenFrom(i) /\ OpenFrom(i)' = OpenFrom(i) \ {s}
      /\ \A a : a # i => OpenFrom(a)' = OpenFrom(a)
    BY <1>1 DEF Open, OpenFrom, CountInv, SlotsInv
<1>3. SlotsInv'
    BY <1>1 DEF CountInv, SlotsInv, Released
<1>4. activeConnections' = Cardinality(Open)'
    <2>1. Cardinality(Open)' = Cardinality(Open) - 1 /\ Cardinality(Open)' \in Nat
        BY <1>2, OpenIsFinite, FS_RemoveElement, FS_CardinalityType
    <2> QED
        BY <1>1, <2>1 DEF CountInv, TheServerCountsItsSockets, SlotsInv
<1>5. ASSUME MaxPerIp > 0, NEW a \in Ips
      PROVE  socketsPerIp'[a] = Cardinality(OpenFrom(a)') /\ socketsPerIp'[a] <= MaxPerIp
    <2>1. socketsPerIp[a] = Cardinality(OpenFrom(a)) /\ socketsPerIp[a] <= MaxPerIp
        BY <1>5 DEF CountInv, TheServerCountsItsSockets
    <2>2. CASE a = i
        <3>1. /\ Cardinality(OpenFrom(a)') = Cardinality(OpenFrom(a)) - 1
              /\ Cardinality(OpenFrom(a)') \in Nat
            BY <1>2, <2>2, OpenIsFinite, FS_RemoveElement, FS_CardinalityType
        <3>2. socketsPerIp'[a] = IF socketsPerIp[a] <= 1 THEN 0 ELSE socketsPerIp[a] - 1
            BY <1>1, <2>2, ShellAssumption DEF Released, CountInv, SlotsInv
        <3> QED
            BY <2>1, <3>1, <3>2, ShellAssumption DEF CountInv, SlotsInv
    <2>3. CASE a # i
        BY <1>1, <1>2, <2>1, <2>3 DEF Released, CountInv, SlotsInv
    <2> QED
        BY <2>2, <2>3
<1>6. StatesInv' /\ \A t \in Sockets : clientStates'[t].known => t \in Open'
    <2>1. StatesInv' /\ KnownOnlyFor({}) /\ ~clientStates'[s].known
        BY <1>1, LimiterStates DEF CountInv
    <2> QED
        BY <1>2, <2>1 DEF CountInv, KnownOnlyFor, TheServerCountsItsSockets
<1> QED
    BY <1>3, <1>4, <1>5, <1>6 DEF CountInv, TheServerCountsItsSockets

LEMMA StepCount == CountInv /\ [Next]_vars => CountInv'
<1> SUFFICES ASSUME CountInv, [Next]_vars PROVE CountInv'
    OBVIOUS
<1>1. ASSUME UNCHANGED <<slotVars, limiterVars>> PROVE CountInv'
    BY <1>1, LimiterStates, SlotsKept DEF CountInv
<1>2. ASSUME NEW s \in Sockets, NEW i \in Ips \cup {NoIp}, IsRejected(s, i)
      PROVE  CountInv'
    <2>1. /\ UNCHANGED <<ip, socketsPerIp, activeConnections, limiterVars>>
          /\ status' = [status EXCEPT ![s] = "rejected"] /\ status[s] = "new"
        BY <1>2 DEF IsRejected
    <2>2. Open' = Open /\ \A a : OpenFrom(a)' = OpenFrom(a)
        BY <2>1 DEF Open, OpenFrom, CountInv, SlotsInv
    <2>3. SlotsInv' /\ StatesInv'
        BY <2>1 DEF CountInv, SlotsInv, StatesInv, limiterVars
    <2> QED
        BY <2>1, <2>2, <2>3 DEF CountInv, TheServerCountsItsSockets, limiterVars
<1>3. ASSUME NEW s \in Sockets, s \in Open, UNCHANGED slotVars,
             LimiterDrops(s) \/ LimiterBlocks(s) \/ LimiterAdmits(s)
      PROVE  CountInv'
    BY <1>3, LimiterStates, SlotsKept DEF CountInv
<1>4. ASSUME NEW s \in Sockets, EventIsDropped(s) \/ EventIsHandled(s) \/ CredentialsArrive(s)
      PROVE  CountInv'
    BY <1>3, <1>4 DEF EventIsDropped, EventIsHandled, CredentialsArrive, Open, shellVars, slotVars
<1>5. ASSUME NEW s \in Sockets, SaveIsDone(s) \/ TearDownIsDone(s) PROVE CountInv'
    BY <1>1, <1>5 DEF SaveIsDone, TearDownIsDone
<1>6. ASSUME NEW s \in Sockets, SocketStep(s) PROVE CountInv'
    BY <1>2, <1>4, <1>5, <1>6, ConnectsCounts, DisconnectsCounts DEF SocketStep
<1>7. ASSUME NEW g \in Signals, PurgeStarts(g) PROVE CountInv'
    BY <1>7, LimiterStates, SlotsKept DEF PurgeStarts, CountInv
<1>8. ASSUME NEW g \in Signals, SignalStep(g) PROVE CountInv'
    BY <1>1, <1>7, <1>8
       DEF SignalStep, Signalled, PurgeProceeds, PurgeEnds, ScanIsDone, DeleteIsDone
<1>9. ASSUME RedisIsLost \/ RedisIsBack \/ UNCHANGED vars PROVE CountInv'
    BY <1>1, <1>9 DEF RedisIsLost, RedisIsBack, vars, shellVars, slotVars
<1>10. ASSUME Ticks \/ CleansUp PROVE CountInv'
    BY <1>10, LimiterStates, SlotsKept DEF Ticks, CleansUp, CountInv, shellVars, slotVars
<1> QED
    BY <1>6, <1>8, <1>9, <1>10 DEF Next

THEOREM CountInvariant == Spec => []CountInv
BY InitCount, StepCount, PTL DEF Spec

(* The counters beside the sockets agree with them, for any number of      *)
(* sockets and addresses and any cap: releaseIpSlot() undoes what          *)
(* claimIpSlot() did, exactly once for each socket that has a slot.        *)
THEOREM TheServerCountsItsSocketsHolds == Spec => []TheServerCountsItsSockets
BY CountInvariant, PTL DEF CountInv

(***************************************************************************)
(* The rate limiter's blocks                                               *)
(***************************************************************************)

(* The state of a client that was told of a block says so for as long as   *)
(* the block lasts: by then its window is not old enough for the cleanup.  *)
BarredInv(s) ==
    barred[s] > 0 =>
        /\ clientStates[s].known /\ clientStates[s].blocked
        /\ clientStates[s].left = barred[s]
        /\ clientStates[s].age + clientStates[s].left <= WindowMs + BlockMs

BlockInv ==
    /\ StatesInv
    /\ barred \in [Sockets -> Nat]
    /\ recent \in [Sockets -> [Ages -> Nat]]
    /\ \A s \in Sockets : BarredInv(s)

LEMMA InitBlock == LimiterInit => BlockInv
BY NewInStateRecord DEF LimiterInit, BlockInv, StatesInv, BarredInv

LEMMA CountsInNat ==
    ASSUME BlockInv
    PROVE  0 \in Ages /\ \A t \in Sockets : recent[t] \in [Ages -> Nat] /\ recent[t][0] \in Nat
<1>1. 0 \in Ages
    BY TicksInNat DEF Ages
<1>2. \A t \in Sockets : recent[t] \in [Ages -> Nat]
    BY DEF BlockInv
<1> QED
    BY <1>1, <1>2

LEMMA BlocksKeep ==
    ASSUME BlockInv, NEW s \in Sockets, LimiterBlocks(s)
    PROVE  BlockInv'
<1>1. StatesInv' /\ barred' = [barred EXCEPT ![s] = BlockMs] /\ recent' = recent
    BY LimiterStates DEF LimiterBlocks, BlockInv
<1>2. barred' \in [Sockets -> Nat]
    BY <1>1, TicksInNat DEF BlockInv
<1> DEFINE st == StateOf(s)
<1>3. st \in StateRecord /\ Counted(st) \in StateRecord
    BY CountedInStateRecord DEF BlockInv
<1>4. Renewed(st) \in StateRecord /\ Renewed(st).age <= WindowMs
    BY <1>3, NewInStateRecord, TicksInNat DEF Renewed, WindowOver, NewState, StateRecord
<1>5. Counted(st).age <= WindowMs /\ Counted(st).known
    BY <1>4, CountedInStateRecord DEF Counted, StateRecord, BlockInv
<1>6. /\ Blocked(st).known /\ Blocked(st).blocked /\ Blocked(st).left = BlockMs
      /\ Blocked(st).age <= WindowMs /\ Blocked(st).age \in Nat
    BY <1>3, <1>5, TicksInNat DEF Blocked, StateRecord
<1>7. clientStates' = [clientStates EXCEPT ![s] = Blocked(st)]
    BY DEF LimiterBlocks
<1> HIDE DEF st
<1>8. BarredInv(s)'
    BY <1>1, <1>6, <1>7, TicksInNat DEF BarredInv, BlockInv, StatesInv
<1>9. \A t \in Sockets \ {s} : BarredInv(t)'
    BY <1>1, <1>7 DEF BarredInv, BlockInv, StatesInv
<1> QED
    BY <1>1, <1>2, <1>8, <1>9 DEF BlockInv

LEMMA AdmitsNeedNoBlock ==
    ASSUME BlockInv, NEW s \in Sockets, ~StillBlocked(StateOf(s))
    PROVE  barred[s] = 0
BY DEF BlockInv, BarredInv, StillBlocked, StateOf

LEMMA AdmitsKeep ==
    ASSUME BlockInv, NEW s \in Sockets, LimiterAdmits(s)
    PROVE  BlockInv' /\ \A t \in Sockets : NothingPassesABlock(t)
<1>1. StatesInv' /\ barred' = barred /\ barred[s] = 0
    BY LimiterStates, AdmitsNeedNoBlock DEF LimiterAdmits, BlockInv
<1>2. /\ clientStates' = [clientStates EXCEPT ![s] = Counted(StateOf(s))]
      /\ recent' = [recent EXCEPT ![s][0] = @ + 1]
    BY DEF LimiterAdmits
<1>3. recent' \in [Sockets -> [Ages -> Nat]] /\ \A t \in Sockets \ {s} : recent'[t] = recent[t]
    <2>1. recent[s] \in [Ages -> Nat] /\ recent[s][0] + 1 \in Nat
        BY CountsInNat
    <2>2. recent' = [recent EXCEPT ![s] = [recent[s] EXCEPT ![0] = recent[s][0] + 1]]
        BY <1>2
    <2>3. [recent[s] EXCEPT ![0] = recent[s][0] + 1] \in [Ages -> Nat]
        BY <2>1
    <2> QED
        BY <2>2, <2>3 DEF BlockInv
<1>4. \A t \in Sockets : BarredInv(t)'
    BY <1>1, <1>2 DEF BarredInv, BlockInv, StatesInv
<1>5. \A t \in Sockets : NothingPassesABlock(t)
    BY <1>1, <1>3, CountsInNat DEF NothingPassesABlock
<1> QED
    BY <1>1, <1>3, <1>4, <1>5 DEF BlockInv

LEMMA TicksKeep ==
    ASSUME BlockInv, LimiterTicks
    PROVE  BlockInv' /\ \A t \in Sockets : NothingPassesABlock(t)
<1>1. StatesInv'
    BY LimiterStates DEF BlockInv
<1>2. recent' \in [Sockets -> [Ages -> Nat]] /\ \A t \in Sockets : recent'[t][0] = 0
    <2>1. \A t \in Sockets, a \in Ages : a # 0 => a - 1 \in Ages /\ recent[t][a - 1] \in Nat
        BY TicksInNat DEF Ages, BlockInv
    <2>2. 0 \in Ages
        BY TicksInNat DEF Ages
    <2> QED
        BY <2>1, <2>2 DEF LimiterTicks
<1>3. barred' \in [Sockets -> Nat]
    BY TicksInNat DEF LimiterTicks, BlockInv
<1>4. ASSUME NEW t \in Sockets PROVE BarredInv(t)'
    <2> SUFFICES ASSUME barred'[t] > 0 PROVE
              /\ clientStates'[t].known /\ clientStates'[t].blocked
              /\ clientStates'[t].left = barred'[t]
              /\ clientStates'[t].age + clientStates'[t].left <= WindowMs + BlockMs
        BY DEF BarredInv
    <2>1. barred'[t] = Less(barred[t]) /\ barred[t] \in Nat
        BY DEF LimiterTicks, BlockInv
    <2>2. barred[t] > 0 /\ barred'[t] = barred[t] - 1
        BY <2>1 DEF Less
    <2>3. clientStates[t] \in StateRecord /\ BarredInv(t)
        BY DEF BlockInv, StatesInv
    <2>4. /\ clientStates'[t].known = clientStates[t].known
          /\ clientStates'[t].blocked = clientStates[t].blocked
          /\ clientStates'[t].age = Older(clientStates[t].age)
          /\ clientStates'[t].left = Less(clientStates[t].left)
        BY <2>3 DEF LimiterTicks, StateRecord
    <2>5. clientStates'[t].age <= clientStates[t].age + 1 /\ clientStates'[t].age \in Nat
        BY <2>3, <2>4, TicksInNat DEF Older, StateRecord
    <2>6. QED
        <3>1. /\ clientStates[t].known /\ clientStates[t].blocked
              /\ clientStates[t].left = barred[t]
              /\ clientStates[t].age + clientStates[t].left <= WindowMs + BlockMs
              /\ clientStates[t].age \in Nat /\ clientStates[t].left \in Nat
            BY <2>2, <2>3 DEF BarredInv, StateRecord
        <3>2. clientStates'[t].left = clientStates[t].left - 1
            BY <2>2, <2>4, <3>1 DEF Less
        <3> QED
            BY <2>1, <2>2, <2>4, <2>5, <3>1, <3>2, TicksInNat
<1>5. \A t \in Sockets : NothingPassesABlock(t)
    BY <1>2, CountsInNat DEF NothingPassesABlock
<1> QED
    BY <1>1, <1>2, <1>3, <1>4, <1>5 DEF BlockInv

LEMMA CleanupKeeps ==
    ASSUME BlockInv, LimiterCleansUp
    PROVE  BlockInv'
<1>1. StatesInv' /\ UNCHANGED <<barred, recent>>
    BY LimiterStates DEF LimiterCleansUp, BlockInv
<1>2. ASSUME NEW t \in Sockets, barred[t] > 0 PROVE clientStates'[t] = clientStates[t]
    <2>1. clientStates[t] \in StateRecord /\ barred[t] \in Nat
        BY DEF BlockInv, StatesInv
    <2>2. clientStates[t].age < StaleMs
        BY <1>2, <2>1, RateAssumption, TicksInNat DEF BlockInv, BarredInv, StateRecord
    <2> QED
        BY <2>1, <2>2, RateAssumption DEF LimiterCleansUp, Stale, StateRecord
<1>3. \A t \in Sockets : BarredInv(t)'
    BY <1>1, <1>2 DEF BarredInv, BlockInv
<1> QED
    BY <1>1, <1>3 DEF BlockInv

LEMMA ForgetsKeeps ==
    ASSUME BlockInv, NEW s \in Sockets, LimiterForgets(s)
    PROVE  BlockInv' /\ \A t \in Sockets : NothingPassesABlock(t)
<1>1. StatesInv'
    BY LimiterStates DEF BlockInv
<1>2. /\ recent' \in [Sockets -> [Ages -> Nat]] /\ recent'[s][0] = 0
      /\ \A t \in Sockets \ {s} : recent'[t] = recent[t]
    <2>1. recent' = [recent EXCEPT ![s] = [a \in Ages |-> 0]]
        BY DEF LimiterForgets
    <2>2. [a \in Ages |-> 0] \in [Ages -> Nat] /\ [a \in Ages |-> 0][0] = 0
        BY CountsInNat
    <2> QED
        BY <2>1, <2>2 DEF BlockInv
<1>3. barred' \in [Sockets -> Nat] /\ \A t \in Sockets : BarredInv(t)'
    BY DEF LimiterForgets, BlockInv, StatesInv, BarredInv
<1>4. \A t \in Sockets : NothingPassesABlock(t)
    BY <1>2, CountsInNat DEF NothingPassesABlock
<1> QED
    BY <1>1, <1>2, <1>3, <1>4 DEF BlockInv

LEMMA StepBlock ==
    BlockInv /\ [Next]_vars => BlockInv' /\ \A t \in Sockets : NothingPassesABlock(t)
<1> SUFFICES ASSUME BlockInv, [Next]_vars
             PROVE  BlockInv' /\ \A t \in Sockets : NothingPassesABlock(t)
    OBVIOUS
<1>1. ASSUME UNCHANGED recent PROVE \A t \in Sockets : NothingPassesABlock(t)
    <2>1. \A t \in Sockets : recent[t][0] \in Nat
        BY TicksInNat DEF BlockInv, Ages
    <2> QED
        BY <1>1, <2>1 DEF NothingPassesABlock
<1> DEFINE Kept == BlockInv' /\ \A t \in Sockets : NothingPassesABlock(t)
<1>2. ASSUME UNCHANGED limiterVars \/ LimiterStops PROVE Kept
    BY <1>1, <1>2, LimiterStates DEF limiterVars, LimiterStops, BlockInv, BarredInv
<1>3. ASSUME NEW s \in Sockets, SocketStep(s) PROVE Kept
    <2>1. ASSUME LimiterDrops(s) \/ LimiterBlocks(s) \/ LimiterAdmits(s) \/ LimiterForgets(s)
          PROVE  Kept
        BY <1>1, <1>2, <2>1, BlocksKeep, AdmitsKeep, ForgetsKeeps
           DEF LimiterDrops, LimiterBlocks
    <2> QED
        BY <1>2, <1>3, <2>1
           DEF SocketStep, Connects, IsRejected, Disconnects, EventIsDropped, EventIsHandled,
               CredentialsArrive, SaveIsDone, TearDownIsDone
<1>4. ASSUME NEW g \in Signals, SignalStep(g) PROVE Kept
    BY <1>2, <1>4 DEF SignalStep, Signalled, PurgeStarts, PurgeProceeds, PurgeEnds,
                      ScanIsDone, DeleteIsDone
<1>5. ASSUME RedisIsLost \/ RedisIsBack \/ UNCHANGED vars PROVE Kept
    BY <1>2, <1>5 DEF RedisIsLost, RedisIsBack, vars
<1>6. ASSUME Ticks \/ CleansUp PROVE Kept
    BY <1>1, <1>6, TicksKeep, CleanupKeeps DEF Ticks, CleansUp, LimiterCleansUp
<1> QED
    BY <1>3, <1>4, <1>5, <1>6 DEF Next

(***************************************************************************)
(* The rate limiter's windows                                              *)
(***************************************************************************)

(* Every set of numbers has a least one.                                   *)
LEMMA LeastNatural ==
    ASSUME NEW S, S \subseteq Nat, S # {}
    PROVE  \E n \in S : \A m \in S : n <= m
<1>1. IsWellFoundedOn(OpToRel(<, Nat), Nat)
    BY NatLessThanWellFounded
<1>2. PICK n \in S : \A m \in S : ~ (<<m, n>> \in OpToRel(<, Nat))
    BY <1>1, WFMin
<1>3. \A m \in S : ~ (m < n)
    BY <1>2 DEF OpToRel
<1> QED
    BY <1>3

(* An induction over the ages, on a set of them instead of a predicate.    *)
LEMMA AgesByInduction ==
    ASSUME NEW S, 0 \in S, \A a \in Ages : a + 1 \in Ages /\ a \in S => a + 1 \in S
    PROVE  Ages \subseteq S
<1> SUFFICES ASSUME ~ (Ages \subseteq S) PROVE FALSE
    OBVIOUS
<1>1. Ages \subseteq Nat /\ \A a \in Ages : a # 0 => a - 1 \in Ages
    BY TicksInNat DEF Ages
<1>2. PICK n \in Ages \ S : \A m \in Ages \ S : n <= m
    BY <1>1, LeastNatural
<1>3. n # 0 /\ n - 1 \in Ages /\ n - 1 \in S /\ n \in Nat
    BY <1>1, <1>2
<1> QED
    BY <1>2, <1>3

(* The recursion of UpTo has a solution, and UpTo is one.                  *)
LEMMA UpToRecursion ==
    ASSUME NEW events
    PROVE  UpTo(events) = [a \in Ages |-> IF a = 0 THEN events[0]
                                          ELSE UpTo(events)[a - 1] + events[a]]
<1> DEFINE V(f, a) == IF a = 0 THEN events[0] ELSE f[a - 1] + events[a]
           Solves(f, n) == /\ f = [a \in Ages |-> f[a]]
                           /\ \A a \in Ages : a <= n => f[a] = V(f, a)
           N == {n \in Ages : \E f : Solves(f, n)}
           sum == CHOOSE f : f = [a \in Ages |-> V(f, a)]
<1>0. /\ Ages \subseteq Nat /\ 0 \in Ages /\ WindowMs \in Ages
      /\ \A a \in Ages : a <= WindowMs /\ (a # 0 => a - 1 \in Ages)
    BY TicksInNat DEF Ages
<1>1. 0 \in N
    <2> DEFINE f == [a \in Ages |-> events[0]]
    <2>1. Solves(f, 0)
        BY <1>0
    <2> QED
        BY <1>0, <2>1
<1>2. ASSUME NEW n \in Ages, n + 1 \in Ages, n \in N PROVE n + 1 \in N
    <2>1. PICK f : Solves(f, n)
        BY <1>2
    <2> DEFINE h == [a \in Ages |-> IF a = n + 1 THEN V(f, n + 1) ELSE f[a]]
    <2>2. h = [a \in Ages |-> h[a]]
        OBVIOUS
    <2>3. ASSUME NEW a \in Ages, a <= n + 1 PROVE h[a] = V(h, a)
        <3>1. a # 0 => a - 1 \in Ages /\ a - 1 # n + 1
            BY <1>0, <2>3
        <3>2. V(h, a) = V(f, a)
            BY <3>1
        <3>3. CASE a = n + 1
            <4> HIDE DEF V
            <4> QED
                BY <3>2, <3>3
        <3>4. CASE a <= n
            <4>1. h[a] = f[a]
                BY <1>0, <3>4
            <4> HIDE DEF h, V
            <4> QED
                BY <2>1, <3>2, <3>4, <4>1
        <3> QED
            BY <1>0, <2>3, <3>3, <3>4
    <2>4. Solves(h, n + 1)
        <3> HIDE DEF h, V
        <3> QED
            BY <2>2, <2>3
    <2> HIDE DEF h, Solves
    <2> QED
        BY <1>2, <2>4
<1>3. \E f : Solves(f, WindowMs)
    <2> HIDE DEF Solves
    <2>1. Ages \subseteq N
        <3> HIDE DEF N
        <3> QED
            BY <1>1, <1>2, AgesByInduction
    <2> QED
        BY <1>0, <2>1
<1>4. \E f : f = [a \in Ages |-> V(f, a)]
    <2> HIDE DEF V
    <2>1. PICK f : Solves(f, WindowMs)
        BY <1>3
    <2>2. \A a \in Ages : f[a] = V(f, a)
        BY <1>0, <2>1
    <2> QED
        BY <2>1, <2>2
<1>5. sum = [a \in Ages |-> V(sum, a)]
    <2> HIDE DEF V
    <2> QED
        BY <1>4
<1>6. UpTo(events) = sum
    BY DEF UpTo
<1> HIDE DEF sum
<1> QED
    BY <1>5, <1>6

(* The first sum, and the next.                                            *)
LEMMA UpToIs ==
    ASSUME NEW events \in [Ages -> Nat]
    PROVE  /\ UpTo(events)[0] = events[0]
           /\ \A a \in Ages : a # 0 => UpTo(events)[a] = UpTo(events)[a - 1] + events[a]
           /\ \A a \in Ages : UpTo(events)[a] \in Nat
<1>0. 0 \in Ages
    BY TicksInNat DEF Ages
<1>1. UpTo(events)[0] = events[0]
    BY <1>0, UpToRecursion
<1>2. \A a \in Ages : a # 0 => UpTo(events)[a] = UpTo(events)[a - 1] + events[a]
    BY UpToRecursion
<1> DEFINE S == {a \in Ages : UpTo(events)[a] \in Nat}
<1>3. 0 \in S
    BY <1>0, <1>1
<1>4. ASSUME NEW a \in Ages, a + 1 \in Ages, a \in S PROVE a + 1 \in S
    <2>1. a + 1 # 0 /\ (a + 1) - 1 = a
        BY TicksInNat DEF Ages
    <2>2. UpTo(events)[a + 1] = UpTo(events)[a] + events[a + 1] /\ events[a + 1] \in Nat
        BY <1>2, <1>4, <2>1
    <2> QED
        BY <1>4, <2>2
<1>5. Ages \subseteq S
    <2> HIDE DEF S
    <2> QED
        BY <1>3, <1>4, AgesByInduction
<1> QED
    BY <1>1, <1>2, <1>5

(* What the history of a client adds up to when nothing of it is left,     *)
(* when one more event is let through, and when a tick goes by.            *)
LEMMA UpToNone ==
    ASSUME NEW events \in [Ages -> Nat], \A a \in Ages : events[a] = 0
    PROVE  \A a \in Ages : UpTo(events)[a] = 0
<1> DEFINE S == {a \in Ages : UpTo(events)[a] = 0}
<1>0. 0 \in Ages
    BY TicksInNat DEF Ages
<1>1. 0 \in S
    BY <1>0, UpToIs
<1>2. ASSUME NEW a \in Ages, a + 1 \in Ages, a \in S PROVE a + 1 \in S
    <2>1. a + 1 # 0 /\ (a + 1) - 1 = a
        BY TicksInNat DEF Ages
    <2>2. UpTo(events)[a + 1] = UpTo(events)[a] + events[a + 1]
        BY <1>2, <2>1, UpToIs
    <2> QED
        BY <1>2, <2>2
<1>3. Ages \subseteq S
    <2> HIDE DEF S
    <2> QED
        BY <1>1, <1>2, AgesByInduction
<1> QED
    BY <1>3

LEMMA UpToOneMore ==
    ASSUME NEW events \in [Ages -> Nat]
    PROVE  \A a \in Ages : UpTo([events EXCEPT ![0] = @ + 1])[a] = UpTo(events)[a] + 1
<1> PICK more : more = [events EXCEPT ![0] = @ + 1]
    OBVIOUS
<1>0. 0 \in Ages
    BY TicksInNat DEF Ages
<1>1. more \in [Ages -> Nat] /\ more[0] = events[0] + 1 /\ \A a \in Ages : a # 0 => more[a] = events[a]
    BY <1>0
<1> DEFINE S == {a \in Ages : UpTo(more)[a] = UpTo(events)[a] + 1}
<1>2. 0 \in S
    BY <1>0, <1>1, UpToIs
<1>3. ASSUME NEW a \in Ages, a + 1 \in Ages, a \in S PROVE a + 1 \in S
    <2>1. a + 1 # 0 /\ (a + 1) - 1 = a
        BY TicksInNat DEF Ages
    <2>2. /\ UpTo(events)[a + 1] = UpTo(events)[a] + events[a + 1]
          /\ UpTo(more)[a + 1] = UpTo(more)[a] + events[a + 1]
        BY <1>1, <1>3, <2>1, UpToIs
    <2>3. UpTo(events)[a] \in Nat /\ events[a + 1] \in Nat
        BY <1>3, UpToIs
    <2> QED
        BY <1>3, <2>2, <2>3
<1>4. Ages \subseteq S
    <2> HIDE DEF S
    <2> QED
        BY <1>2, <1>3, AgesByInduction
<1> QED
    BY <1>4

LEMMA UpToATickLater ==
    ASSUME NEW events \in [Ages -> Nat], NEW later \in [Ages -> Nat],
           \A a \in Ages : later[a] = IF a = 0 THEN 0 ELSE events[a - 1]
    PROVE  /\ \A a \in Ages : a + 1 \in Ages => UpTo(later)[a + 1] = UpTo(events)[a]
           /\ UpTo(later)[WindowMs] <= UpTo(events)[WindowMs]
<1>0. 0 \in Ages /\ WindowMs \in Ages /\ \A a \in Ages : a \in Nat /\ (a # 0 => a - 1 \in Ages)
    BY TicksInNat DEF Ages
<1> DEFINE S == {a \in Ages : a + 1 \in Ages => UpTo(later)[a + 1] = UpTo(events)[a]}
<1>1. ASSUME NEW a \in Ages, a + 1 \in Ages
      PROVE  UpTo(later)[a + 1] = UpTo(later)[a] + events[a]
    <2>1. a + 1 # 0 /\ (a + 1) - 1 = a
        BY <1>0
    <2> QED
        BY <1>1, <2>1, UpToIs
<1>2. 0 \in S
    <2>1. UpTo(later)[0] = 0 /\ UpTo(events)[0] = events[0] /\ events[0] \in Nat
        BY <1>0, UpToIs
    <2> QED
        BY <1>0, <1>1, <2>1
<1>3. ASSUME NEW a \in Ages, a + 1 \in Ages, a \in S PROVE a + 1 \in S
    <2>1. (a + 1) - 1 = a /\ a + 1 # 0
        BY <1>0
    <2>2. UpTo(events)[a + 1] = UpTo(events)[a] + events[a + 1]
        BY <1>3, <2>1, UpToIs
    <2>3. UpTo(later)[a + 1] = UpTo(events)[a]
        BY <1>3
    <2>4. a + 1 + 1 \in Ages => UpTo(later)[a + 1 + 1] = UpTo(later)[a + 1] + events[a + 1]
        BY <1>1, <1>3
    <2> QED
        BY <1>3, <2>2, <2>3, <2>4
<1>4. Ages \subseteq S
    <2> HIDE DEF S
    <2> QED
        BY <1>2, <1>3, AgesByInduction
<1>5. UpTo(later)[WindowMs] <= UpTo(events)[WindowMs]
    <2>1. CASE WindowMs = 0
        BY <1>0, <2>1, UpToIs
    <2>2. CASE WindowMs # 0
        <3>1. WindowMs - 1 \in Ages /\ (WindowMs - 1) + 1 = WindowMs
            BY <1>0, <2>2
        <3>2. UpTo(later)[WindowMs] = UpTo(events)[WindowMs - 1]
            BY <1>0, <1>4, <3>1
        <3>3. /\ UpTo(events)[WindowMs] = UpTo(events)[WindowMs - 1] + events[WindowMs]
              /\ UpTo(events)[WindowMs - 1] \in Nat /\ events[WindowMs] \in Nat
            BY <1>0, <2>2, <3>1, UpToIs
        <3> QED
            BY <3>2, <3>3
    <2> QED
        BY <2>1, <2>2
<1> QED
    BY <1>4, <1>5

(* How far the window of a client reaches back into its history.           *)
Begun(age) == IF age < WindowMs THEN age ELSE WindowMs

(* What the record of a client has to do with the events it was let have.  *)
(* A forgotten client had none lately.  None came when its window was over *)
(* or since it was blocked; and if it is not blocked, the window counts    *)
(* its own events, and those before it were one window's worth at most.    *)
RateOf(st, events) ==
    IF ~ st.known
    THEN \A a \in Ages : events[a] = 0
    ELSE /\ \A a \in Ages : a + WindowMs < st.age => events[a] = 0
         /\ st.blocked => \A a \in Ages : a + st.left < BlockMs => events[a] = 0
         /\ ~ st.blocked =>
              /\ st.count <= MaxRequests
              /\ UpTo(events)[Begun(st.age)] <= st.count
              /\ UpTo(events)[WindowMs] <= UpTo(events)[Begun(st.age)] + MaxRequests

RateInv == \A s \in Sockets : RateOf(clientStates[s], recent[s])

Histories == [Ages -> Nat]

(* Ages are numbers, and so is the age of a window, as far as it matters.  *)
LEMMA AgesAre ==
    /\ 0 \in Ages /\ WindowMs \in Ages /\ \A a \in Ages : a \in Nat /\ a <= WindowMs
    /\ \A a \in Nat : Begun(a) \in Ages
    /\ \A a \in Ages : Begun(a) = a
BY TicksInNat DEF Ages, Begun

(* When a client may start anew.                                           *)
LEMMA NewRate ==
    ASSUME NEW events \in Histories,
           \/ \A a \in Ages : events[a] = 0
           \/ events[0] = 0 /\ UpTo(events)[WindowMs] <= MaxRequests
    PROVE  RateOf(NewState, events)
<1>1. UpTo(events)[0] = 0 /\ UpTo(events)[WindowMs] <= MaxRequests
    BY AgesAre, UpToIs, UpToNone, TicksInNat DEF Histories
<1>2. \A a \in Ages : ~ (a + WindowMs < 0)
    BY AgesAre, TicksInNat
<1> QED
    BY <1>1, <1>2, AgesAre, TicksInNat DEF RateOf, NewState

(* A window is renewed when nothing of it is left, or when no event of the *)
(* present tick is in it and it is all that is left.                       *)
LEMMA RenewedRate ==
    ASSUME NEW st \in StateRecord, NEW events \in Histories, RateOf(st, events), st.known,
           ~ StillBlocked(st)
    PROVE  /\ RateOf(Renewed(st), events) /\ Renewed(st).known /\ ~ Renewed(st).blocked
           /\ Renewed(st).age \in Ages
<1>0. /\ NewState.known /\ ~ NewState.blocked /\ NewState.age \in Ages
      /\ st.age \in Nat /\ st.left \in Nat /\ st.count \in Nat
    BY AgesAre DEF NewState, StateRecord
<1>1. CASE st.blocked
    <2>1. st.left = 0
        BY <1>0, <1>1 DEF StillBlocked
    <2>2. \A a \in Ages : events[a] = 0
        BY <1>1, <2>1, AgesAre, RateAssumption DEF RateOf
    <2> QED
        BY <1>0, <1>1, <2>2, NewRate DEF Renewed
<1>2. CASE ~ st.blocked /\ WindowOver(st)
    <2>1. Begun(st.age) = WindowMs
        BY <1>0, <1>2, TicksInNat DEF WindowOver, Begun
    <2>2. UpTo(events)[WindowMs] <= MaxRequests
        <3>1. UpTo(events)[WindowMs] \in Nat
            BY AgesAre, UpToIs DEF Histories
        <3> QED
            BY <1>0, <1>2, <2>1, <3>1, TicksInNat DEF RateOf
    <2>3. events[0] = 0
        BY <1>0, <1>2, AgesAre, TicksInNat DEF RateOf, WindowOver
    <2> QED
        BY <1>0, <1>2, <2>2, <2>3, NewRate DEF Renewed
<1>3. CASE ~ st.blocked /\ ~ WindowOver(st)
    <2>1. Renewed(st) = st
        BY <1>3 DEF Renewed
    <2>2. st.age \in Ages
        BY <1>0, <1>3, TicksInNat DEF WindowOver, Ages
    <2> QED
        BY <1>3, <2>1, <2>2
<1> QED
    BY <1>1, <1>2, <1>3

(* An event of the window, that is let through or too many.                *)
LEMMA CountedRate ==
    ASSUME NEW st \in StateRecord, NEW events \in Histories, RateOf(st, events), st.known,
           ~ StillBlocked(st)
    PROVE  LET more == [events EXCEPT ![0] = @ + 1]
           IN  /\ more \in Histories
               /\ ~ TooMany(st) => /\ RateOf(Counted(st), more)
                                   /\ UpTo(more)[WindowMs] <= 2 * MaxRequests
               /\ RateOf(Blocked(st), events)
<1>m. PICK more : more = [events EXCEPT ![0] = @ + 1]
    OBVIOUS
<1>r. PICK r : r = Renewed(st)
    OBVIOUS
<1>1. RateOf(r, events) /\ r.known /\ ~ r.blocked /\ r.age \in Ages
    BY <1>r, RenewedRate
<1>2. r \in StateRecord
    BY <1>r, NewInStateRecord DEF Renewed
<1>c. PICK c : c = Counted(st)
    OBVIOUS
<1>3. /\ c \in StateRecord /\ c.known /\ ~ c.blocked /\ c.age = r.age /\ c.count = r.count + 1
    <2>1. c = [r EXCEPT !.count = @ + 1]
        BY <1>c, <1>r DEF Counted
    <2> QED
        BY <1>1, <1>2, <2>1 DEF StateRecord
<1>4. more \in Histories /\ \A a \in Ages : a # 0 => more[a] = events[a]
    BY <1>m, AgesAre DEF Histories
<1>5. /\ \A a \in Ages : UpTo(more)[a] = UpTo(events)[a] + 1
      /\ \A a \in Ages : UpTo(events)[a] \in Nat
    BY <1>m, UpToOneMore, UpToIs DEF Histories
<1>6. Begun(r.age) = r.age /\ r.age \in Nat /\ r.age <= WindowMs /\ r.count \in Nat
    BY <1>1, <1>2, AgesAre DEF StateRecord
<1>7. \A a \in Ages : ~ (a + WindowMs < r.age)
    BY <1>6, AgesAre, TicksInNat
<1>8. /\ UpTo(events)[r.age] <= r.count
      /\ UpTo(events)[WindowMs] <= UpTo(events)[r.age] + MaxRequests
    BY <1>1, <1>6 DEF RateOf
<1>9. ASSUME ~ TooMany(st)
      PROVE  RateOf(c, more) /\ UpTo(more)[WindowMs] <= 2 * MaxRequests
    <2>1. c.count <= MaxRequests
        <3>1. ~ (c.count > MaxRequests)
            BY <1>c, <1>9 DEF TooMany
        <3>2. c.count \in Nat
            BY <1>3, <1>6
        <3> QED
            BY <3>1, <3>2, TicksInNat
    <2>2. UpTo(more)[r.age] <= c.count
        <3>1. UpTo(more)[r.age] = UpTo(events)[r.age] + 1 /\ UpTo(events)[r.age] \in Nat
            BY <1>1, <1>5
        <3> QED
            BY <1>3, <1>6, <1>8, <3>1
    <2>3. UpTo(more)[WindowMs] <= UpTo(more)[r.age] + MaxRequests
        <3>1. PICK m \in Nat : m = UpTo(events)[r.age]
            BY <1>1, <1>5
        <3>2. PICK w \in Nat : w = UpTo(events)[WindowMs]
            BY <1>5, AgesAre
        <3>3. UpTo(more)[r.age] = m + 1 /\ UpTo(more)[WindowMs] = w + 1
            BY <1>1, <1>5, <3>1, <3>2, AgesAre
        <3>4. w <= m + MaxRequests
            BY <1>8, <3>1, <3>2
        <3> QED
            BY <3>3, <3>4, TicksInNat
    <2>4. RateOf(c, more)
        <3>1. c.age = r.age /\ Begun(c.age) = r.age
            BY <1>3, <1>6
        <3>2. \A a \in Ages : ~ (a + WindowMs < c.age)
            BY <1>7, <3>1
        <3> QED
            BY <1>3, <2>1, <2>2, <2>3, <3>1, <3>2 DEF RateOf
    <2>5. UpTo(more)[WindowMs] \in Nat /\ UpTo(more)[r.age] \in Nat
        BY <1>1, <1>5, AgesAre
    <2> QED
        BY <1>3, <1>6, <2>1, <2>2, <2>3, <2>4, <2>5, TicksInNat
<1>10. RateOf(Blocked(st), events)
    <2>1. /\ Blocked(st).known /\ Blocked(st).blocked /\ Blocked(st).left = BlockMs
          /\ Blocked(st).age = r.age
        BY <1>c, <1>3 DEF Blocked, StateRecord
    <2>2. \A a \in Ages : ~ (a + BlockMs < BlockMs)
        BY AgesAre, TicksInNat
    <2> QED
        BY <1>7, <2>1, <2>2 DEF RateOf
<1> QED
    BY <1>m, <1>c, <1>4, <1>9, <1>10

(* A tick: the window and the history both grow older by one.              *)
LEMMA LaterRate ==
    ASSUME NEW st \in StateRecord, NEW events \in Histories, RateOf(st, events)
    PROVE  LET later == [a \in Ages |-> IF a = 0 THEN 0 ELSE events[a - 1]]
           IN  later \in Histories
               /\ RateOf([st EXCEPT !.age = Older(@), !.left = Less(@)], later)
<1> PICK later : later = [a \in Ages |-> IF a = 0 THEN 0 ELSE events[a - 1]]
    OBVIOUS
<1> PICK n : n = [st EXCEPT !.age = Older(@), !.left = Less(@)]
    OBVIOUS
<1>0. /\ st.age \in Nat /\ st.left \in Nat /\ st.count \in Nat /\ st.blocked \in BOOLEAN
      /\ st.known \in BOOLEAN
    BY DEF StateRecord
<1>1. /\ n.known = st.known /\ n.blocked = st.blocked /\ n.count = st.count
      /\ n.age = Older(st.age) /\ n.left = Less(st.left)
    BY DEF StateRecord
<1>a. \A a \in Ages : a \in Nat /\ (a # 0 => a - 1 \in Ages /\ a - 1 \in Nat)
    BY TicksInNat DEF Ages
<1>2. /\ later \in [Ages -> Nat]
      /\ \A a \in Ages : later[a] = IF a = 0 THEN 0 ELSE events[a - 1]
    BY <1>a DEF Histories
<1>3. /\ \A a \in Ages : a + 1 \in Ages => UpTo(later)[a + 1] = UpTo(events)[a]
      /\ UpTo(later)[WindowMs] <= UpTo(events)[WindowMs]
    BY <1>2, UpToATickLater DEF Histories
<1>4. CASE ~ st.known
    <2>1. \A a \in Ages : later[a] = 0
        BY <1>2, <1>4, <1>a DEF RateOf
    <2> QED
        BY <1>1, <1>2, <1>4, <2>1 DEF RateOf, Histories
<1>5. CASE st.known
    <2>1. ASSUME NEW a \in Ages, a + WindowMs < n.age PROVE later[a] = 0
        <3>1. a # 0 => (a - 1) + WindowMs < st.age
            BY <1>0, <1>1, <1>a, <2>1, TicksInNat DEF Older
        <3> QED
            BY <1>2, <1>5, <1>a, <3>1 DEF RateOf
    <2>2. ASSUME n.blocked, NEW a \in Ages, a + n.left < BlockMs PROVE later[a] = 0
        <3>1. a # 0 => (a - 1) + st.left < BlockMs
            BY <1>0, <1>1, <1>a, <2>2, TicksInNat DEF Less
        <3> QED
            BY <1>1, <1>2, <1>5, <1>a, <2>2, <3>1 DEF RateOf
    <2>3. ASSUME ~ n.blocked
          PROVE  /\ n.count <= MaxRequests
                 /\ UpTo(later)[Begun(n.age)] <= n.count
                 /\ UpTo(later)[WindowMs] <= UpTo(later)[Begun(n.age)] + MaxRequests
        <3>1. /\ st.count <= MaxRequests
              /\ UpTo(events)[Begun(st.age)] <= st.count
              /\ UpTo(events)[WindowMs] <= UpTo(events)[Begun(st.age)] + MaxRequests
            BY <1>1, <1>5, <2>3 DEF RateOf
        <3>2. /\ \A a \in Ages : UpTo(events)[a] \in Nat /\ UpTo(later)[a] \in Nat
              /\ Begun(st.age) \in Ages /\ WindowMs \in Ages /\ Begun(n.age) \in Ages
            BY <1>0, <1>1, <1>2, AgesAre, UpToIs, TicksInNat DEF Histories
        <3>3. CASE st.age < WindowMs
            <4>1. /\ Begun(st.age) = st.age /\ Begun(n.age) = st.age + 1
                  /\ st.age \in Ages /\ st.age + 1 \in Ages
                BY <1>0, <1>1, <3>3, RateAssumption, TicksInNat DEF Begun, Older, OldestAge, Ages
            <4>2. UpTo(later)[Begun(n.age)] = UpTo(events)[st.age]
                BY <1>3, <4>1
            <4> QED
                BY <1>1, <1>3, <3>1, <3>2, <4>1, <4>2, TicksInNat
        <3>4. CASE ~ (st.age < WindowMs)
            <4>1. Begun(st.age) = WindowMs /\ Begun(n.age) = WindowMs
                BY <1>0, <1>1, <3>4, RateAssumption, TicksInNat DEF Begun, Older, OldestAge
            <4> QED
                BY <1>0, <1>1, <1>3, <3>1, <3>2, <4>1, TicksInNat
        <3> QED
            BY <3>3, <3>4
    <2>4. n.known
        BY <1>1, <1>5
    <2>5. RateOf(n, later)
        BY <2>1, <2>2, <2>3, <2>4 DEF RateOf
    <2> QED
        BY <1>2, <2>5 DEF Histories
<1> QED
    BY <1>4, <1>5, <1>0

(* What the cleanup drops has nothing in its history any more: its window  *)
(* let nothing through after windowMs.                                     *)
LEMMA StaleRate ==
    ASSUME NEW st \in StateRecord, NEW events \in Histories, RateOf(st, events), Stale(st)
    PROVE  \A a \in Ages : events[a] = 0
<1>1. st.age \in Nat /\ st.age > StaleMs
    BY DEF Stale, StateRecord
<1>2. \A a \in Ages : a + WindowMs < st.age
    BY <1>1, AgesAre, RateAssumption
<1> QED
    BY <1>2 DEF RateOf

(* Nobody sent anything to begin with.                                     *)
LEMMA InitRate == LimiterInit => RateInv
<1> SUFFICES ASSUME LimiterInit, NEW s \in Sockets PROVE RateOf(clientStates[s], recent[s])
    BY DEF RateInv
<1>1. clientStates[s] = NoState /\ recent[s] = [a \in Ages |-> 0]
    BY DEF LimiterInit
<1> QED
    BY <1>1 DEF RateOf, NoState

(* Of the state a client has when its event comes in.                      *)
LEMMA StateOfRate ==
    ASSUME BlockInv, RateInv, NEW s \in Sockets
    PROVE  /\ StateOf(s) \in StateRecord /\ StateOf(s).known
           /\ recent[s] \in Histories /\ RateOf(StateOf(s), recent[s])
<1>1. recent[s] \in Histories /\ RateOf(clientStates[s], recent[s])
    BY DEF BlockInv, RateInv, Histories
<1>2. StateOf(s) \in StateRecord
    BY CountedInStateRecord DEF BlockInv
<1>3. CASE clientStates[s].known
    BY <1>1, <1>2, <1>3 DEF StateOf
<1>4. CASE ~ clientStates[s].known
    <2>1. RateOf(NewState, recent[s])
        BY <1>1, <1>4, NewRate DEF RateOf
    <2> QED
        BY <1>1, <1>2, <1>4, <2>1 DEF StateOf, NewState
<1> QED
    BY <1>3, <1>4

NoMoreThanTwoWindows == \A s \in Sockets : TwoWindowsAtMost(s)

(* No step breaks the bond of record and history, nor lets too much pass.  *)
LEMMA StepRate ==
    ASSUME BlockInv, RateInv, [Next]_vars
    PROVE  RateInv' /\ NoMoreThanTwoWindows
<1> DEFINE Kept == RateInv' /\ NoMoreThanTwoWindows
<1>0. ASSUME NEW t \in Sockets
      PROVE  /\ clientStates[t] \in StateRecord /\ recent[t] \in Histories
             /\ RateOf(clientStates[t], recent[t]) /\ recent[t][0] \in Nat
    BY CountsInNat DEF BlockInv, StatesInv, RateInv, Histories
<1>1. ASSUME UNCHANGED recent PROVE NoMoreThanTwoWindows
    BY <1>0, <1>1 DEF NoMoreThanTwoWindows, TwoWindowsAtMost
<1>2. ASSUME UNCHANGED limiterVars \/ LimiterStops PROVE Kept
    BY <1>1, <1>2 DEF limiterVars, LimiterStops, RateInv
<1>3. ASSUME NEW s \in Sockets, LimiterBlocks(s) PROVE Kept
    <2>1. /\ clientStates' = [clientStates EXCEPT ![s] = Blocked(StateOf(s))]
          /\ UNCHANGED recent /\ ~ StillBlocked(StateOf(s))
        BY <1>3 DEF LimiterBlocks
    <2>2. RateOf(Blocked(StateOf(s)), recent[s])
        BY <2>1, StateOfRate, CountedRate
    <2>3. ASSUME NEW t \in Sockets PROVE RateOf(clientStates'[t], recent'[t])
        <3>1. CASE t = s
            BY <2>1, <2>2, <3>1 DEF BlockInv, StatesInv
        <3>2. CASE t # s
            BY <1>0, <2>1, <3>2 DEF BlockInv, StatesInv
        <3> QED
            BY <3>1, <3>2
    <2> QED
        BY <1>1, <2>1, <2>3 DEF RateInv
<1>4. ASSUME NEW s \in Sockets, LimiterAdmits(s) PROVE Kept
    <2>m. PICK more : more = [recent[s] EXCEPT ![0] = @ + 1]
        OBVIOUS
    <2>c. PICK c : c = Counted(StateOf(s))
        OBVIOUS
    <2>1. /\ clientStates' = [clientStates EXCEPT ![s] = c]
          /\ recent' = [recent EXCEPT ![s] = more]
          /\ ~ StillBlocked(StateOf(s)) /\ ~ TooMany(StateOf(s))
        BY <1>4, <2>m, <2>c DEF LimiterAdmits
    <2>2. RateOf(c, more) /\ UpTo(more)[WindowMs] <= 2 * MaxRequests
        BY <2>1, <2>m, <2>c, StateOfRate, CountedRate
    <2>3. /\ clientStates'[s] = c /\ recent'[s] = more
          /\ \A t \in Sockets : t # s => clientStates'[t] = clientStates[t] /\ recent'[t] = recent[t]
        BY <2>1 DEF BlockInv, StatesInv
    <2>4. ASSUME NEW t \in Sockets PROVE RateOf(clientStates'[t], recent'[t]) /\ TwoWindowsAtMost(t)
        <3>1. CASE t = s
            BY <2>2, <2>3, <3>1 DEF TwoWindowsAtMost, Admitted
        <3>2. CASE t # s
            BY <1>0, <2>3, <3>2 DEF TwoWindowsAtMost
        <3> QED
            BY <3>1, <3>2
    <2> QED
        BY <2>4 DEF RateInv, NoMoreThanTwoWindows
<1>5. ASSUME NEW s \in Sockets, LimiterForgets(s) PROVE Kept
    <2>1. /\ clientStates' = [clientStates EXCEPT ![s] = NoState]
          /\ recent' = [recent EXCEPT ![s] = [a \in Ages |-> 0]]
        BY <1>5 DEF LimiterForgets
    <2>2. /\ clientStates'[s] = NoState /\ recent'[s] = [a \in Ages |-> 0]
          /\ \A t \in Sockets : t # s => clientStates'[t] = clientStates[t] /\ recent'[t] = recent[t]
        BY <2>1 DEF BlockInv, StatesInv
    <2>3. ASSUME NEW t \in Sockets PROVE RateOf(clientStates'[t], recent'[t]) /\ TwoWindowsAtMost(t)
        <3>1. CASE t = s
            BY <1>0, <2>2, <3>1, AgesAre DEF TwoWindowsAtMost, RateOf, NoState
        <3>2. CASE t # s
            BY <1>0, <2>2, <3>2 DEF TwoWindowsAtMost
        <3> QED
            BY <3>1, <3>2
    <2> QED
        BY <2>3 DEF RateInv, NoMoreThanTwoWindows
<1>6. ASSUME LimiterTicks PROVE Kept
    <2>1. ASSUME NEW t \in Sockets PROVE RateOf(clientStates'[t], recent'[t]) /\ TwoWindowsAtMost(t)
        <3>1. /\ clientStates'[t] = [clientStates[t] EXCEPT !.age = Older(@), !.left = Less(@)]
              /\ recent'[t] = [a \in Ages |-> IF a = 0 THEN 0 ELSE recent[t][a - 1]]
            BY <1>6 DEF LimiterTicks
        <3>2. RateOf(clientStates'[t], recent'[t])
            <4>1. PICK st \in StateRecord : st = clientStates[t]
                BY <1>0
            <4>2. PICK events \in Histories : events = recent[t]
                BY <1>0
            <4>3. RateOf([st EXCEPT !.age = Older(@), !.left = Less(@)],
                         [a \in Ages |-> IF a = 0 THEN 0 ELSE events[a - 1]])
                BY <1>0, <4>1, <4>2, LaterRate
            <4> QED
                BY <3>1, <4>1, <4>2, <4>3
        <3>3. recent'[t][0] = 0
            BY <3>1, AgesAre
        <3> QED
            BY <1>0, <3>2, <3>3 DEF TwoWindowsAtMost
    <2> QED
        BY <2>1 DEF RateInv, NoMoreThanTwoWindows
<1>7. ASSUME LimiterCleansUp PROVE Kept
    <2>1. ASSUME NEW t \in Sockets PROVE RateOf(clientStates'[t], recent'[t])
        <3>1. recent'[t] = recent[t]
            BY <1>7 DEF LimiterCleansUp
        <3>2. clientStates'[t] = IF Stale(clientStates[t]) THEN NoState ELSE clientStates[t]
            BY <1>7 DEF LimiterCleansUp
        <3>3. CASE Stale(clientStates[t])
            <4>1. \A a \in Ages : recent[t][a] = 0
                BY <1>0, <3>3, StaleRate
            <4> QED
                BY <3>1, <3>2, <3>3, <4>1 DEF RateOf, NoState
        <3>4. CASE ~ Stale(clientStates[t])
            BY <1>0, <3>1, <3>2, <3>4
        <3> QED
            BY <3>3, <3>4
    <2> QED
        BY <1>1, <1>7, <2>1 DEF RateInv, LimiterCleansUp
<1>8. ASSUME NEW s \in Sockets, SocketStep(s) PROVE Kept
    <2>1. ASSUME LimiterDrops(s) \/ LimiterBlocks(s) \/ LimiterAdmits(s) \/ LimiterForgets(s)
          PROVE  Kept
        BY <1>2, <1>3, <1>4, <1>5, <2>1 DEF LimiterDrops
    <2> QED
        BY <1>2, <1>8, <2>1
           DEF SocketStep, Connects, IsRejected, Disconnects, EventIsDropped, EventIsHandled,
               CredentialsArrive, SaveIsDone, TearDownIsDone
<1>9. ASSUME NEW g \in Signals, SignalStep(g) PROVE Kept
    BY <1>2, <1>9 DEF SignalStep, Signalled, PurgeStarts, PurgeProceeds, PurgeEnds,
                      ScanIsDone, DeleteIsDone
<1>10. ASSUME RedisIsLost \/ RedisIsBack \/ UNCHANGED vars PROVE Kept
    BY <1>2, <1>10 DEF RedisIsLost, RedisIsBack, vars
<1>11. ASSUME Ticks \/ CleansUp PROVE Kept
    BY <1>6, <1>7, <1>11 DEF Ticks, CleansUp
<1> QED
    BY <1>8, <1>9, <1>10, <1>11 DEF Next

(* For any rate, window, block and threshold that RateAssumption allows: no *)
(* event passes while the block its client was told of lasts, and no       *)
(* stretch of windowMs, wherever it begins, has more than two windows'     *)
(* worth of events, although the cleanup forgets clients at any time       *)
(* (rateLimitMiddleware with startCleanup and cleanupClient).              *)
THEOREM TheRateIsKeptHolds == Spec => TheRateIsKept
<1>1. Init => BlockInv /\ RateInv
    BY InitBlock, InitRate DEF Init
<1>2. BlockInv /\ RateInv /\ [Next]_vars => (BlockInv /\ RateInv)'
    BY StepBlock, StepRate
<1>3. BlockInv /\ RateInv /\ [Next]_vars
        => [\A s \in Sockets : NothingPassesABlock(s) /\ TwoWindowsAtMost(s)]_limiterVars
    BY StepBlock, StepRate DEF NoMoreThanTwoWindows
<1> QED
    BY <1>1, <1>2, <1>3, PTL DEF Spec, TheRateIsKept

(***************************************************************************)
(* The keys                                                                *)
(***************************************************************************)

Commands == {Save(s) : s \in Sockets} \cup {TearDown(s) : s \in Sockets}
              \cup {Scan(g) : g \in Signals}
              \cup {Delete(g, k) : g \in Signals, k \in Own}

IsOf(command, g) == command = Scan(g) \/ \E k \in Own : command = Delete(g, k)

WireType ==
    /\ wire \in Seq(Commands)
    /\ status \in [Sockets -> {"new", "open", "closed", "rejected"}]
    /\ shutdown \in [Signals -> {"none", "sessions", "first", "purge"}]
    /\ page \in [Signals -> SUBSET Own]
    /\ unread \in [Signals -> SUBSET Own]
    /\ lastPage \in [Signals -> BOOLEAN]

(* A save under way is followed by its session's delete, unless the        *)
(* session is open or its delete could not be sent.                        *)
SaveInv ==
    \A n \in 1 .. Len(wire), s \in Sockets : wire[n] = Save(s) =>
        \/ s \in Open \cup orphans
        \/ \E m \in 1 .. Len(wire) : m > n /\ wire[m] = TearDown(s)

KeyInv ==
    /\ ForeignKeys \subseteq keys
    /\ \A s \in keys \cap Own :
          s \in Open \cup orphans \/ \E m \in 1 .. Len(wire) : wire[m] = TearDown(s)

(* A purge waits for one reply at a time, and reads a page when it has     *)
(* done with the one before.                                               *)
TurnInv ==
    \A g \in Signals :
        /\ \A n, m \in 1 .. Len(wire) : IsOf(wire[n], g) /\ IsOf(wire[m], g) => n = m
        /\ shutdown[g] \in {"none", "sessions"} => \A n \in 1 .. Len(wire) : ~IsOf(wire[n], g)
        /\ \A n \in 1 .. Len(wire) : wire[n] = Scan(g) => page[g] = {}
        /\ shutdown[g] # "purge" => page[g] = {} /\ ~lastPage[g]

(* What a purge has not deleted yet is on its page, or still to be read,   *)
(* or was saved since.                                                     *)
PurgeInv ==
    /\ \A g \in Signals :
          /\ shutdown[g] = "purge" => keys \cap Own \subseteq late \cup page[g] \cup unread[g]
          /\ lastPage[g] => keys \cap Own \subseteq late \cup page[g]
    /\ process = "purged" => Purging # {} /\ keys \cap Own \subseteq late

ShellInv == WireType /\ SaveInv /\ KeyInv /\ TurnInv /\ PurgeInv

LEMMA CommandsDiffer ==
    /\ \A s, t : Save(s) # TearDown(t)
    /\ \A s, t : Save(s) = Save(t) => s = t
    /\ \A s, t : TearDown(s) = TearDown(t) => s = t
    /\ \A g, s : ~IsOf(Save(s), g) /\ ~IsOf(TearDown(s), g)
    /\ \A g, h : Scan(g) = Scan(h) => g = h
    /\ \A g, h, k : Scan(g) # Delete(h, k)
    /\ \A g, h, k, l : Delete(g, k) = Delete(h, l) => g = h /\ k = l
    /\ \A g, s : Scan(g) # Save(s) /\ Scan(g) # TearDown(s)
    /\ \A g, k, s : Delete(g, k) # Save(s) /\ Delete(g, k) # TearDown(s)
BY DEF Save, TearDown, Scan, Delete, IsOf

LEMMA IdleHasNone ==
    ASSUME WireType, NEW g, Idle(g)
    PROVE  \A n \in 1 .. Len(wire) : ~IsOf(wire[n], g)
<1>1. DOMAIN wire = 1 .. Len(wire)
    BY LenProperties DEF WireType
<1>2. Scan(g)[2] = g /\ \A k : Delete(g, k)[2] = g
    BY DEF Scan, Delete
<1> QED
    BY <1>1, <1>2 DEF Idle, IsOf

LEMMA WireCarried ==
    ASSUME WireType, NEW command, Carries(command)
    PROVE  /\ wire' \in Seq(Commands) /\ 1 \in 1 .. Len(wire) /\ wire[1] = command
           /\ Len(wire) \in Nat /\ Len(wire') = Len(wire) - 1
           /\ \A n \in 1 .. Len(wire') : n + 1 \in 1 .. Len(wire) /\ wire'[n] = wire[n + 1]
           /\ \A n \in 1 .. Len(wire) : n # 1 =>
                 n - 1 \in 1 .. Len(wire') /\ wire'[n - 1] = wire[n]
<1>1. wire \in Seq(Commands) /\ wire # <<>> /\ Head(wire) = command /\ wire' = Tail(wire)
    BY DEF WireType, Carries
<1>2. Len(wire) \in Nat \ {0} /\ wire[1] = Head(wire)
    BY <1>1, EmptySeq
<1>3. /\ Tail(wire) \in Seq(Commands) /\ Len(Tail(wire)) = Len(wire) - 1
      /\ \A n \in 1 .. Len(Tail(wire)) : Tail(wire)[n] = wire[n + 1]
    BY <1>1, HeadTailProperties
<1> QED
    BY <1>1, <1>2, <1>3

LEMMA WireWritten ==
    ASSUME WireType, NEW command \in Commands, Written(command)
    PROVE  /\ wire' \in Seq(Commands) /\ Len(wire) \in Nat /\ Len(wire') = Len(wire) + 1
           /\ \A n \in 1 .. Len(wire) : n \in 1 .. Len(wire') /\ wire'[n] = wire[n]
           /\ Len(wire') \in 1 .. Len(wire') /\ wire'[Len(wire')] = command
           /\ \A n \in 1 .. Len(wire') : n # Len(wire') => n \in 1 .. Len(wire)
<1>1. wire \in Seq(Commands) /\ wire' = Append(wire, command) /\ Len(wire) \in Nat
    BY LenProperties DEF WireType, Written
<1>2. /\ Append(wire, command) \in Seq(Commands)
      /\ Len(Append(wire, command)) = Len(wire) + 1
      /\ \A n \in 1 .. Len(wire) : Append(wire, command)[n] = wire[n]
      /\ Append(wire, command)[Len(wire) + 1] = command
    BY <1>1
<1> QED
    BY <1>1, <1>2

(* SaveInv and KeyInv under the three kinds of steps: nothing happens on   *)
(* the wire, something is written to it, something is carried out.         *)
LEMMA KeysWhenQuiet ==
    ASSUME SaveInv, KeyInv, UNCHANGED <<wire, keys>>,
           Open \cup orphans \subseteq (Open \cup orphans)'
    PROVE  SaveInv' /\ KeyInv'
BY DEF SaveInv, KeyInv

LEMMA KeysWhenWritten ==
    ASSUME WireType, SaveInv, KeyInv, NEW command \in Commands, Written(command),
           UNCHANGED keys,
           \A s \in Sockets : command = Save(s) => s \in (Open \cup orphans)',
           \A s \in Open \cup orphans :
              s \notin (Open \cup orphans)' => command = TearDown(s)
    PROVE  SaveInv' /\ KeyInv'
<1>1. ASSUME NEW n \in 1 .. Len(wire'), NEW s \in Sockets, wire'[n] = Save(s),
             s \notin (Open \cup orphans)'
      PROVE  \E m \in 1 .. Len(wire') : m > n /\ wire'[m] = TearDown(s)
    <2>1. n \in 1 .. Len(wire) /\ wire[n] = Save(s)
        BY <1>1, WireWritten
    <2>2. CASE s \in Open \cup orphans
        BY <1>1, <2>1, <2>2, WireWritten
    <2>3. CASE s \notin Open \cup orphans
        BY <2>1, <2>3, WireWritten DEF SaveInv
    <2> QED
        BY <2>2, <2>3
<1>2. ASSUME NEW s \in keys \cap Own, s \notin (Open \cup orphans)'
      PROVE  \E m \in 1 .. Len(wire') : wire'[m] = TearDown(s)
    <2>1. CASE s \in Open \cup orphans
        BY <1>2, <2>1, WireWritten
    <2>2. CASE s \notin Open \cup orphans
        BY <1>2, <2>2, WireWritten DEF KeyInv
    <2> QED
        BY <2>1, <2>2
<1> QED
    BY <1>1, <1>2 DEF SaveInv, KeyInv

LEMMA KeysWhenCarried ==
    ASSUME WireType, SaveInv, KeyInv, NEW command, Carries(command),
           UNCHANGED <<status, orphans>>,
           ForeignKeys \subseteq keys',
           \A s \in Sockets : s \in keys' => s \in keys \/ command = Save(s),
           \A s \in Sockets : command = TearDown(s) => s \notin keys'
    PROVE  SaveInv' /\ KeyInv'
<1>0. (Open \cup orphans)' = Open \cup orphans
    BY DEF Open
<1>1. ASSUME NEW n \in 1 .. Len(wire'), NEW s \in Sockets, wire'[n] = Save(s),
             s \notin Open \cup orphans
      PROVE  \E m \in 1 .. Len(wire') : m > n /\ wire'[m] = TearDown(s)
    <2>1. n + 1 \in 1 .. Len(wire) /\ wire[n + 1] = Save(s)
        BY <1>1, WireCarried
    <2>2. PICK m \in 1 .. Len(wire) : m > n + 1 /\ wire[m] = TearDown(s)
        BY <1>1, <2>1 DEF SaveInv
    <2>3. m - 1 \in 1 .. Len(wire') /\ wire'[m - 1] = TearDown(s) /\ m - 1 > n
        BY <2>2, WireCarried
    <2> QED
        BY <2>3
<1>2. ASSUME NEW s \in keys' \cap Own, s \notin Open \cup orphans
      PROVE  \E m \in 1 .. Len(wire') : wire'[m] = TearDown(s)
    <2>1. \E m \in 1 .. Len(wire) : wire[m] = TearDown(s)
        <3>1. CASE s \in keys
            BY <1>2, <3>1 DEF KeyInv
        <3>2. CASE s \notin keys
            <4>1. wire[1] = Save(s) /\ 1 \in 1 .. Len(wire)
                BY <1>2, <3>2, WireCarried DEF Own
            <4> QED
                BY <1>2, <4>1 DEF SaveInv, Own
        <3> QED
            BY <3>1, <3>2
    <2>2. PICK m \in 1 .. Len(wire) : wire[m] = TearDown(s)
        BY <2>1
    <2>3. m # 1
        BY <1>2, <2>2, WireCarried DEF Own
    <2> QED
        BY <2>2, <2>3, WireCarried
<1> QED
    BY <1>0, <1>1, <1>2 DEF SaveInv, KeyInv

(* TurnInv likewise: only a purge writes its commands.                     *)
LEMMA TurnsWhenQuiet ==
    ASSUME TurnInv, UNCHANGED <<wire, page, lastPage>>,
           \A g \in Signals :
              \/ shutdown'[g] = shutdown[g]
              \/ shutdown[g] = "none" /\ shutdown'[g] = "sessions"
              \/ shutdown[g] = "sessions" /\ shutdown'[g] = "first"
    PROVE  TurnInv'
BY DEF TurnInv

LEMMA TurnsWhenOthersWrite ==
    ASSUME WireType, TurnInv, NEW command \in Commands, Written(command),
           \A g : ~IsOf(command, g), UNCHANGED <<page, lastPage, shutdown>>
    PROVE  TurnInv'
<1>1. ASSUME NEW n \in 1 .. Len(wire'), NEW g, IsOf(wire'[n], g)
      PROVE  n \in 1 .. Len(wire) /\ wire'[n] = wire[n]
    BY <1>1, WireWritten
<1>2. \A g : IsOf(Scan(g), g)
    BY DEF IsOf
<1> QED
    BY <1>1, <1>2 DEF TurnInv

LEMMA TurnsWhenWritten ==
    ASSUME WireType, TurnInv, NEW h \in Signals, NEW command \in Commands,
           Written(command), IsOf(command, h), \A g : g # h => ~IsOf(command, g),
           \A n \in 1 .. Len(wire) : ~IsOf(wire[n], h),
           command = Scan(h) => page[h] = {},
           shutdown'[h] \in {"first", "purge"},
           shutdown[h] # "purge" => shutdown'[h] = "first",
           shutdown[h] = "purge" => shutdown'[h] = "purge",
           \A g \in Signals \ {h} : shutdown'[g] = shutdown[g],
           UNCHANGED <<page, lastPage>>
    PROVE  TurnInv'
<1>0. \A g : IsOf(Scan(g), g)
    BY DEF IsOf
<1>1. ASSUME NEW n \in 1 .. Len(wire'), IsOf(wire'[n], h) PROVE n = Len(wire')
    BY <1>1, WireWritten
<1>2. ASSUME NEW n \in 1 .. Len(wire'), NEW g \in Signals \ {h}, IsOf(wire'[n], g)
      PROVE  n \in 1 .. Len(wire) /\ wire'[n] = wire[n]
    BY <1>2, WireWritten
<1>3. ASSUME NEW n \in 1 .. Len(wire'), wire'[n] = Scan(h) PROVE page'[h] = {}
    BY <1>0, <1>1, <1>3, WireWritten
<1>4. ASSUME NEW g \in Signals
      PROVE  /\ \A n, m \in 1 .. Len(wire') : IsOf(wire'[n], g) /\ IsOf(wire'[m], g) => n = m
             /\ shutdown'[g] \in {"none", "sessions"}
                  => \A n \in 1 .. Len(wire') : ~IsOf(wire'[n], g)
             /\ \A n \in 1 .. Len(wire') : wire'[n] = Scan(g) => page'[g] = {}
             /\ shutdown'[g] # "purge" => page'[g] = {} /\ ~lastPage'[g]
    <2>1. CASE g = h
        BY <1>1, <1>3, <2>1 DEF TurnInv
    <2>2. CASE g # h
        BY <1>0, <1>2, <2>2 DEF TurnInv
    <2> QED
        BY <2>1, <2>2
<1> QED
    BY <1>4 DEF TurnInv

LEMMA TurnsWhenCarried ==
    ASSUME WireType, TurnInv, NEW command, Carries(command),
           \A g \in Signals :
              \/ page'[g] \subseteq page[g] /\ lastPage'[g] = lastPage[g]
                   /\ shutdown'[g] = shutdown[g]
              \/ command = Scan(g) /\ shutdown'[g] = "purge"
    PROVE  TurnInv'
<1>0. \A g : IsOf(Scan(g), g)
    BY DEF IsOf
<1>1. ASSUME NEW n \in 1 .. Len(wire')
      PROVE  n + 1 \in 1 .. Len(wire) /\ wire'[n] = wire[n + 1]
    BY WireCarried
<1>2. ASSUME NEW g \in Signals
      PROVE  /\ \A n, m \in 1 .. Len(wire') : IsOf(wire'[n], g) /\ IsOf(wire'[m], g) => n = m
             /\ shutdown'[g] \in {"none", "sessions"}
                  => \A n \in 1 .. Len(wire') : ~IsOf(wire'[n], g)
             /\ \A n \in 1 .. Len(wire') : wire'[n] = Scan(g) => page'[g] = {}
             /\ shutdown'[g] # "purge" => page'[g] = {} /\ ~lastPage'[g]
    <2>1. ASSUME NEW n \in 1 .. Len(wire'), NEW m \in 1 .. Len(wire'),
                 IsOf(wire'[n], g), IsOf(wire'[m], g)
          PROVE  n = m
        <3>1. n + 1 = m + 1
            BY <1>1, <2>1 DEF TurnInv
        <3> QED
            BY <3>1
    <2>2. CASE command = Scan(g) /\ shutdown'[g] = "purge"
        <3>1. ASSUME NEW n \in 1 .. Len(wire') PROVE wire'[n] # Scan(g)
            <4>1. wire[1] = Scan(g) /\ 1 \in 1 .. Len(wire)
                BY <2>2, WireCarried
            <4>2. n + 1 # 1
                OBVIOUS
            <4> QED
                BY <1>0, <1>1, <4>1, <4>2 DEF TurnInv
        <3> QED
            BY <2>1, <2>2, <3>1
    <2>3. CASE page'[g] \subseteq page[g] /\ lastPage'[g] = lastPage[g]
                 /\ shutdown'[g] = shutdown[g]
        BY <1>1, <2>1, <2>3 DEF TurnInv
    <2> QED
        BY <2>2, <2>3
<1> QED
    BY <1>2 DEF TurnInv

LEMMA PurgeWhenQuiet ==
    ASSUME PurgeInv, UNCHANGED <<keys, late, page, unread, lastPage>>,
           process' = process \/ process' = "unpurged",
           \A g \in Signals : (shutdown[g] = "purge") = (shutdown'[g] = "purge")
    PROVE  PurgeInv'
BY DEF PurgeInv, Purging

LEMMA InitShell == Init => ShellInv
<1> SUFFICES ASSUME Init PROVE ShellInv
    OBVIOUS
<1>1. wire = <<>> /\ Len(wire) = 0 /\ wire \in Seq(Commands)
    BY EmptySeq DEF Init
<1>2. WireType
    BY <1>1 DEF Init, WireType
<1>3. SaveInv /\ TurnInv
    BY <1>1 DEF Init, SaveInv, TurnInv
<1>4. keys \cap Own = {}
    BY ShellAssumption DEF Init, Own
<1>5. KeyInv /\ PurgeInv
    BY <1>4 DEF Init, KeyInv, PurgeInv
<1> QED
    BY <1>2, <1>3, <1>5 DEF ShellInv

LEMMA StepShell == ShellInv /\ [Next]_vars => ShellInv'
<1> SUFFICES ASSUME ShellInv, [Next]_vars PROVE ShellInv'
    OBVIOUS
<1> USE DEF ShellInv
<1>1. ASSUME UNCHANGED <<wire, keys, late, page, unread, lastPage, shutdown, process>>,
             status' \in [Sockets -> {"new", "open", "closed", "rejected"}],
             Open \cup orphans \subseteq (Open \cup orphans)'
      PROVE  ShellInv'
    <2>1. WireType'
        BY <1>1 DEF WireType
    <2>2. SaveInv' /\ KeyInv'
        BY <1>1, KeysWhenQuiet
    <2>3. TurnInv'
        BY <1>1, TurnsWhenQuiet
    <2>4. PurgeInv'
        BY <1>1, PurgeWhenQuiet
    <2> QED
        BY <2>1, <2>2, <2>3, <2>4
<1>2. ASSUME NEW s \in Sockets, NEW i \in Ips \cup {NoIp}, Connects(s, i) \/ IsRejected(s, i)
      PROVE  ShellInv'
    <2>1. /\ UNCHANGED <<wire, keys, late, page, unread, lastPage, shutdown, process, orphans>>
          /\ status' \in [Sockets -> {"new", "open", "closed", "rejected"}]
        BY <1>2 DEF Connects, IsRejected, redisVars, purgeVars, WireType
    <2>2. Open \subseteq Open'
        BY <1>2 DEF Connects, IsRejected, WireType, Open
    <2> QED
        BY <1>1, <2>1, <2>2
<1>3. ASSUME NEW s \in Sockets, Disconnects(s) PROVE ShellInv'
    <2>1. /\ UNCHANGED <<keys, late, page, unread, lastPage, shutdown, process>>
          /\ status' \in [Sockets -> {"new", "open", "closed", "rejected"}]
          /\ Open' = Open \ {s}
        BY <1>3 DEF Disconnects, purgeVars, WireType, Open
    <2>2. CASE Refused /\ orphans' = orphans \cup {s}
        <3>1. wire' = wire /\ Open \cup orphans \subseteq (Open \cup orphans)'
            BY <2>1, <2>2 DEF Refused
        <3> QED
            BY <1>1, <2>1, <3>1
    <2>3. CASE Written(TearDown(s)) /\ UNCHANGED orphans
        <3>1. TearDown(s) \in Commands
            BY DEF Commands
        <3>2. WireType'
            BY <2>1, <2>3, <3>1, WireWritten DEF WireType
        <3>3. SaveInv' /\ KeyInv'
            BY <2>1, <2>3, <3>1, CommandsDiffer, KeysWhenWritten
        <3>4. TurnInv'
            BY <2>1, <2>3, <3>1, CommandsDiffer, TurnsWhenOthersWrite
        <3> QED
            BY <2>1, <3>2, <3>3, <3>4, PurgeWhenQuiet
    <2> QED
        BY <1>3, <2>2, <2>3 DEF Disconnects
<1>4. ASSUME NEW s \in Sockets, EventIsDropped(s) \/ EventIsHandled(s) PROVE ShellInv'
    BY <1>1, <1>4 DEF EventIsDropped, EventIsHandled, shellVars, Open, WireType
<1>5. ASSUME NEW s \in Sockets, CredentialsArrive(s) PROVE ShellInv'
    <2>1. /\ UNCHANGED <<keys, late, page, unread, lastPage, shutdown, process, status, orphans>>
          /\ s \in Open /\ Open' = Open
        BY <1>5 DEF CredentialsArrive, purgeVars, slotVars, Open
    <2>2. CASE Refused
        BY <1>1, <2>1, <2>2 DEF Refused, WireType
    <2>3. CASE Written(Save(s))
        <3>1. Save(s) \in Commands
            BY DEF Commands
        <3>2. WireType'
            BY <2>1, <2>3, <3>1, WireWritten DEF WireType
        <3>3. SaveInv' /\ KeyInv'
            BY <2>1, <2>3, <3>1, CommandsDiffer, KeysWhenWritten
        <3>4. TurnInv'
            BY <2>1, <2>3, <3>1, CommandsDiffer, TurnsWhenOthersWrite
        <3> QED
            BY <2>1, <3>2, <3>3, <3>4, PurgeWhenQuiet
    <2> QED
        BY <1>5, <2>2, <2>3 DEF CredentialsArrive
<1>6. ASSUME NEW s \in Sockets, SaveIsDone(s) PROVE ShellInv'
    <2>1. /\ Carries(Save(s)) /\ keys' = keys \cup {s}
          /\ late' = IF Purging # {} THEN late \cup {s} ELSE late
          /\ UNCHANGED <<process, status, orphans, shutdown, page, lastPage>>
        BY <1>6 DEF SaveIsDone, slotVars
    <2>2. PICK seen \in SUBSET Purging :
             unread' = [g \in Signals |-> IF g \in seen THEN unread[g] \cup {s} ELSE unread[g]]
        BY <1>6 DEF SaveIsDone
    <2>3. WireType'
        BY <2>1, <2>2, WireCarried DEF WireType, Own
    <2>4. SaveInv' /\ KeyInv'
        <3>1. ForeignKeys \subseteq keys'
            BY <2>1 DEF KeyInv
        <3> QED
            BY <2>1, <3>1, CommandsDiffer, KeysWhenCarried
    <2>5. TurnInv'
        BY <2>1, TurnsWhenCarried
    <2>6. PurgeInv'
        <3>1. \A g \in Signals : unread[g] \subseteq unread'[g]
            BY <2>2
        <3>2. \A g \in Signals : shutdown[g] = "purge" => s \in late'
            BY <2>1 DEF Purging
        <3>3. \A g \in Signals : lastPage[g] => shutdown[g] = "purge"
            BY DEF TurnInv
        <3>4. late \subseteq late' /\ Purging' = Purging
            BY <2>1 DEF Purging
        <3>5. process = "purged" => s \in late'
            BY <2>1 DEF PurgeInv
        <3> QED
            BY <2>1, <3>1, <3>2, <3>3, <3>4, <3>5 DEF PurgeInv
    <2> QED
        BY <2>3, <2>4, <2>5, <2>6
<1>7. ASSUME NEW s \in Sockets, TearDownIsDone(s) PROVE ShellInv'
    <2>1. /\ Carries(TearDown(s)) /\ keys' = keys \ {s}
          /\ unread' = [g \in Signals |-> unread[g] \ {s}]
          /\ UNCHANGED <<process, status, orphans, late, shutdown, page, lastPage>>
        BY <1>7 DEF TearDownIsDone, slotVars
    <2>2. WireType'
        BY <2>1, WireCarried DEF WireType
    <2>3. SaveInv' /\ KeyInv'
        <3>1. ForeignKeys \subseteq keys'
            BY <2>1, ShellAssumption DEF KeyInv
        <3> QED
            BY <2>1, <3>1, CommandsDiffer, KeysWhenCarried
    <2>4. TurnInv'
        BY <2>1, TurnsWhenCarried
    <2>5. PurgeInv'
        BY <2>1 DEF PurgeInv, Purging
    <2> QED
        BY <2>2, <2>3, <2>4, <2>5
<1>8. ASSUME NEW g \in Signals, Signalled(g) PROVE ShellInv'
    <2>1. /\ shutdown[g] = "none" /\ shutdown' = [shutdown EXCEPT ![g] = "sessions"]
          /\ UNCHANGED <<wire, keys, late, page, unread, lastPage, process, status, orphans>>
        BY <1>8 DEF Signalled, redisVars, slotVars
    <2>2. WireType'
        BY <2>1 DEF WireType
    <2>3. (Open \cup orphans)' = Open \cup orphans
        BY <2>1 DEF Open
    <2>4. SaveInv' /\ KeyInv'
        BY <2>1, <2>3, KeysWhenQuiet
    <2>5. /\ shutdown'[g] = "sessions"
          /\ \A h \in Signals \ {g} : shutdown'[h] = shutdown[h]
        BY <2>1 DEF WireType
    <2>6. TurnInv' /\ PurgeInv'
        <3>1. TurnInv'
            BY <2>1, <2>5, TurnsWhenQuiet
        <3>2. PurgeInv'
            BY <2>1, <2>5, PurgeWhenQuiet
        <3> QED
            BY <3>1, <3>2
    <2> QED
        BY <2>2, <2>4, <2>6
<1>9. ASSUME NEW g \in Signals, PurgeStarts(g) PROVE ShellInv'
    <2>1. /\ shutdown[g] = "sessions" /\ shutdown' = [shutdown EXCEPT ![g] = "first"]
          /\ UNCHANGED <<keys, late, page, unread, lastPage, status, orphans>>
        BY <1>9 DEF PurgeStarts, slotVars
    <2>2. PurgeInv'
        BY <1>9, <2>1, PurgeWhenQuiet DEF PurgeStarts, PurgeFails, WireType
    <2>3. CASE Written(Scan(g))
        <3>1. Scan(g) \in Commands /\ IsOf(Scan(g), g) /\ \A h : h # g => ~IsOf(Scan(g), h)
            BY CommandsDiffer DEF Commands, IsOf
        <3>2. WireType'
            BY <2>1, <2>3, <3>1, WireWritten DEF WireType
        <3>3. SaveInv' /\ KeyInv'
            BY <2>1, <2>3, <3>1, CommandsDiffer, KeysWhenWritten DEF Open
        <3>4. /\ \A n \in 1 .. Len(wire) : ~IsOf(wire[n], g)
              /\ page[g] = {} /\ shutdown'[g] = "first"
              /\ \A h \in Signals \ {g} : shutdown'[h] = shutdown[h]
            BY <2>1 DEF TurnInv, WireType
        <3>5. TurnInv'
            BY <2>1, <2>3, <3>1, <3>4, TurnsWhenWritten
        <3> QED
            BY <2>2, <3>2, <3>3, <3>5
    <2>4. CASE PurgeFails
        <3>1. wire' = wire
            BY <2>4 DEF PurgeFails, Refused
        <3>2. WireType'
            BY <2>1, <3>1 DEF WireType
        <3>3. SaveInv' /\ KeyInv'
            <4>1. (Open \cup orphans)' = Open \cup orphans
                BY <2>1 DEF Open
            <4> QED
                BY <2>1, <3>1, <4>1, KeysWhenQuiet
        <3>4. TurnInv'
            <4>1. /\ shutdown'[g] = "first"
                  /\ \A h \in Signals \ {g} : shutdown'[h] = shutdown[h]
                BY <2>1 DEF WireType
            <4> QED
                BY <2>1, <3>1, <4>1, TurnsWhenQuiet
        <3> QED
            BY <2>2, <3>2, <3>3, <3>4
    <2> QED
        BY <1>9, <2>3, <2>4 DEF PurgeStarts
<1>10. ASSUME NEW g \in Signals, PurgeProceeds(g) PROVE ShellInv'
    <2>1. /\ shutdown[g] = "purge"
          /\ \A n \in 1 .. Len(wire) : ~IsOf(wire[n], g)
          /\ UNCHANGED <<keys, late, page, unread, lastPage, shutdown, status, orphans>>
        BY <1>10, IdleHasNone DEF PurgeProceeds, slotVars, purgeVars
    <2>2. PurgeInv'
        BY <1>10, <2>1, PurgeWhenQuiet DEF PurgeProceeds, PurgeFails
    <2>3. ASSUME NEW command \in Commands, Written(command), IsOf(command, g),
                 command = Scan(g) => page[g] = {}
          PROVE  ShellInv'
        <3>1. /\ \A h : h # g => ~IsOf(command, h)
              /\ \A s : command # Save(s) /\ command # TearDown(s)
            BY <2>3, CommandsDiffer DEF IsOf
        <3>2. WireType'
            BY <2>1, <2>3, WireWritten DEF WireType
        <3>3. SaveInv' /\ KeyInv'
            BY <2>1, <2>3, <3>1, KeysWhenWritten DEF Open
        <3>4. TurnInv'
            BY <2>1, <2>3, <3>1, TurnsWhenWritten
        <3> QED
            BY <2>2, <3>2, <3>3, <3>4
    <2>4. CASE page[g] = {} /\ Written(Scan(g))
        BY <2>3, <2>4 DEF Commands, IsOf
    <2>5. ASSUME NEW k \in page[g], Written(Delete(g, k)) PROVE ShellInv'
        <3>1. k \in Own
            BY <2>5 DEF WireType
        <3> QED
            BY <2>3, <2>5, <3>1, CommandsDiffer DEF Commands, IsOf
    <2>6. CASE PurgeFails
        <3>1. wire' = wire
            BY <2>6 DEF PurgeFails, Refused
        <3>2. (Open \cup orphans)' = Open \cup orphans
            BY <2>1 DEF Open
        <3>3. SaveInv' /\ KeyInv'
            BY <2>1, <3>1, <3>2, KeysWhenQuiet
        <3>4. TurnInv'
            BY <2>1, <3>1, TurnsWhenQuiet
        <3>5. WireType'
            BY <2>1, <3>1 DEF WireType
        <3> QED
            BY <2>2, <3>3, <3>4, <3>5
    <2> QED
        BY <1>10, <2>4, <2>5, <2>6 DEF PurgeProceeds
<1>11. ASSUME NEW g \in Signals, PurgeEnds(g) PROVE ShellInv'
    <2>1. /\ shutdown[g] = "purge" /\ page[g] = {} /\ lastPage[g] /\ process' = "purged"
          /\ UNCHANGED <<wire, keys, late, page, unread, lastPage, shutdown, status, orphans>>
        BY <1>11 DEF PurgeEnds, HasSentAll, slotVars, redisVars, purgeVars
    <2>2. PurgeInv'
        BY <2>1 DEF PurgeInv, Purging
    <2>3. (Open \cup orphans)' = Open \cup orphans
        BY <2>1 DEF Open
    <2>4. SaveInv' /\ KeyInv'
        BY <2>1, <2>3, KeysWhenQuiet
    <2>5. TurnInv'
        BY <2>1, TurnsWhenQuiet
    <2>6. WireType'
        BY <2>1 DEF WireType
    <2> QED
        BY <2>2, <2>4, <2>5, <2>6
<1>12. ASSUME NEW g \in Signals, ScanIsDone(g) PROVE ShellInv'
    <2> DEFINE there == IF shutdown[g] = "first" THEN keys \cap Own ELSE unread[g]
    <2>1. /\ Carries(Scan(g)) /\ shutdown' = [shutdown EXCEPT ![g] = "purge"]
          /\ UNCHANGED <<keys, late, process, status, orphans>>
        BY <1>12 DEF ScanIsDone, slotVars
    <2>2. PICK found \in SUBSET there, end \in {TRUE, FALSE} :
             /\ page' = [page EXCEPT ![g] = found]
             /\ unread' = [unread EXCEPT ![g] = there \ found]
             /\ end => found = there
             /\ lastPage' = [lastPage EXCEPT ![g] = end]
        BY <1>12 DEF ScanIsDone
    <2>3. there \subseteq Own
        BY DEF WireType
    <2>4. IsOf(Scan(g), g) /\ wire[1] = Scan(g) /\ 1 \in 1 .. Len(wire)
        BY <2>1, WireCarried DEF IsOf
    <2>5. page[g] = {} /\ shutdown[g] \in {"first", "purge"}
        BY <2>4 DEF TurnInv, WireType
    <2>6. keys \cap Own \subseteq late \cup there
        BY <2>5 DEF PurgeInv
    <2> HIDE DEF there
    <2>7. WireType'
        BY <2>1, <2>2, <2>3, WireCarried DEF WireType
    <2>8. SaveInv' /\ KeyInv'
        BY <2>1, CommandsDiffer, KeysWhenCarried DEF KeyInv
    <2>9. TurnInv'
        <3>1. \A h \in Signals : h # g =>
                 page'[h] = page[h] /\ lastPage'[h] = lastPage[h] /\ shutdown'[h] = shutdown[h]
            BY <2>1, <2>2 DEF WireType
        <3>2. shutdown'[g] = "purge"
            BY <2>1 DEF WireType
        <3> QED
            BY <2>1, <3>1, <3>2, TurnsWhenCarried
    <2>10. PurgeInv'
        <3>1. /\ page'[g] = found /\ unread'[g] = there \ found /\ lastPage'[g] = end
              /\ \A h \in Signals \ {g} :
                    page'[h] = page[h] /\ unread'[h] = unread[h] /\ lastPage'[h] = lastPage[h]
                    /\ shutdown'[h] = shutdown[h]
            BY <2>1, <2>2 DEF WireType
        <3>2. Purging \subseteq Purging'
            BY <2>1 DEF Purging, WireType
        <3> QED
            BY <2>1, <2>2, <2>6, <3>1, <3>2 DEF PurgeInv
    <2> QED
        BY <2>7, <2>8, <2>9, <2>10
<1>13. ASSUME NEW g \in Signals, NEW k \in Own, DeleteIsDone(g, k) PROVE ShellInv'
    <2>1. /\ Carries(Delete(g, k)) /\ keys' = keys \ {k}
          /\ page' = [page EXCEPT ![g] = @ \ {k}]
          /\ UNCHANGED <<process, status, orphans, late, shutdown, unread, lastPage>>
        BY <1>13 DEF DeleteIsDone, slotVars
    <2>2. WireType'
        BY <2>1, WireCarried DEF WireType
    <2>3. SaveInv' /\ KeyInv'
        <3>1. ForeignKeys \subseteq keys'
            BY <2>1, ShellAssumption DEF KeyInv, Own
        <3> QED
            BY <2>1, <3>1, CommandsDiffer, KeysWhenCarried
    <2>4. \A h \in Signals : page'[h] \subseteq page[h] /\ page[h] \ {k} \subseteq page'[h]
        BY <2>1 DEF WireType
    <2>5. TurnInv'
        BY <2>1, <2>4, TurnsWhenCarried
    <2>6. PurgeInv'
        BY <2>1, <2>4 DEF PurgeInv, Purging
    <2> QED
        BY <2>2, <2>3, <2>5, <2>6
<1>14. ASSUME RedisIsLost \/ RedisIsBack \/ Ticks \/ CleansUp \/ UNCHANGED vars
       PROVE  ShellInv'
    <2>1. UNCHANGED <<wire, keys, late, page, unread, lastPage, shutdown, process, status, orphans>>
        BY <1>14 DEF RedisIsLost, RedisIsBack, Ticks, CleansUp, vars, shellVars, slotVars, purgeVars
    <2> QED
        BY <1>1, <2>1 DEF Open, WireType
<1>15. ASSUME NEW s \in Sockets, SocketStep(s) PROVE ShellInv'
    BY <1>2, <1>3, <1>4, <1>5, <1>6, <1>7, <1>15 DEF SocketStep
<1>16. ASSUME NEW g \in Signals, SignalStep(g) PROVE ShellInv'
    BY <1>8, <1>9, <1>10, <1>11, <1>12, <1>13, <1>16 DEF SignalStep
<1> QED
    BY <1>14, <1>15, <1>16 DEF Next

THEOREM ShellInvariant == Spec => []ShellInv
BY InitShell, StepShell, PTL DEF Spec

(* Credential keys go with their sessions and with the server: for any     *)
(* number of sessions, saves, signals and losses of the connection.        *)
THEOREM ItsKeysGoWithTheServerHolds == Spec => []ItsKeysGoWithTheServer
<1>1. ShellInv => ItsKeysGoWithTheServer
    <2> SUFFICES ASSUME ShellInv PROVE ItsKeysGoWithTheServer
        OBVIOUS
    <2>1. DOMAIN wire = 1 .. Len(wire)
        BY LenProperties DEF ShellInv, WireType
    <2> QED
        BY <2>1 DEF ShellInv, KeyInv, PurgeInv, ItsKeysGoWithTheServer, GoesWithItsSession
<1> QED
    BY <1>1, ShellInvariant, PTL
=============================================================================
