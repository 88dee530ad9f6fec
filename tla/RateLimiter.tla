---------------------------- MODULE RateLimiter ----------------------------
(***************************************************************************)
(* The per-socket rate limiter (server/src/rate-limiter.ts).               *)
(*                                                                         *)
(* The code keeps wall-clock instants and only ever compares them with     *)
(* Date.now(), so an instant is kept here as the distance to the present:  *)
(* "age" is now - windowStart and "left" is blockedUntil - now.  Ticks     *)
(* moves the present on by one unit for everybody.  An age is counted up   *)
(* to the first value the code can no longer tell from a greater one.      *)
(***************************************************************************)
EXTENDS Integers

CONSTANTS
    Sockets,        \* socket ids; socket.io never uses one twice
    MaxRequests,    \* rateLimiter:maxRequests
    WindowMs,       \* rateLimiter:windowMs, in ticks
    BlockMs,        \* rateLimiter:blockDurationMs, in ticks
    StaleMs         \* STALE_ENTRY_THRESHOLD_MS, in ticks

(* The defaults are 100 events, 1000, 5000 and 60000 ms.  A block that is  *)
(* shorter than a window, or that outlasts the stale threshold, would let  *)
(* more pass than the properties say.                                      *)
ASSUME RateAssumption ==
    /\ MaxRequests \in Nat /\ WindowMs \in Nat
    /\ BlockMs \in Nat /\ StaleMs \in Nat
    /\ WindowMs < BlockMs
    /\ WindowMs + BlockMs <= StaleMs

VARIABLES
    clientStates,   \* the map of the module, NoState for a key that is absent
    cleaning,       \* the cleanup interval runs
    recent,         \* history: the events let through, by their age in ticks
    barred          \* history: what is left of the block a client was told of

limiterVars == <<clientStates, cleaning, recent, barred>>

OldestAge == StaleMs + 1
Ages == 0 .. WindowMs

NoState == [count |-> 0, age |-> OldestAge, blocked |-> FALSE, left |-> 0, known |-> FALSE]
NewState == [count |-> 0, age |-> 0, blocked |-> FALSE, left |-> 0, known |-> TRUE]

Older(age) == IF age < OldestAge THEN age + 1 ELSE OldestAge
Less(left) == IF left > 0 THEN left - 1 ELSE 0

LimiterInit ==
    /\ clientStates = [s \in Sockets |-> NoState]
    /\ cleaning = TRUE
    /\ recent = [s \in Sockets |-> [a \in Ages |-> 0]]
    /\ barred = [s \in Sockets |-> 0]

(* const state = clientStates.get(socket.id), or the new one that is put   *)
(* into the map.                                                           *)
StateOf(s) == IF clientStates[s].known THEN clientStates[s] ELSE NewState

StillBlocked(st) == st.blocked /\ st.left > 0

(* A block that is over and a window that is over both start a new window  *)
(* at this event; a window is over when more than windowMs went by.        *)
WindowOver(st) == st.age > WindowMs
Renewed(st) == IF st.blocked \/ WindowOver(st) THEN NewState ELSE st

Counted(st) == [Renewed(st) EXCEPT !.count = @ + 1]
TooMany(st) == Counted(st).count > MaxRequests
Blocked(st) == [Counted(st) EXCEPT !.blocked = TRUE, !.left = BlockMs]

(* next(error): a blocked client's event is dropped and counts for nothing. *)
LimiterDrops(s) ==
    /\ StillBlocked(StateOf(s))
    /\ UNCHANGED limiterVars

(* next(error) as well, and the client is told that it is blocked.         *)
LimiterBlocks(s) ==
    /\ ~StillBlocked(StateOf(s))
    /\ TooMany(StateOf(s))
    /\ clientStates' = [clientStates EXCEPT ![s] = Blocked(StateOf(s))]
    /\ barred' = [barred EXCEPT ![s] = BlockMs]
    /\ UNCHANGED <<cleaning, recent>>

(* next()                                                                  *)
LimiterAdmits(s) ==
    /\ ~StillBlocked(StateOf(s))
    /\ ~TooMany(StateOf(s))
    /\ clientStates' = [clientStates EXCEPT ![s] = Counted(StateOf(s))]
    /\ recent' = [recent EXCEPT ![s][0] = @ + 1]
    /\ UNCHANGED <<cleaning, barred>>

(* cleanupClient(), for an id that sends nothing from then on.             *)
LimiterForgets(s) ==
    /\ clientStates' = [clientStates EXCEPT ![s] = NoState]
    /\ recent' = [recent EXCEPT ![s] = [a \in Ages |-> 0]]
    /\ barred' = [barred EXCEPT ![s] = 0]
    /\ UNCHANGED cleaning

(* Mutant of Stale: the cleanup drops whatever has an old window.          *)
StaleAfterAWindow(st) == st.age > WindowMs + 1

Stale(st) == st.age > StaleMs

(* A run of the cleanup interval, at any time while it is not stopped:     *)
(* the default of half the threshold bounds the time between two runs, and *)
(* nothing here depends on there being one.                                *)
LimiterCleansUp ==
    /\ cleaning
    /\ clientStates' = [s \in Sockets |-> IF Stale(clientStates[s]) THEN NoState
                                          ELSE clientStates[s]]
    /\ UNCHANGED <<cleaning, recent, barred>>

(* stopCleanup()                                                           *)
LimiterStops ==
    /\ cleaning' = FALSE
    /\ UNCHANGED <<clientStates, recent, barred>>

LimiterTicks ==
    /\ clientStates' = [s \in Sockets |->
            [clientStates[s] EXCEPT !.age = Older(@), !.left = Less(@)]]
    /\ recent' = [s \in Sockets |->
            [a \in Ages |-> IF a = 0 THEN 0 ELSE recent[s][a - 1]]]
    /\ barred' = [s \in Sockets |-> Less(barred[s])]
    /\ UNCHANGED cleaning

(* How many events were let through in the last ticks, and in a window.     *)
UpTo(events) ==
    LET sum[a \in Ages] == IF a = 0 THEN events[0] ELSE sum[a - 1] + events[a]
    IN  sum

Admitted(s) == UpTo(recent[s])[WindowMs]

LimiterType ==
    /\ clientStates \in [Sockets -> [count : 0 .. MaxRequests + 1, age : 0 .. OldestAge,
                                     blocked : BOOLEAN, left : 0 .. BlockMs,
                                     known : BOOLEAN]]
    /\ cleaning \in BOOLEAN
    /\ recent \in [Sockets -> [Ages -> Nat]]
    /\ barred \in [Sockets -> 0 .. BlockMs]

(***************************************************************************)
(* Properties                                                              *)
(***************************************************************************)

(* The limiter keeps its word over time, although its windows start where  *)
(* events happen to fall and its cleanup forgets clients: nothing is let   *)
(* through while the block a client was told of lasts, and no stretch of   *)
(* windowMs, wherever it begins, holds more than two windows' worth.       *)
NothingPassesABlock(s) == recent'[s][0] > recent[s][0] => barred[s] = 0
TwoWindowsAtMost(s) == recent'[s][0] > recent[s][0] => Admitted(s)' <= 2 * MaxRequests

TheRateIsKept ==
    [][\A s \in Sockets : NothingPassesABlock(s) /\ TwoWindowsAtMost(s)]_limiterVars
=============================================================================
