\* Two requests, POST or GET, with one request id or without, a body of each kind, a fault.
\* No deadlock check: each request is made once.
SPECIFICATION FairSpec
CONSTANTS
  r1 = r1
  r2 = r2
  Requests <- TwoRequests
  Body <- MixedBody
  BatchSize = 2
  MaxFaults = 1
CHECK_DEADLOCK FALSE
INVARIANTS
  TypeOK
  ExecutedOnce
  MessagesFollowCredentials
  QueuedWorkIsHeld
PROPERTIES
  ReplayIsTheStream
  EveryRequestEnds
