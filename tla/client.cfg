\* Four messages of one actor, one of them invalid, three connections, two registries.
\* No deadlock check: each message is emitted once, connections are bounded.
SPECIFICATION FairSpec
CONSTANTS
  login = login
  wrong = wrong
  join = join
  leave = leave
  call = call
  v1 = v1
  v2 = v2
  none = none
  Messages <- Session
  Kind <- SessionKinds
  Key <- SessionKeys
  Invalid <- OnlyWrong
  Calls <- OneCall
  Registries <- TwoRegistries
  NoRegistry = none
  MaxQueued = 2
  MaxConnects = 3
CHECK_DEADLOCK FALSE
INVARIANTS
  TypeOK
  EveryMessageIsAccountedFor
  SessionIsRestored
  ReplayComesFirst
  
  ReadyWithTheServersRegistry
PROPERTIES
  NothingWaitsForEver
