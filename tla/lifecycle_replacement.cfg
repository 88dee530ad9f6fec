\* One persistent identifier, one socket and HTTP, two objects alive at once, a Redis failure.
SPECIFICATION FairSpec
CONSTANTS
  i1 = i1
  i2 = i2
  i3 = i3
  s1 = s1
  irc = irc
  feeds = feeds
  http0 = http0
  Identifiers <- OneId
  Global <- NoGlobal
  Sessions <- OneSession
  Http = http0
  Instances <- TwoInstances
  NoInstance = NoInstance
  MaxInstances = 0
  MaxCredentialJobs = 0
  MaxHttp = 1
  MaxRedisFailures = 1
INVARIANTS
  NoOrphan
  QueueDestroyerIsAlone
PROPERTIES
  EntryLeavesWithItsTeardown
  ImplementsOwnership
  GetSettles
