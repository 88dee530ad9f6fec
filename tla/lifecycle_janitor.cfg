\* A persistent and a global identifier, a cap of one instance, HTTP requests only.
SPECIFICATION FairSpec
CONSTANTS
  i1 = i1
  i2 = i2
  i3 = i3
  s1 = s1
  irc = irc
  feeds = feeds
  http0 = http0
  Identifiers <- TwoIds
  Global <- OneGlobal
  Sessions <- NoSessions
  Http = http0
  Instances <- TwoInstances
  NoInstance = NoInstance
  MaxInstances = 1
  MaxCredentialJobs = 1
  MaxHttp = 2
  MaxRedisFailures = 0
INVARIANTS
  TypeOK
PROPERTIES
  OnlyUselessIsEnded
  PausedQueueIsLeft
  UnusedIsReaped
