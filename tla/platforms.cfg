\* A process of each platform, with jobs of several sessions and three accounts.
\* No deadlock check: the process ends, or has taken all its jobs.
SPECIFICATION FairSpec
CONSTANTS
  c1 = c1
  c2 = c2
  j1 = j1
  j2 = j2
  good = good
  other = other
  renamed = renamed
  Credentials <- ThreeAccounts
  NoCredentials = NoCredentials
  Renamed = renamed
  Channels <- TwoChannels
  Rooms <- OneChannel
  MaxJobs = 4
  MaxKicks = 1
  MaxClients = 2
  MaxDrops = 1
  DavJobs <- TwoDavJobs
  Protocols <- BothProtocols
  MaxVersion = 3
  MaxRedirects = 1
  MaxAuthAttempts = 2
CHECK_DEADLOCK FALSE
INVARIANTS
  TypeOK
  RoomsFollowTheServer
  SuccessIsOnTheConnectionItProves
  SuccessMeansWrittenOnce
PROPERTIES
  AWriteReplacesWhatItsClientSaw
  EveryJobSettles
