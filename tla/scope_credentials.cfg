\* Two sockets, with and without a secret, two promises at a time. No deadlock check: stale records may come to hold every session id.
SPECIFICATION Spec
CONSTANTS
  a = a
  b = b
  c = c
  nick1 = nick1
  nick2 = nick2
  home = home
  secret1 = secret1
  Sessions <- TwoSessions
  HttpSessions <- NoHttp
  Ips <- OneIp
  Actors <- OneActor
  Secrets <- OneSecret
  NoSecret = NoSecret
  NoRecord = NoRecord
  Promises <- TwoPromises
  MaxReplies = 2
CHECK_DEADLOCK FALSE
SYMMETRY TwoAlike
INVARIANTS
  OwnWorkerIsPrivate
  ScopeFollowsCredentials
