\* A socket and an HTTP request, credentials that fail, teardowns. No deadlock check, as in scope_credentials.
SPECIFICATION FairSpec
CONSTANTS
  a = a
  b = b
  c = c
  nick1 = nick1
  nick2 = nick2
  home = home
  secret1 = secret1
  Sessions <- OneOfEach
  HttpSessions <- OneHttp
  Ips <- OneIp
  Actors <- OneActor
  Secrets <- OneSecret
  NoSecret = NoSecret
  NoRecord = NoRecord
  Promises <- OnePromise
  MaxReplies = 1
CHECK_DEADLOCK FALSE
INVARIANTS
  TypeOK
PROPERTIES
  MessageSettles
