\* Commented: a change of the actor updates the listener.
SPECIFICATION ClaimsSpec
CONSTANTS
  r1 = r1
  r2 = r2
  i1 = i1
  i2 = i2
  nick1 = nick1
  nick2 = nick2
  Requests <- TwoRequests
  Updates <- AnUpdate
  Instances <- TwoInstances
  Names <- TwoNames
  NoRequest = NoRequest
  NoInstance = NoInstance
  NoName = NoName
CHECK_DEADLOCK FALSE
PROPERTY
  ActorChangeTakesEffect
