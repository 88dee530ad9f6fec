------------------------ MODULE MCPlatformLifecycle ------------------------
(* Small instances of PlatformLifecycle for TLC. *)
EXTENDS PlatformLifecycle, TLC

CONSTANTS i1, i2, i3, s1, irc, feeds, http0

TwoInstances == {i1, i2}
ThreeInstances == {i1, i2, i3}
OneSession == {s1}
NoSessions == {}
OneId == {irc}
TwoIds == {irc, feeds}
OneGlobal == {feeds}
NoGlobal == {}

InterchangeableInstances == Permutations(TwoInstances)
=============================================================================
