----------------------------- MODULE MCPlatforms -----------------------------
EXTENDS Platforms, TLC

CONSTANTS c1, c2, good, other, renamed, j1, j2

OneChannel    == {c1}
TwoChannels   == {c1, c2}
TwoDavJobs    == {j1, j2}
ThreeAccounts == {good, other, renamed}
BothProtocols == {"caldav", "carddav"}
=============================================================================
