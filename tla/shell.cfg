\* The three loads of MCServerShell, each by itself.
\* No deadlock check: the process exits in the end.
SPECIFICATION Spec
CONSTANTS
    s1 = s1
    s2 = s2
    s3 = s3
    busy = busy
    TERM = TERM
    INT = INT
    Sockets = {s1, s2, s3, busy}
    Ips = {i1}
    NoIp = nowhere
    MaxPerIp = 2
    MaxRequests = 1
    WindowMs = 2
    BlockMs = 3
    StaleMs = 5
    Signals = {TERM, INT}
    ForeignKeys = {foreign}
    MaxWire = 3
    MaxOutages = 1
    Loads <- ThreeLoads
SYMMETRY Symmetry
INVARIANTS
    TheServerCountsItsSockets
    ItsKeysGoWithTheServer
PROPERTIES
    TheRateIsKept
CHECK_DEADLOCK FALSE
