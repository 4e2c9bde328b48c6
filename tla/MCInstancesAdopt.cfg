\* Changes of the configuration and a crash of the daemon: an adopted process
\* keeps what it runs, and is restarted when its row is changed back to that.
SPECIFICATION Spec
CONSTANTS
    Names = {ovpn}
    Confs = {old, new}
    Procs = {p1, p2, p3}
    Requests = {h1}
    Ops = {"update"}
    MaxCalls = 2
    MaxFailures = 0
    MaxCrashes = 1
    NoRow = NoRow
    NoConf = NoConf
    NoPid = NoPid
    NoName = NoName
    Free = Free
    Unmanaged = Unmanaged
    Nobody = Nobody
    Ticker = Ticker
SYMMETRY Interchangeable
INVARIANT AppliedConfRuns
PROPERTY KeepsHealthy
