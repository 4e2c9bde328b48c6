\* One configuration, two concurrent calls of any kind, a failure and a crash
\* of the daemon: one process, the right handle, down when disabled.
SPECIFICATION Spec
CONSTANTS
    Names = {ovpn}
    Confs = {conf}
    Procs = {p1, p2, p3}
    Requests = {h1, h2}
    Ops = {"create", "update", "enable", "up", "down", "restart", "reconcile", "delete"}
    MaxCalls = 2
    MaxFailures = 1
    MaxCrashes = 1
    NoRow = NoRow
    NoConf = NoConf
    NoPid = NoPid
    NoName = NoName
    Free = Free
    Unmanaged = Unmanaged
    Nobody = Nobody
    Ticker = Ticker
SYMMETRY Interchangeable
INVARIANTS TypeOK ChildTracked AtMostOneProcess DisabledStaysDown
PROPERTY KeepsHealthy
