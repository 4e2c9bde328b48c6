\* A PATCH and a POST .../down at the same time, a delete while the ticker reconciles,
\* and an instance that is taken down when its binary no longer resolves.  Each is
\* violated: leave one of the three in to see it.
SPECIFICATION Spec
CONSTANTS
    Names = {ovpn}
    Confs = {old, new}
    Procs = {p1, p2, p3}
    Requests = {h1, h2}
    Ops = {"update", "down", "delete"}
    MaxCalls = 2
    MaxFailures = 1
    MaxCrashes = 0
    NoRow = NoRow
    NoConf = NoConf
    NoPid = NoPid
    NoName = NoName
    Free = Free
    Unmanaged = Unmanaged
    Nobody = Nobody
    Ticker = Ticker
SYMMETRY Interchangeable
INVARIANTS RemovedIsStopped PassedDisabledIsDown
PROPERTY PatchKeepsEnabled
