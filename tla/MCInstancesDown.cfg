\* An instance whose process exits and cannot be started again.
SPECIFICATION FairSpec
CONSTANTS
    Names = {ovpn}
    Confs = {conf}
    Procs = {p1, p2, p3}
    Requests = {h1}
    Ops = {"reconcile"}
    MaxCalls = 0
    MaxFailures = 2
    MaxCrashes = 0
    NoRow = NoRow
    NoConf = NoConf
    NoPid = NoPid
    NoName = NoName
    Free = Free
    Unmanaged = Unmanaged
    Nobody = Nobody
    Ticker = Ticker
PROPERTY DownIsReported
