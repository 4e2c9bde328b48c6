\* Two configurations, two calls and a failure, no crash, under fairness: what
\* runs is what was applied, and the reconciler catches up.
SPECIFICATION FairSpec
CONSTANTS
    Names = {ovpn}
    Confs = {old, new}
    Procs = {p1, p2, p3}
    Requests = {h1}
    Ops = {"create", "update", "enable", "up", "down", "restart", "reconcile"}
    MaxCalls = 2
    MaxFailures = 1
    MaxCrashes = 0
    NoRow = NoRow
    NoConf = NoConf
    NoPid = NoPid
    NoName = NoName
    Free = Free
    Unmanaged = Unmanaged
    Nobody = Nobody
    Ticker = Ticker
INVARIANT AppliedConfRuns
PROPERTIES Converges
