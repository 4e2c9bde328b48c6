\* A device that is re-created with its process while the enforcer's book is not, and a
\* ceiling on the device of a server, which shares the root qdisc and class 1:10 with
\* its peers: nothing of that is excused.
SPECIFICATION BandwidthSpec
CONSTANTS
    CNs = {1, 2}
    IPs = {p, q}
    Devices = {tun0, tun1}
    Shapes <- Plain
    LastClass = 12
    MaxChanges = 3
    MaxFailures = 1
    Excused = {"failed", "renamed", "wrapped", "restarted"}
    NoPeer = NoPeer
    NoInstance = NoInstance
    NoEntry = NoEntry
    NoDev = NoDev
    NoIP = NoIP
SYMMETRY Interchangeable
INVARIANT ShapedAfterSync
CHECK_DEADLOCK FALSE
