\* Two peers, three changes of any kind and a failing command.
SPECIFICATION BandwidthSpec
CONSTANTS
    CNs = {1, 2}
    IPs = {p, q}
    Devices = {tun0, tun1}
    Shapes <- Plain
    LastClass = 12
    MaxChanges = 3
    MaxFailures = 1
    Excused = {"failed", "recreated", "renamed", "ceiling", "wrapped", "restarted"}
    NoPeer = NoPeer
    NoInstance = NoInstance
    NoEntry = NoEntry
    NoDev = NoDev
    NoIP = NoIP
SYMMETRY Interchangeable
INVARIANTS BandwidthTypeOK BookedIsShaped ShapedAfterSync
CHECK_DEADLOCK FALSE
