\* A refused import has overwritten the keys of the instance whose name it asked for;
\* two handlers, or a patch, give two instances networks that overlap; a take-over goes
\* on with another openvpn that was given the pid.  Each is violated: leave one of the
\* three in to see it.
SPECIFICATION Spec
CONSTANTS
    Calls = {c1, c2}
    Requests <- SomeRequests
    NameSpan = 2
    NameTop = 4
    PortSpan = 2
    PortTop = 2
    Networks <- SomeNetworks
    AutoNetworks <- SomeAutoNetworks
    CNs = {cn1, cn2}
    PoolTop = 4
    IPs = {2}
    Pids = {1}
    MaxGen = 2
    MaxCalls = 3
    MaxPatches = 1
    Unset = Unset
    NoRow = NoRow
    NoNet = NoNet
    NoPid = 0
SYMMETRY Interchangeable
INVARIANTS KeysAreOwn NetworksDisjoint
PROPERTIES StopsTheSame
CHECK_DEADLOCK FALSE
