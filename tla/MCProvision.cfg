\* Two handlers at a time make instances and clients, administrators patch and
\* delete them, and a foreign process is taken over while its pid is used again.
SPECIFICATION Spec
CONSTANTS
    Calls = {c1, c2}
    Requests <- SomeRequests
    NameSpan = 2
    NameTop = 4
    PortSpan = 2
    PortTop = 2
    Networks <- SomeNetworks
    AutoNetworks <- SomeAutoNetworks
    CNs = {cn1, cn2}
    PoolTop = 4
    IPs = {2}
    Pids = {1}
    MaxGen = 2
    MaxCalls = 3
    MaxPatches = 1
    Unset = Unset
    NoRow = NoRow
    NoNet = NoNet
    NoPid = 0
SYMMETRY Interchangeable
INVARIANTS TypeOK NotBesideForeign
PROPERTIES ChoicesAreFree SignalsOpenVPN
CHECK_DEADLOCK FALSE
