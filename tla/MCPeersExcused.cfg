\* A PATCH and a suspend of the same peer at the same time, and a peer that is deleted
\* while it is connected.  Both properties are violated: leave one in to see it.
SPECIFICATION FairSpec
CONSTANTS
    CNs = {alice}
    Requests = {h1, h2}
    Ops = {"patch", "suspend", "delete"}
    MaxCalls = 2
    MaxFailures = 0
    NoPeer = NoPeer
    NoCN = NoCN
    Nobody = Nobody
    Ticker = Ticker
PROPERTIES PatchKeepsSuspended DeletedStaysOut
