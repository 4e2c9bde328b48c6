\* One peer, two concurrent calls of any kind and a failure, under fairness.
SPECIFICATION FairSpec
CONSTANTS
    CNs = {alice}
    Requests = {h1, h2}
    Ops = {"create", "patch", "patchSuspended", "suspend", "resume", "delete"}
    MaxCalls = 2
    MaxFailures = 1
    NoPeer = NoPeer
    NoCN = NoCN
    Nobody = Nobody
    Ticker = Ticker
INVARIANTS BarredIsOut
PROPERTIES SuspendsJudgedRow SuspendedStaysOut LimitsAreEnforced CCDConverges
