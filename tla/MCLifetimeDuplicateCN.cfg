\* One common name with two sessions at once, as duplicate-cn allows.
SPECIFICATION LifetimeSpec
CONSTANTS
    Clients = {alice}
    Sessions = {1, 2}
    HasDevice = FALSE
    MaxTraffic = 3
    MaxRestarts = 0
    MaxLifetime = 9
    NotConnected = NotConnected
    NoSample = NoSample
SYMMETRY Interchangeable
INVARIANT ChargedOnce
