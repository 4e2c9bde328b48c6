\* Two clients that may each have two sessions at once, device counters readable.
SPECIFICATION LifetimeSpec
CONSTANTS
    Clients = {alice, bob}
    Sessions = {1, 2}
    HasDevice = TRUE
    MaxTraffic = 3
    MaxRestarts = 1
    MaxLifetime = 3
    NotConnected = NotConnected
    NoSample = NoSample
SYMMETRY Interchangeable
INVARIANTS NeverOvercharged
PROPERTIES LifetimeNeverDrops InstanceLifetimeNeverDrops
