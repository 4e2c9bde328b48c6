\* Two clients of an instance without a readable device counter: the sum drops
\* when one leaves, and reads zero when management does not answer.
SPECIFICATION LifetimeSpec
CONSTANTS
    Clients = {alice, bob}
    Sessions = {1}
    HasDevice = FALSE
    MaxTraffic = 3
    MaxRestarts = 0
    MaxLifetime = 9
    NotConnected = NotConnected
    NoSample = NoSample
SYMMETRY Interchangeable
INVARIANT InstanceNeverOvercharged
