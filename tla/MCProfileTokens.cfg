\* One link, three concurrent downloads, a client deleted and created again.
SPECIFICATION TokensSpec
CONSTANTS
    Tokens = {t1}
    Downloads = {r1, r2, r3}
    Limits = {0, 1, 2}
    MaxUses = 3
    MaxClients = 2
    NoLink = NoLink
    NoToken = NoToken
SYMMETRY Interchangeable
INVARIANTS CountsEveryDownload BoundedOveruse DeadLinksServeNothing
