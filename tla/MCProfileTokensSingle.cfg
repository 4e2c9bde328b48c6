\* One link for a single use and two concurrent downloads.
SPECIFICATION TokensSpec
CONSTANTS
    Tokens = {t1}
    Downloads = {r1, r2}
    Limits = {1}
    MaxUses = 2
    MaxClients = 1
    NoLink = NoLink
    NoToken = NoToken
SYMMETRY Interchangeable
INVARIANTS SingleUse
