\* Two calls at a time, none of which dies: two issues of one name leave the file
\* of one and the row of the other, and the certificate in the file cannot be
\* revoked.
SPECIFICATION Spec
CONSTANTS
    CNs = {alice}
    Requests = {h1, h2}
    MaxCalls = 3
    MaxFailures = 0
    NoCert = NoCert
    NoCN = NoCN
INVARIANT RevokeBarsLeaf
CHECK_DEADLOCK FALSE
