\* One issue and one revoke after it, in which one statement fails: the revoke is
\* answered OK although the server that uses the CA was not made to check the CRL.
SPECIFICATION Spec
CONSTANTS
    CNs = {alice}
    Requests = {h1}
    MaxCalls = 2
    MaxFailures = 1
    NoCert = NoCert
    NoCN = NoCN
INVARIANT RevokeReachesServers
CHECK_DEADLOCK FALSE
