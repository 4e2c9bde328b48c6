\* An archive that a SHA256SUMS which is there does not name.
SPECIFICATION Spec
CONSTANTS
    Releases <- SomeReleases
    Installs <- SomeInstalls
    MaxRows = 2
    MaxBackups = 3
    MaxUpdates = 1
    MaxFaults = 0
    MaxBad = 1
    Absent = Absent
    Torn = Torn
    NoArchive = NoArchive
    Missing = Missing
    NoSums = NoSums
PROPERTY SumsAreVerified
CHECK_DEADLOCK FALSE
