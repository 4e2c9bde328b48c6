\* A checkpoint between the copies of the database and of its log; a log next to the
\* database that is overwritten; and a build between two releases, which is updated
\* to the older one.  All three are violated: leave one in to see it.
SPECIFICATION Spec
CONSTANTS
    Releases <- OneRelease
    Installs <- Described
    MaxRows = 2
    MaxBackups = 3
    MaxUpdates = 3
    MaxFaults = 0
    MaxBad = 1
    Absent = Absent
    Torn = Torn
    NoArchive = NoArchive
    Missing = Missing
    NoSums = NoSums
INVARIANTS LiveBackupIsWhole ForceOverwrites
PROPERTY UpdatesAreSound
CHECK_DEADLOCK FALSE
