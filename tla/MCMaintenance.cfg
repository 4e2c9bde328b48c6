\* Three backups and restores next to a daemon that writes, checkpoints, stops and
\* is killed, with one write that fails unnoticed; or three updates, with one
\* download that is not what it should be.
SPECIFICATION Spec
CONSTANTS
    Releases <- SomeReleases
    Installs <- SomeInstalls
    MaxRows = 2
    MaxBackups = 3
    MaxUpdates = 3
    MaxFaults = 1
    MaxBad = 1
    Absent = Absent
    Torn = Torn
    NoArchive = NoArchive
    Missing = Missing
    NoSums = NoSums
INVARIANTS ArchiveIsState RestoreIsExact
PROPERTIES UpdatesAreSound
CHECK_DEADLOCK FALSE
