--------------------------------- MODULE Backup ---------------------------------
(***************************************************************************)
(* Backup (by command or by API) and restore, one command at a time.       *)
(*                                                                         *)
(* The daemon issues certificates: a file in the PKI directory first, then *)
(* a row.  Row n is of certificate file n, so that a database is the       *)
(* number of rows it has and the directory the number of files.  SQLite    *)
(* appends rows to a write-ahead log and copies them to the database file  *)
(* in a checkpoint, after which the log begins anew.                       *)
(*                                                                         *)
(* The time series are copied like the state database, and conf_dir like   *)
(* pki_dir, and the next reconcile renders it again: both are left out, as *)
(* is the -shm file, which SQLite rebuilds.  One file is read or written   *)
(* at once: a tar entry has the length that the file had when it was       *)
(* opened, which for a log that grows is a shorter log.                    *)
(***************************************************************************)
EXTENDS Integers, Sequences, FiniteSetsExt

CONSTANTS
    MaxRows,        \* bound: certificates
    MaxBackups,     \* bound: commands that are begun
    MaxFaults,      \* bound: writes that fail unnoticed
    Absent, Torn, NoArchive

ASSUME BackupAssumption ==
    /\ {MaxRows, MaxBackups, MaxFaults} \subseteq Nat
    /\ Absent \notin Nat /\ Torn \notin Nat /\ Torn # Absent
    /\ Absent \notin [from : Nat, to : Nat]

VARIABLES
    disk,       \* [db, wal, pki, config]: what is in the files and directories
    up,         \* the daemon runs
    archive,    \* the file that backups are written to
    cmd,        \* the command that runs
    backups, faults

backupVars == <<disk, up, archive, cmd, backups, faults>>

Idle == [kind |-> "none"]

------------------------------------------------------------------------------
(* SQLite and the daemon                                                     *)

Log(from, to) == [from |-> from, to |-> to]

(* What is read back from a database file and the log next to it.  The rows  *)
(* of a log follow those of the file it belongs to; next to another file     *)
(* they make a database that never was.                                      *)
Recover(db, wal) ==
    IF db = Absent THEN 0
    ELSE IF wal = Absent THEN db
    ELSE IF wal.from = wal.to THEN db
    ELSE IF db \in wal.from..wal.to THEN wal.to ELSE Torn

Rows == Recover(disk.db, disk.wal)
Files == IF disk.pki = Absent THEN 0 ELSE disk.pki
Sound == Rows # Torn /\ Rows <= Files

IssueFile ==
    /\ up /\ Files = Rows /\ Rows < MaxRows
    /\ disk' = [disk EXCEPT !.pki = Files + 1]
    /\ UNCHANGED <<up, archive, cmd, backups, faults>>

(* A log that is all in the database file begins anew.                       *)
InsertRow ==
    /\ up /\ Files > Rows
    /\ disk' = [disk EXCEPT
          !.wal = Log(IF disk.db = @.to THEN @.to ELSE @.from, @.to + 1)]
    /\ UNCHANGED <<up, archive, cmd, backups, faults>>

(* checkpointWAL copies what no reader pins, and truncates a log that is all *)
(* copied.                                                                   *)
Checkpointed(d, upto) ==
    [d EXCEPT !.db = upto, !.wal = IF upto = @.to THEN Log(upto, upto) ELSE @]
Checkpoints == {Checkpointed(disk, upto) : upto \in disk.db..disk.wal.to}

MaintainWAL ==
    /\ up
    /\ disk' \in Checkpoints \ {disk}
    /\ UNCHANGED <<up, archive, cmd, backups, faults>>

(* SQLite's own checkpoint leaves the log as it is.                          *)
AutoCheckpoint ==
    /\ up
    /\ \E upto \in (disk.db + 1)..disk.wal.to : disk' = [disk EXCEPT !.db = upto]
    /\ UNCHANGED <<up, archive, cmd, backups, faults>>

(* The daemon ends, and with it a backup that it makes for the API.          *)
Ends ==
    /\ up /\ up' = FALSE
    /\ cmd' = IF cmd.kind = "backup" /\ cmd.api THEN Idle ELSE cmd
    /\ UNCHANGED <<archive, backups, faults>>

CloseStore ==
    /\ Ends
    /\ disk' = [disk EXCEPT !.db = Rows, !.wal = Absent]

Kill == Ends /\ UNCHANGED disk

(* A log is read back; without a database it is dropped.  (Bound: nothing is *)
(* done with a torn database.)                                               *)
Opened(d) ==
    IF d.db = Absent THEN [d EXCEPT !.db = 0, !.wal = Log(0, 0)]
    ELSE IF d.wal = Absent THEN [d EXCEPT !.wal = Log(d.db, d.db)]
    ELSE IF d.wal.from = d.wal.to THEN [d EXCEPT !.wal = Log(d.db, d.db)]
    ELSE d
Open ==
    /\ ~up /\ cmd.kind # "restore" /\ Rows # Torn
    /\ up' = TRUE
    /\ disk' = [Opened(disk) EXCEPT !.pki = Files]
    /\ UNCHANGED <<archive, cmd, backups, faults>>

(* The host is lost, or an administrator clears it; a log may be forgotten.  *)
Wipe ==
    /\ ~up /\ cmd = Idle /\ archive # NoArchive
    /\ \E wal \in {disk.wal, Absent}, pki \in {disk.pki, Absent}, config \in {disk.config, Absent} :
         disk' = [db |-> Absent, wal |-> wal, pki |-> pki, config |-> config]
    /\ UNCHANGED <<up, archive, cmd, backups, faults>>

------------------------------------------------------------------------------
(* backup.Backup                                                             *)

Command(c) == cmd = Idle /\ backups < MaxBackups /\ backups' = backups + 1 /\ cmd' = c
Fault == faults < MaxFaults /\ faults' = faults + 1
Nothing == [db |-> Absent, wal |-> Absent, pki |-> Absent, config |-> Absent]

(* Mutant of Order: the certificates are copied before the rows.             *)
PkiFirst(api) == <<"pki", "db", "wal">> \o (IF api THEN <<>> ELSE <<"config">>)

(* The API knows no configuration file.                                      *)
Order(api) == <<"db", "wal", "pki">> \o (IF api THEN <<>> ELSE <<"config">>)

(* POST /v1/system/backup tries a checkpoint first.  The archive is expected *)
(* to have the rows of now at least, if they have their certificates.        *)
BackupBegin(api) ==
    /\ disk.db # Absent /\ (api => up)
    /\ disk' \in IF api THEN Checkpoints \cup {disk} ELSE {disk}
    /\ Command([kind |-> "backup", api |-> api, todo |-> Order(api), part |-> Nothing,
                log |-> Absent, whole |-> Sound, least |-> IF Sound THEN Rows ELSE 0])
    /\ UNCHANGED <<up, archive, faults>>

(* The log that belongs to the copied database is known by where it begins:  *)
(* an empty one at the end of the database.                                  *)
Beginning ==
    IF disk.wal = Absent THEN disk.db
    ELSE IF disk.wal.from = disk.wal.to THEN disk.db ELSE disk.wal.from

Copy(f) ==
    /\ cmd.kind = "backup" /\ cmd.todo # <<>> /\ f = Head(cmd.todo)
    /\ LET whole == cmd.whole /\ (f = "wal" => Beginning = cmd.log) IN
       cmd' = [cmd EXCEPT
          !.todo = Tail(@), !.part[f] = disk[f], !.whole = whole,
          !.least = IF whole THEN @ ELSE 0,
          !.log = IF f = "db" THEN Beginning ELSE Absent]
    /\ UNCHANGED <<disk, up, archive, backups, faults>>

(* A log that cannot be read is left out, and nobody is told.                *)
SkipLog ==
    /\ cmd.kind = "backup" /\ cmd.todo # <<>> /\ Head(cmd.todo) = "wal" /\ disk.wal # Absent
    /\ Fault
    /\ cmd' = [cmd EXCEPT !.todo = Tail(@), !.least = 0, !.log = Absent]
    /\ UNCHANGED <<disk, up, archive, backups>>

(* The archive is renamed into its place when it is complete.                *)
BackupEnd ==
    /\ cmd.kind = "backup" /\ cmd.todo = <<>>
    /\ archive' = [part |-> cmd.part, whole |-> cmd.whole, least |-> cmd.least]
    /\ cmd' = Idle
    /\ UNCHANGED <<disk, up, backups, faults>>

(* An error, or the end of the process: what was copied so far is a          *)
(* temporary file, what was restored is on disk.                             *)
CommandFails ==
    /\ cmd # Idle
    /\ cmd' = Idle
    /\ UNCHANGED <<disk, up, archive, backups, faults>>

------------------------------------------------------------------------------
(* backup.Restore                                                            *)

(* What readArchive loads.                                                   *)
Entries == archive.part

(* The archive has certificates: an empty directory is like none.            *)
HasPKI == Entries.pki \notin {Absent, 0}

(* Mutant of Refused: only the database is looked at.                        *)
RefusedForDatabase(force) == ~force /\ disk.db # Absent

(* checkFileDest and checkDirDest.                                           *)
Refused(force) == ~force /\ (disk.db # Absent \/ (HasPKI /\ Files > 0))

(* A configuration file that exists is skipped.                              *)
WithConfig(force) == Entries.config # Absent /\ (force \/ disk.config = Absent)

(* The daemon is stopped, as the documentation asks.                         *)
RestoreBegin(force) ==
    /\ ~up /\ archive # NoArchive /\ ~Refused(force)
    /\ Command([kind |-> "restore", force |-> force,
                before |-> IF force THEN Nothing ELSE [disk EXCEPT !.wal = Absent],
                todo |-> <<"db", "wal">> \o (IF HasPKI THEN <<"pki">> ELSE <<>>)
                                         \o (IF WithConfig(force) THEN <<"config">> ELSE <<>>),
                stale |-> Entries.wal = Absent /\ disk.wal # Absent])
    /\ UNCHANGED <<disk, up, archive, faults>>

(* A log is written if the archive has one; files that are not in the        *)
(* archive stay in the directory.                                            *)
Written(f) ==
    CASE f = "wal" /\ Entries.wal = Absent -> disk.wal
      [] f = "pki" -> Max({Files, Entries.pki})
      [] OTHER -> Entries[f]

Write(f) ==
    /\ cmd.kind = "restore" /\ cmd.todo # <<>> /\ f = Head(cmd.todo)
    /\ disk' = [disk EXCEPT ![f] = Written(f)]
    /\ cmd' = [cmd EXCEPT !.todo = Tail(@)]
    /\ UNCHANGED <<up, archive, backups, faults>>

(* A log that cannot be written is passed over.                              *)
PassLog ==
    /\ cmd.kind = "restore" /\ cmd.todo # <<>> /\ Head(cmd.todo) = "wal"
    /\ Entries.wal # Absent
    /\ Fault
    /\ cmd' = [cmd EXCEPT !.todo = Tail(@), !.stale = TRUE]
    /\ UNCHANGED <<disk, up, archive, backups>>

RestoreEnd ==
    /\ cmd.kind = "restore" /\ cmd.todo = <<>>
    /\ cmd' = Idle
    /\ UNCHANGED <<disk, up, archive, backups, faults>>

------------------------------------------------------------------------------
NewDisk == [db |-> 0, wal |-> Log(0, 0), pki |-> 0, config |-> 1]
BackupInit ==
    /\ disk = NewDisk
    /\ up = TRUE /\ archive = NoArchive /\ cmd = Idle
    /\ backups = 0 /\ faults = 0

BackupNext ==
    \/ IssueFile \/ InsertRow \/ MaintainWAL \/ AutoCheckpoint
    \/ CloseStore \/ Kill \/ Open \/ Wipe
    \/ \E api \in BOOLEAN : BackupBegin(api)
    \/ \E f \in {"db", "wal", "pki", "config"} : Copy(f) \/ Write(f)
    \/ SkipLog \/ BackupEnd \/ CommandFails
    \/ \E force \in BOOLEAN : RestoreBegin(force)
    \/ PassLog \/ RestoreEnd

------------------------------------------------------------------------------
(* The rows that a restored archive has.                                     *)
Saved == Recover(Entries.db, Entries.wal)

(* An archive is a state of the daemon, although it writes while it is       *)
(* copied: the rows of the archive are those of the beginning or some that   *)
(* came since, and each of them has its certificate in the archive.  Excused *)
(* are a log that began anew between the copies of the database and of the   *)
(* log (whole), after which the archive may be torn, and a log that could    *)
(* not be read (least).                                                      *)
ArchiveIsState ==
    (archive # NoArchive /\ archive.whole) =>
        /\ Saved # Torn
        /\ Saved >= archive.least
        /\ Saved <= (IF HasPKI THEN Entries.pki ELSE 0)

(* Without --force a restore changes no database, certificate or             *)
(* configuration that was there; a log without its database is no reason to  *)
(* refuse, and is overwritten (writeOptionalSibling).  When a restore        *)
(* reports that it is done, what the daemon reads back is what was saved,    *)
(* with a certificate for every row.  Excused (stale) are the log of another *)
(* database, which a restore leaves next to the one it writes when the       *)
(* archive has no log, and a log that could not be written.                  *)
RestoreIsExact ==
    cmd.kind = "restore" =>
        /\ \A f \in {"db", "pki", "config"} :
              cmd.before[f] \in {Absent, disk[f]} \/ (f = "pki" /\ cmd.before[f] = 0)
        /\ (cmd.todo = <<>> /\ ~cmd.stale) => Rows = Saved /\ (archive.whole => Sound)

(* docs/PRODUCTION.md:94: the daemon need not be stopped for a backup.       *)
LiveBackupIsWhole == (archive # NoArchive /\ faults = 0) => Saved # Torn

(* docs/PRODUCTION.md:119: --force overwrites the existing database.         *)
ForceOverwrites ==
    (cmd.kind = "restore" /\ cmd.force /\ cmd.todo = <<>> /\ faults = 0) => Rows = Saved
===============================================================================
