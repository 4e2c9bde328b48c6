--------------------------- MODULE MaintenanceProofs ---------------------------
(***************************************************************************)
(* Theorems about Backup and Update, for every behaviour of Maintenance.   *)
(*                                                                         *)
(* A backup copies the database, then its log, then the certificates,      *)
(* while the daemon adds to all three.  What makes the copy a state of the *)
(* daemon is that each of them only grows, that a log which still begins   *)
(* where it began continues the copied database, and that certificates are *)
(* issued before their rows.                                               *)
(***************************************************************************)
EXTENDS Maintenance, SequenceTheorems, TLAPS

LogType == {l \in [from : Nat, to : Nat] : l.from <= l.to}

DiskType ==
    [db : Nat \cup {Absent}, wal : LogType \cup {Absent},
     pki : Nat \cup {Absent}, config : {1, Absent}]

ArchiveType == [part : DiskType, whole : BOOLEAN, least : Nat]

(* What a command still has to do: the first file is ...                     *)
AtDb == {<<"db", "wal", "pki">>, <<"db", "wal", "pki", "config">>}
AtWal == {<<"wal", "pki">>, <<"wal", "pki", "config">>}
AtPki == {<<"pki">>, <<"pki", "config">>}
AtEnd == {<<>>, <<"config">>}

(* ... the same of a restore without certificates, and of one that leaves    *)
(* the configuration alone.                                                  *)
AtBareDb == {<<"db", "wal">>, <<"db", "wal", "config">>}
AtBareWal == {<<"wal">>, <<"wal", "config">>}
NoConfig ==
    {<<"db", "wal", "pki">>, <<"wal", "pki">>, <<"pki">>, <<"db", "wal">>, <<"wal">>, <<>>}

Saving ==
    [kind : {"backup"}, api : BOOLEAN, todo : AtDb \cup AtWal \cup AtPki \cup AtEnd,
     part : DiskType, log : Nat \cup {Absent}, whole : BOOLEAN, least : Nat]

Restoring ==
    [kind : {"restore"}, force : BOOLEAN, before : DiskType,
     todo : AtDb \cup AtWal \cup AtPki \cup AtBareDb \cup AtBareWal \cup AtEnd,
     stale : BOOLEAN]

BackupTypeOK ==
    /\ disk \in DiskType
    /\ up \in BOOLEAN
    /\ archive = NoArchive \/ archive \in ArchiveType
    /\ cmd = Idle \/ cmd \in Saving \/ cmd \in Restoring

(* An open database has a log, and its file is somewhere in that log.        *)
OpenIsReadable ==
    up => /\ disk.db \in Nat /\ disk.pki \in Nat /\ disk.wal \in LogType
          /\ disk.wal.from <= disk.db /\ disk.db <= disk.wal.to
          /\ cmd.kind # "restore"

RowsIn(part) == Recover(part.db, part.wal)
FilesIn(part) == IF part.pki = Absent THEN 0 ELSE part.pki

(* How far a backup that may be relied on has come.  What is copied is never *)
(* ahead of what is on disk; the database file is copied no earlier than the *)
(* beginning of the log it was copied with.                                  *)
SavesState ==
    cmd.kind = "backup" =>
        /\ disk.db \in Nat
        /\ cmd.todo \in AtDb \cup AtWal => cmd.part.wal = Absent
        /\ cmd.whole =>
              /\ Sound /\ cmd.least <= Rows
              /\ cmd.todo \in AtWal =>
                    /\ cmd.log \in Nat /\ cmd.part.db \in Nat
                    /\ cmd.log <= cmd.part.db /\ cmd.part.db <= disk.db
              /\ cmd.todo \in AtPki \cup AtEnd =>
                    /\ RowsIn(cmd.part) \in Nat
                    /\ cmd.least <= RowsIn(cmd.part) /\ RowsIn(cmd.part) <= Rows
              /\ cmd.todo \in AtEnd => RowsIn(cmd.part) <= FilesIn(cmd.part)

(* What a restore has not touched is as it was, what it has written is as in *)
(* the archive.                                                              *)
RestoresArchive ==
    cmd.kind = "restore" =>
        /\ ~up /\ archive # NoArchive
        /\ cmd.before.db = Absent
        /\ cmd.before.pki \in {Absent, 0} \/ (cmd.before.pki = disk.pki /\ ~HasPKI)
        /\ cmd.before.config = Absent \/ (cmd.before.config = disk.config /\ cmd.todo \in NoConfig)
        /\ cmd.todo \in AtDb \cup AtWal \cup AtPki => HasPKI
        /\ cmd.todo \in AtBareDb \cup AtBareWal => ~HasPKI
        /\ cmd.todo \notin AtDb \cup AtBareDb => disk.db = Entries.db
        /\ (~cmd.stale /\ Entries.wal = Absent) => disk.wal = Absent
        /\ (~cmd.stale /\ cmd.todo \in AtPki \cup AtEnd) => disk.wal = Entries.wal
        /\ (cmd.todo \in AtEnd /\ HasPKI) => Files >= Entries.pki

BackupInv ==
    /\ BackupTypeOK /\ OpenIsReadable
    /\ SavesState /\ RestoresArchive /\ ArchiveIsState

(* The stages follow each other.                                             *)
LEMMA Stages ==
    /\ \A t \in AtDb : t # <<>> /\ Head(t) = "db" /\ Tail(t) \in AtWal
    /\ \A t \in AtWal : t # <<>> /\ Head(t) = "wal" /\ Tail(t) \in AtPki
    /\ \A t \in AtPki : t # <<>> /\ Head(t) = "pki" /\ Tail(t) \in AtEnd
    /\ \A t \in AtBareDb : t # <<>> /\ Head(t) = "db" /\ Tail(t) \in AtBareWal
    /\ \A t \in AtBareWal : t # <<>> /\ Head(t) = "wal" /\ Tail(t) \in AtEnd
    /\ \A t \in AtEnd \ {<<>>} : Head(t) = "config" /\ Tail(t) \in AtEnd /\ t \notin NoConfig
    /\ \A t \in NoConfig \ {<<>>} : Head(t) # "config" /\ Tail(t) \in NoConfig
    /\ <<>> \in AtEnd /\ <<>> \in NoConfig
<1>1. ASSUME NEW t \in AtDb PROVE t # <<>> /\ Head(t) = "db" /\ Tail(t) \in AtWal
  <2>1. CASE t = <<"db", "wal", "pki">>
    BY <2>1 DEF AtWal
  <2>2. CASE t = <<"db", "wal", "pki", "config">>
    BY <2>2 DEF AtWal
  <2> QED
    BY <2>1, <2>2 DEF AtDb
<1>2. ASSUME NEW t \in AtWal PROVE t # <<>> /\ Head(t) = "wal" /\ Tail(t) \in AtPki
  <2>1. CASE t = <<"wal", "pki">>
    BY <2>1 DEF AtPki
  <2>2. CASE t = <<"wal", "pki", "config">>
    BY <2>2 DEF AtPki
  <2> QED
    BY <2>1, <2>2 DEF AtWal
<1>3. ASSUME NEW t \in AtPki PROVE t # <<>> /\ Head(t) = "pki" /\ Tail(t) \in AtEnd
  <2>1. CASE t = <<"pki">>
    BY <2>1 DEF AtEnd
  <2>2. CASE t = <<"pki", "config">>
    BY <2>2 DEF AtEnd
  <2> QED
    BY <2>1, <2>2 DEF AtPki
<1>4. ASSUME NEW t \in AtBareDb PROVE t # <<>> /\ Head(t) = "db" /\ Tail(t) \in AtBareWal
  <2>1. CASE t = <<"db", "wal">>
    BY <2>1 DEF AtBareWal
  <2>2. CASE t = <<"db", "wal", "config">>
    BY <2>2 DEF AtBareWal
  <2> QED
    BY <2>1, <2>2 DEF AtBareDb
<1>5. ASSUME NEW t \in AtBareWal PROVE t # <<>> /\ Head(t) = "wal" /\ Tail(t) \in AtEnd
  <2>1. CASE t = <<"wal">>
    BY <2>1 DEF AtEnd
  <2>2. CASE t = <<"wal", "config">>
    BY <2>2 DEF AtEnd
  <2> QED
    BY <2>1, <2>2 DEF AtBareWal
<1>6. ASSUME NEW t \in AtEnd \ {<<>>}
      PROVE  Head(t) = "config" /\ Tail(t) \in AtEnd /\ t \notin NoConfig
  <2>1. t = <<"config">>
    BY DEF AtEnd
  <2>2. Head(t) = "config" /\ Tail(t) = <<>>
    BY <2>1
  <2>3. \A u \in NoConfig \ {<<>>} : Head(u) # "config"
    BY DEF NoConfig
  <2> QED
    BY <2>1, <2>2, <2>3 DEF AtEnd
<1>7. ASSUME NEW t \in NoConfig \ {<<>>} PROVE Head(t) # "config" /\ Tail(t) \in NoConfig
  <2>1. CASE t = <<"db", "wal", "pki">>
    BY <2>1 DEF NoConfig
  <2>2. CASE t = <<"wal", "pki">>
    BY <2>2 DEF NoConfig
  <2>3. CASE t = <<"pki">>
    BY <2>3 DEF NoConfig
  <2>4. CASE t = <<"db", "wal">>
    BY <2>4 DEF NoConfig
  <2>5. CASE t = <<"wal">>
    BY <2>5 DEF NoConfig
  <2> QED
    BY <2>1, <2>2, <2>3, <2>4, <2>5 DEF NoConfig
<1>8. <<>> \in AtEnd /\ <<>> \in NoConfig
  BY DEF AtEnd, NoConfig
<1> QED
  BY <1>1, <1>2, <1>3, <1>4, <1>5, <1>6, <1>7, <1>8

(* Sequences, put together.                                                  *)
LEMMA TwoOf ==
    ASSUME NEW a, NEW b
    PROVE  <<a>> \o <<b>> = <<a, b>>
<1> DEFINE S == {a, b}
           cat == <<a>> \o <<b>>
           all == <<a, b>>
<1>1. <<a>> \in Seq(S) /\ <<b>> \in Seq(S) /\ all \in Seq(S) /\ Len(all) = 2
  OBVIOUS
<1>2. cat \in Seq(S) /\ Len(cat) = 2
  BY <1>1, ConcatProperties
<1>3. \A i \in 1..2 : cat[i] = all[i]
  <2>1. \A i \in 1..2 : cat[i] = IF i <= 1 THEN <<a>>[i] ELSE <<b>>[i - 1]
    BY <1>1, ConcatProperties
  <2> QED
    BY <2>1
<1>4. cat = all
  <2> HIDE DEF cat, all, S
  <2> QED
    BY <1>1, <1>2, <1>3, SeqEqual
<1> QED
  BY <1>4

LEMMA ThreeOf ==
    ASSUME NEW a, NEW b, NEW c
    PROVE  <<a, b>> \o <<c>> = <<a, b, c>>
<1> DEFINE S == {a, b, c}
           cat == <<a, b>> \o <<c>>
           all == <<a, b, c>>
<1>1. <<a, b>> \in Seq(S) /\ <<c>> \in Seq(S) /\ all \in Seq(S) /\ Len(all) = 3
  OBVIOUS
<1>2. cat \in Seq(S) /\ Len(cat) = 3
  BY <1>1, ConcatProperties
<1>3. \A i \in 1..3 : cat[i] = all[i]
  <2>1. \A i \in 1..3 : cat[i] = IF i <= 2 THEN <<a, b>>[i] ELSE <<c>>[i - 2]
    BY <1>1, ConcatProperties
  <2> QED
    BY <2>1
<1>4. cat = all
  <2> HIDE DEF cat, all, S
  <2> QED
    BY <1>1, <1>2, <1>3, SeqEqual
<1> QED
  BY <1>4

LEMMA FourOf ==
    ASSUME NEW a, NEW b, NEW c, NEW d
    PROVE  <<a, b, c>> \o <<d>> = <<a, b, c, d>>
<1> DEFINE S == {a, b, c, d}
           cat == <<a, b, c>> \o <<d>>
           all == <<a, b, c, d>>
<1>1. <<a, b, c>> \in Seq(S) /\ <<d>> \in Seq(S) /\ all \in Seq(S) /\ Len(all) = 4
  OBVIOUS
<1>2. cat \in Seq(S) /\ Len(cat) = 4
  BY <1>1, ConcatProperties
<1>3. \A i \in 1..4 : cat[i] = all[i]
  <2>1. \A i \in 1..4 : cat[i] = IF i <= 3 THEN <<a, b, c>>[i] ELSE <<d>>[i - 3]
    BY <1>1, ConcatProperties
  <2> QED
    BY <2>1
<1>4. cat = all
  <2> HIDE DEF cat, all, S
  <2> QED
    BY <1>1, <1>2, <1>3, SeqEqual
<1> QED
  BY <1>4

LEMMA KindTells ==
    ASSUME BackupTypeOK
    PROVE  /\ cmd.kind = "backup" => cmd \in Saving
           /\ cmd.kind = "restore" => cmd \in Restoring
           /\ cmd.kind \in {"none", "backup", "restore"}
           /\ cmd.kind = "none" <=> cmd = Idle
           /\ Idle.kind = "none"
BY DEF BackupTypeOK, Idle, Saving, Restoring

LEMMA RowsAreTyped ==
    ASSUME disk \in DiskType
    PROVE  /\ Rows \in Nat \cup {Torn} /\ Files \in Nat
           /\ disk.db \in Nat => Beginning \in Nat
           /\ (disk.db \in Nat /\ Rows # Torn) => Beginning <= disk.db /\ disk.db <= Rows
<1> USE BackupAssumption
<1>1. disk.db \in Nat \cup {Absent} /\ disk.wal \in LogType \cup {Absent} /\ disk.pki \in Nat \cup {Absent}
  BY DEF DiskType
<1>2. disk.wal \in LogType =>
         disk.wal.from \in Nat /\ disk.wal.to \in Nat /\ disk.wal.from <= disk.wal.to
  BY DEF LogType
<1> QED
  BY <1>1, <1>2 DEF Rows, Files, Recover, Beginning

(* Rows of an open database.                                                 *)
LEMMA OpenRows ==
    ASSUME disk \in DiskType, OpenIsReadable, up
    PROVE  /\ Rows = disk.wal.to /\ Rows \in Nat
           /\ disk.wal # Absent /\ disk.db # Absent
           /\ disk.wal.from \in Nat /\ disk.wal.to \in Nat
<1> USE BackupAssumption
<1>1. /\ disk.wal \in LogType /\ disk.wal # Absent
      /\ disk.wal.from \in Nat /\ disk.wal.to \in Nat
      /\ disk.wal.from <= disk.db /\ disk.db <= disk.wal.to /\ disk.db \in Nat
  BY DEF OpenIsReadable, LogType
<1> QED
  BY <1>1 DEF Rows, Recover

LEMMA LogIsTyped ==
    ASSUME NEW from \in Nat, NEW to \in Nat, from <= to
    PROVE  Log(from, to) \in LogType /\ Log(from, to).from = from /\ Log(from, to).to = to
BY DEF Log, LogType

(* What any step of the daemon, or a checkpoint for a backup, does to the    *)
(* disk: nothing is lost.                                                    *)
Grows ==
    /\ disk' \in DiskType
    /\ disk.db \in Nat => disk'.db \in Nat /\ disk.db <= disk'.db
    /\ (disk.db \in Nat /\ Sound) => Sound' /\ Rows <= Rows'

(* A checkpoint moves rows and loses none.                                   *)
LEMMA CheckpointGrows ==
    ASSUME BackupTypeOK, OpenIsReadable, up, disk' \in Checkpoints \cup {disk}
    PROVE  /\ Grows /\ Rows' = Rows /\ Files' = Files
           /\ disk'.db \in Nat /\ disk'.pki \in Nat /\ disk'.wal \in LogType
           /\ disk'.wal.from <= disk'.db /\ disk'.db <= disk'.wal.to
<1> USE BackupAssumption
<1>1. disk \in DiskType
  BY DEF BackupTypeOK
<1>2. /\ Rows = disk.wal.to /\ Rows \in Nat /\ disk.wal # Absent /\ disk.db # Absent
      /\ disk.wal.from \in Nat /\ disk.wal.to \in Nat
  BY <1>1, OpenRows
<1>3. /\ disk.db \in Nat /\ disk.pki \in Nat /\ disk.wal \in LogType
      /\ disk.wal.from <= disk.db /\ disk.db <= disk.wal.to
  BY DEF OpenIsReadable
<1>4. CASE disk' = disk
  <2>1. Rows' = Rows /\ Files' = Files
    BY <1>4 DEF Rows, Files
  <2> QED
    BY <1>1, <1>2, <1>3, <1>4, <2>1 DEF Grows, Sound
<1>5. ASSUME NEW upto \in disk.db..disk.wal.to, disk' = Checkpointed(disk, upto)
      PROVE  /\ disk' \in DiskType /\ disk'.db = upto /\ disk'.pki = disk.pki
             /\ disk'.wal \in LogType /\ disk'.wal.to = disk.wal.to
             /\ disk'.wal.from <= upto /\ disk'.wal.from \in Nat
  <2>1. CASE upto = disk.wal.to
    <3>1. disk' = [disk EXCEPT !.db = upto, !.wal = Log(upto, upto)]
      BY <1>1, <1>5, <2>1 DEF Checkpointed, DiskType
    <3>2. Log(upto, upto) \in LogType /\ Log(upto, upto).from = upto /\ Log(upto, upto).to = upto
      BY <1>2, <2>1, LogIsTyped
    <3>3. upto \in Nat
      BY <1>2, <2>1
    <3> DEFINE empty == Log(upto, upto)
    <3> HIDE DEF empty
    <3>4. disk' = [disk EXCEPT !.db = upto, !.wal = empty]
      BY <3>1 DEF empty
    <3>5. empty \in LogType /\ empty.from = upto /\ empty.to = upto
      BY <3>2 DEF empty
    <3>6. /\ disk' \in DiskType /\ disk'.db = upto /\ disk'.pki = disk.pki
          /\ disk'.wal = empty
      BY <1>1, <3>3, <3>4, <3>5 DEF DiskType
    <3> QED
      BY <2>1, <3>3, <3>5, <3>6
  <2>2. CASE upto # disk.wal.to
    <3>1. disk' = [disk EXCEPT !.db = upto]
      BY <1>1, <1>5, <2>2 DEF Checkpointed, DiskType
    <3> QED
      BY <1>1, <1>2, <1>3, <3>1 DEF DiskType
  <2> QED
    BY <2>1, <2>2
<1>6. ASSUME NEW upto \in disk.db..disk.wal.to, disk' = Checkpointed(disk, upto)
      PROVE  Grows /\ Rows' = Rows /\ Files' = Files
  <2>1. /\ disk' \in DiskType /\ disk'.db = upto /\ disk'.pki = disk.pki
        /\ disk'.wal \in LogType /\ disk'.wal.to = disk.wal.to
        /\ disk'.wal.from <= upto /\ disk'.wal.from \in Nat
    BY <1>5, <1>6
  <2>2. upto \in Nat /\ disk.db <= upto /\ upto <= disk.wal.to
    BY <1>2, <1>3
  <2>3. Rows' = disk'.wal.to
    <3>1. disk'.wal # Absent /\ disk'.db # Absent
      BY <2>1, <2>2 DEF LogType
    <3> QED
      BY <1>2, <2>1, <2>2, <3>1 DEF Rows, Recover
  <2>4. Files' = Files
    BY <2>1 DEF Files
  <2> QED
    BY <1>2, <1>3, <2>1, <2>2, <2>3, <2>4 DEF Grows, Sound
<1> QED
  BY <1>2, <1>3, <1>4, <1>5, <1>6 DEF Checkpoints

LEMMA IssueGrows ==
    ASSUME BackupTypeOK, OpenIsReadable, IssueFile
    PROVE  Grows /\ OpenIsReadable'
<1>1. disk \in DiskType
  BY DEF BackupTypeOK
<1>2. /\ Rows \in Nat /\ Files \in Nat /\ up /\ Files = Rows
      /\ disk' = [disk EXCEPT !.pki = Files + 1]
  BY <1>1, OpenRows, RowsAreTyped DEF IssueFile
<1>3. /\ disk' \in DiskType /\ disk'.pki = Files + 1
      /\ disk'.db = disk.db /\ disk'.wal = disk.wal
  BY <1>1, <1>2 DEF DiskType
<1>4. Rows' = Rows
  BY <1>3 DEF Rows
<1>5. Files' = Files + 1
  BY <1>2, <1>3, BackupAssumption DEF Files
<1>6. Grows
  BY <1>1, <1>2, <1>3, <1>4, <1>5 DEF Grows, Sound, DiskType
<1>7. UNCHANGED <<up, cmd>>
  BY DEF IssueFile
<1> QED
  BY <1>2, <1>3, <1>6, <1>7 DEF OpenIsReadable

LEMMA InsertGrows ==
    ASSUME BackupTypeOK, OpenIsReadable, InsertRow
    PROVE  Grows /\ OpenIsReadable'
<1>1. disk \in DiskType /\ up /\ UNCHANGED <<up, cmd>>
  BY DEF BackupTypeOK, InsertRow
<1>2. /\ Rows = disk.wal.to /\ Rows \in Nat /\ Files \in Nat /\ Files > Rows
      /\ disk.wal.from \in Nat /\ disk.wal.to \in Nat
  BY <1>1, OpenRows, RowsAreTyped DEF InsertRow
<1>3. /\ disk.db \in Nat /\ disk.wal.from <= disk.db /\ disk.db <= disk.wal.to
      /\ disk.pki \in Nat /\ cmd.kind # "restore"
  BY <1>1 DEF OpenIsReadable
<1> DEFINE start == IF disk.db = disk.wal.to THEN disk.wal.to ELSE disk.wal.from
           more == Log(start, disk.wal.to + 1)
<1>4. start \in Nat /\ start <= disk.db /\ disk.wal.to + 1 \in Nat /\ start < disk.wal.to + 1
  BY <1>2, <1>3
<1>5. disk' = [disk EXCEPT !.wal = more]
  BY <1>1 DEF InsertRow, DiskType
<1> HIDE DEF start
<1>6. more \in LogType /\ more.from = start /\ more.to = disk.wal.to + 1
  BY <1>4, LogIsTyped
<1> HIDE DEF more
<1>7. /\ disk' \in DiskType /\ disk'.wal = more
      /\ disk'.db = disk.db /\ disk'.pki = disk.pki
  BY <1>1, <1>5, <1>6 DEF DiskType
<1>8. Rows' = Rows + 1
  <2>1. more # Absent /\ disk.db # Absent
    BY <1>3, <1>6, BackupAssumption DEF LogType
  <2> QED
    BY <1>2, <1>3, <1>4, <1>6, <1>7, <2>1 DEF Rows, Recover
<1>9. Files' = Files
  BY <1>7 DEF Files
<1>10. Grows
  BY <1>2, <1>3, <1>7, <1>8, <1>9, BackupAssumption DEF Grows, Sound
<1> QED
  BY <1>1, <1>2, <1>3, <1>4, <1>6, <1>7, <1>10 DEF OpenIsReadable

LEMMA AutoGrows ==
    ASSUME BackupTypeOK, OpenIsReadable, AutoCheckpoint
    PROVE  Grows /\ OpenIsReadable'
<1>1. disk \in DiskType /\ up /\ UNCHANGED <<up, cmd>>
  BY DEF BackupTypeOK, AutoCheckpoint
<1>2. /\ Rows = disk.wal.to /\ Rows \in Nat /\ disk.wal # Absent /\ disk.db # Absent
      /\ disk.wal.from \in Nat /\ disk.wal.to \in Nat
  BY <1>1, OpenRows
<1>3. /\ disk.db \in Nat /\ disk.wal.from <= disk.db /\ disk.db <= disk.wal.to
      /\ disk.pki \in Nat /\ disk.wal \in LogType /\ cmd.kind # "restore"
  BY <1>1 DEF OpenIsReadable
<1>4. PICK upto \in (disk.db + 1)..disk.wal.to : disk' = [disk EXCEPT !.db = upto]
  BY DEF AutoCheckpoint
<1>5. upto \in Nat /\ disk.db <= upto /\ upto <= disk.wal.to
  BY <1>2, <1>3
<1>6. /\ disk' \in DiskType /\ disk'.db = upto
      /\ disk'.wal = disk.wal /\ disk'.pki = disk.pki
  BY <1>1, <1>4, <1>5 DEF DiskType
<1>7. Rows' = Rows /\ Files' = Files
  BY <1>2, <1>3, <1>5, <1>6, BackupAssumption DEF Rows, Recover, Files
<1>8. Grows
  BY <1>2, <1>3, <1>5, <1>6, <1>7 DEF Grows, Sound
<1> QED
  BY <1>1, <1>2, <1>3, <1>5, <1>6, <1>8 DEF OpenIsReadable

LEMMA CloseGrows ==
    ASSUME BackupTypeOK, OpenIsReadable, CloseStore
    PROVE  Grows /\ OpenIsReadable'
<1>1. disk \in DiskType /\ up /\ ~up'
  BY DEF BackupTypeOK, CloseStore, Ends
<1>2. /\ Rows = disk.wal.to /\ Rows \in Nat
      /\ disk.db \in Nat /\ disk.db <= disk.wal.to
  BY <1>1, OpenRows DEF OpenIsReadable
<1>3. disk' = [disk EXCEPT !.db = Rows, !.wal = Absent]
  BY DEF CloseStore
<1>4. /\ disk' \in DiskType /\ disk'.db = Rows /\ disk'.wal = Absent /\ disk'.pki = disk.pki
  BY <1>1, <1>2, <1>3 DEF DiskType
<1>5. Rows' = Rows /\ Files' = Files
  BY <1>2, <1>4, BackupAssumption DEF Rows, Recover, Files
<1> QED
  BY <1>1, <1>2, <1>4, <1>5 DEF Grows, Sound, OpenIsReadable

LEMMA OpenGrows ==
    ASSUME BackupTypeOK, OpenIsReadable, Open
    PROVE  Grows /\ OpenIsReadable'
<1> USE BackupAssumption
<1>1. /\ disk \in DiskType /\ Rows # Torn /\ up' /\ cmd' = cmd /\ cmd.kind # "restore"
      /\ disk' = [Opened(disk) EXCEPT !.pki = Files]
  BY DEF BackupTypeOK, Open
<1>2. /\ disk.db \in Nat \cup {Absent} /\ disk.wal \in LogType \cup {Absent}
      /\ Rows \in Nat /\ Files \in Nat
  BY <1>1, RowsAreTyped DEF DiskType
<1> DEFINE base == IF disk.db = Absent THEN 0 ELSE disk.db
           kept == disk.db # Absent /\ disk.wal # Absent /\ disk.wal.from # disk.wal.to
           wal == IF kept THEN disk.wal ELSE Log(base, base)
<1>3. base \in Nat
  BY <1>2
<1>4. Log(base, base) \in LogType /\ Log(base, base).from = base /\ Log(base, base).to = base
  BY <1>3, LogIsTyped
<1>5. Opened(disk) = [disk EXCEPT !.db = base, !.wal = wal]
  BY <1>1 DEF Opened, DiskType
<1>6. /\ wal \in LogType /\ wal.from \in Nat /\ wal.to \in Nat
      /\ wal.from <= base /\ base <= wal.to /\ wal.to = Rows
  <2>1. CASE kept
    <3>1. /\ disk.wal \in LogType /\ disk.wal.from \in Nat /\ disk.wal.to \in Nat
          /\ disk.db \in disk.wal.from..disk.wal.to /\ Rows = disk.wal.to
      BY <1>1, <1>2, <2>1 DEF Rows, Recover, LogType
    <3> QED
      BY <2>1, <3>1
  <2>2. CASE ~kept
    <3>1. Rows = base
      BY <1>2, <2>2 DEF Rows, Recover
    <3> HIDE DEF base
    <3> QED
      BY <1>3, <1>4, <2>2, <3>1
  <2> QED
    BY <2>1, <2>2
<1> HIDE DEF wal, kept
<1>7. /\ disk' \in DiskType /\ disk'.db = base /\ disk'.wal = wal /\ disk'.pki = Files
  BY <1>1, <1>2, <1>3, <1>5, <1>6 DEF DiskType
<1>8. Rows' = Rows
  <2>1. wal # Absent /\ base # Absent
    BY <1>3, <1>6 DEF LogType
  <2> HIDE DEF base
  <2> QED
    BY <1>3, <1>6, <1>7, <2>1 DEF Rows, Recover
<1>9. Files' = Files
  BY <1>2, <1>7 DEF Files
<1>10. disk.db \in Nat => base = disk.db
  OBVIOUS
<1> HIDE DEF base
<1>11. Grows
  BY <1>2, <1>3, <1>7, <1>8, <1>9, <1>10 DEF Grows, Sound
<1> QED
  BY <1>1, <1>2, <1>3, <1>6, <1>7, <1>11 DEF OpenIsReadable

Daemon ==
    \/ IssueFile \/ InsertRow \/ MaintainWAL \/ AutoCheckpoint
    \/ CloseStore \/ Kill \/ Open

LEMMA DaemonGrows ==
    ASSUME BackupTypeOK, OpenIsReadable, Daemon
    PROVE  /\ Grows /\ OpenIsReadable'
           /\ archive' = archive /\ up' \in BOOLEAN
           /\ cmd.kind # "restore" /\ cmd' \in {cmd, Idle}
<1>1. /\ archive' = archive /\ up' \in BOOLEAN
      /\ cmd.kind # "restore" /\ cmd' \in {cmd, Idle}
  BY DEF Daemon, OpenIsReadable, IssueFile, InsertRow, MaintainWAL, AutoCheckpoint,
         CloseStore, Kill, Ends, Open, BackupTypeOK
<1>2. ASSUME up, UNCHANGED <<up, cmd>>, disk' \in Checkpoints \cup {disk}
      PROVE  Grows /\ OpenIsReadable'
  <2>1. /\ Grows
        /\ disk'.db \in Nat /\ disk'.pki \in Nat /\ disk'.wal \in LogType
        /\ disk'.wal.from <= disk'.db /\ disk'.db <= disk'.wal.to
    BY <1>2, CheckpointGrows
  <2> QED
    BY <1>1, <1>2, <2>1 DEF OpenIsReadable
<1>3. CASE MaintainWAL
  BY <1>1, <1>2, <1>3 DEF MaintainWAL
<1>4. CASE Kill
  <2>1. UNCHANGED disk /\ ~up'
    BY <1>4 DEF Kill, Ends
  <2>2. Rows' = Rows /\ Files' = Files
    BY <2>1 DEF Rows, Files
  <2>3. disk \in DiskType
    BY DEF BackupTypeOK
  <2>4. Rows \in Nat \cup {Torn}
    BY <2>3, RowsAreTyped
  <2>5. Grows
    BY <2>1, <2>2, <2>3, <2>4, BackupAssumption DEF Grows, Sound
  <2> QED
    BY <1>1, <2>1, <2>5 DEF OpenIsReadable
<1> QED
  BY <1>1, <1>3, <1>4, IssueGrows, InsertGrows, AutoGrows, CloseGrows, OpenGrows DEF Daemon

(* The archive is looked at only through these.                              *)
LEMMA SameArchive ==
    ASSUME archive' = archive
    PROVE  /\ Entries' = Entries /\ Saved' = Saved /\ HasPKI' = HasPKI
           /\ ArchiveIsState => ArchiveIsState'
BY DEF Entries, Saved, HasPKI, ArchiveIsState

LEMMA DaemonKeepsInv ==
    ASSUME BackupInv, Daemon
    PROVE  BackupInv'
<1> USE BackupAssumption
<1>1. BackupTypeOK /\ OpenIsReadable /\ SavesState
  BY DEF BackupInv
<1>2. /\ Grows /\ OpenIsReadable'
      /\ archive' = archive /\ up' \in BOOLEAN
      /\ cmd.kind # "restore" /\ cmd' \in {cmd, Idle}
  BY <1>1, DaemonGrows
<1>3. BackupTypeOK'
  BY <1>1, <1>2 DEF BackupTypeOK, Grows
<1>4. CASE cmd' = Idle
  <2>1. SavesState' /\ RestoresArchive'
    BY <1>4 DEF SavesState, RestoresArchive, Idle
  <2> QED
    BY <1>2, <1>3, <2>1, SameArchive DEF BackupInv
<1>5. CASE cmd' = cmd
  <2>1. RestoresArchive'
    BY <1>2, <1>5 DEF RestoresArchive
  <2>2. SavesState'
    <3>1. SUFFICES ASSUME cmd.kind = "backup" PROVE SavesState'
      BY <1>5 DEF SavesState
    <3>2. disk.db \in Nat /\ disk'.db \in Nat /\ disk.db <= disk'.db
      BY <1>1, <1>2, <3>1 DEF SavesState, Grows
    <3>3. CASE ~cmd.whole
      BY <1>1, <1>5, <3>1, <3>2, <3>3 DEF SavesState
    <3>4. CASE cmd.whole
      <4>1. Sound /\ Sound' /\ Rows <= Rows' /\ Rows \in Nat /\ Rows' \in Nat /\ cmd.least \in Nat
        <5>1. Sound /\ Sound' /\ Rows <= Rows'
          BY <1>1, <1>2, <3>1, <3>2, <3>4 DEF SavesState, Grows
        <5>2. Rows \in Nat \cup {Torn}
          BY <1>1, RowsAreTyped DEF BackupTypeOK
        <5>3. (Rows \in Nat \cup {Torn})'
          <6>1. (disk \in DiskType)'
            BY <1>3 DEF BackupTypeOK
          <6> QED
            BY <6>1 DEF Rows, Recover, DiskType, LogType
        <5> QED
          BY <1>1, <3>1, <5>1, <5>2, <5>3, KindTells DEF Sound, Saving
      <4>2. cmd.least <= Rows'
        BY <1>1, <3>1, <3>4, <4>1 DEF SavesState
      <4>3. cmd.todo \in AtWal =>
               /\ cmd.log \in Nat /\ cmd.part.db \in Nat
               /\ cmd.log <= cmd.part.db /\ cmd.part.db <= disk'.db
        BY <1>1, <3>1, <3>2, <3>4 DEF SavesState
      <4>4. cmd.todo \in AtPki \cup AtEnd =>
               /\ RowsIn(cmd.part) \in Nat
               /\ cmd.least <= RowsIn(cmd.part) /\ RowsIn(cmd.part) <= Rows'
        BY <1>1, <3>1, <3>4, <4>1 DEF SavesState
      <4>5. cmd.todo \in AtEnd => RowsIn(cmd.part) <= FilesIn(cmd.part)
        BY <1>1, <3>1, <3>4 DEF SavesState
      <4> QED
        BY <1>1, <1>5, <3>1, <3>2, <4>1, <4>2, <4>3, <4>4, <4>5 DEF SavesState, RowsIn, FilesIn
    <3> QED
      BY <3>3, <3>4
  <2> QED
    BY <1>2, <1>3, <2>1, <2>2, SameArchive DEF BackupInv
<1> QED
  BY <1>2, <1>4, <1>5

(* Commands that only look at the disk.                                      *)
LEMMA SameDisk ==
    ASSUME UNCHANGED disk
    PROVE  Rows' = Rows /\ Files' = Files /\ Sound' = Sound /\ Beginning' = Beginning
BY DEF Rows, Files, Sound, Beginning

LEMMA BackupBeginKeepsInv ==
    ASSUME BackupInv, NEW api \in BOOLEAN, BackupBegin(api)
    PROVE  BackupInv'
<1> USE BackupAssumption
<1> DEFINE least == IF Sound THEN Rows ELSE 0
<1>1. /\ BackupTypeOK /\ OpenIsReadable /\ disk \in DiskType
      /\ disk.db # Absent /\ (api => up) /\ UNCHANGED <<up, archive>>
      /\ disk' \in IF api THEN Checkpoints \cup {disk} ELSE {disk}
      /\ cmd' = [kind |-> "backup", api |-> api, todo |-> Order(api), part |-> Nothing,
                 log |-> Absent, whole |-> Sound, least |-> least]
  BY DEF BackupInv, BackupTypeOK, BackupBegin, Command
<1>2. Order(api) \in AtDb
  <2>1. <<"db", "wal", "pki">> \o <<>> = <<"db", "wal", "pki">>
    OBVIOUS
  <2>2. <<"db", "wal", "pki">> \o <<"config">> = <<"db", "wal", "pki", "config">>
    BY FourOf
  <2> QED
    BY <2>1, <2>2 DEF Order, AtDb
<1>3. /\ disk' \in DiskType /\ Rows' = Rows /\ Files' = Files
      /\ disk'.db \in Nat
      /\ up => /\ disk'.db \in Nat /\ disk'.pki \in Nat /\ disk'.wal \in LogType
               /\ disk'.wal.from <= disk'.db /\ disk'.db <= disk'.wal.to
  <2>1. CASE disk' = disk
    <3>1. disk.db \in Nat
      BY <1>1 DEF DiskType
    <3> QED
      BY <1>1, <2>1, <3>1, SameDisk DEF OpenIsReadable
  <2>2. CASE api /\ disk' \in Checkpoints
    BY <1>1, <2>2, CheckpointGrows DEF Grows
  <2> QED
    BY <1>1, <2>1, <2>2
<1>4. Rows \in Nat \cup {Torn} /\ least \in Nat
  BY <1>1, RowsAreTyped DEF Sound
<1>5. Sound \in BOOLEAN /\ Sound' = Sound
  BY <1>3 DEF Sound
<1>6. Nothing \in DiskType /\ Nothing.wal = Absent
  BY DEF Nothing, DiskType
<1>7. /\ cmd' \in Saving /\ cmd'.kind = "backup" /\ cmd'.todo \in AtDb
      /\ cmd'.whole = Sound /\ cmd'.least = least /\ cmd'.part.wal = Absent
  <2> HIDE DEF least
  <2> QED
    BY <1>1, <1>2, <1>4, <1>5, <1>6 DEF Saving
<1>8. cmd'.todo \notin AtWal \cup AtPki \cup AtEnd
  <2>1. /\ \A t \in AtWal : Head(t) = "wal"
        /\ \A t \in AtPki : Head(t) = "pki"
        /\ \A t \in AtEnd : t = <<>> \/ Head(t) = "config"
        /\ Head(cmd'.todo) = "db" /\ cmd'.todo # <<>>
    BY <1>7, Stages
  <2> QED
    BY <2>1
<1>9. BackupTypeOK' /\ OpenIsReadable' /\ RestoresArchive'
  BY <1>1, <1>3, <1>7 DEF BackupTypeOK, OpenIsReadable, RestoresArchive
<1>10. SavesState'
  <2>1. Sound => least <= Rows'
    BY <1>3, <1>4 DEF Sound
  <2> HIDE DEF least
  <2> QED
    BY <1>3, <1>5, <1>7, <1>8, <2>1 DEF SavesState
<1> QED
  BY <1>1, <1>9, <1>10, SameArchive DEF BackupInv

(* What is copied of the rows when the log is, is read back as they are now, *)
(* if the log still begins where it did.                                     *)
LEMMA CopiedLogContinues ==
    ASSUME disk \in DiskType, disk.db \in Nat, Sound,
           NEW db \in Nat, Beginning <= db, db <= disk.db
    PROVE  Recover(db, disk.wal) = Rows
<1> USE BackupAssumption
<1>1. Rows \in Nat /\ Beginning \in Nat /\ disk.db <= Rows
  BY RowsAreTyped DEF Sound
<1>2. CASE disk.wal = Absent
  BY <1>1, <1>2 DEF Rows, Recover, Beginning
<1>3. CASE disk.wal # Absent
  <2>1. disk.wal.from \in Nat /\ disk.wal.to \in Nat
    BY <1>3 DEF DiskType, LogType
  <2> QED
    BY <1>1, <1>3, <2>1 DEF Rows, Recover, Beginning, Sound
<1> QED
  BY <1>2, <1>3

LEMMA StagesDiffer ==
    ASSUME NEW t
    PROVE  /\ t \in AtDb => t \notin AtWal \cup AtPki \cup AtEnd \cup AtBareDb \cup AtBareWal
           /\ t \in AtWal => t \notin AtDb \cup AtPki \cup AtEnd \cup AtBareDb \cup AtBareWal
           /\ t \in AtPki => t \notin AtDb \cup AtWal \cup AtEnd \cup AtBareDb \cup AtBareWal
           /\ t \in AtEnd => t \notin AtDb \cup AtWal \cup AtPki \cup AtBareDb \cup AtBareWal
           /\ t \in AtBareDb => t \notin AtDb \cup AtWal \cup AtPki \cup AtEnd \cup AtBareWal
           /\ t \in AtBareWal => t \notin AtDb \cup AtWal \cup AtPki \cup AtEnd \cup AtBareDb
<1>1. \A u \in AtDb \cup AtWal, v \in AtBareDb \cup AtBareWal : u # v
  BY DEF AtDb, AtWal, AtBareDb, AtBareWal
<1>2. /\ t \in AtDb \cup AtBareDb => t # <<>> /\ Head(t) = "db"
      /\ t \in AtWal \cup AtBareWal => t # <<>> /\ Head(t) = "wal"
      /\ t \in AtPki => t # <<>> /\ Head(t) = "pki"
      /\ t \in AtEnd => t = <<>> \/ Head(t) = "config"
  BY Stages
<1> QED
  BY <1>1, <1>2

LEMMA CopyKeepsInv ==
    ASSUME BackupInv, NEW f \in {"db", "wal", "pki", "config"}, Copy(f)
    PROVE  BackupInv'
<1> USE BackupAssumption
<1> DEFINE whole == cmd.whole /\ (f = "wal" => Beginning = cmd.log)
           part == [cmd.part EXCEPT ![f] = disk[f]]
           least == IF whole THEN cmd.least ELSE 0
           log == IF f = "db" THEN Beginning ELSE Absent
           todo == Tail(cmd.todo)
<1>1. /\ BackupTypeOK /\ OpenIsReadable /\ SavesState /\ disk \in DiskType
      /\ cmd.kind = "backup" /\ cmd \in Saving /\ disk.db \in Nat
      /\ cmd.todo # <<>> /\ f = Head(cmd.todo)
      /\ UNCHANGED <<disk, up, archive>>
  BY KindTells DEF BackupInv, BackupTypeOK, SavesState, Copy
<1>2. cmd' = [cmd EXCEPT !.todo = todo, !.part = part, !.whole = whole, !.least = least, !.log = log]
  BY <1>1 DEF Copy, Saving
<1>3. /\ cmd.todo \in AtDb \cup AtWal \cup AtPki \cup AtEnd /\ cmd.part \in DiskType
      /\ cmd.whole \in BOOLEAN /\ cmd.least \in Nat
  BY <1>1 DEF Saving
<1>4. Beginning \in Nat
  BY <1>1, RowsAreTyped
<1>5. /\ whole \in BOOLEAN /\ least \in Nat /\ log \in Nat \cup {Absent}
      /\ whole => cmd.whole /\ least = cmd.least
  BY <1>3, <1>4
<1>6. part \in DiskType
  <2>1. CASE f = "db"
    BY <1>1, <1>3, <2>1 DEF DiskType
  <2>2. CASE f = "wal"
    BY <1>1, <1>3, <2>2 DEF DiskType
  <2>3. CASE f = "pki"
    BY <1>1, <1>3, <2>3 DEF DiskType
  <2>4. CASE f = "config"
    BY <1>1, <1>3, <2>4 DEF DiskType
  <2> QED
    BY <2>1, <2>2, <2>3, <2>4
<1>7. todo \in AtDb \cup AtWal \cup AtPki \cup AtEnd
  BY <1>1, <1>3, Stages
<1>8. /\ cmd' \in Saving /\ cmd'.kind = "backup" /\ cmd'.todo = todo /\ cmd'.part = part
      /\ cmd'.whole = whole /\ cmd'.least = least /\ cmd'.log = log
  <2> HIDE DEF whole, part, least, log, todo
  <2> QED
    BY <1>1, <1>2, <1>5, <1>6, <1>7 DEF Saving
<1>9. Rows' = Rows /\ Sound' = Sound
  BY <1>1, SameDisk
<1>10. SavesState'
  <2>1. todo \in AtWal => part.wal = Absent
    <3>1. todo \in AtWal => cmd.todo \in AtDb /\ f = "db"
      BY <1>1, <1>3, Stages, StagesDiffer
    <3>2. f = "db" => part.wal = cmd.part.wal
      BY <1>3 DEF DiskType
    <3> QED
      BY <1>1, <3>1, <3>2 DEF SavesState
  <2>2. todo \notin AtDb
    BY <1>1, <1>3, Stages, StagesDiffer
  <2>3. ASSUME whole
        PROVE  /\ Sound /\ least <= Rows
               /\ todo \in AtWal =>
                     /\ log \in Nat /\ part.db \in Nat
                     /\ log <= part.db /\ part.db <= disk.db
               /\ todo \in AtPki \cup AtEnd =>
                     /\ RowsIn(part) \in Nat
                     /\ least <= RowsIn(part) /\ RowsIn(part) <= Rows
               /\ todo \in AtEnd => RowsIn(part) <= FilesIn(part)
    <3>1. /\ cmd.whole /\ Sound /\ cmd.least <= Rows /\ Rows \in Nat /\ Rows <= Files
          /\ Beginning <= disk.db /\ disk.db <= Rows /\ least = cmd.least
      BY <1>1, <1>5, <2>3, RowsAreTyped DEF SavesState, Sound
    <3>2. CASE cmd.todo \in AtDb
      <4>1. f = "db" /\ todo \in AtWal
        BY <1>1, <3>2, Stages
      <4>2. todo \notin AtPki \cup AtEnd
        BY <4>1, StagesDiffer
      <4>3. part.db = disk.db /\ log = Beginning
        BY <1>3, <4>1 DEF DiskType
      <4> QED
        BY <1>1, <1>4, <3>1, <4>1, <4>2, <4>3
    <3>3. CASE cmd.todo \in AtWal
      <4>1. f = "wal" /\ todo \in AtPki
        BY <1>1, <3>3, Stages
      <4>2. todo \notin AtWal \cup AtEnd
        BY <4>1, StagesDiffer
      <4>3. part.db = cmd.part.db /\ part.wal = disk.wal
        BY <1>3, <4>1 DEF DiskType
      <4>4. /\ cmd.part.db \in Nat /\ Beginning <= cmd.part.db /\ cmd.part.db <= disk.db
        BY <1>1, <2>3, <3>1, <3>3, <4>1 DEF SavesState
      <4>5. RowsIn(part) = Rows
        BY <1>1, <3>1, <4>3, <4>4, CopiedLogContinues DEF RowsIn
      <4> QED
        BY <3>1, <4>2, <4>5
    <3>4. CASE cmd.todo \in AtPki
      <4>1. f = "pki" /\ todo \in AtEnd
        BY <1>1, <3>4, Stages
      <4>2. todo \notin AtWal
        BY <4>1, StagesDiffer
      <4>3. part.db = cmd.part.db /\ part.wal = cmd.part.wal /\ part.pki = disk.pki
        BY <1>3, <4>1 DEF DiskType
      <4>4. RowsIn(part) = RowsIn(cmd.part) /\ FilesIn(part) = Files
        BY <4>3 DEF RowsIn, FilesIn, Files
      <4>5. /\ RowsIn(cmd.part) \in Nat
            /\ cmd.least <= RowsIn(cmd.part) /\ RowsIn(cmd.part) <= Rows
        BY <1>1, <3>1, <3>4 DEF SavesState
      <4>6. Files \in Nat
        BY <1>1, RowsAreTyped
      <4> QED
        BY <3>1, <4>2, <4>4, <4>5, <4>6
    <3>5. CASE cmd.todo \in AtEnd
      <4>1. f = "config" /\ todo \in AtEnd
        BY <1>1, <3>5, Stages
      <4>2. todo \notin AtWal
        BY <4>1, StagesDiffer
      <4>3. part.db = cmd.part.db /\ part.wal = cmd.part.wal /\ part.pki = cmd.part.pki
        BY <1>3, <4>1 DEF DiskType
      <4>4. RowsIn(part) = RowsIn(cmd.part) /\ FilesIn(part) = FilesIn(cmd.part)
        BY <4>3 DEF RowsIn, FilesIn
      <4>5. /\ RowsIn(cmd.part) \in Nat
            /\ cmd.least <= RowsIn(cmd.part) /\ RowsIn(cmd.part) <= Rows
            /\ RowsIn(cmd.part) <= FilesIn(cmd.part)
        BY <1>1, <3>1, <3>5 DEF SavesState
      <4> QED
        BY <3>1, <4>2, <4>4, <4>5
    <3> QED
      BY <1>3, <3>2, <3>3, <3>4, <3>5
  <2> HIDE DEF whole, part, least, log, todo
  <2> QED
    BY <1>1, <1>8, <1>9, <2>1, <2>2, <2>3 DEF SavesState, RowsIn, FilesIn
<1> QED
  BY <1>1, <1>8, <1>10, SameArchive DEF BackupInv, BackupTypeOK, OpenIsReadable, RestoresArchive

LEMMA SkipLogKeepsInv ==
    ASSUME BackupInv, SkipLog
    PROVE  BackupInv'
<1> USE BackupAssumption
<1>1. /\ BackupTypeOK /\ OpenIsReadable /\ SavesState /\ disk \in DiskType
      /\ cmd.kind = "backup" /\ cmd \in Saving /\ disk.db \in Nat
      /\ cmd.todo # <<>> /\ Head(cmd.todo) = "wal"
      /\ UNCHANGED <<disk, up, archive>>
      /\ cmd' = [cmd EXCEPT !.todo = Tail(cmd.todo), !.least = 0, !.log = Absent]
  BY KindTells DEF BackupInv, BackupTypeOK, SavesState, SkipLog
<1>2. cmd.todo \in AtWal
  BY <1>1, Stages DEF Saving
<1>3. Tail(cmd.todo) \in AtPki
  BY <1>2, Stages
<1>4. Tail(cmd.todo) \notin AtDb \cup AtWal \cup AtEnd
  BY <1>3, StagesDiffer
<1>5. /\ cmd' \in Saving /\ cmd'.kind = "backup" /\ cmd'.todo = Tail(cmd.todo)
      /\ cmd'.part = cmd.part /\ cmd'.whole = cmd.whole /\ cmd'.least = 0
  BY <1>1, <1>3 DEF Saving
<1>6. Rows' = Rows /\ Sound' = Sound
  BY <1>1, SameDisk
<1>7. cmd.whole => /\ Sound /\ Rows \in Nat /\ disk.db <= Rows
                   /\ cmd.part.db \in Nat /\ cmd.part.db <= disk.db
                   /\ RowsIn(cmd.part) = cmd.part.db
  BY <1>1, <1>2, RowsAreTyped DEF SavesState, Sound, RowsIn, Recover
<1>8. SavesState'
  BY <1>1, <1>3, <1>4, <1>5, <1>6, <1>7 DEF SavesState, RowsIn, FilesIn
<1> QED
  BY <1>1, <1>5, <1>8, SameArchive
  DEF BackupInv, BackupTypeOK, OpenIsReadable, RestoresArchive

LEMMA BackupEndKeepsInv ==
    ASSUME BackupInv, BackupEnd
    PROVE  BackupInv'
<1> USE BackupAssumption
<1>1. /\ BackupTypeOK /\ OpenIsReadable /\ SavesState
      /\ cmd.kind = "backup" /\ cmd \in Saving /\ cmd.todo \in AtEnd
      /\ UNCHANGED <<disk, up>> /\ cmd' = Idle /\ Idle.kind = "none"
      /\ archive' = [part |-> cmd.part, whole |-> cmd.whole, least |-> cmd.least]
  BY KindTells, Stages DEF BackupInv, BackupEnd
<1>2. archive' \in ArchiveType
  BY <1>1 DEF Saving, ArchiveType
<1>3. BackupTypeOK' /\ OpenIsReadable' /\ SavesState' /\ RestoresArchive'
  BY <1>1, <1>2 DEF BackupTypeOK, OpenIsReadable, SavesState, RestoresArchive
<1>4. ArchiveIsState'
  <2>1. Saved' = RowsIn(cmd.part) /\ (IF HasPKI THEN Entries.pki ELSE 0)' = FilesIn(cmd.part)
    BY <1>1 DEF Saved, Entries, HasPKI, RowsIn, FilesIn
  <2>2. archive'.whole = cmd.whole /\ archive'.least = cmd.least
    BY <1>1
  <2>3. cmd.whole => /\ RowsIn(cmd.part) \in Nat /\ cmd.least <= RowsIn(cmd.part)
                     /\ RowsIn(cmd.part) <= FilesIn(cmd.part)
    BY <1>1 DEF SavesState
  <2>4. cmd.least \in Nat
    BY <1>1 DEF Saving
  <2> QED
    BY <2>1, <2>2, <2>3, <2>4 DEF ArchiveIsState
<1> QED
  BY <1>3, <1>4 DEF BackupInv

LEMMA EndKeepsInv ==
    ASSUME BackupInv, CommandFails \/ RestoreEnd
    PROVE  BackupInv'
<1>1. UNCHANGED <<disk, up, archive>> /\ cmd' = Idle /\ Idle.kind = "none"
  BY DEF CommandFails, RestoreEnd, Idle
<1> QED
  BY <1>1, SameArchive
  DEF BackupInv, BackupTypeOK, OpenIsReadable, SavesState, RestoresArchive

LEMMA WipeKeepsInv ==
    ASSUME BackupInv, Wipe
    PROVE  BackupInv'
<1>1. /\ BackupTypeOK /\ disk \in DiskType /\ ~up /\ cmd = Idle /\ Idle.kind = "none"
      /\ UNCHANGED <<up, archive, cmd>>
  BY DEF BackupInv, BackupTypeOK, Wipe, Idle
<1>2. PICK wal \in {disk.wal, Absent}, pki \in {disk.pki, Absent}, config \in {disk.config, Absent} :
         disk' = [db |-> Absent, wal |-> wal, pki |-> pki, config |-> config]
  BY DEF Wipe
<1>3. disk' \in DiskType
  BY <1>1, <1>2 DEF DiskType
<1> QED
  BY <1>1, <1>3, SameArchive
  DEF BackupInv, BackupTypeOK, OpenIsReadable, SavesState, RestoresArchive

------------------------------------------------------------------------------
(* Restores.                                                                 *)

LEMMA RestoreBeginKeepsInv ==
    ASSUME BackupInv, NEW force \in BOOLEAN, RestoreBegin(force)
    PROVE  BackupInv'
<1> USE BackupAssumption
<1> DEFINE before == IF force THEN Nothing ELSE [disk EXCEPT !.wal = Absent]
           pki == IF HasPKI THEN <<"pki">> ELSE <<>>
           config == IF WithConfig(force) THEN <<"config">> ELSE <<>>
           todo == <<"db", "wal">> \o pki \o config
           stale == Entries.wal = Absent /\ disk.wal # Absent
<1>1. /\ BackupTypeOK /\ disk \in DiskType /\ ~up /\ archive # NoArchive /\ ~Refused(force)
      /\ UNCHANGED <<disk, up, archive>>
      /\ cmd' = [kind |-> "restore", force |-> force, before |-> before, todo |-> todo,
                 stale |-> stale]
  BY DEF BackupInv, BackupTypeOK, RestoreBegin, Command
<1>2. before \in DiskType
  BY <1>1 DEF DiskType, Nothing
<1>3. /\ HasPKI => todo \in AtDb
      /\ ~HasPKI => todo \in AtBareDb
      /\ ~WithConfig(force) => todo \in NoConfig
  <2>1. /\ <<"db", "wal">> \o <<"pki">> = <<"db", "wal", "pki">>
        /\ <<"db", "wal">> \o <<"config">> = <<"db", "wal", "config">>
        /\ <<"db", "wal", "pki">> \o <<"config">> = <<"db", "wal", "pki", "config">>
        /\ <<"db", "wal">> \o <<>> = <<"db", "wal">>
        /\ <<"db", "wal", "pki">> \o <<>> = <<"db", "wal", "pki">>
    BY ThreeOf, FourOf
  <2>2. CASE HasPKI /\ WithConfig(force)
    BY <2>1, <2>2 DEF AtDb
  <2>3. CASE HasPKI /\ ~WithConfig(force)
    BY <2>1, <2>3 DEF AtDb, NoConfig
  <2>4. CASE ~HasPKI /\ WithConfig(force)
    BY <2>1, <2>4 DEF AtBareDb
  <2>5. CASE ~HasPKI /\ ~WithConfig(force)
    BY <2>1, <2>5 DEF AtBareDb, NoConfig
  <2> QED
    BY <2>2, <2>3, <2>4, <2>5
<1>4. /\ before.db = Absent
      /\ before.pki \in {Absent, 0} \/ (before.pki = disk.pki /\ ~HasPKI)
      /\ before.config = Absent \/ (before.config = disk.config /\ ~WithConfig(force))
  <2>1. CASE force
    BY <2>1 DEF Nothing
  <2>2. CASE ~force
    <3>1. /\ disk.db = Absent /\ (~HasPKI \/ ~(Files > 0))
          /\ before.db = disk.db /\ before.pki = disk.pki /\ before.config = disk.config
      BY <1>1, <2>2 DEF Refused, DiskType
    <3>2. disk.pki \in Nat \cup {Absent}
      BY <1>1 DEF DiskType
    <3>3. ~(Files > 0) => disk.pki \in {Absent, 0}
      BY <3>2 DEF Files
    <3> QED
      BY <2>2, <3>1, <3>3 DEF WithConfig
  <2> QED
    BY <2>1, <2>2
<1>5. /\ HasPKI => todo \notin AtWal \cup AtPki \cup AtEnd \cup AtBareDb \cup AtBareWal
      /\ ~HasPKI => todo \notin AtDb \cup AtWal \cup AtPki \cup AtEnd \cup AtBareWal
  BY <1>3, StagesDiffer
<1>6. (~stale /\ Entries.wal = Absent) => disk.wal = Absent
  OBVIOUS
<1>7. stale \in BOOLEAN
  OBVIOUS
<1> HIDE DEF before, todo, stale
<1>8. /\ cmd' \in Restoring /\ cmd'.kind = "restore" /\ cmd'.todo = todo
      /\ cmd'.before = before /\ cmd'.stale = stale
  BY <1>1, <1>2, <1>3, <1>7 DEF Restoring
<1>9. Entries' = Entries /\ HasPKI' = HasPKI
  BY <1>1, SameArchive
<1>10. RestoresArchive'
  BY <1>1, <1>3, <1>4, <1>5, <1>6, <1>8, <1>9 DEF RestoresArchive
<1> QED
  BY <1>1, <1>8, <1>10, SameArchive
  DEF BackupInv, BackupTypeOK, OpenIsReadable, SavesState

LEMMA WriteKeepsInv ==
    ASSUME BackupInv, NEW f \in {"db", "wal", "pki", "config"}, Write(f)
    PROVE  BackupInv'
<1> USE BackupAssumption
<1> DEFINE todo == Tail(cmd.todo)
<1>1. /\ BackupTypeOK /\ RestoresArchive /\ disk \in DiskType
      /\ cmd.kind = "restore" /\ cmd \in Restoring /\ cmd.todo # <<>> /\ f = Head(cmd.todo)
      /\ UNCHANGED <<up, archive>> /\ ~up /\ archive # NoArchive /\ archive \in ArchiveType
      /\ disk' = [disk EXCEPT ![f] = Written(f)]
      /\ cmd' = [cmd EXCEPT !.todo = todo]
  BY KindTells DEF BackupInv, BackupTypeOK, RestoresArchive, Write
<1>2. /\ Entries \in DiskType /\ Entries' = Entries /\ HasPKI' = HasPKI
      /\ Files \in Nat
  BY <1>1, SameArchive, RowsAreTyped DEF Entries, ArchiveType
<1>3. cmd.todo \in AtDb \cup AtWal \cup AtPki \cup AtBareDb \cup AtBareWal \cup AtEnd
  BY <1>1 DEF Restoring
<1>4. todo \in AtDb \cup AtWal \cup AtPki \cup AtBareDb \cup AtBareWal \cup AtEnd
  BY <1>1, <1>3, Stages
<1>5. /\ cmd' \in Restoring /\ cmd'.kind = "restore" /\ cmd'.todo = todo
      /\ cmd'.before = cmd.before /\ cmd'.stale = cmd.stale
  <2> HIDE DEF todo
  <2> QED
    BY <1>1, <1>4 DEF Restoring
<1>6. cmd.before.config = Absent \/ (cmd.before.config = disk.config /\ cmd.todo \in NoConfig)
  BY <1>1 DEF RestoresArchive
<1>7. cmd.todo \in NoConfig => f # "config" /\ todo \in NoConfig
  BY <1>1, Stages
<1>8. CASE cmd.todo \in AtDb \cup AtBareDb
  <2>1. f = "db" /\ todo \in AtWal \cup AtBareWal
    BY <1>1, <1>8, Stages
  <2>2. /\ disk' \in DiskType /\ disk'.db = Entries.db
        /\ disk'.wal = disk.wal /\ disk'.pki = disk.pki /\ disk'.config = disk.config
    BY <1>1, <1>2, <2>1 DEF Written, DiskType
  <2>3. /\ todo \notin AtDb \cup AtBareDb \cup AtPki \cup AtEnd
        /\ todo \in AtWal => HasPKI
        /\ todo \in AtBareWal => ~HasPKI
    BY <1>1, <1>3, <1>8, <2>1, Stages, StagesDiffer DEF RestoresArchive
  <2>4. RestoresArchive'
    <3> HIDE DEF todo
    <3> QED
      BY <1>1, <1>2, <1>5, <1>6, <1>7, <2>1, <2>2, <2>3 DEF RestoresArchive
  <2> QED
    BY <1>1, <1>5, <2>2, <2>4, SameArchive
    DEF BackupInv, BackupTypeOK, OpenIsReadable, SavesState
<1>9. CASE cmd.todo \in AtWal \cup AtBareWal
  <2>1. f = "wal" /\ todo \in AtPki \cup AtEnd
    BY <1>1, <1>9, Stages
  <2>2. /\ disk' \in DiskType /\ disk'.db = disk.db
        /\ disk'.wal = IF Entries.wal = Absent THEN disk.wal ELSE Entries.wal
        /\ disk'.pki = disk.pki /\ disk'.config = disk.config
    <3>1. Written("wal") = IF Entries.wal = Absent THEN disk.wal ELSE Entries.wal
      BY DEF Written
    <3> QED
      BY <1>1, <1>2, <2>1, <3>1 DEF DiskType
  <2>3. /\ todo \notin AtDb \cup AtBareDb \cup AtWal \cup AtBareWal
        /\ todo \in AtPki => HasPKI
        /\ todo \in AtEnd => ~HasPKI
        /\ cmd.todo \notin AtDb \cup AtBareDb
    BY <1>1, <1>3, <1>9, <2>1, Stages, StagesDiffer DEF RestoresArchive
  <2>4. disk.db = Entries.db /\ (~cmd.stale /\ Entries.wal = Absent => disk.wal = Absent)
    BY <1>1, <2>3 DEF RestoresArchive
  <2>5. RestoresArchive'
    <3> HIDE DEF todo
    <3> QED
      BY <1>1, <1>2, <1>5, <1>6, <1>7, <2>1, <2>2, <2>3, <2>4 DEF RestoresArchive
  <2> QED
    BY <1>1, <1>5, <2>2, <2>5, SameArchive
    DEF BackupInv, BackupTypeOK, OpenIsReadable, SavesState
<1>10. CASE cmd.todo \in AtPki
  <2>1. f = "pki" /\ todo \in AtEnd /\ HasPKI
    BY <1>1, <1>10, Stages DEF RestoresArchive
  <2>2. Entries.pki \in Nat
    BY <1>2, <2>1 DEF HasPKI, DiskType
  <2>3. Written("pki") \in Nat /\ Written("pki") >= Entries.pki
    <3>1. Written("pki") = Max({Files, Entries.pki})
      BY DEF Written
    <3> DEFINE larger == IF Files >= Entries.pki THEN Files ELSE Entries.pki
    <3>2. larger \in {Files, Entries.pki} /\ \A y \in {Files, Entries.pki} : larger >= y
      BY <1>2, <2>2
    <3>3. /\ Max({Files, Entries.pki}) \in {Files, Entries.pki}
          /\ \A y \in {Files, Entries.pki} : Max({Files, Entries.pki}) >= y
      BY <3>2 DEF Max
    <3> QED
      BY <1>2, <2>2, <3>1, <3>3
  <2>4. /\ disk' \in DiskType /\ disk'.db = disk.db /\ disk'.wal = disk.wal
        /\ disk'.pki = Written("pki") /\ disk'.config = disk.config
    BY <1>1, <2>1, <2>3 DEF DiskType
  <2>5. /\ todo \notin AtDb \cup AtBareDb \cup AtWal \cup AtBareWal \cup AtPki
        /\ cmd.todo \notin AtDb \cup AtBareDb
    BY <1>10, <2>1, StagesDiffer
  <2>6. cmd.before.pki \in {Absent, 0}
    BY <1>1, <2>1 DEF RestoresArchive
  <2>7. Files' >= Entries.pki
    <3>1. disk'.pki \in Nat /\ disk'.pki >= Entries.pki
      BY <2>3, <2>4
    <3> QED
      BY <3>1 DEF Files
  <2>8. RestoresArchive'
    <3> HIDE DEF todo
    <3> QED
      BY <1>1, <1>2, <1>5, <1>6, <1>7, <1>10, <2>1, <2>4, <2>5, <2>6, <2>7 DEF RestoresArchive
  <2> QED
    BY <1>1, <1>5, <2>4, <2>8, SameArchive
    DEF BackupInv, BackupTypeOK, OpenIsReadable, SavesState
<1>11. CASE cmd.todo \in AtEnd
  <2>1. f = "config" /\ todo \in AtEnd
    BY <1>1, <1>11, Stages
  <2>2. /\ disk' \in DiskType /\ disk'.db = disk.db /\ disk'.wal = disk.wal
        /\ disk'.pki = disk.pki
    BY <1>1, <1>2, <2>1 DEF Written, DiskType
  <2>3. /\ todo \notin AtDb \cup AtBareDb \cup AtWal \cup AtBareWal \cup AtPki
        /\ cmd.todo \notin AtDb \cup AtBareDb
    BY <1>11, <2>1, StagesDiffer
  <2>4. cmd.before.config = Absent
    BY <1>6, <1>7, <2>1
  <2>5. Files' = Files
    BY <2>2 DEF Files
  <2>6. RestoresArchive'
    <3> HIDE DEF todo
    <3> QED
      BY <1>1, <1>2, <1>5, <1>11, <2>1, <2>2, <2>3, <2>4, <2>5 DEF RestoresArchive
  <2> QED
    BY <1>1, <1>5, <2>2, <2>6, SameArchive
    DEF BackupInv, BackupTypeOK, OpenIsReadable, SavesState
<1> QED
  BY <1>3, <1>8, <1>9, <1>10, <1>11

LEMMA PassLogKeepsInv ==
    ASSUME BackupInv, PassLog
    PROVE  BackupInv'
<1> DEFINE todo == Tail(cmd.todo)
<1>1. /\ BackupTypeOK /\ RestoresArchive
      /\ cmd.kind = "restore" /\ cmd \in Restoring /\ cmd.todo # <<>> /\ Head(cmd.todo) = "wal"
      /\ UNCHANGED <<disk, up, archive>> /\ ~up /\ archive # NoArchive
      /\ cmd' = [cmd EXCEPT !.todo = todo, !.stale = TRUE]
  BY KindTells DEF BackupInv, BackupTypeOK, RestoresArchive, PassLog
<1>2. cmd.todo \in AtWal \cup AtBareWal
  BY <1>1, Stages DEF Restoring
<1>3. todo \in AtPki \cup AtEnd
  BY <1>1, <1>2, Stages
<1>4. /\ todo \notin AtDb \cup AtBareDb \cup AtWal \cup AtBareWal
      /\ todo \in AtPki => HasPKI
      /\ todo \in AtEnd => ~HasPKI
      /\ cmd.todo \notin AtDb \cup AtBareDb
  BY <1>1, <1>2, <1>3, Stages, StagesDiffer DEF RestoresArchive
<1>5. cmd.todo \in NoConfig => todo \in NoConfig
  BY <1>1, Stages
<1> HIDE DEF todo
<1>6. /\ cmd' \in Restoring /\ cmd'.kind = "restore" /\ cmd'.todo = todo
      /\ cmd'.before = cmd.before /\ cmd'.stale
  BY <1>1, <1>3 DEF Restoring
<1>7. Entries' = Entries /\ HasPKI' = HasPKI /\ Files' = Files
  BY <1>1, SameArchive, SameDisk
<1>8. RestoresArchive'
  BY <1>1, <1>3, <1>4, <1>5, <1>6, <1>7 DEF RestoresArchive
<1> QED
  BY <1>1, <1>6, <1>8, SameArchive
  DEF BackupInv, BackupTypeOK, OpenIsReadable, SavesState

LEMMA BackupInitInv == BackupInit => BackupInv
<1> SUFFICES ASSUME BackupInit PROVE BackupInv
  OBVIOUS
<1>1. Log(0, 0) \in LogType /\ Log(0, 0).from = 0 /\ Log(0, 0).to = 0
  BY LogIsTyped
<1>2. /\ disk \in DiskType /\ disk.db = 0 /\ disk.pki = 0 /\ disk.wal = Log(0, 0)
  BY <1>1 DEF BackupInit, NewDisk, DiskType
<1>3. cmd = Idle /\ Idle.kind = "none" /\ archive = NoArchive /\ up
  BY DEF BackupInit, Idle
<1> QED
  BY <1>1, <1>2, <1>3
  DEF BackupInit, BackupInv, BackupTypeOK, OpenIsReadable, SavesState, RestoresArchive, ArchiveIsState

LEMMA BackupNextKeepsInv ==
    ASSUME BackupInv, BackupNext
    PROVE  BackupInv'
BY DaemonKeepsInv, BackupBeginKeepsInv, CopyKeepsInv, SkipLogKeepsInv, BackupEndKeepsInv,
   EndKeepsInv, WipeKeepsInv, RestoreBeginKeepsInv, WriteKeepsInv, PassLogKeepsInv
DEF BackupNext, Daemon

LEMMA UpdateKeepsBackupInv ==
    ASSUME BackupInv, UNCHANGED backupVars
    PROVE  BackupInv'
<1>1. UNCHANGED <<disk, up, archive, cmd>>
  BY DEF backupVars
<1>2. /\ Rows' = Rows /\ Files' = Files /\ Sound' = Sound
      /\ Entries' = Entries /\ HasPKI' = HasPKI /\ (ArchiveIsState => ArchiveIsState')
  BY <1>1, SameDisk, SameArchive
<1> QED
  BY <1>1, <1>2
  DEF BackupInv, BackupTypeOK, OpenIsReadable, SavesState, RestoresArchive, RowsIn, FilesIn

LEMMA BackupInvHolds == Spec => []BackupInv
<1>1. Init => BackupInv
  BY BackupInitInv DEF Init
<1>2. BackupInv /\ [Next]_vars => BackupInv'
  BY BackupNextKeepsInv, UpdateKeepsBackupInv DEF Next, vars
<1> QED
  BY <1>1, <1>2, PTL DEF Spec

(* However the daemon, its certificates, a restart and the backup            *)
(* interleave, a complete archive is a state of the daemon: no row is torn,  *)
(* those of the beginning are in it, and each has its certificate.  That is  *)
(* if every row had its certificate at the beginning and the log did not     *)
(* begin anew between the copies of the database and of the log, by a        *)
(* checkpoint that truncated it or by a restart (whole); and nothing is said *)
(* of the rows of the beginning when the log could not be read.              *)
THEOREM ArchivesAreStates == Spec => []ArchiveIsState
<1>1. BackupInv => ArchiveIsState
  BY DEF BackupInv
<1> QED
  BY <1>1, BackupInvHolds, PTL

(* A restore overwrites no database, certificate or configuration unless it  *)
(* is forced (a log it does), and leaves exactly what was saved, with a      *)
(* certificate for every row, unless a log that is not the archive's is      *)
(* next to the database then (stale).                                        *)
THEOREM RestoresAreExact == Spec => []RestoreIsExact
<1>1. ASSUME BackupInv PROVE RestoreIsExact
  <2>1. SUFFICES ASSUME cmd.kind = "restore" PROVE RestoreIsExact
    BY DEF RestoreIsExact
  <2>2. /\ BackupTypeOK /\ RestoresArchive /\ ArchiveIsState
        /\ disk \in DiskType /\ archive # NoArchive /\ archive \in ArchiveType
    BY <1>1, <2>1 DEF BackupInv, BackupTypeOK, RestoresArchive
  <2>3. \A f \in {"db", "pki", "config"} :
           cmd.before[f] \in {Absent, disk[f]} \/ (f = "pki" /\ cmd.before[f] = 0)
    BY <2>1, <2>2 DEF RestoresArchive
  <2>4. ASSUME cmd.todo = <<>>, ~cmd.stale
        PROVE  Rows = Saved /\ (archive.whole => Sound)
    <3>1. cmd.todo \in AtEnd /\ cmd.todo \notin AtDb \cup AtBareDb
      BY <2>4, Stages
    <3>2. /\ disk.db = Entries.db /\ disk.wal = Entries.wal
          /\ HasPKI => Files >= Entries.pki
      BY <2>1, <2>2, <2>4, <3>1 DEF RestoresArchive
    <3>3. Rows = Saved
      BY <3>2 DEF Rows, Saved
    <3>4. ASSUME archive.whole PROVE Sound
      <4>1. Saved # Torn /\ Saved <= (IF HasPKI THEN Entries.pki ELSE 0)
        BY <2>2, <3>4 DEF ArchiveIsState
      <4>2. Rows \in Nat \cup {Torn} /\ Files \in Nat
        BY <2>2, RowsAreTyped
      <4>3. HasPKI => Entries.pki \in Nat
        BY <2>2 DEF Entries, ArchiveType, DiskType, HasPKI
      <4> QED
        BY <3>2, <3>3, <4>1, <4>2, <4>3 DEF Sound
    <3> QED
      BY <3>3, <3>4
  <2> QED
    BY <2>3, <2>4 DEF RestoreIsExact
<1> QED
  BY <1>1, BackupInvHolds, PTL

------------------------------------------------------------------------------
(* Updates.                                                                  *)

Released == {r.version : r \in Releases}

Versions ==
    Released
        \cup UNION {{b[p].version : p \in {q \in Programs : b[q] # Missing}} : b \in Installs}

(* What CompareVersions takes to be newer was built later.  This is so of    *)
(* releases that are published in the order of their numbers, and of their   *)
(* release candidates; it is not so of a build that `git describe` names     *)
(* after the release it follows, which the suffix makes older than it.       *)
VersionsFollowAge ==
    \A a, b \in Versions : (~b.dev /\ IsNewer(a, b)) => a.age > b.age

(* What SHA256SUMS say of a program is true.                                 *)
Checked(new, p) == new.genuine \/ Unlisted(new.release, p)

(* What a command has checked, and still has to install.                     *)
JobIsChecked ==
    job # NoJob =>
        /\ job = [self |-> job.self, explicit |-> job.explicit, new |-> job.new, todo |-> job.todo]
        /\ job.self \in Programs
        /\ \A p \in Programs : job.new[p].version \in Released
        /\ \E other \in Programs \ {job.self} :
              /\ job.todo \in {<<job.self>>, <<job.self, other>>, <<other>>}
              /\ job.todo # <<job.self>> => Checked(job.new[other], other)
        /\ Checked(job.new[job.self], job.self)
        /\ (Head(job.todo) = job.self /\ ~job.explicit /\ ~bins[job.self].version.dev) =>
              IsNewer(job.new[job.self].version, bins[job.self].version)

BinsAreVersions ==
    /\ bins = [p \in Programs |-> bins[p]]
    /\ \A p \in Programs : bins[p] # Missing => bins[p].version \in Versions

UpdateInv == BinsAreVersions /\ JobIsChecked

(* What is offered has been checked, whichever file was swapped.             *)
LEMMA OfferedIsChecked ==
    ASSUME NEW release, NEW fakes \in {{}} \cup {{a} : a \in Planned(release)},
           NEW p \in Programs, p \in Offered(release, fakes)
    PROVE  fakes \cap {"archive", p} = {} \/ Unlisted(release, p)
<1>1. SUFFICES ASSUME fakes \cap {"archive", p} # {} PROVE Unlisted(release, p)
  OBVIOUS
<1>2. fakes \subseteq Planned(release)
  OBVIOUS
<1>3. CASE "archive" \in release.assets
  <2>1. fakes = {"archive"}
    BY <1>1, <1>2, <1>3 DEF Planned
  <2>2. Verified(release, "archive", fakes) /\ Verified(release, p, fakes)
    BY <1>3 DEF Offered, FromArchive
  <2> QED
    BY <1>3, <2>1, <2>2 DEF Verified, Unlisted
<1>4. CASE "archive" \notin release.assets
  <2>1. p \in fakes /\ p \in Planned(release)
    BY <1>1, <1>2, <1>4 DEF Planned, Programs
  <2>2. Verified(release, p, fakes) /\ (release.sums = NoSums \/ Listed(release, p))
    BY <1>4, <2>1 DEF Offered, FromBinaries
  <2> QED
    BY <1>4, <2>1, <2>2 DEF Verified, Unlisted
<1> QED
  BY <1>3, <1>4

LEMMA UpdateBeginKeepsInv ==
    ASSUME UpdateInv, NEW self \in Programs, NEW r \in Releases, NEW explicit \in BOOLEAN,
           NEW fakes \in {{}} \cup {{a} : a \in Planned(r)},
           UpdateBegin(self, r, explicit, fakes)
    PROVE  UpdateInv'
<1> DEFINE companion == Programs \ {self}
           other == CHOOSE p \in companion : TRUE
           genuine(p) == fakes \cap {"archive", p} = {}
           new == [p \in Programs |-> Program(r.version, genuine(p), r)]
           todo == <<self>> \o (IF companion \subseteq Offered(r, fakes) THEN <<other>> ELSE <<>>)
<1>1. /\ bins' = bins /\ bins[self] # Missing /\ Wanted(r, bins[self].version, explicit)
      /\ self \in Offered(r, fakes)
      /\ job' = [self |-> self, explicit |-> explicit, new |-> new, todo |-> todo]
  BY DEF UpdateBegin
<1>2. other \in Programs \ {self}
  BY DEF Programs
<1>3. /\ todo \in {<<self>>, <<self, other>>}
      /\ todo # <<self>> => other \in Offered(r, fakes)
  <2>1. <<self>> \o <<other>> = <<self, other>> /\ <<self>> \o <<>> = <<self>>
    BY TwoOf
  <2>2. CASE companion \subseteq Offered(r, fakes)
    BY <1>2, <2>1, <2>2
  <2>3. CASE ~(companion \subseteq Offered(r, fakes))
    BY <2>1, <2>3
  <2> QED
    BY <2>2, <2>3
<1>4. \A p \in Programs :
         /\ new[p].version = r.version
         /\ p \in Offered(r, fakes) => Checked(new[p], p)
  <2>1. ASSUME NEW p \in Programs
        PROVE  /\ new[p].version = r.version /\ new[p].genuine = genuine(p)
               /\ new[p].release = r
    BY DEF Program
  <2>2. ASSUME NEW p \in Programs, p \in Offered(r, fakes)
        PROVE  genuine(p) \/ Unlisted(r, p)
    BY <2>2, OfferedIsChecked
  <2> HIDE DEF new, genuine
  <2> QED
    BY <2>1, <2>2 DEF Checked
<1>5. r.version \in Released
  BY DEF Released
<1>6. Head(todo) = self
  <2> HIDE DEF todo, other
  <2> QED
    BY <1>3
<1>7. (~explicit /\ ~bins[self].version.dev) => IsNewer(r.version, bins[self].version)
  BY <1>1 DEF Wanted
<1> HIDE DEF todo, new, other
<1>8. job'.self = self /\ job'.explicit = explicit /\ job'.new = new /\ job'.todo = todo
  BY <1>1
<1>9. JobIsChecked'
  BY <1>1, <1>2, <1>3, <1>4, <1>5, <1>6, <1>7, <1>8 DEF JobIsChecked
<1> QED
  BY <1>1, <1>9 DEF UpdateInv, BinsAreVersions

(* What installing a program does.                                           *)
InstallIsSound(p) ==
    /\ bins[p] # Missing
    /\ bins'[p].version \in Released /\ Checked(bins'[p], p)
    /\ (p = job.self /\ ~job.explicit /\ ~bins[p].version.dev) =>
          IsNewer(bins'[p].version, bins[p].version)

LEMMA InstallKeepsInv ==
    ASSUME UpdateInv, NEW p \in Programs, Install(p)
    PROVE  /\ UpdateInv'
           /\ \A q \in Programs : bins'[q] # bins[q] => InstallIsSound(q)
<1>1. /\ job.todo # <<>> /\ p = Head(job.todo) /\ bins = [q \in Programs |-> bins[q]]
      /\ bins' = IF bins[p] = Missing THEN bins ELSE [bins EXCEPT ![p] = job.new[p]]
      /\ job' = IF Len(job.todo) = 1 THEN NoJob ELSE [job EXCEPT !.todo = Tail(@)]
  BY DEF Install, UpdateInv, BinsAreVersions
<1>2. job # NoJob
  BY <1>1 DEF NoJob
<1>3. PICK other \in Programs \ {job.self} :
         /\ job.todo \in {<<job.self>>, <<job.self, other>>, <<other>>}
         /\ job.todo # <<job.self>> => Checked(job.new[other], other)
  BY <1>2 DEF UpdateInv, JobIsChecked
<1>4. /\ job = [self |-> job.self, explicit |-> job.explicit, new |-> job.new, todo |-> job.todo]
      /\ job.self \in Programs
      /\ \A q \in Programs : job.new[q].version \in Released
      /\ Checked(job.new[job.self], job.self)
      /\ (p = job.self /\ ~job.explicit /\ ~bins[job.self].version.dev) =>
            IsNewer(job.new[job.self].version, bins[job.self].version)
  BY <1>1, <1>2 DEF UpdateInv, JobIsChecked
<1>5. Checked(job.new[p], p)
  <2>1. CASE job.todo = <<other>>
    BY <1>1, <1>3, <2>1
  <2>2. CASE job.todo = <<job.self>> \/ job.todo = <<job.self, other>>
    BY <1>1, <1>4, <2>2
  <2> QED
    BY <1>3, <2>1, <2>2
<1>6. \A q \in Programs : bins'[q] # bins[q] =>
         q = p /\ bins[p] # Missing /\ bins'[p] = job.new[p]
  BY <1>1
<1>7. \A q \in Programs : bins'[q] # bins[q] => InstallIsSound(q)
  BY <1>4, <1>5, <1>6 DEF InstallIsSound
<1>8. BinsAreVersions'
  <2>1. bins' = [q \in Programs |-> bins'[q]]
    BY <1>1
  <2>2. \A q \in Programs : bins'[q] # Missing => bins'[q].version \in Versions
    BY <1>4, <1>6 DEF UpdateInv, BinsAreVersions, Versions
  <2> QED
    BY <2>1, <2>2 DEF BinsAreVersions
<1>9. JobIsChecked'
  <2>1. CASE job.todo = <<job.self, other>>
    <3>1. Tail(job.todo) = <<other>> /\ Len(job.todo) = 2
      BY <2>1
    <3>2. job' = [job EXCEPT !.todo = <<other>>]
      <4>1. job' = [job EXCEPT !.todo = Tail(job.todo)]
        BY <1>1, <3>1, 2 # 1
      <4> QED
        BY <3>1, <4>1
    <3>3. /\ job' = [self |-> job.self, explicit |-> job.explicit, new |-> job.new,
                     todo |-> <<other>>]
      BY <1>4, <3>2
    <3>4. /\ job'.self = job.self /\ job'.explicit = job.explicit /\ job'.new = job.new
          /\ job'.todo = <<other>>
      BY <3>3
    <3>5. Checked(job.new[other], other) /\ Head(<<other>>) # job.self
      BY <1>3, <2>1
    <3> QED
      BY <1>3, <1>4, <3>3, <3>4, <3>5 DEF JobIsChecked
  <2>2. CASE job.todo = <<job.self>> \/ job.todo = <<other>>
    BY <1>1, <2>2 DEF JobIsChecked
  <2> QED
    BY <1>3, <2>1, <2>2
<1> QED
  BY <1>7, <1>8, <1>9 DEF UpdateInv

LEMMA UpdateInitInv == UpdateInit => UpdateInv
<1>1. ASSUME UpdateInit PROVE UpdateInv
  <2>1. bins \in Installs /\ job = NoJob
    BY <1>1 DEF UpdateInit
  <2>2. bins = [p \in Programs |-> bins[p]]
    BY <2>1, InstallsAssumption
  <2>3. ASSUME NEW p \in Programs, bins[p] # Missing PROVE bins[p].version \in Versions
    BY <2>1, <2>3 DEF Versions
  <2> QED
    BY <2>1, <2>2, <2>3 DEF UpdateInv, BinsAreVersions, JobIsChecked
<1> QED
  BY <1>1

LEMMA UpdateNextKeepsInv ==
    ASSUME UpdateInv, UpdateNext
    PROVE  /\ UpdateInv'
           /\ \A q \in Programs : bins'[q] # bins[q] => InstallIsSound(q)
<1>1. ASSUME NEW self \in Programs, NEW r \in Releases, NEW explicit \in BOOLEAN,
             NEW fakes \in {{}} \cup {{a} : a \in Planned(r)},
             UpdateBegin(self, r, explicit, fakes)
      PROVE  UpdateInv' /\ bins' = bins
  BY <1>1, UpdateBeginKeepsInv DEF UpdateBegin
<1>2. CASE UpdateFails
  BY <1>2 DEF UpdateFails, UpdateInv, BinsAreVersions, JobIsChecked
<1> QED
  BY <1>1, <1>2, InstallKeepsInv DEF UpdateNext

LEMMA UpdateStep ==
    ASSUME UpdateInv, [Next]_vars
    PROVE  /\ UpdateInv'
           /\ \A q \in Programs : bins'[q] # bins[q] => InstallIsSound(q)
<1>1. CASE UNCHANGED updateVars
  BY <1>1 DEF updateVars, UpdateInv, BinsAreVersions, JobIsChecked
<1>2. CASE UpdateNext
  BY <1>2, UpdateNextKeepsInv
<1> QED
  BY <1>1, <1>2 DEF Next, vars

LEMMA UpdateInvHolds == Spec => []UpdateInv
<1>1. Init => UpdateInv
  BY UpdateInitInv DEF Init
<1>2. UpdateInv /\ [Next]_vars => UpdateInv'
  BY UpdateStep
<1> QED
  BY <1>1, <1>2, PTL DEF Spec

(* Whatever releases publish and whatever is on the host: a program that is  *)
(* replaced was there; its new file has the digest that SHA256SUMS list for  *)
(* it or for its archive, or they list neither, and nobody verified it; and  *)
(* an update nobody named a version for is to a newer version as             *)
(* CompareVersions orders them.                                              *)
THEOREM UpdatesAreChecked ==
    Spec => [][\A p \in Programs : bins'[p] # bins[p] => InstallIsSound(p)]_updateVars
<1>1. UpdateInv /\ [Next]_vars =>
         [\A p \in Programs : bins'[p] # bins[p] => InstallIsSound(p)]_updateVars
  BY UpdateStep
<1> QED
  BY <1>1, UpdateInvHolds, PTL DEF Spec

(* If the order of versions is that in which they were built, an update is   *)
(* never to an older program.                                                *)
THEOREM UpdatesNeverGoBack ==
    ASSUME VersionsFollowAge
    PROVE  Spec => UpdatesAreSound
<1> DEFINE sound ==
      \A p \in Programs :
         bins'[p] # bins[p] =>
            /\ bins[p] # Missing
            /\ bins'[p].genuine \/ Unlisted(bins'[p].release, p)
            /\ (p = job.self /\ ~job.explicit /\ ~bins[p].version.dev) =>
                  bins'[p].version.age > bins[p].version.age
<1>1. ASSUME UpdateInv, [Next]_vars
      PROVE  sound
  <2>1. UpdateInv' /\ \A q \in Programs : bins'[q] # bins[q] => InstallIsSound(q)
    BY <1>1, UpdateStep
  <2>2. ASSUME NEW p \in Programs, bins'[p] # bins[p],
               p = job.self, ~job.explicit, ~bins[p].version.dev
        PROVE  bins'[p].version.age > bins[p].version.age
    <3>1. IsNewer(bins'[p].version, bins[p].version) /\ bins[p] # Missing
      BY <2>1, <2>2 DEF InstallIsSound
    <3>2. bins[p].version \in Versions /\ bins'[p].version \in Versions
      BY <1>1, <2>1, <2>2, <3>1 DEF UpdateInv, BinsAreVersions, InstallIsSound, Versions
    <3> QED
      BY <2>2, <3>1, <3>2 DEF VersionsFollowAge
  <2> QED
    BY <2>1, <2>2 DEF InstallIsSound, Checked
<1> QED
  BY <1>1, UpdateInvHolds, PTL DEF Spec, UpdatesAreSound
===============================================================================
