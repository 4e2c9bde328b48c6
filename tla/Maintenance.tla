------------------------------ MODULE Maintenance ------------------------------
(* The commands that administrators run beside the daemon.  The data and the *)
(* programs share no state, so that a behaviour is of the one or of the      *)
(* other: an update is begun where nothing was done with the data yet, and   *)
(* the data are looked at with the programs of one beginning.                *)
EXTENDS Backup, Update

vars == <<backupVars, updateVars>>

Init == BackupInit /\ UpdateInit

Next ==
    \/ /\ updates = 0 /\ bins = CHOOSE b \in Installs : TRUE
       /\ BackupNext /\ UNCHANGED updateVars
    \/ /\ disk = NewDisk /\ up /\ backups = 0
       /\ UpdateNext /\ UNCHANGED backupVars

Spec == Init /\ [][Next]_vars
===============================================================================
