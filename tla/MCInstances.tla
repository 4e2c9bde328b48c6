----------------------------- MODULE MCInstances ------------------------------
(* Small instances of Instances for TLC.                                     *)
EXTENDS Instances, TLC

Interchangeable == Permutations(Procs) \cup Permutations(Requests)
===============================================================================
