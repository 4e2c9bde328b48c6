----------------------------- MODULE MCBandwidth ------------------------------
(* Small instances of Bandwidth for TLC.                                     *)
EXTENDS Bandwidth, TLC

Plain == {[rx |-> 1, tx |-> 2, total |-> 0], [rx |-> 0, tx |-> 0, total |-> 2]}
Interchangeable == Permutations(IPs) \cup Permutations(Devices)
===============================================================================
