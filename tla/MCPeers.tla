------------------------------- MODULE MCPeers --------------------------------
(* Small instances of Peers for TLC.                                         *)
EXTENDS Peers, TLC

Interchangeable == Permutations(CNs) \cup Permutations(Requests)
===============================================================================
