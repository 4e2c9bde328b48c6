--------------------------------- MODULE MCPKI --------------------------------
(* Small instances of PKI for TLC.                                           *)
EXTENDS PKI, TLC

Interchangeable == Permutations(CNs) \cup Permutations(Requests)
===============================================================================
