------------------------------ MODULE MCLifetime ------------------------------
(* Small instances of Lifetime for TLC.  Clients only ever meet in           *)
(* equalities, so permuting them changes nothing.                            *)
EXTENDS Lifetime, TLC

Interchangeable == Permutations(Clients)
===============================================================================
