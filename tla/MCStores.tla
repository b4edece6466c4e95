------------------------------ MODULE MCStores ------------------------------
(***************************************************************************)
(* Stores with requests, and machines still to be enrolled, that TLC may   *)
(* exchange.                                                               *)
(***************************************************************************)
EXTENDS Stores, TLC

Interchangeable == Permutations(Machines \ Founders) \cup Permutations(Clients)
=============================================================================
