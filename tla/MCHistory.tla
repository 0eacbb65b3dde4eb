----------------------------- MODULE MCHistory ------------------------------
(* Instances of History for TLC.                                           *)
EXTENDS History, TLC

(* Apps are interchangeable.                                               *)
AppSymmetry == Permutations(Apps)
=============================================================================
