------------------------------ MODULE MCUpdates ------------------------------
(* Instances of Updates for TLC.                                           *)
EXTENDS Updates

(* Every tag is admitted.                                                  *)
AllAllowed == [s \in Strategies |-> Versions]

(* The constraint does not admit the highest version, whichever of the     *)
(* others are pushed before or after it; the pattern leaves out a tag      *)
(* between two that match.                                                 *)
SomeAllowed == [s \in Strategies |->
  CASE s = "semver" -> Versions \ {MaxVersion}
    [] s = "exact"  -> Versions \ {2}
    [] s = "latest" -> Versions]
=============================================================================
