--------------------------- MODULE MCDeployEngine ---------------------------
(* Instances of DeployEngine for TLC.                                      *)
EXTENDS DeployEngine, TLC

(* One app with two workloads: a patch can fail halfway.                   *)
TwoTargets == [a \in AppIds |-> 2]

(* App 1 has one workload and app 2 none, which the editor allows.         *)
SomeTargets == [a \in AppIds |-> IF a = 1 THEN 1 ELSE 0]

OneTarget == [a \in AppIds |-> 1]

(* Callers are interchangeable.                                            *)
CallerSymmetry == Permutations(Callers)

(* So are callers, and versions: nothing orders them.                      *)
CallerVersionSymmetry == Permutations(Callers) \cup Permutations(Versions)
=============================================================================
