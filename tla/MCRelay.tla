------------------------------- MODULE MCRelay -------------------------------
(* Instances of Relay for TLC.                                             *)
EXTENDS Relay, TLC

(* Agents, webhooks and the hub's handlers are interchangeable.            *)
RelaySymmetry ==
  Permutations(Agents) \cup Permutations(Messages) \cup Permutations(Polls)
=============================================================================
