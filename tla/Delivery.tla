------------------------------ MODULE Delivery ------------------------------
(***************************************************************************)
(* What the relay promises of a webhook.  Each agent gets one copy at      *)
(* most, when the webhook is sent around; the copy is run once or gets     *)
(* lost, and what is lost or has run stays so.  The sender gets one        *)
(* answer.  Unless it is "accepted" the sender can rely on it: no agent    *)
(* has accepted the webhook, and none will.  Relay implements this (see    *)
(* Relay!Copies).                                                          *)
(***************************************************************************)
CONSTANTS
  Agents,    (* the agents.                                                *)
  Messages,  (* the webhooks.                                              *)
  Statuses   (* what comes out of a webhook on an agent, and for its       *)
             (* sender.                                                    *)

VARIABLES
  copy,      (* copy[a][m]: agent a's copy of webhook m, or what came out. *)
  answer     (* answer[m]: what the sender of m was told, or "none".       *)

deliveryVars == <<copy, answer>>

Copies == [Agents -> [Messages -> {"unsent", "waiting", "gone"} \cup Statuses]]

Init ==
  /\ copy = [a \in Agents |-> [m \in Messages |-> "unsent"]]
  /\ answer = [m \in Messages |-> "none"]

(* A copy stays or gets lost, as does one that is never going to be sent.  *)
StaysOrGoes(a, n) ==
  \/ copy'[a][n] = copy[a][n]
  \/ copy[a][n] \in {"unsent", "waiting"} /\ copy'[a][n] = "gone"

(* The webhook m is sent to some agents, once.  Copies of others may have  *)
(* to go for it.                                                           *)
Send(m) ==
  /\ answer[m] = "none"
  /\ \A a \in Agents : copy[a][m] = "unsent"
  /\ copy' \in Copies
  /\ \A a \in Agents : copy'[a][m] \in {"waiting", "gone"}
  /\ \A a \in Agents, n \in Messages \ {m} : StaysOrGoes(a, n)
  /\ answer' = answer

(* Agent a runs its copy of m.                                             *)
RunCopy(a, m) ==
  /\ copy[a][m] = "waiting"
  /\ \E s \in Statuses : copy' = [copy EXCEPT ![a][m] = s]
  /\ answer' = answer

(* Copies get lost.                                                        *)
Lose ==
  /\ answer' = answer
  /\ copy' \in Copies
  /\ \A a \in Agents, n \in Messages : StaysOrGoes(a, n)

(* The sender of m is told v.                                              *)
Tell(m, v) ==
  /\ answer[m] = "none"
  /\ v # "accepted" => \A a \in Agents : copy[a][m] \notin {"waiting", "accepted"}
  /\ answer' = [answer EXCEPT ![m] = v]
  /\ copy' \in Copies
  /\ \A a \in Agents : copy'[a][m] # "unsent"
  /\ \A a \in Agents, n \in Messages : StaysOrGoes(a, n)

Next ==
  \/ Lose
  \/ \E m \in Messages : Send(m)
  \/ \E a \in Agents, m \in Messages : RunCopy(a, m)
  \/ \E m \in Messages, v \in Statuses : Tell(m, v)

Spec == Init /\ [][Next]_deliveryVars
=============================================================================
