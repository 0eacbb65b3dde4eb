------------------------------ MODULE DeployLog ------------------------------
(***************************************************************************)
(* What the deploy engine promises to somebody who reads an app's history: *)
(* deploys of one app happen one at a time, every entry gets at most one   *)
(* verdict, and an entry whose deploy was cut off by the end of the        *)
(* process is resolved later.  DeployEngine implements it as long as row   *)
(* ids are not reused (see DeployEngine!Log).                              *)
(***************************************************************************)
EXTENDS Naturals, Sequences

CONSTANTS
  Apps,      (* the apps.                                                  *)
  Outcomes   (* the statuses that end a deploy.                            *)

Open == "open"

VARIABLES
  log,      (* the history: Open or the verdict of each entry.             *)
  current   (* current[a]: the entry of the deploy of a in progress, or 0. *)

logVars == <<log, current>>

Init ==
  /\ log = <<>>
  /\ current = [a \in Apps |-> 0]

(* A deploy of a starts: none is in progress.                              *)
Begin(a) ==
  /\ current[a] = 0
  /\ log' = Append(log, Open)
  /\ current' = [current EXCEPT ![a] = Len(log) + 1]

(* The deploy in progress gets its verdict.                                *)
End(a) ==
  /\ current[a] # 0
  /\ log[current[a]] = Open
  /\ \E v \in Outcomes : log' = [log EXCEPT ![current[a]] = v]
  /\ current' = [current EXCEPT ![a] = 0]

(* Deploys in progress are cut off; their entries stay open.               *)
CutOff ==
  /\ \E S \in SUBSET Apps :
       current' = [a \in Apps |-> IF a \in S THEN 0 ELSE current[a]]
  /\ log' = log

(* Work in the background gets an entry of its own.                        *)
BeginBackground ==
  /\ log' = Append(log, Open)
  /\ current' = current

(* Entries of no deploy in progress get their verdicts.                    *)
Resolve ==
  /\ DOMAIN log' = DOMAIN log
  /\ \A e \in DOMAIN log :
       \/ log'[e] = log[e]
       \/ /\ log[e] = Open
          /\ log'[e] \in Outcomes
          /\ \A a \in Apps : current[a] # e
  /\ current' = current

Next ==
  \/ \E a \in Apps : Begin(a) \/ End(a)
  \/ CutOff
  \/ BeginBackground
  \/ Resolve

Spec == Init /\ [][Next]_logVars
=============================================================================
