------------------------------ MODULE AppTable ------------------------------
(***************************************************************************)
(* What the store promises to everybody who reads or edits the apps: an    *)
(* app, with its settings and its targets, is one row that changes in one  *)
(* step, an edit touches neither the app's webhook token nor the record of *)
(* its deploys, and only a rotation changes the token.  Apps implements it *)
(* (see Apps!Table).                                                       *)
(***************************************************************************)
EXTENDS Naturals

CONSTANTS
  Ids, Names, Tokens,  (* row ids, names of apps, webhook tokens.          *)
  Settings             (* what else an edit sets, targets included.        *)

VARIABLE table  (* the apps by id.                                         *)

Taken(name) == \E id \in DOMAIN table : table[id].name = name

(* A new app.                                                              *)
Create(id, name, s, token) ==
  /\ id \notin DOMAIN table
  /\ ~Taken(name)
  /\ table' = [i \in DOMAIN table \cup {id} |->
                 IF i = id
                 THEN [name |-> name, conf |-> s, targets |-> s, token |-> token, seen |-> 0]
                 ELSE table[i]]

(* An edit, from the form, from one app's YAML or by an import.            *)
Edit(id, name, s) ==
  /\ id \in DOMAIN table
  /\ \A i \in DOMAIN table \ {id} : table[i].name # name
  /\ table' = [table EXCEPT ![id] = [name |-> name, conf |-> s, targets |-> s,
                                     token |-> @.token, seen |-> @.seen]]

Delete(id) ==
  /\ id \in DOMAIN table
  /\ table' = [i \in DOMAIN table \ {id} |-> table[i]]

Rotate(id, token) ==
  /\ id \in DOMAIN table
  /\ table' = [table EXCEPT ![id].token = token]

(* A deploy is recorded.                                                   *)
Record(id) ==
  /\ id \in DOMAIN table
  /\ table' = [table EXCEPT ![id].seen = @ + 1]

Init == table = [i \in {} |-> 0]

Next ==
  \/ \E id \in Ids, name \in Names, s \in Settings, token \in Tokens : Create(id, name, s, token)
  \/ \E id \in Ids, name \in Names, s \in Settings : Edit(id, name, s)
  \/ \E id \in Ids : Delete(id) \/ Record(id)
  \/ \E id \in Ids, token \in Tokens : Rotate(id, token)

Spec == Init /\ [][Next]_table
=============================================================================
