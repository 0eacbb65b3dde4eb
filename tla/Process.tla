------------------------------- MODULE Process -------------------------------
(***************************************************************************)
(* What the components behind the portal share: the process, which serves  *)
(* requests once it has started and may end at any point, and the store's  *)
(* only connection to SQLite (Open of internal/store/store.go).            *)
(*                                                                         *)
(* A statement is one step and needs the connection to be free.  What      *)
(* holds it over several steps is a transaction, or rows that nobody has   *)
(* read to the end; everybody else's statements wait.                      *)
(***************************************************************************)
EXTENDS Naturals

CONSTANTS
  Handlers,  (* goroutines that serve requests, and the engine's.          *)
  Free,      (* the connection is held by none of them.                    *)
  Loads      (* what may happen to the process: how many requests each     *)
             (* component gets, and how often the process ends.  Bounds    *)
             (* the model.                                                 *)

Components == {"apps", "session", "link", "registry"}

(* "polls" is not spent: the registry is polled, or not.                   *)
Traffic == Components \cup {"polls", "restarts"}

ASSUME ProcessAssumption ==
  /\ Free \notin Handlers
  /\ Loads \subseteq [Traffic -> Nat]

VARIABLES
  conn,     (* the handler that holds the connection, or Free.             *)
  serving,  (* the HTTP server has been started.                           *)
  quota     (* what may still happen.                                      *)

process == <<conn, serving, quota>>

ProcessTypeOK ==
  /\ conn \in Handlers \cup {Free}
  /\ serving \in BOOLEAN
  /\ quota \in [Traffic -> Nat]

ProcessInit ==
  /\ conn = Free
  /\ serving = FALSE
  /\ quota \in Loads

Spend(what) ==
  /\ quota[what] > 0
  /\ quota' = [quota EXCEPT ![what] = @ - 1]

(* A request reaches its handler in component c.                           *)
Arrives(c) ==
  /\ serving
  /\ Spend(c)
  /\ UNCHANGED <<conn, serving>>

(* A request to another component.                                         *)
Elsewhere(c) == \E d \in Components \ {c} : Arrives(d)

(* A statement that gives the connection back at its end.                  *)
Statement ==
  /\ conn = Free
  /\ UNCHANGED process

(* What GetSetting and GetRegistryCred tell of a row (store/settings.go):  *)
(* they drop the error of a read that fails (a file that can't be read, a  *)
(* database that stays locked), which looks like a row that is not there.  *)
Lookup(row, none) == {row, none}

(* The start of a transaction of h, with its first statement.              *)
Begins(h) ==
  /\ conn = Free
  /\ conn' = h
  /\ UNCHANGED <<serving, quota>>

(* The transaction of h is committed or rolled back.                       *)
Ends(h) ==
  /\ conn = h
  /\ conn' = Free
  /\ UNCHANGED <<serving, quota>>

(* A transaction, of which others only see who holds the connection.       *)
Transaction == \E h \in Handlers : Begins(h) \/ Ends(h)

(* ListenAndServe.                                                         *)
Serves ==
  /\ ~serving
  /\ serving' = TRUE
  /\ UNCHANGED <<conn, quota>>

(* The process ends, and the next one starts: SQLite rolls back what was   *)
(* not committed.                                                          *)
Restart ==
  /\ Spend("restarts")
  /\ conn' = Free
  /\ serving' = FALSE

=============================================================================
