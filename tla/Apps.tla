-------------------------------- MODULE Apps --------------------------------
(***************************************************************************)
(* The apps of tagalong and their targets: the tables of                   *)
(* internal/store/apps.go, as the API reads and edits them                 *)
(* (internal/httpapi/apps.go), as YAML files export and import them        *)
(* (appsyaml.go), the webhook receivers look them up (hooks.go) and the    *)
(* engine and the poller record deploys in them.                           *)
(*                                                                         *)
(* A transaction works on a draft of the tables, which its commit          *)
(* publishes and which a rollback or the end of the process drops.  What   *)
(* an edit sets besides the name (repository, strategy, polling, targets)  *)
(* is one value, its settings, of which the targets have a table of their  *)
(* own.                                                                    *)
(***************************************************************************)
EXTENDS Process, Sequences, FiniteSets

CONSTANTS
  Names,     (* names of apps, numbered in the order SQLite sorts them.    *)
  Fold,      (* Fold[n]: the name in lower case.                           *)
  Settings,  (* settings that normalizeApp accepts.                        *)
  Docs,      (* apps that clients submit.                                  *)
  Files,     (* YAML documents that they import.                           *)
  MaxId,     (* row ids.  Bounds the model.                                *)
  MaxToken   (* webhook tokens.  Bounds the model.                         *)

Ids == 1..MaxId

Tokens == 1..MaxToken

(* What normalizeApp refuses: no name or repository, an unknown strategy.  *)
Invalid == "invalid"

(* Token 0: the field is left out.                                         *)
Doc == [name : Names, conf : Settings \cup {Invalid}, token : Tokens \cup {0}]

ASSUME AppsAssumption ==
  /\ MaxId \in Nat
  /\ MaxToken \in Nat
  /\ Names \subseteq Nat
  /\ Fold \in [Names -> Names]
  /\ Invalid \notin Settings
  /\ Docs \subseteq Doc
  /\ Files \subseteq Seq(Doc) \ {<<>>}

VARIABLES
  db,      (* persistent: the rows of apps, and in app_targets the         *)
           (* settings whose targets it has, both by app id.               *)
  draft,   (* the tables as the open transaction sees them.                *)
  req,     (* the request that each handler serves.                        *)
  newest   (* the newest token that has been generated.                    *)

appsVars == <<db, draft, req, newest>>

(***************************************************************************)
(* Types.                                                                  *)
(***************************************************************************)

(* seen counts the deploys recorded in last_seen_tag and last_seen_digest. *)
Row == [name : Names, conf : Settings, token : Tokens, seen : Nat]

(* f maps some of the members of S to members of T.                        *)
Partial(f, S, T) == DOMAIN f \subseteq S /\ f \in [DOMAIN f -> T]

Tables(t) ==
  /\ t = [rows |-> t.rows, targets |-> t.targets]
  /\ Partial(t.rows, Ids, Row)
  /\ Partial(t.targets, Ids, Settings)

NoTables == [rows |-> [i \in {} |-> 0], targets |-> [i \in {} |-> 0]]

Ops == {"none", "create", "update", "yaml", "import", "list", "load", "hook",
        "delete", "rotate", "seen"}

Phases == {"idle", "list", "listTargets", "find", "row", "targets", "check",
           "write", "replace", "commit", "statement"}

Codes == {0, 200, 400, 404, 500}

(* The rows that an import found, by name in lower case.                   *)
Lookups == UNION {[D -> [id : Ids, token : Tokens]] : D \in SUBSET Names}

(* entry: the app of the document that an import has come to.  byName:     *)
(* what it knows of the apps that there are.  cur: the token of the app    *)
(* that an edit found.  left: targetsFor still to be called.  wrote: the   *)
(* request has committed something.                                        *)
Request ==
  [op     : Ops,
   pc     : Phases,
   id     : Ids \cup {0},
   docs   : Seq(Doc),
   entry  : Nat \ {0},
   byName : Lookups,
   cur    : Tokens \cup {0},
   left   : Nat,
   wrote  : BOOLEAN,
   ans    : Codes]

NoNames == [k \in {} |-> 0]

Idle == [op |-> "none", pc |-> "idle", id |-> 0, docs |-> <<>>, entry |-> 1,
         byName |-> NoNames, cur |-> 0, left |-> 0, wrote |-> FALSE, ans |-> 0]

AppsTypeOK ==
  /\ ProcessTypeOK
  /\ Tables(db)
  /\ Tables(draft)
  /\ req \in [Handlers -> Request]
  /\ newest \in 0..MaxToken

AppsInit ==
  /\ db = NoTables
  /\ draft = NoTables
  /\ req = [h \in Handlers |-> Idle]
  /\ newest = 0

(***************************************************************************)
(* Requests.                                                               *)
(***************************************************************************)

Enters(h, r) ==
  /\ req[h].pc = "idle"
  /\ Arrives("apps")
  /\ req' = [req EXCEPT ![h] = r]
  /\ UNCHANGED <<db, draft, newest>>

Asks(op, pc, id, docs) == [Idle EXCEPT !.op = op, !.pc = pc, !.id = id, !.docs = docs]

Refused(code) == [Idle EXCEPT !.ans = code]

(* POST /api/apps and PUT /api/apps/{id}: decodeApp, then the store.       *)
CreateApp(h, d) ==
  Enters(h, IF d.conf = Invalid THEN Refused(400)
            ELSE Asks("create", "write", 0, <<d>>))

UpdateApp(h, id, d) ==
  Enters(h, IF d.conf = Invalid THEN Refused(400)
            ELSE Asks("update", "write", id, <<d>>))

(* PUT /api/apps/{id}/yaml loads the app before it reads the body.         *)
UpdateAppYAML(h, id, d) ==
  Enters(h, Asks("yaml", "row", id, <<d>>))

(* POST /api/apps/import of a file that has apps.                          *)
ImportApps(h, f) ==
  Enters(h, Asks("import", "list", 0, f))

(* GET /api/apps and its export; the poller's round.                       *)
ListApps(h) == Enters(h, Asks("list", "list", 0, <<>>))

(* Requests for one app: its page, export, status, tags and deploys.       *)
LoadApp(h, id) == Enters(h, Asks("load", "row", id, <<>>))

(* A webhook looks its app up by its token or by the repository.           *)
Hook(h) == Enters(h, Asks("hook", "find", 0, <<>>))

(* DELETE, a new token, and SetLastSeen of a deploy or a poll.             *)
Single(h, op, id) == Enters(h, Asks(op, "statement", id, <<>>))

(***************************************************************************)
(* Their steps.                                                            *)
(***************************************************************************)

Answers(h, code) == req' = [req EXCEPT ![h] = Refused(code)]

(* The app that the request is about to write.                             *)
Current(r) == r.docs[r.entry]

(* apps[0] is missing: the store's ErrNotFound is a 404, except where      *)
(* createApp and importApps report any error of the store as a 500.        *)
NotFound(r) == IF r.op \in {"create", "import"} THEN 500 ELSE 404

(* What an import updates: the row of that name, or of the last one in the *)
(* order of the names if they differ in case only.                         *)
Known(rows) ==
  [k \in {Fold[rows[i].name] : i \in DOMAIN rows} |->
     LET same == {i \in DOMAIN rows : Fold[rows[i].name] = k}
         last == CHOOSE i \in same : \A j \in same : rows[j].name <= rows[i].name
     IN [id |-> last, token |-> rows[last].token]]

(* Mutated form: the targets are fetched while the rows are still open.    *)
ReadsOn(h) == Begins(h)

(* The loop over the rows reads them to the end, which closes them.        *)
ReadsAll(h) == Statement

(* Store.ListApps: the rows, then the targets of each app.                 *)
ListRows(h) ==
  /\ req[h].pc = "list"
  /\ ReadsAll(h)
  /\ req' = [req EXCEPT ![h].pc = "listTargets",
                        ![h].byName = IF req[h].op = "import" THEN Known(db.rows) ELSE NoNames,
                        ![h].left = Cardinality(DOMAIN db.rows)]
  /\ UNCHANGED <<db, draft, newest>>

ListTargets(h) ==
  /\ req[h].pc = "listTargets"
  /\ req[h].left > 0
  /\ Statement
  /\ req' = [req EXCEPT ![h].left = @ - 1]
  /\ UNCHANGED <<db, draft, newest>>

Listed(h) ==
  /\ req[h].pc = "listTargets"
  /\ req[h].left = 0
  /\ IF req[h].op = "import" THEN req' = [req EXCEPT ![h].pc = "check"]
                             ELSE Answers(h, 200)
  /\ UNCHANGED <<process, db, draft, newest>>

(* GetAppByToken, GetAppByRepo: the id, for GetApp to load.                *)
FindApp(h) ==
  /\ req[h].pc = "find"
  /\ Statement
  /\ \/ \E id \in DOMAIN db.rows : req' = [req EXCEPT ![h].pc = "row", ![h].id = id]
     \/ Answers(h, 404)
  /\ UNCHANGED <<db, draft, newest>>

(* Store.GetApp: the row, then the targets.                                *)
LoadRow(h) ==
  LET r == req[h] IN
  /\ r.pc = "row"
  /\ Statement
  /\ IF r.id \in DOMAIN db.rows
     THEN req' = [req EXCEPT ![h].pc = "targets", ![h].cur = db.rows[r.id].token]
     ELSE Answers(h, NotFound(r))
  /\ UNCHANGED <<db, draft, newest>>

(* Before an edit of an app's YAML, after a commit, or for a reader.       *)
LoadTargets(h) ==
  LET r == req[h] IN
  /\ r.pc = "targets"
  /\ Statement
  /\ CASE r.op = "yaml" /\ ~r.wrote -> req' = [req EXCEPT ![h].pc = "check"]
       [] r.op = "import" /\ r.entry < Len(r.docs) ->
            req' = [req EXCEPT ![h].pc = "write", ![h].entry = @ + 1]
       [] OTHER -> Answers(h, 200)
  /\ UNCHANGED <<db, draft, newest>>

(* Pass 1 of an import, and updateAppYAML: every app is valid, and none    *)
(* is there twice.                                                         *)
Acceptable(docs) ==
  /\ \A i \in DOMAIN docs : docs[i].conf # Invalid
  /\ \A i, j \in DOMAIN docs : Fold[docs[i].name] = Fold[docs[j].name] => i = j

Check(h) ==
  /\ req[h].pc = "check"
  /\ IF Acceptable(req[h].docs) THEN req' = [req EXCEPT ![h].pc = "write"]
                                ELSE Answers(h, 400)
  /\ UNCHANGED <<process, db, draft, newest>>

(***************************************************************************)
(* Transactions.                                                           *)
(***************************************************************************)

(* An import decides by the list it has read whether the app is new.       *)
IsNew(r) ==
  \/ r.op = "create"
  \/ r.op = "import" /\ Fold[Current(r).name] \notin DOMAIN r.byName

EditedId(r) == IF r.op = "import" THEN r.byName[Fold[Current(r).name]].id ELSE r.id

(* The id that SQLite gives a new row: ids of deleted rows at the end of   *)
(* the table are used again.                                               *)
NextId(id) ==
  /\ \A i \in DOMAIN db.rows : i < id
  /\ id = 1 \/ id - 1 \in DOMAIN db.rows

Conflict(name, id) == \E i \in DOMAIN db.rows \ {id} : db.rows[i].name = name

Put(f, id, v) == [i \in DOMAIN f \cup {id} |-> IF i = id THEN v ELSE f[i]]

Drop(f, id) == [i \in DOMAIN f \ {id} |-> f[i]]

(* Mutated form: the row is written outside the transaction.               *)
DraftsLate(h, id, row) ==
  /\ Begins(h)
  /\ db' = [db EXCEPT !.rows = Put(@, id, row)]
  /\ draft' = db'
  /\ req' = [req EXCEPT ![h].pc = "replace", ![h].id = id, ![h].wrote = TRUE]

(* Begin, and the row in the draft.                                        *)
Drafts(h, id, row) ==
  /\ Begins(h)
  /\ draft' = [db EXCEPT !.rows = Put(@, id, row)]
  /\ req' = [req EXCEPT ![h].pc = "replace", ![h].id = id]
  /\ db' = db

(* Store.CreateApp up to the INSERT.  An app without a token gets one.     *)
InsertRow(h) ==
  LET r == req[h]  d == Current(r) IN
  /\ r.pc = "write" /\ IsNew(r)
  /\ ~Conflict(d.name, 0)
  /\ newest' = IF d.token = 0 THEN newest + 1 ELSE newest
  /\ newest' <= MaxToken
  /\ \E id \in Ids :
       /\ NextId(id)
       /\ Drafts(h, id, [name |-> d.name, conf |-> d.conf, seen |-> 0,
                         token |-> IF d.token = 0 THEN newest' ELSE d.token])

(* Mutated forms: the caller's token is written as it is, or if there is   *)
(* one.                                                                    *)
UpdatedBare(row, d, token) == [row EXCEPT !.name = d.name, !.conf = d.conf, !.token = token]

UpdatedToken(row, d, token) ==
  [row EXCEPT !.name = d.name, !.conf = d.conf, !.token = IF token = 0 THEN @ ELSE token]

(* Store.UpdateApp up to the UPDATE, which leaves out webhook_token and    *)
(* last_seen_*: the token that the caller has found or been given is lost. *)
Updated(row, d, token) == [row EXCEPT !.name = d.name, !.conf = d.conf]

UpdateRow(h) ==
  LET r == req[h]  d == Current(r)  id == EditedId(r)
      token == IF d.token # 0 THEN d.token
               ELSE IF r.op = "import" THEN r.byName[Fold[d.name]].token ELSE r.cur
  IN
  /\ r.pc = "write" /\ ~IsNew(r)
  /\ id \in DOMAIN db.rows
  /\ ~Conflict(d.name, id)
  /\ Drafts(h, id, Updated(db.rows[id], d, token))
  /\ newest' = newest

(* The first statement fails: there is no such row, or the name is taken.  *)
WriteFails(h) ==
  LET r == req[h]  d == Current(r) IN
  /\ r.pc = "write"
  /\ Statement
  /\ IF IsNew(r)
     THEN Conflict(d.name, 0) /\ Answers(h, 500)
     ELSE \/ EditedId(r) \notin DOMAIN db.rows /\ Answers(h, NotFound(r))
          \/ /\ EditedId(r) \in DOMAIN db.rows
             /\ Conflict(d.name, EditedId(r))
             /\ Answers(h, 500)
  /\ UNCHANGED <<db, draft, newest>>

ReplaceTargets(h) ==
  /\ req[h].pc = "replace"
  /\ conn = h
  /\ draft' = [draft EXCEPT !.targets = Put(@, req[h].id, Current(req[h]).conf)]
  /\ req' = [req EXCEPT ![h].pc = "commit"]
  /\ UNCHANGED <<process, db, newest>>

(* Every commit is followed by GetApp.                                     *)
Commit(h) ==
  /\ req[h].pc = "commit"
  /\ Ends(h)
  /\ db' = draft
  /\ draft' = NoTables
  /\ req' = [req EXCEPT ![h].pc = "row", ![h].wrote = TRUE]
  /\ newest' = newest

(* A statement of the transaction fails: targets that are there twice, a   *)
(* full disk.  An import keeps what its earlier apps have committed.       *)
Rollback(h) ==
  /\ req[h].pc \in {"replace", "commit"}
  /\ Ends(h)
  /\ draft' = NoTables
  /\ Answers(h, 500)
  /\ UNCHANGED <<db, newest>>

(***************************************************************************)
(* Single statements.                                                      *)
(***************************************************************************)

(* Mutated form: without PRAGMA foreign_keys.                              *)
TargetsKept(id) == db.targets

(* ON DELETE CASCADE.                                                      *)
TargetsWithout(id) == Drop(db.targets, id)

(* DeleteApp.                                                              *)
DeleteRow(h) ==
  LET r == req[h] IN
  /\ r.pc = "statement" /\ r.op = "delete"
  /\ Statement
  /\ db' = [rows |-> Drop(db.rows, r.id), targets |-> TargetsWithout(r.id)]
  /\ Answers(h, IF r.id \in DOMAIN db.rows THEN 200 ELSE 404)
  /\ UNCHANGED <<draft, newest>>

(* RotateToken.                                                            *)
RotateToken(h) ==
  LET r == req[h] IN
  /\ r.pc = "statement" /\ r.op = "rotate"
  /\ Statement
  /\ newest < MaxToken
  /\ newest' = newest + 1
  /\ IF r.id \in DOMAIN db.rows
     THEN db' = [db EXCEPT !.rows[r.id].token = newest'] /\ Answers(h, 200)
     ELSE db' = db /\ Answers(h, 404)
  /\ draft' = draft

(* SetLastSeen does not ask whether there is such a row.                   *)
SetLastSeen(h) ==
  LET r == req[h] IN
  /\ r.pc = "statement" /\ r.op = "seen"
  /\ Statement
  /\ db' = IF r.id \in DOMAIN db.rows
           THEN [db EXCEPT !.rows[r.id].seen = @ + 1] ELSE db
  /\ Answers(h, 200)
  /\ UNCHANGED <<draft, newest>>

(***************************************************************************)
(* The specification.                                                      *)
(***************************************************************************)

AppsRequest(h) ==
  \/ \E d \in Docs : CreateApp(h, d)
  \/ \E id \in Ids, d \in Docs : UpdateApp(h, id, d) \/ UpdateAppYAML(h, id, d)
  \/ \E f \in Files : ImportApps(h, f)
  \/ ListApps(h)
  \/ \E id \in Ids : LoadApp(h, id)
  \/ Hook(h)
  \/ \E op \in {"delete", "rotate", "seen"}, id \in Ids : Single(h, op, id)

AppsStep(h) ==
  \/ ListRows(h) \/ ListTargets(h) \/ Listed(h)
  \/ FindApp(h) \/ LoadRow(h) \/ LoadTargets(h) \/ Check(h)
  \/ InsertRow(h) \/ UpdateRow(h) \/ WriteFails(h)
  \/ ReplaceTargets(h) \/ Commit(h) \/ Rollback(h)
  \/ DeleteRow(h) \/ RotateToken(h) \/ SetLastSeen(h)

(* The end of the process drops the requests and the transaction.          *)
AppsCrash ==
  /\ req' = [h \in Handlers |-> Idle]
  /\ draft' = NoTables
  /\ UNCHANGED <<db, newest>>

AppsNext ==
  \/ \E h \in Handlers : AppsRequest(h) \/ AppsStep(h)
  \/ (Serves \/ Elsewhere("apps")) /\ UNCHANGED appsVars
  \/ Restart /\ AppsCrash

AppsSpec == ProcessInit /\ AppsInit /\ [][AppsNext]_<<process, appsVars>>

(* A handler that waits for the connection gets it: sql.DB gives it to     *)
(* some waiter each time it is given back.                                 *)
AppsFairness == \A h \in Handlers : SF_<<process, appsVars>>(AppsStep(h))

(***************************************************************************)
(* Properties.                                                             *)
(***************************************************************************)

(* Store.CreateApp, UpdateApp and DeleteApp: whatever fails, races or      *)
(* crashes between their statements, an app's targets are those of the     *)
(* edit that its row is from, and no targets are left without an app.      *)
TargetsBelong ==
  /\ DOMAIN db.targets = DOMAIN db.rows
  /\ \A id \in DOMAIN db.rows : db.targets[id] = db.rows[id].conf

(* The row and the targets of an app are one row of the abstract table.    *)
Joined ==
  [id \in DOMAIN db.rows |->
     [name    |-> db.rows[id].name,
      conf    |-> db.rows[id].conf,
      targets |-> db.targets[id],
      token   |-> db.rows[id].token,
      seen    |-> db.rows[id].seen]]

Table == INSTANCE AppTable WITH table <- Joined

(* Edits, imports, rotations, deletions and recorded deploys take effect   *)
(* one at a time, and none undoes what another one has done to a part of   *)
(* the row that is not its own: an edit that has loaded the app before a   *)
(* rotation or a deploy keeps the new token and the recorded digest.       *)
ImplementsTable == Table!Spec

(* A request that is refused or fails has left no trace: importApps        *)
(* ("validated before any write, so a bad entry aborts cleanly") answers   *)
(* 400 before it has written anything, and an edit that answers 404 or 500 *)
(* after its commit found the app deleted.  (An import that answers 500    *)
(* may have applied a part of its file.)                                   *)
FailuresWriteNothing ==
  [][\A h \in Handlers :
       /\ req[h].wrote
       /\ req'[h].ans \in {400, 404, 500}
       => /\ req'[h].ans # 400
          /\ req[h].op # "import" => req[h].id \notin DOMAIN db.rows]_<<process, appsVars>>

(* Nobody waits for the store's one connection for ever: every request     *)
(* that has come in is answered or ends with the process.                  *)
RequestsReturn == \A h \in Handlers : []<>(req[h].pc = "idle")

=============================================================================
