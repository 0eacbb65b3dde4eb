----------------------------- MODULE AppsProofs -----------------------------
(***************************************************************************)
(* Proofs about the apps: for any number of requests, apps and restarts an *)
(* app's targets are those of its row, and the two tables implement the    *)
(* abstract table of AppTable.                                             *)
(***************************************************************************)
EXTENDS Apps, FiniteSetTheorems, WellFoundedInduction, TLAPS

Edits == {"create", "update", "yaml", "import"}

Working == {"write", "replace", "commit"}

(* A request that comes to write has an app to write, which is valid, and  *)
(* one that has written has a part to read or to write left.               *)
Vetted(r) ==
  /\ r.pc = "idle" => ~r.wrote
  /\ r.pc # "idle" => r.ans = 0
  /\ r.op \in Edits => r.entry \in DOMAIN r.docs
  /\ r.pc \in Working => r.op \in Edits
  /\ r.pc = "check" => r.op \in {"yaml", "import"} /\ ~r.wrote
  /\ r.pc \in Working \/ r.wrote => \A i \in DOMAIN r.docs : r.docs[i].conf # Invalid
  /\ r.wrote => r.pc \in {"row", "targets"} \/ (r.op = "import" /\ r.pc \in Working)
  /\ r.op = "import" => r.pc # "find" /\ (r.pc \in {"row", "targets"} => r.wrote)

(* What the transaction of r has in its draft: the tables with one app     *)
(* more, or one app edited, and its targets when they have been replaced.  *)
Drafted(r) ==
  LET row == draft.rows[r.id] IN
  /\ r.id \in Ids
  /\ row \in Row
  /\ draft.rows = Put(db.rows, r.id, row)
  /\ row.conf = Current(r).conf
  /\ \A i \in DOMAIN db.rows \ {r.id} : db.rows[i].name # row.name
  /\ r.id \notin DOMAIN db.rows => row.seen = 0
  /\ r.id \in DOMAIN db.rows => row.token = db.rows[r.id].token /\ row.seen = db.rows[r.id].seen
  /\ draft.targets = IF r.pc = "replace" THEN db.targets ELSE Put(db.targets, r.id, row.conf)

(* A transaction holds the connection, so that there is one at most and    *)
(* nobody changes the tables under it.                                     *)
Transacts ==
  \A h \in Handlers : req[h].pc \in {"replace", "commit"} => conn = h /\ Drafted(req[h])

AppsInv ==
  /\ AppsTypeOK
  /\ \A h \in Handlers : Vetted(req[h])
  /\ Transacts
  /\ TargetsBelong

(***************************************************************************)
(* Values.                                                                 *)
(***************************************************************************)

(* A value more, or less.                                                  *)
LEMMA PutAndDrop ==
  ASSUME NEW S, NEW T, NEW f, Partial(f, S, T), NEW id \in S, NEW v \in T
  PROVE  Partial(Put(f, id, v), S, T) /\ Partial(Drop(f, id), S, T)
BY DEF Partial, Put, Drop

(* What an import knows before it has read the list.                       *)
LEMMA NothingKnown == NoNames \in Lookups
<1>1. NoNames \in [{} -> [id : Ids, token : Tokens]]
  BY DEF NoNames
<1>2. {} \in SUBSET Names
  OBVIOUS
<1> QED BY <1>1, <1>2 DEF Lookups

(* Among finitely many rows one has the last of their names.               *)
LEMMA LastByName ==
  ASSUME NEW S, IsFiniteSet(S), S # {}, NEW f \in [S -> Nat]
  PROVE  \E i \in S : \A j \in S : f[j] <= f[i]
<1> DEFINE After(i) == {j \in S : f[j] > f[i]}
           Afters == {After(i) : i \in S}
<1>1. \A i \in S : After(i) \in FiniteSubsetsOf(S)
  BY FS_Subset DEF FiniteSubsetsOf
<1>2. Afters \subseteq FiniteSubsetsOf(S) /\ Afters # {}
  <2> HIDE DEF After
  <2> QED BY <1>1
<1>3. PICK a \in Afters : \A b \in Afters : ~ (<<b, a>> \in StrictSubsetOrdering(S))
  <2> HIDE DEF Afters
  <2> QED BY <1>2, WFMin, FS_StrictSubsetOrderingWellFounded
<1>4. PICK i \in S : a = After(i)
  BY <1>3
<1>5. ASSUME NEW j \in After(i) PROVE FALSE
  <2>1. After(j) \subseteq After(i) /\ j \notin After(j)
    BY <1>5
  <2>2. After(j) \in Afters /\ After(j) # After(i)
    BY <1>5, <2>1
  <2>3. <<After(j), After(i)>> \in StrictSubsetOrdering(S)
    BY <2>1, <2>2 DEF StrictSubsetOrdering
  <2> QED BY <1>3, <1>4, <2>2, <2>3
<1>6. \A j \in S : ~ (f[j] > f[i])
  BY <1>5
<1> QED BY <1>4, <1>6

(* What an import knows when it has read the list.                         *)
LEMMA KnownIsLookup ==
  ASSUME NEW rows, Partial(rows, Ids, Row)
  PROVE  Known(rows) \in Lookups
<1> DEFINE keys == {Fold[rows[i].name] : i \in DOMAIN rows}
           same(k) == {i \in DOMAIN rows : Fold[rows[i].name] = k}
           last(k) == CHOOSE i \in same(k) : \A j \in same(k) : rows[j].name <= rows[i].name
<1>1. \A i \in DOMAIN rows : rows[i].name \in Names /\ rows[i].token \in Tokens /\ i \in Ids
  BY DEF Partial, Row
<1>2. keys \in SUBSET Names
  BY <1>1, AppsAssumption
<1>3. ASSUME NEW k \in keys PROVE last(k) \in DOMAIN rows
  <2> DEFINE f == [i \in same(k) |-> rows[i].name]
  <2>1. IsFiniteSet(Ids)
    BY AppsAssumption, FS_Interval DEF Ids
  <2>2. IsFiniteSet(same(k)) /\ same(k) # {}
    BY <1>1, <2>1, FS_Subset
  <2>3. f \in [same(k) -> Nat]
    BY <1>1, AppsAssumption
  <2>4. \E i \in same(k) : \A j \in same(k) : f[j] <= f[i]
    <3> HIDE DEF f, same
    <3> QED BY <2>2, <2>3, LastByName
  <2>5. \E i \in same(k) : \A j \in same(k) : rows[j].name <= rows[i].name
    BY <2>4
  <2>6. last(k) \in same(k)
    BY <2>5
  <2> QED BY <2>6
<1>4. Known(rows) = [k \in keys |-> [id |-> last(k), token |-> rows[last(k)].token]]
  BY DEF Known
<1>5. \A k \in keys : [id |-> last(k), token |-> rows[last(k)].token] \in [id : Ids, token : Tokens]
  BY <1>1, <1>3
<1>6. Known(rows) \in [keys -> [id : Ids, token : Tokens]]
  <2> HIDE DEF keys, last
  <2> QED BY <1>4, <1>5
<1> QED BY <1>2, <1>6 DEF Lookups

(* Requests that are over.                                                 *)
LEMMA AnswerIsVetted ==
  ASSUME NEW code \in Codes
  PROVE  /\ Refused(code) \in Request /\ Vetted(Refused(code))
         /\ Refused(code).pc = "idle" /\ Refused(code).ans = code
<1>2. Idle \in Request /\ Idle.pc = "idle" /\ Idle.op = "none" /\ Idle.wrote = FALSE
  BY NothingKnown DEF Idle, Request, Ops, Phases, Codes
<1> DEFINE r == Refused(code)
<1>3. r \in Request /\ r.pc = "idle" /\ r.op = "none" /\ r.ans = code
  BY <1>2 DEF Refused, Request
<1>4. r.wrote = FALSE
  BY <1>2 DEF Refused, Request
<1> HIDE DEF r
<1>5. Vetted(r)
  BY <1>3, <1>4 DEF Vetted, Edits, Working
<1> QED BY <1>3, <1>5 DEF r

(* Requests that come in.                                                  *)
LEMMA EntryIsVetted ==
  ASSUME NEW op \in {"create", "update", "yaml", "import", "list", "load", "hook",
                     "delete", "rotate", "seen"},
         NEW pc \in {"list", "find", "row", "write", "statement"},
         NEW id \in Ids \cup {0}, NEW docs \in Seq(Doc),
         op \in Edits => docs # <<>>,
         pc = "write" => op \in Edits /\ \A i \in DOMAIN docs : docs[i].conf # Invalid,
         op = "import" => pc \notin {"find", "row"}
  PROVE  LET r == Asks(op, pc, id, docs)
         IN  r \in Request /\ Vetted(r) /\ r.pc = pc
<1> DEFINE r == Asks(op, pc, id, docs)
<1>2. Idle \in Request /\ Idle.entry = 1 /\ Idle.ans = 0 /\ Idle.wrote = FALSE
  BY NothingKnown DEF Idle, Request, Ops, Phases, Codes
<1>3. r \in Request
  <2>1. op \in Ops /\ pc \in Phases
    BY DEF Ops, Phases
  <2> QED BY <1>2, <2>1 DEF Asks, Request
<1>4. r.op = op /\ r.pc = pc /\ r.docs = docs /\ r.entry = 1 /\ r.ans = 0
  BY <1>2 DEF Asks, Request
<1>5. r.wrote = FALSE
  BY <1>2 DEF Asks, Request
<1> HIDE DEF r
<1>6. docs # <<>> => 1 \in DOMAIN docs
  OBVIOUS
<1>7. Vetted(r)
  BY <1>4, <1>5, <1>6 DEF Vetted, Edits, Working
<1> QED BY <1>3, <1>4, <1>7 DEF r

(***************************************************************************)
(* Steps that leave the tables alone.                                      *)
(***************************************************************************)

(* A step of h that only changes what is known of its request.             *)
LEMMA Moves ==
  ASSUME AppsInv, NEW h \in Handlers, NEW n \in Request, Vetted(n),
         req' = [req EXCEPT ![h] = n],
         n.pc \notin {"replace", "commit"}, req[h].pc \notin {"replace", "commit"},
         ProcessTypeOK', conn' = conn, UNCHANGED <<db, draft, newest>>
  PROVE  AppsInv'
<1>1. \A g \in Handlers : req'[g] = IF g = h THEN n ELSE req[g]
  BY DEF AppsInv, AppsTypeOK
<1>2. AppsTypeOK'
  BY DEF AppsInv, AppsTypeOK
<1>3. \A g \in Handlers : Vetted(req[g])'
  BY <1>1 DEF AppsInv, Vetted
<1>4. Transacts'
  BY <1>1 DEF AppsInv, Transacts, Drafted, Current
<1>5. TargetsBelong'
  BY DEF AppsInv, TargetsBelong
<1> QED BY <1>2, <1>3, <1>4, <1>5 DEF AppsInv

(* Requests that come in.                                                  *)
LEMMA RequestsComeIn ==
  ASSUME AppsInv, ProcessTypeOK', NEW h \in Handlers, AppsRequest(h)
  PROVE  AppsInv'
<1>1. ASSUME NEW r \in Request, Vetted(r), r.pc \notin {"replace", "commit"}, Enters(h, r)
      PROVE  AppsInv'
  <2>1. conn' = conn /\ req[h].pc = "idle" /\ req' = [req EXCEPT ![h] = r]
        /\ UNCHANGED <<db, draft, newest>>
    BY <1>1 DEF Enters, Arrives
  <2> QED BY <1>1, <2>1, Moves
<1>2. ASSUME NEW op \in Ops \ {"none"}, NEW pc \in {"list", "find", "row", "write", "statement"},
             NEW id \in Ids \cup {0}, NEW docs \in Seq(Doc),
             op \in Edits => docs # <<>>,
             pc = "write" => op \in Edits /\ \A i \in DOMAIN docs : docs[i].conf # Invalid,
             op = "import" => pc \notin {"find", "row"},
             Enters(h, Asks(op, pc, id, docs))
      PROVE  AppsInv'
  <2>1. Asks(op, pc, id, docs) \in Request /\ Vetted(Asks(op, pc, id, docs))
        /\ Asks(op, pc, id, docs).pc = pc
    BY <1>2, EntryIsVetted DEF Ops
  <2> QED BY <1>1, <1>2, <2>1
<1>3. \A d \in Docs : d \in Doc /\ <<d>> \in Seq(Doc) /\ <<d>> # <<>>
                     /\ \A i \in DOMAIN <<d>> : <<d>>[i] = d
  BY AppsAssumption
<1>4. <<>> \in Seq(Doc) /\ \A f \in Files : f \in Seq(Doc) /\ f # <<>>
  BY AppsAssumption
<1>5. ASSUME Enters(h, Refused(400)) PROVE AppsInv'
  BY <1>1, <1>5, AnswerIsVetted DEF Codes
<1>6. ASSUME NEW d \in Docs, CreateApp(h, d) PROVE AppsInv'
  <2>1. d.conf # Invalid => Enters(h, Asks("create", "write", 0, <<d>>))
    BY <1>6 DEF CreateApp
  <2> QED BY <1>2, <1>3, <1>5, <1>6, <2>1 DEF CreateApp, Ops, Edits
<1>7. ASSUME NEW d \in Docs, NEW id \in Ids, UpdateApp(h, id, d) PROVE AppsInv'
  <2>1. d.conf # Invalid => Enters(h, Asks("update", "write", id, <<d>>))
    BY <1>7 DEF UpdateApp
  <2> QED BY <1>2, <1>3, <1>5, <1>7, <2>1 DEF UpdateApp, Ops, Edits
<1>8. ASSUME NEW d \in Docs, NEW id \in Ids, UpdateAppYAML(h, id, d) PROVE AppsInv'
  BY <1>2, <1>3, <1>8 DEF UpdateAppYAML, Ops, Edits
<1>9. ASSUME NEW f \in Files, ImportApps(h, f) PROVE AppsInv'
  BY <1>2, <1>4, <1>9 DEF ImportApps, Ops, Edits
<1>10. ASSUME ListApps(h) \/ Hook(h) PROVE AppsInv'
  BY <1>2, <1>4, <1>10 DEF ListApps, Hook, Ops, Edits
<1>11. ASSUME NEW id \in Ids, LoadApp(h, id) PROVE AppsInv'
  BY <1>2, <1>4, <1>11 DEF LoadApp, Ops, Edits
<1>12. ASSUME NEW op \in {"delete", "rotate", "seen"}, NEW id \in Ids, Single(h, op, id)
       PROVE  AppsInv'
  BY <1>2, <1>4, <1>12 DEF Single, Ops, Edits
<1> QED BY <1>6, <1>7, <1>8, <1>9, <1>10, <1>11, <1>12 DEF AppsRequest

(* The request that h serves.                                              *)
LEMMA Served ==
  ASSUME AppsInv, NEW h \in Handlers
  PROVE  req[h] \in Request /\ Vetted(req[h])
BY DEF AppsInv, AppsTypeOK

(* Its answer, if it is not in a transaction.                              *)
LEMMA AnswersMove ==
  ASSUME AppsInv, NEW h \in Handlers, NEW code \in Codes, Answers(h, code),
         req[h].pc \notin {"replace", "commit"},
         ProcessTypeOK', conn' = conn, UNCHANGED <<db, draft, newest>>
  PROVE  AppsInv'
BY AnswerIsVetted, Moves DEF Answers

(* Listing the apps.                                                       *)
LEMMA ListMoves ==
  ASSUME AppsInv, ProcessTypeOK', NEW h \in Handlers,
         ListRows(h) \/ ListTargets(h) \/ Listed(h)
  PROVE  AppsInv'
<1> DEFINE r == req[h]
<1>1. r \in Request /\ Vetted(r)
  BY Served
<1>2. CASE ListRows(h)
  <2> DEFINE look == IF r.op = "import" THEN Known(db.rows) ELSE NoNames
             n == [r EXCEPT !.pc = "listTargets", !.byName = look,
                            !.left = Cardinality(DOMAIN db.rows)]
  <2>1. look \in Lookups
    BY NothingKnown, KnownIsLookup DEF AppsInv, AppsTypeOK, Tables
  <2>2. IsFiniteSet(Ids)
    BY AppsAssumption, FS_Interval DEF Ids
  <2>3. Cardinality(DOMAIN db.rows) \in Nat
    BY <2>2, FS_Subset, FS_CardinalityType DEF AppsInv, AppsTypeOK, Tables, Partial
  <2>4. req' = [req EXCEPT ![h] = n] /\ r.pc = "list" /\ conn' = conn
        /\ UNCHANGED <<db, draft, newest>>
    BY <1>2 DEF ListRows, ReadsAll, Statement, process
  <2> HIDE DEF look
  <2>5. n \in Request /\ n.pc = "listTargets" /\ n.op = r.op /\ n.docs = r.docs
        /\ n.entry = r.entry /\ n.ans = r.ans
    BY <1>1, <2>1, <2>3 DEF Request, Phases
  <2>6. n.wrote = r.wrote
    BY <1>1 DEF Request
  <2> HIDE DEF n
  <2>7. Vetted(n)
    BY <1>1, <2>4, <2>5, <2>6 DEF Vetted, Working
  <2> QED BY <2>4, <2>5, <2>7, Moves
<1>3. CASE ListTargets(h)
  <2> DEFINE n == [r EXCEPT !.left = @ - 1]
  <2>1. req' = [req EXCEPT ![h] = n] /\ r.pc = "listTargets" /\ r.left > 0 /\ conn' = conn
        /\ UNCHANGED <<db, draft, newest>>
    BY <1>3 DEF ListTargets, Statement, process
  <2>2. n \in Request /\ n.pc = r.pc /\ n.op = r.op /\ n.docs = r.docs
        /\ n.entry = r.entry /\ n.ans = r.ans
    BY <1>1, <2>1 DEF Request
  <2>3. n.wrote = r.wrote
    BY <1>1 DEF Request
  <2> HIDE DEF n
  <2>4. Vetted(n)
    BY <1>1, <2>1, <2>2, <2>3 DEF Vetted, Working
  <2> QED BY <2>1, <2>2, <2>4, Moves
<1>4. CASE Listed(h)
  <2> DEFINE n == [r EXCEPT !.pc = "check"]
  <2>1. r.pc = "listTargets" /\ conn' = conn /\ UNCHANGED <<db, draft, newest>>
    BY <1>4 DEF Listed, process
  <2>2. r.op = "import" => req' = [req EXCEPT ![h] = n]
    BY <1>4 DEF Listed
  <2>3. r.op # "import" => Answers(h, 200)
    BY <1>4 DEF Listed
  <2>4. n \in Request /\ n.pc = "check" /\ n.op = r.op /\ n.docs = r.docs
        /\ n.entry = r.entry /\ n.ans = r.ans
    BY <1>1 DEF Request, Phases
  <2>5. n.wrote = r.wrote
    BY <1>1 DEF Request
  <2> HIDE DEF n
  <2>6. r.op = "import" => Vetted(n)
    BY <1>1, <2>1, <2>4, <2>5 DEF Vetted, Working
  <2>7. CASE r.op = "import"
    BY <2>1, <2>2, <2>4, <2>6, <2>7, Moves
  <2>8. CASE r.op # "import"
    BY <2>1, <2>3, <2>8, AnswersMove DEF Codes
  <2> QED BY <2>7, <2>8
<1> QED BY <1>2, <1>3, <1>4

(* Finding an app and loading its row.                                     *)
LEMMA RowMoves ==
  ASSUME AppsInv, ProcessTypeOK', NEW h \in Handlers, FindApp(h) \/ LoadRow(h)
  PROVE  AppsInv'
<1> DEFINE r == req[h]
<1>1. r \in Request /\ Vetted(r)
  BY Served
<1>2. DOMAIN db.rows \subseteq Ids /\ \A id \in DOMAIN db.rows : db.rows[id].token \in Tokens
  BY DEF AppsInv, AppsTypeOK, Tables, Partial, Row
<1>3. CASE FindApp(h)
  <2>1. r.pc = "find" /\ conn' = conn /\ UNCHANGED <<db, draft, newest>>
    BY <1>3 DEF FindApp, Statement, process
  <2>2. ASSUME NEW id \in DOMAIN db.rows,
               req' = [req EXCEPT ![h] = [r EXCEPT !.pc = "row", !.id = id]]
        PROVE  AppsInv'
    <3> DEFINE n == [r EXCEPT !.pc = "row", !.id = id]
    <3>1. n \in Request /\ n.pc = "row" /\ n.op = r.op /\ n.docs = r.docs
          /\ n.entry = r.entry /\ n.ans = r.ans
      BY <1>1, <1>2 DEF Request, Phases
    <3>2. n.wrote = r.wrote
      BY <1>1 DEF Request
    <3> HIDE DEF n
    <3>3. ~r.wrote /\ r.op # "import"
      BY <1>1, <2>1 DEF Vetted, Working
    <3>4. Vetted(n)
      BY <1>1, <2>1, <3>1, <3>2, <3>3 DEF Vetted, Working
    <3> QED BY <2>1, <2>2, <3>1, <3>4, Moves DEF n
  <2>3. Answers(h, 404) => AppsInv'
    BY <2>1, AnswersMove DEF Codes
  <2>4. (\E id \in DOMAIN db.rows :
           req' = [req EXCEPT ![h] = [r EXCEPT !.pc = "row", !.id = id]]) \/ Answers(h, 404)
    BY <1>3 DEF FindApp
  <2> QED BY <2>2, <2>3, <2>4
<1>4. CASE LoadRow(h)
  <2> DEFINE n == [r EXCEPT !.pc = "targets", !.cur = db.rows[r.id].token]
  <2>1. r.pc = "row" /\ conn' = conn /\ UNCHANGED <<db, draft, newest>>
    BY <1>4 DEF LoadRow, Statement, process
  <2>2. r.id \in DOMAIN db.rows => req' = [req EXCEPT ![h] = n]
    BY <1>4 DEF LoadRow
  <2>3. r.id \notin DOMAIN db.rows => Answers(h, NotFound(r)) /\ NotFound(r) \in Codes
    BY <1>4 DEF LoadRow, NotFound, Codes
  <2>4. CASE r.id \in DOMAIN db.rows
    <3>1. n \in Request /\ n.pc = "targets" /\ n.op = r.op /\ n.docs = r.docs
          /\ n.entry = r.entry /\ n.ans = r.ans
      BY <1>1, <1>2, <2>4 DEF Request, Phases
    <3>2. n.wrote = r.wrote
      BY <1>1 DEF Request
    <3> HIDE DEF n
    <3>3. Vetted(n)
      BY <1>1, <2>1, <3>1, <3>2 DEF Vetted, Working
    <3> QED BY <2>1, <2>2, <2>4, <3>1, <3>3, Moves
  <2>5. CASE r.id \notin DOMAIN db.rows
    BY <2>1, <2>3, <2>5, AnswersMove
  <2> QED BY <2>4, <2>5
<1> QED BY <1>3, <1>4

(* Loading the targets, and the way on.                                    *)
LEMMA TargetMoves ==
  ASSUME AppsInv, ProcessTypeOK', NEW h \in Handlers, LoadTargets(h)
  PROVE  AppsInv'
<1> DEFINE r == req[h]
           n == [r EXCEPT !.pc = "check"]
           m == [r EXCEPT !.pc = "write", !.entry = @ + 1]
<1>1. r \in Request /\ Vetted(r)
  BY Served
<1>2. r.pc = "targets" /\ conn' = conn /\ UNCHANGED <<db, draft, newest>>
  BY DEF LoadTargets, Statement, process
<1>3. CASE r.op = "yaml" /\ ~r.wrote
  <2>1. req' = [req EXCEPT ![h] = n]
    BY <1>3 DEF LoadTargets
  <2>2. n \in Request /\ n.pc = "check" /\ n.op = r.op /\ n.docs = r.docs
        /\ n.entry = r.entry /\ n.ans = r.ans
    BY <1>1 DEF Request, Phases
  <2>3. n.wrote = r.wrote
    BY <1>1 DEF Request
  <2> HIDE DEF n
  <2>4. Vetted(n)
    BY <1>1, <1>2, <1>3, <2>2, <2>3 DEF Vetted, Working
  <2> QED BY <1>2, <2>1, <2>2, <2>4, Moves
<1>4. CASE r.op = "import" /\ r.entry < Len(r.docs)
  <2>1. req' = [req EXCEPT ![h] = m]
    BY <1>4 DEF LoadTargets
  <2>2. m \in Request /\ m.pc = "write" /\ m.op = r.op /\ m.docs = r.docs
        /\ m.entry = r.entry + 1 /\ m.ans = r.ans
    <3>1. r.entry + 1 \in Nat \ {0} /\ "write" \in Phases
      BY <1>1 DEF Request, Phases
    <3> QED BY <1>1, <3>1 DEF Request
  <2>3. m.wrote = r.wrote
    BY <1>1 DEF Request
  <2>4. r.entry + 1 \in DOMAIN r.docs
    BY <1>1, <1>4 DEF Request
  <2> HIDE DEF m
  <2>5. Vetted(m)
    BY <1>1, <1>2, <1>4, <2>2, <2>3, <2>4 DEF Vetted, Working, Edits
  <2> QED BY <1>2, <2>1, <2>2, <2>5, Moves
<1>5. CASE ~(r.op = "yaml" /\ ~r.wrote) /\ ~(r.op = "import" /\ r.entry < Len(r.docs))
  <2>1. Answers(h, 200)
    BY <1>5 DEF LoadTargets
  <2> QED BY <1>2, <2>1, AnswersMove DEF Codes
<1> QED BY <1>3, <1>4, <1>5

(* The checks before a write, and a write that fails.                      *)
LEMMA RefusalMoves ==
  ASSUME AppsInv, ProcessTypeOK', NEW h \in Handlers, Check(h) \/ WriteFails(h)
  PROVE  AppsInv'
<1> DEFINE r == req[h]
           n == [r EXCEPT !.pc = "write"]
<1>1. r \in Request /\ Vetted(r)
  BY Served
<1>2. CASE Check(h)
  <2>1. r.pc = "check" /\ conn' = conn /\ UNCHANGED <<db, draft, newest>>
    BY <1>2 DEF Check, process
  <2>2. CASE Acceptable(r.docs)
    <3>1. req' = [req EXCEPT ![h] = n]
      BY <1>2, <2>2 DEF Check
    <3>2. n \in Request /\ n.pc = "write" /\ n.op = r.op /\ n.docs = r.docs
          /\ n.entry = r.entry /\ n.ans = r.ans
      BY <1>1 DEF Request, Phases
    <3>3. n.wrote = r.wrote
      BY <1>1 DEF Request
    <3>4. \A i \in DOMAIN r.docs : r.docs[i].conf # Invalid
      BY <2>2 DEF Acceptable
    <3> HIDE DEF n
    <3>5. Vetted(n)
      BY <1>1, <2>1, <3>2, <3>3, <3>4 DEF Vetted, Working, Edits
    <3> QED BY <2>1, <3>1, <3>2, <3>5, Moves
  <2>3. CASE ~Acceptable(r.docs)
    BY <1>2, <2>1, <2>3, AnswersMove DEF Check, Codes
  <2> QED BY <2>2, <2>3
<1>3. CASE WriteFails(h)
  <2>1. r.pc = "write" /\ conn' = conn /\ UNCHANGED <<db, draft, newest>>
    BY <1>3 DEF WriteFails, Statement, process
  <2>2. Answers(h, 500) \/ Answers(h, NotFound(r))
    BY <1>3 DEF WriteFails
  <2>3. NotFound(r) \in Codes /\ 500 \in Codes
    BY DEF NotFound, Codes
  <2> QED BY <2>1, <2>2, <2>3, AnswersMove
<1> QED BY <1>2, <1>3

(***************************************************************************)
(* Steps that change the tables at once.                                   *)
(***************************************************************************)

(* A statement of h: nobody else is in a transaction.                      *)
LEMMA Rewrites ==
  ASSUME AppsInv, ProcessTypeOK', NEW h \in Handlers, NEW code \in Codes,
         Statement, Answers(h, code), req[h].pc = "statement",
         Tables(db)', TargetsBelong', newest' \in 0..MaxToken, draft' = draft
  PROVE  AppsInv'
<1>1. req' = [req EXCEPT ![h] = Refused(code)] /\ conn = Free
  BY DEF Answers, Statement
<1>2. Refused(code) \in Request /\ Vetted(Refused(code)) /\ Refused(code).pc = "idle"
  BY AnswerIsVetted
<1>3. \A g \in Handlers : req'[g] = IF g = h THEN Refused(code) ELSE req[g]
  BY <1>1 DEF AppsInv, AppsTypeOK
<1>4. AppsTypeOK'
  BY <1>1, <1>2 DEF AppsInv, AppsTypeOK, Tables
<1>5. \A g \in Handlers : Vetted(req[g])'
  BY <1>2, <1>3 DEF AppsInv, Vetted
<1>6. \A g \in Handlers : req[g].pc \notin {"replace", "commit"}
  BY <1>1, ProcessAssumption DEF AppsInv, Transacts
<1>7. \A g \in Handlers : req'[g].pc \notin {"replace", "commit"}
  BY <1>2, <1>3, <1>6
<1>8. Transacts'
  BY <1>7 DEF Transacts
<1> QED BY <1>4, <1>5, <1>8 DEF AppsInv

(* What a transaction would find.                                          *)
LEMMA TablesAre ==
  ASSUME AppsInv
  PROVE  /\ db = [rows |-> db.rows, targets |-> db.targets]
         /\ draft = [rows |-> draft.rows, targets |-> draft.targets]
         /\ Partial(db.rows, Ids, Row) /\ Partial(db.targets, Ids, Settings)
         /\ Partial(draft.rows, Ids, Row) /\ Partial(draft.targets, Ids, Settings)
         /\ TargetsBelong
BY DEF AppsInv, AppsTypeOK, Tables

(* A deletion takes the targets with it.                                   *)
LEMMA DeleteRewrites ==
  ASSUME AppsInv, ProcessTypeOK', NEW h \in Handlers, DeleteRow(h)
  PROVE  AppsInv'
<1> DEFINE id == req[h].id
<1>1. db' = [rows |-> Drop(db.rows, id), targets |-> Drop(db.targets, id)]
  BY DEF DeleteRow, TargetsWithout
<1>2. Partial(Drop(db.rows, id), Ids, Row) /\ Partial(Drop(db.targets, id), Ids, Settings)
  BY TablesAre DEF Partial, Drop
<1>3. Tables(db)'
  BY <1>1, <1>2 DEF Tables
<1>4. TargetsBelong'
  <2>1. DOMAIN db.targets = DOMAIN db.rows /\ \A i \in DOMAIN db.rows : db.targets[i] = db.rows[i].conf
    BY TablesAre DEF TargetsBelong
  <2>2. db'.rows = [i \in DOMAIN db.rows \ {id} |-> db.rows[i]]
        /\ db'.targets = [i \in DOMAIN db.rows \ {id} |-> db.targets[i]]
    BY <1>1, <2>1 DEF Drop
  <2> QED BY <2>1, <2>2 DEF TargetsBelong
<1>5. \E code \in Codes : Answers(h, code)
  BY DEF DeleteRow, Codes
<1>6. newest' \in 0..MaxToken /\ draft' = draft
  BY DEF DeleteRow, AppsInv, AppsTypeOK
<1>7. Statement /\ req[h].pc = "statement"
  BY DEF DeleteRow
<1> QED BY <1>3, <1>4, <1>5, <1>6, <1>7, Rewrites

(* One row of the apps changes, and not its settings.                      *)
LEMMA RowChanges ==
  ASSUME AppsInv, NEW id \in DOMAIN db.rows, NEW row \in Row, row.conf = db.rows[id].conf,
         db' = [db EXCEPT !.rows = [db.rows EXCEPT ![id] = row]]
  PROVE  Tables(db)' /\ TargetsBelong'
<1>1. db'.rows = [db.rows EXCEPT ![id] = row] /\ db'.targets = db.targets
      /\ db' = [rows |-> db'.rows, targets |-> db'.targets]
  BY TablesAre
<1>2. Partial(db'.rows, Ids, Row)
  BY <1>1, TablesAre DEF Partial
<1>3. Partial(db'.targets, Ids, Settings)
  BY <1>1, TablesAre
<1>4. TargetsBelong'
  BY <1>1, TablesAre DEF TargetsBelong, Partial
<1> QED BY <1>1, <1>2, <1>3, <1>4 DEF Tables

(* A new token, and a deploy that is recorded.                             *)
LEMMA ColumnRewrites ==
  ASSUME AppsInv, ProcessTypeOK', NEW h \in Handlers, RotateToken(h) \/ SetLastSeen(h)
  PROVE  AppsInv'
<1> DEFINE id == req[h].id
<1>1. \A i \in DOMAIN db.rows : db.rows[i] \in Row
  BY TablesAre DEF Partial
<1>2. Tables(db) /\ TargetsBelong /\ newest \in 0..MaxToken /\ MaxToken \in Nat
  BY AppsAssumption DEF AppsInv, AppsTypeOK
<1>3. db' = db => Tables(db)' /\ TargetsBelong'
  BY <1>2 DEF TargetsBelong
<1>4. CASE RotateToken(h)
  <2> DEFINE row == [db.rows[id] EXCEPT !.token = newest']
  <2>1. newest' \in 0..MaxToken /\ newest' \in Tokens /\ draft' = draft
        /\ Statement /\ req[h].pc = "statement"
    BY <1>2, <1>4 DEF RotateToken, Tokens
  <2>2. CASE id \in DOMAIN db.rows
    <3>1. row \in Row /\ row.conf = db.rows[id].conf
      BY <1>1, <2>1, <2>2 DEF Row
    <3>2. db' = [db EXCEPT !.rows = [db.rows EXCEPT ![id] = row]] /\ Answers(h, 200)
      BY <1>4, <2>2 DEF RotateToken
    <3> HIDE DEF row
    <3>3. Tables(db)' /\ TargetsBelong'
      BY <2>2, <3>1, <3>2, RowChanges
    <3> QED BY <2>1, <3>2, <3>3, Rewrites DEF Codes
  <2>3. CASE id \notin DOMAIN db.rows
    <3>1. db' = db /\ Answers(h, 404)
      BY <1>4, <2>3 DEF RotateToken
    <3> QED BY <1>3, <2>1, <3>1, Rewrites DEF Codes
  <2> QED BY <2>2, <2>3
<1>5. CASE SetLastSeen(h)
  <2> DEFINE row == [db.rows[id] EXCEPT !.seen = @ + 1]
  <2>1. newest' \in 0..MaxToken /\ draft' = draft /\ Answers(h, 200)
        /\ Statement /\ req[h].pc = "statement"
    BY <1>2, <1>5 DEF SetLastSeen
  <2>2. CASE id \in DOMAIN db.rows
    <3>1. row \in Row /\ row.conf = db.rows[id].conf
      BY <1>1, <2>2 DEF Row
    <3>2. db' = [db EXCEPT !.rows = [db.rows EXCEPT ![id] = row]]
      BY <1>5, <2>2 DEF SetLastSeen
    <3> HIDE DEF row
    <3>3. Tables(db)' /\ TargetsBelong'
      BY <2>2, <3>1, <3>2, RowChanges
    <3> QED BY <2>1, <3>3, Rewrites DEF Codes
  <2>3. CASE id \notin DOMAIN db.rows
    <3>1. db' = db
      BY <1>5, <2>3 DEF SetLastSeen
    <3> QED BY <1>3, <2>1, <3>1, Rewrites DEF Codes
  <2> QED BY <2>2, <2>3
<1> QED BY <1>4, <1>5

(***************************************************************************)
(* Transactions.                                                           *)
(***************************************************************************)

(* The first statement of a transaction.                                   *)
LEMMA DraftsBegin ==
  ASSUME AppsInv, ProcessTypeOK', NEW h \in Handlers, req[h].pc = "write",
         NEW id \in Ids, NEW row \in Row, Drafts(h, id, row), newest' \in 0..MaxToken,
         row.conf = Current(req[h]).conf,
         \A i \in DOMAIN db.rows \ {id} : db.rows[i].name # row.name,
         id \notin DOMAIN db.rows => row.seen = 0,
         id \in DOMAIN db.rows => row.token = db.rows[id].token /\ row.seen = db.rows[id].seen
  PROVE  AppsInv'
<1> DEFINE r == req[h]
           n == [r EXCEPT !.pc = "replace", !.id = id]
<1>1. r \in Request /\ Vetted(r)
  BY Served
<1>2. conn = Free /\ conn' = h /\ req' = [req EXCEPT ![h] = n] /\ db' = db
      /\ draft' = [db EXCEPT !.rows = Put(db.rows, id, row)]
  BY DEF Drafts, Begins
<1>3. n \in Request /\ n.pc = "replace" /\ n.op = r.op /\ n.docs = r.docs
      /\ n.entry = r.entry /\ n.ans = r.ans /\ n.id = id
  BY <1>1 DEF Request, Phases
<1>4. n.wrote = r.wrote
  BY <1>1 DEF Request
<1> HIDE DEF n
<1>5. Vetted(n)
  BY <1>1, <1>3, <1>4 DEF Vetted, Working
<1>6. \A g \in Handlers : req'[g] = IF g = h THEN n ELSE req[g]
  BY <1>2 DEF AppsInv, AppsTypeOK
<1>7. draft'.rows = Put(db.rows, id, row) /\ draft'.targets = db.targets
      /\ draft' = [rows |-> draft'.rows, targets |-> draft'.targets]
  BY <1>2, TablesAre
<1>8. Tables(draft)'
  BY <1>7, TablesAre, PutAndDrop DEF Tables
<1>9. AppsTypeOK'
  BY <1>2, <1>3, <1>8 DEF AppsInv, AppsTypeOK
<1>10. \A g \in Handlers : Vetted(req[g])'
  BY <1>5, <1>6 DEF AppsInv, Vetted
<1>11. draft'.rows[id] = row
  BY <1>7 DEF Put
<1>12. Drafted(req[h])'
  BY <1>2, <1>3, <1>6, <1>7, <1>11 DEF Drafted, Current
<1>13. \A g \in Handlers : g # h => req'[g].pc \notin {"replace", "commit"}
  BY <1>2, <1>6, ProcessAssumption DEF AppsInv, Transacts
<1>14. Transacts'
  BY <1>2, <1>12, <1>13 DEF Transacts
<1>15. TargetsBelong'
  BY <1>2 DEF AppsInv, TargetsBelong
<1> QED BY <1>9, <1>10, <1>14, <1>15 DEF AppsInv

(* What the request is about to write is of the right kind.                *)
LEMMA CurrentIsDoc ==
  ASSUME AppsInv, NEW h \in Handlers, req[h].pc \in Working
  PROVE  LET d == Current(req[h])
         IN  d.name \in Names /\ d.conf \in Settings /\ d.token \in Tokens \cup {0}
<1>1. req[h] \in Request /\ Vetted(req[h])
  BY Served
<1>2. req[h].entry \in DOMAIN req[h].docs /\ req[h].docs \in Seq(Doc)
      /\ \A i \in DOMAIN req[h].docs : req[h].docs[i].conf # Invalid
  BY <1>1 DEF Vetted, Working, Request
<1>3. req[h].docs[req[h].entry] \in Doc /\ req[h].docs[req[h].entry].conf # Invalid
  BY <1>2
<1> QED BY <1>3 DEF Current, Doc

(* INSERT and UPDATE.                                                      *)
LEMMA WritesBegin ==
  ASSUME AppsInv, ProcessTypeOK', NEW h \in Handlers, InsertRow(h) \/ UpdateRow(h)
  PROVE  AppsInv'
<1> DEFINE r == req[h]
           d == Current(r)
<1>1. r.pc = "write"
  BY DEF InsertRow, UpdateRow
<1>2. d.name \in Names /\ d.conf \in Settings /\ d.token \in Tokens \cup {0}
  BY <1>1, CurrentIsDoc DEF Working
<1>3. newest \in 0..MaxToken /\ MaxToken \in Nat
  BY AppsAssumption DEF AppsInv, AppsTypeOK
<1>4. CASE InsertRow(h)
  <2> DEFINE row == [name |-> d.name, conf |-> d.conf, seen |-> 0,
                     token |-> IF d.token = 0 THEN newest' ELSE d.token]
  <2>1. PICK id \in Ids : NextId(id) /\ Drafts(h, id, row)
    BY <1>4 DEF InsertRow
  <2>2. newest' \in 0..MaxToken /\ (d.token = 0 => newest' \in Tokens)
    BY <1>3, <1>4 DEF InsertRow, Tokens
  <2>3. row \in Row /\ row.conf = d.conf /\ row.seen = 0 /\ row.name = d.name
    BY <1>2, <2>2 DEF Row
  <2>4. id \notin DOMAIN db.rows
    BY <2>1, AppsAssumption DEF NextId, Ids
  <2>5. \A i \in DOMAIN db.rows : db.rows[i].name # d.name
    <3>1. ~Conflict(d.name, 0)
      BY <1>4 DEF InsertRow
    <3>2. 0 \notin DOMAIN db.rows
      BY TablesAre, AppsAssumption DEF Partial, Ids
    <3> QED BY <3>1, <3>2 DEF Conflict
  <2> HIDE DEF row
  <2> QED BY <1>1, <2>1, <2>2, <2>3, <2>4, <2>5, DraftsBegin
<1>5. CASE UpdateRow(h)
  <2> DEFINE id == EditedId(r)
             row == [db.rows[id] EXCEPT !.name = d.name, !.conf = d.conf]
  <2>1. id \in DOMAIN db.rows /\ ~Conflict(d.name, id) /\ Drafts(h, id, row) /\ newest' = newest
    BY <1>5 DEF UpdateRow, Updated
  <2>2. id \in Ids /\ db.rows[id] \in Row
    BY <2>1, TablesAre DEF Partial
  <2>3. row \in Row /\ row.conf = d.conf /\ row.name = d.name
        /\ row.seen = db.rows[id].seen /\ row.token = db.rows[id].token
    BY <1>2, <2>2 DEF Row
  <2>4. \A i \in DOMAIN db.rows \ {id} : db.rows[i].name # d.name
    BY <2>1 DEF Conflict
  <2> HIDE DEF row, id
  <2> QED BY <1>1, <1>3, <2>1, <2>2, <2>3, <2>4, DraftsBegin
<1> QED BY <1>4, <1>5

(* The targets of the draft.                                               *)
LEMMA TargetsReplaced ==
  ASSUME AppsInv, ProcessTypeOK', NEW h \in Handlers, ReplaceTargets(h)
  PROVE  AppsInv'
<1> DEFINE r == req[h]
           n == [r EXCEPT !.pc = "commit"]
<1>1. r \in Request /\ Vetted(r) /\ r.pc = "replace"
  BY Served DEF ReplaceTargets
<1>2. conn = h /\ conn' = h /\ req' = [req EXCEPT ![h] = n] /\ db' = db /\ newest' = newest
      /\ draft' = [draft EXCEPT !.targets = Put(draft.targets, r.id, Current(r).conf)]
  BY DEF ReplaceTargets, process
<1>3. n \in Request /\ n.pc = "commit" /\ n.op = r.op /\ n.docs = r.docs
      /\ n.entry = r.entry /\ n.ans = r.ans /\ n.id = r.id
  BY <1>1 DEF Request, Phases
<1>4. n.wrote = r.wrote
  BY <1>1 DEF Request
<1> HIDE DEF n
<1>5. Vetted(n)
  BY <1>1, <1>3, <1>4 DEF Vetted, Working
<1>6. \A g \in Handlers : req'[g] = IF g = h THEN n ELSE req[g]
  BY <1>2 DEF AppsInv, AppsTypeOK
<1>7. Drafted(r)
  BY <1>1 DEF AppsInv, Transacts
<1>8. draft'.rows = draft.rows /\ draft'.targets = Put(db.targets, r.id, Current(r).conf)
      /\ draft' = [rows |-> draft'.rows, targets |-> draft'.targets]
  BY <1>1, <1>2, <1>7, TablesAre DEF Drafted
<1>9. Current(r).conf \in Settings /\ r.id \in Ids
  BY <1>1, <1>7, CurrentIsDoc DEF Working, Drafted
<1>10. Tables(draft)'
  BY <1>8, <1>9, TablesAre, PutAndDrop DEF Tables
<1>11. AppsTypeOK'
  BY <1>2, <1>3, <1>10 DEF AppsInv, AppsTypeOK
<1>12. \A g \in Handlers : Vetted(req[g])'
  BY <1>5, <1>6 DEF AppsInv, Vetted
<1>13. Drafted(req[h])'
  <2>1. req'[h] = n /\ Current(n) = Current(r)
    BY <1>3, <1>6 DEF Current
  <2>2. draft'.rows[n.id] = draft.rows[r.id] /\ draft.rows[r.id].conf = Current(r).conf
    BY <1>3, <1>7, <1>8 DEF Drafted
  <2>3. draft'.targets = Put(db'.targets, n.id, draft'.rows[n.id].conf)
    BY <1>2, <1>3, <1>8, <2>2
  <2>4. n.pc # "replace" /\ n.id = r.id /\ db' = db /\ draft'.rows = draft.rows
    BY <1>2, <1>3, <1>8
  <2> QED BY <1>7, <2>1, <2>2, <2>3, <2>4 DEF Drafted
<1>14. \A g \in Handlers : g # h => req'[g].pc \notin {"replace", "commit"}
  BY <1>2, <1>6 DEF AppsInv, Transacts
<1>15. Transacts'
  BY <1>2, <1>13, <1>14 DEF Transacts
<1>16. TargetsBelong'
  BY <1>2 DEF AppsInv, TargetsBelong
<1> QED BY <1>11, <1>12, <1>15, <1>16 DEF AppsInv

(* The empty tables.                                                       *)
LEMMA NoTablesAre == Tables(NoTables) /\ NoTables.rows = NoTables.targets /\ DOMAIN NoTables.rows = {}
BY DEF NoTables, Tables, Partial

(* The end of a transaction.                                               *)
LEMMA TransactionEnds ==
  ASSUME AppsInv, ProcessTypeOK', NEW h \in Handlers, req[h].pc \in {"replace", "commit"},
         NEW n \in Request, Vetted(n), n.pc \notin {"replace", "commit"},
         req' = [req EXCEPT ![h] = n],
         Tables(db)', TargetsBelong', draft' = NoTables, newest' = newest
  PROVE  AppsInv'
<1>1. \A g \in Handlers : req'[g] = IF g = h THEN n ELSE req[g]
  BY DEF AppsInv, AppsTypeOK
<1>2. AppsTypeOK'
  BY NoTablesAre DEF AppsInv, AppsTypeOK
<1>3. \A g \in Handlers : Vetted(req[g])'
  BY <1>1 DEF AppsInv, Vetted
<1>4. \A g \in Handlers : req'[g].pc \notin {"replace", "commit"}
  BY <1>1 DEF AppsInv, Transacts
<1>5. Transacts'
  BY <1>4 DEF Transacts
<1> QED BY <1>2, <1>3, <1>5 DEF AppsInv

(* What a commit publishes.                                                *)
LEMMA DraftBelongs ==
  ASSUME AppsInv, NEW h \in Handlers, req[h].pc = "commit"
  PROVE  /\ DOMAIN draft.targets = DOMAIN draft.rows
         /\ \A id \in DOMAIN draft.rows : draft.targets[id] = draft.rows[id].conf
<1> DEFINE id == req[h].id
           row == draft.rows[id]
<1>1. Drafted(req[h])
  BY DEF AppsInv, Transacts
<1>2. draft.rows = Put(db.rows, id, row) /\ draft.targets = Put(db.targets, id, row.conf)
  BY <1>1 DEF Drafted
<1>3. DOMAIN db.targets = DOMAIN db.rows /\ \A i \in DOMAIN db.rows : db.targets[i] = db.rows[i].conf
  BY TablesAre DEF TargetsBelong
<1> HIDE DEF row
<1> QED BY <1>2, <1>3 DEF Put

(* COMMIT and ROLLBACK.                                                    *)
LEMMA CommitsOrNot ==
  ASSUME AppsInv, ProcessTypeOK', NEW h \in Handlers, Commit(h) \/ Rollback(h)
  PROVE  AppsInv'
<1> DEFINE r == req[h]
<1>1. r \in Request /\ Vetted(r)
  BY Served
<1>2. CASE Commit(h)
  <2> DEFINE n == [r EXCEPT !.pc = "row", !.wrote = TRUE]
  <2>1. req' = [req EXCEPT ![h] = n] /\ r.pc = "commit"
        /\ db' = draft /\ draft' = NoTables /\ newest' = newest
    BY <1>2 DEF Commit
  <2>2. n \in Request /\ n.pc = "row" /\ n.op = r.op /\ n.docs = r.docs
        /\ n.entry = r.entry /\ n.ans = r.ans
    BY <1>1 DEF Request, Phases
  <2>3. n.wrote = TRUE
    BY <1>1 DEF Request
  <2> HIDE DEF n
  <2>4. Vetted(n)
    BY <1>1, <2>1, <2>2, <2>3 DEF Vetted, Working
  <2>5. Tables(db)' /\ TargetsBelong'
    BY <2>1, DraftBelongs DEF AppsInv, AppsTypeOK, Tables, TargetsBelong
  <2> QED BY <2>1, <2>2, <2>4, <2>5, TransactionEnds
<1>3. CASE Rollback(h)
  <2>1. req' = [req EXCEPT ![h] = Refused(500)] /\ r.pc \in {"replace", "commit"}
        /\ db' = db /\ draft' = NoTables /\ newest' = newest
    BY <1>3 DEF Rollback, Answers
  <2>2. Tables(db)' /\ TargetsBelong'
    BY <2>1 DEF AppsInv, AppsTypeOK, Tables, TargetsBelong
  <2> DEFINE n == Refused(500)
  <2>3. n \in Request /\ Vetted(n) /\ n.pc \notin {"replace", "commit"}
    BY AnswerIsVetted DEF Codes
  <2> HIDE DEF n
  <2>4. req' = [req EXCEPT ![h] = n]
    BY <2>1 DEF n
  <2> QED BY <2>1, <2>2, <2>3, <2>4, TransactionEnds
<1> QED BY <1>2, <1>3

(***************************************************************************)
(* The invariant.                                                          *)
(***************************************************************************)

(* The process's part.                                                     *)
LEMMA AppsProcess ==
  ASSUME ProcessTypeOK, [AppsNext]_<<process, appsVars>>
  PROVE  ProcessTypeOK'
<1>1. ASSUME NEW c \in Components, Arrives(c) PROVE ProcessTypeOK'
  BY <1>1 DEF ProcessTypeOK, Arrives, Spend, Traffic
<1>2. ASSUME NEW h \in Handlers, Begins(h) \/ Ends(h) PROVE ProcessTypeOK'
  BY <1>2 DEF ProcessTypeOK, Begins, Ends
<1>3. Serves \/ Statement \/ UNCHANGED process => ProcessTypeOK'
  BY DEF ProcessTypeOK, Serves, Statement, process
<1>4. ASSUME Restart PROVE ProcessTypeOK'
  <2>1. "restarts" \in Traffic /\ quota["restarts"] \in Nat
    BY DEF ProcessTypeOK, Traffic
  <2>2. quota' = [quota EXCEPT !["restarts"] = @ - 1] /\ quota["restarts"] > 0
    BY <1>4 DEF Restart, Spend
  <2>3. quota' \in [Traffic -> Nat]
    BY <2>1, <2>2 DEF ProcessTypeOK
  <2>4. conn' = Free /\ serving' = FALSE
    BY <1>4 DEF Restart
  <2> QED BY <2>3, <2>4 DEF ProcessTypeOK
<1>5. Elsewhere("apps") => ProcessTypeOK'
  BY <1>1 DEF Elsewhere
<1>6. ASSUME NEW h \in Handlers, AppsRequest(h) PROVE ProcessTypeOK'
  <2>1. Arrives("apps")
    BY <1>6 DEF AppsRequest, CreateApp, UpdateApp, UpdateAppYAML, ImportApps, ListApps,
                LoadApp, Hook, Single, Enters
  <2> QED BY <1>1, <2>1 DEF Components
<1>7. ASSUME NEW h \in Handlers, AppsStep(h) PROVE ProcessTypeOK'
  <2>1. Begins(h) \/ Ends(h) \/ Statement \/ UNCHANGED process
    BY <1>7 DEF AppsStep, ListRows, ReadsAll, ListTargets, Listed, FindApp, LoadRow,
                LoadTargets, Check, InsertRow, UpdateRow, Drafts, WriteFails, ReplaceTargets,
                Commit, Rollback, DeleteRow, RotateToken, SetLastSeen
  <2> QED BY <1>2, <1>3, <2>1
<1> QED BY <1>3, <1>4, <1>5, <1>6, <1>7 DEF AppsNext

(* Steps of the process and of other components.                           *)
LEMMA OthersStep ==
  ASSUME AppsInv, ProcessTypeOK', UNCHANGED appsVars,
         UNCHANGED process \/ Serves \/ Elsewhere("apps")
  PROVE  AppsInv'
<1>1. conn' = conn
  BY DEF process, Serves, Elsewhere, Arrives
<1> QED BY <1>1 DEF appsVars, AppsInv, AppsTypeOK, Vetted, Transacts, Drafted, Current, TargetsBelong

(* The end of the process.                                                 *)
LEMMA CrashLeavesTables ==
  ASSUME AppsInv, ProcessTypeOK', AppsCrash
  PROVE  AppsInv'
<1>1. 0 \in Codes /\ Idle \in Request /\ Idle.pc = "idle" /\ Idle.op = "none"
      /\ Idle.wrote = FALSE /\ Idle.ans = 0
  BY NothingKnown DEF Idle, Request, Ops, Phases, Codes
<1>2. Vetted(Idle)
  BY <1>1 DEF Vetted, Edits, Working
<1>3. \A h \in Handlers : req'[h] = Idle
  BY DEF AppsCrash
<1>4. AppsTypeOK'
  BY <1>1, NoTablesAre DEF AppsCrash, AppsInv, AppsTypeOK
<1>5. Transacts' /\ \A h \in Handlers : Vetted(req[h])'
  BY <1>1, <1>2, <1>3 DEF Transacts, Vetted
<1>6. TargetsBelong'
  BY DEF AppsCrash, AppsInv, TargetsBelong
<1> QED BY <1>4, <1>5, <1>6 DEF AppsInv

(* The first process.                                                      *)
LEMMA AppsStart ==
  ASSUME ProcessInit, AppsInit
  PROVE  AppsInv
<1>1. Idle \in Request /\ Idle.pc = "idle" /\ Idle.op = "none"
      /\ Idle.wrote = FALSE /\ Idle.ans = 0
  BY NothingKnown DEF Idle, Request, Ops, Phases, Codes
<1>2. Vetted(Idle)
  BY <1>1 DEF Vetted, Edits, Working
<1>3. ProcessTypeOK
  BY ProcessAssumption DEF ProcessInit, ProcessTypeOK
<1>4. AppsTypeOK
  BY <1>1, <1>3, NoTablesAre, AppsAssumption DEF AppsInit, AppsTypeOK
<1>5. TargetsBelong
  BY NoTablesAre DEF AppsInit, TargetsBelong
<1>6. Transacts /\ \A h \in Handlers : Vetted(req[h])
  BY <1>1, <1>2 DEF AppsInit, Transacts
<1> QED BY <1>4, <1>5, <1>6 DEF AppsInv

(* Every step keeps the invariant.                                         *)
LEMMA AppsSteps == AppsInv /\ [AppsNext]_<<process, appsVars>> => AppsInv'
<1> SUFFICES ASSUME AppsInv, [AppsNext]_<<process, appsVars>> PROVE AppsInv'
  OBVIOUS
<1>1. ProcessTypeOK'
  BY AppsProcess DEF AppsInv, AppsTypeOK
<1>2. ASSUME NEW h \in Handlers, AppsRequest(h) PROVE AppsInv'
  BY <1>1, <1>2, RequestsComeIn
<1>3. ASSUME NEW h \in Handlers, AppsStep(h) PROVE AppsInv'
  BY <1>1, <1>3, ListMoves, RowMoves, TargetMoves, RefusalMoves, WritesBegin, TargetsReplaced,
     CommitsOrNot, DeleteRewrites, ColumnRewrites DEF AppsStep
<1>4. CASE (Serves \/ Elsewhere("apps")) /\ UNCHANGED appsVars
  BY <1>1, <1>4, OthersStep
<1>5. CASE Restart /\ AppsCrash
  BY <1>1, <1>5, CrashLeavesTables
<1>6. CASE UNCHANGED <<process, appsVars>>
  BY <1>1, <1>6, OthersStep
<1> QED BY <1>2, <1>3, <1>4, <1>5, <1>6 DEF AppsNext

(* Every state of the apps satisfies it.                                   *)
THEOREM AppsInvariant == AppsSpec => []AppsInv
BY AppsStart, AppsSteps, PTL DEF AppsSpec

(* Whatever fails, races or crashes, an app's targets are those of the     *)
(* edit that its row is from (CreateApp, UpdateApp, DeleteApp of           *)
(* internal/store/apps.go).                                                *)
THEOREM TargetsAreTheRows == AppsSpec => []TargetsBelong
<1>1. AppsInv => TargetsBelong
  BY DEF AppsInv
<1> QED BY <1>1, AppsInvariant, PTL

(***************************************************************************)
(* The abstract table.                                                     *)
(***************************************************************************)

(* What a transaction has drafted is a new app or an edit.                 *)
LEMMA CommitIsEdit ==
  ASSUME AppsInv, AppsInv', NEW h \in Handlers, Commit(h)
  PROVE  Table!Next
<1> DEFINE id == req[h].id
           row == draft.rows[id]
<1>1. Drafted(req[h]) /\ db' = draft
  BY DEF AppsInv, Transacts, Commit
<1>2. id \in Ids /\ row \in Row /\ db'.rows = Put(db.rows, id, row)
      /\ (\A i \in DOMAIN db.rows \ {id} : db.rows[i].name # row.name)
  BY <1>1 DEF Drafted
<1>3. /\ id \notin DOMAIN db.rows => row.seen = 0
      /\ id \in DOMAIN db.rows => row.token = db.rows[id].token /\ row.seen = db.rows[id].seen
  BY <1>1 DEF Drafted
<1>4. \A i \in DOMAIN db.rows : db.targets[i] = db.rows[i].conf
  BY TablesAre DEF TargetsBelong
<1>5. \A i \in DOMAIN db'.rows : db'.targets[i] = db'.rows[i].conf
  BY DEF AppsInv, TargetsBelong
<1>6. row.name \in Names /\ row.conf \in Settings /\ row.token \in Tokens
  BY <1>2 DEF Row
<1> DEFINE new == [name |-> row.name, conf |-> row.conf, targets |-> row.conf,
                   token |-> row.token, seen |-> row.seen]
<1> HIDE DEF row, id
<1>7. DOMAIN db'.rows = DOMAIN db.rows \cup {id}
      /\ \A i \in DOMAIN db'.rows : db'.rows[i] = IF i = id THEN row ELSE db.rows[i]
  BY <1>2 DEF Put
<1>8. Joined' = [i \in DOMAIN db.rows \cup {id} |-> IF i = id THEN new ELSE Joined[i]]
  BY <1>4, <1>5, <1>7 DEF Joined
<1>9. DOMAIN Joined = DOMAIN db.rows /\ \A i \in DOMAIN db.rows : Joined[i].name = db.rows[i].name
  BY DEF Joined
<1>10. CASE id \notin DOMAIN db.rows
  <2>1. Table!Create(id, row.name, row.conf, row.token)
    BY <1>2, <1>3, <1>8, <1>9, <1>10 DEF Table!Create, Table!Taken
  <2> QED BY <1>2, <1>6, <2>1 DEF Table!Next
<1>11. CASE id \in DOMAIN db.rows
  <2>1. Joined[id].token = db.rows[id].token /\ Joined[id].seen = db.rows[id].seen
    BY <1>11 DEF Joined
  <2>2. new = [name |-> row.name, conf |-> row.conf, targets |-> row.conf,
               token |-> Joined[id].token, seen |-> Joined[id].seen]
    BY <1>3, <1>11, <2>1
  <2> HIDE DEF new
  <2>3. Joined' = [Joined EXCEPT ![id] = new]
    BY <1>8, <1>9, <1>11
  <2>5. Table!Edit(id, row.name, row.conf)
    BY <1>2, <1>9, <1>11, <2>2, <2>3 DEF Table!Edit
  <2> QED BY <1>2, <1>6, <2>5 DEF Table!Next
<1> QED BY <1>10, <1>11

(* A statement is one change of the table, or none.                        *)
LEMMA StatementIsChange ==
  ASSUME AppsInv, AppsInv', NEW h \in Handlers,
         DeleteRow(h) \/ RotateToken(h) \/ SetLastSeen(h)
  PROVE  Table!Next \/ Joined' = Joined
<1> DEFINE id == req[h].id
<1>1. DOMAIN db.targets = DOMAIN db.rows /\ \A i \in DOMAIN db.rows : db.targets[i] = db.rows[i].conf
  BY TablesAre DEF TargetsBelong
<1>2. DOMAIN db.rows \subseteq Ids /\ \A i \in DOMAIN db.rows : db.rows[i] \in Row
  BY TablesAre DEF Partial
<1>3. db' = db => Joined' = Joined
  BY DEF Joined
<1>4. DOMAIN Joined = DOMAIN db.rows
  BY DEF Joined
<1>5. CASE DeleteRow(h)
  <2>1. db'.rows = Drop(db.rows, id) /\ db'.targets = Drop(db.targets, id)
    BY <1>5 DEF DeleteRow, TargetsWithout
  <2>2. Joined' = [i \in DOMAIN Joined \ {id} |-> Joined[i]]
    BY <1>1, <2>1 DEF Joined, Drop
  <2>3. CASE id \in DOMAIN db.rows
    <3>1. Table!Delete(id)
      BY <1>4, <2>2, <2>3 DEF Table!Delete
    <3> QED BY <1>2, <2>3, <3>1 DEF Table!Next
  <2>4. CASE id \notin DOMAIN db.rows
    <3>1. Joined' = [i \in DOMAIN Joined |-> Joined[i]]
      BY <1>4, <2>2, <2>4
    <3> QED BY <3>1 DEF Joined
  <2> QED BY <2>3, <2>4
<1>6. CASE RotateToken(h)
  <2>1. CASE id \in DOMAIN db.rows
    <3>1. db' = [db EXCEPT !.rows = [db.rows EXCEPT ![id] = [db.rows[id] EXCEPT !.token = newest']]]
      BY <1>6, <2>1 DEF RotateToken
    <3>2. newest' \in Tokens
      BY <1>6, AppsAssumption DEF RotateToken, Tokens, AppsInv, AppsTypeOK
    <3>3. db'.rows = [db.rows EXCEPT ![id] = [db.rows[id] EXCEPT !.token = newest']]
          /\ db'.targets = db.targets
      BY <3>1, TablesAre
    <3>4. Joined' = [Joined EXCEPT ![id] = [Joined[id] EXCEPT !.token = newest']]
      <4> DEFINE x == [db.rows[id] EXCEPT !.token = newest']
                 y == [name |-> db.rows[id].name, conf |-> db.rows[id].conf,
                       targets |-> db.targets[id], token |-> newest',
                       seen |-> db.rows[id].seen]
      <4>1. x.name = db.rows[id].name /\ x.conf = db.rows[id].conf
            /\ x.token = newest' /\ x.seen = db.rows[id].seen
        BY <1>2, <2>1 DEF Row
      <4>2. db'.rows = [db.rows EXCEPT ![id] = x]
        BY <3>3
      <4> HIDE DEF x
      <4>3. Joined' = [i \in DOMAIN db.rows |-> IF i = id THEN y ELSE Joined[i]]
        BY <2>1, <4>1, <4>2, <3>3 DEF Joined
      <4>4. y = [Joined[id] EXCEPT !.token = newest']
        BY <2>1 DEF Joined
      <4> HIDE DEF y
      <4> QED BY <1>4, <2>1, <4>3, <4>4
    <3>5. Table!Rotate(id, newest')
      BY <1>4, <2>1, <3>4 DEF Table!Rotate
    <3> QED BY <1>2, <2>1, <3>2, <3>5 DEF Table!Next
  <2>2. CASE id \notin DOMAIN db.rows
    BY <1>3, <1>6, <2>2 DEF RotateToken
  <2> QED BY <2>1, <2>2
<1>7. CASE SetLastSeen(h)
  <2>1. CASE id \in DOMAIN db.rows
    <3>1. db' = [db EXCEPT !.rows = [db.rows EXCEPT ![id] = [db.rows[id] EXCEPT !.seen = @ + 1]]]
      BY <1>7, <2>1 DEF SetLastSeen
    <3>2. db'.rows = [db.rows EXCEPT ![id] = [db.rows[id] EXCEPT !.seen = @ + 1]]
          /\ db'.targets = db.targets
      BY <3>1, TablesAre
    <3>3. Joined' = [Joined EXCEPT ![id] = [Joined[id] EXCEPT !.seen = @ + 1]]
      <4> DEFINE x == [db.rows[id] EXCEPT !.seen = @ + 1]
                 y == [name |-> db.rows[id].name, conf |-> db.rows[id].conf,
                       targets |-> db.targets[id], token |-> db.rows[id].token,
                       seen |-> db.rows[id].seen + 1]
      <4>1. x.name = db.rows[id].name /\ x.conf = db.rows[id].conf
            /\ x.token = db.rows[id].token /\ x.seen = db.rows[id].seen + 1
        BY <1>2, <2>1 DEF Row
      <4>2. db'.rows = [db.rows EXCEPT ![id] = x]
        BY <3>2
      <4> HIDE DEF x
      <4>3. Joined' = [i \in DOMAIN db.rows |-> IF i = id THEN y ELSE Joined[i]]
        BY <2>1, <4>1, <4>2, <3>2 DEF Joined
      <4>4. y = [Joined[id] EXCEPT !.seen = @ + 1]
        BY <2>1 DEF Joined
      <4> HIDE DEF y
      <4> QED BY <1>4, <2>1, <4>3, <4>4
    <3>4. Table!Record(id)
      BY <1>4, <2>1, <3>3 DEF Table!Record
    <3> QED BY <1>2, <2>1, <3>4 DEF Table!Next
  <2>2. CASE id \notin DOMAIN db.rows
    BY <1>3, <1>7, <2>2 DEF SetLastSeen
  <2> QED BY <2>1, <2>2
<1> QED BY <1>5, <1>6, <1>7

(* Every step of the apps is one step of the abstract table, or none.      *)
LEMMA TableSteps ==
  AppsInv /\ AppsInv' /\ [AppsNext]_<<process, appsVars>> => [Table!Next]_Joined
<1> SUFFICES ASSUME AppsInv, AppsInv', [AppsNext]_<<process, appsVars>>
             PROVE  Table!Next \/ Joined' = Joined
  OBVIOUS
<1>1. db' = db => Joined' = Joined
  BY DEF Joined
<1>2. ASSUME NEW h \in Handlers, AppsRequest(h) PROVE db' = db
  BY <1>2 DEF AppsRequest, CreateApp, UpdateApp, UpdateAppYAML, ImportApps, ListApps,
              LoadApp, Hook, Single, Enters
<1>3. ASSUME NEW h \in Handlers, AppsStep(h) PROVE Table!Next \/ Joined' = Joined
  <2>1. ASSUME ListRows(h) \/ ListTargets(h) \/ Listed(h) \/ FindApp(h) \/ LoadRow(h)
               \/ LoadTargets(h) \/ Check(h) \/ InsertRow(h) \/ UpdateRow(h)
               \/ WriteFails(h) \/ ReplaceTargets(h) \/ Rollback(h)
        PROVE  db' = db
    BY <2>1 DEF ListRows, ListTargets, Listed, FindApp, LoadRow, LoadTargets, Check, InsertRow,
                UpdateRow, Drafts, WriteFails, ReplaceTargets, Rollback
  <2> QED BY <1>1, <1>3, <2>1, CommitIsEdit, StatementIsChange DEF AppsStep
<1>4. UNCHANGED appsVars \/ AppsCrash => db' = db
  BY DEF appsVars, AppsCrash
<1> QED BY <1>1, <1>2, <1>3, <1>4 DEF AppsNext

(* Edits, imports, rotations, deletions and recorded deploys of any number *)
(* of requests take effect one at a time, and none undoes another one's    *)
(* part of a row (UpdateApp, RotateToken and SetLastSeen of                *)
(* internal/store/apps.go).                                                *)
THEOREM TablesImplement == AppsSpec => ImplementsTable
<1>1. AppsInit => Table!Init
  BY DEF AppsInit, NoTables, Table!Init, Joined
<1>2. AppsInv /\ AppsInv' /\ [AppsNext]_<<process, appsVars>> => [Table!Next]_Joined
  BY TableSteps
<1> QED BY <1>1, <1>2, AppsInvariant, PTL DEF AppsSpec, ImplementsTable, Table!Spec

(***************************************************************************)
(* Requests that fail.                                                     *)
(***************************************************************************)

(* Nobody else answers for a handler.                                      *)
LEMMA OthersKeepQuiet ==
  ASSUME AppsInv, NEW h \in Handlers, NEW g \in Handlers, g # h,
         AppsRequest(g) \/ AppsStep(g)
  PROVE  req'[h] = req[h]
<1>1. ASSUME AppsRequest(g) PROVE \E n : req' = [req EXCEPT ![g] = n]
  BY <1>1 DEF AppsRequest, CreateApp, UpdateApp, UpdateAppYAML, ImportApps, ListApps,
              LoadApp, Hook, Single, Enters
<1>2. ASSUME ListRows(g) \/ ListTargets(g) \/ Listed(g) \/ FindApp(g) \/ LoadRow(g)
      PROVE  \E n : req' = [req EXCEPT ![g] = n]
  BY <1>2 DEF ListRows, ListTargets, Listed, FindApp, LoadRow, Answers
<1>3. ASSUME LoadTargets(g) \/ Check(g) \/ WriteFails(g)
      PROVE  \E n : req' = [req EXCEPT ![g] = n]
  BY <1>3 DEF LoadTargets, Check, WriteFails, Answers
<1>4. ASSUME InsertRow(g) \/ UpdateRow(g) \/ ReplaceTargets(g) \/ Commit(g) \/ Rollback(g)
      PROVE  \E n : req' = [req EXCEPT ![g] = n]
  BY <1>4 DEF InsertRow, UpdateRow, Drafts, ReplaceTargets, Commit, Rollback, Answers
<1>5. ASSUME DeleteRow(g) \/ RotateToken(g) \/ SetLastSeen(g)
      PROVE  \E n : req' = [req EXCEPT ![g] = n]
  BY <1>5 DEF DeleteRow, RotateToken, SetLastSeen, Answers
<1>6. \E n : req' = [req EXCEPT ![g] = n]
  BY <1>1, <1>2, <1>3, <1>4, <1>5 DEF AppsStep
<1> QED BY <1>6 DEF AppsInv, AppsTypeOK

(* The answer to a request that is past its first commit.                  *)
LEMMA LateAnswers ==
  ASSUME AppsInv, NEW h \in Handlers, AppsStep(h),
         req[h].pc \in {"row", "targets"} \/ (req[h].op = "import" /\ req[h].pc \in Working),
         req[h].ans = 0
  PROVE  req'[h].ans \in {400, 404, 500}
           => /\ req'[h].ans # 400
              /\ req[h].op # "import" => req[h].id \notin DOMAIN db.rows
<1> DEFINE r == req[h]
<1>1. r \in Request /\ Vetted(r) /\ req \in [Handlers -> Request]
  BY Served DEF AppsInv, AppsTypeOK
<1> DEFINE Clean == req'[h].ans \in {400, 404, 500}
                      => /\ req'[h].ans # 400
                         /\ r.op # "import" => r.id \notin DOMAIN db.rows
<1> SUFFICES Clean
  OBVIOUS
<1>2. r.pc \in {"row", "targets"} \/ (r.op = "import" /\ r.pc \in Working)
  OBVIOUS
<1>3. ASSUME NEW code \in Codes, Answers(h, code) PROVE req'[h].ans = code
  BY <1>1, <1>3, AnswerIsVetted DEF Answers
<1>4. NotFound(r) \in Codes \ {400} /\ 200 \in Codes /\ 500 \in Codes
  BY DEF NotFound, Codes
<1>5. ASSUME NEW n, req' = [req EXCEPT ![h] = n], n.ans = r.ans PROVE Clean
  BY <1>1, <1>5
<1>6. ASSUME ListRows(h) \/ ListTargets(h) \/ Listed(h) \/ FindApp(h) \/ Check(h)
              \/ DeleteRow(h) \/ RotateToken(h) \/ SetLastSeen(h)
       PROVE  Clean
  <2>1. r.pc \in {"list", "listTargets", "find", "check", "statement"}
    BY <1>6 DEF ListRows, ListTargets, Listed, FindApp, Check, DeleteRow, RotateToken, SetLastSeen
  <2> QED BY <1>2, <2>1 DEF Working
<1>7. ASSUME LoadRow(h)
       PROVE  Clean
  <2>1. CASE r.id \in DOMAIN db.rows
    <3> DEFINE n == [r EXCEPT !.pc = "targets", !.cur = db.rows[r.id].token]
    <3>1. req' = [req EXCEPT ![h] = n]
      BY <1>7, <2>1 DEF LoadRow
    <3>2. n.ans = r.ans
      BY <1>1 DEF Request
    <3> HIDE DEF n
    <3> QED BY <1>5, <3>1, <3>2
  <2>2. CASE r.id \notin DOMAIN db.rows
    BY <1>3, <1>4, <1>7, <2>2 DEF LoadRow
  <2> QED BY <2>1, <2>2
<1>8. ASSUME LoadTargets(h) PROVE Clean
  <2> DEFINE n == [r EXCEPT !.pc = "check"]
             m == [r EXCEPT !.pc = "write", !.entry = @ + 1]
  <2>1. req' = [req EXCEPT ![h] = n] \/ req' = [req EXCEPT ![h] = m] \/ Answers(h, 200)
    <3>1. CASE r.op = "yaml" /\ ~r.wrote
      BY <1>8, <3>1 DEF LoadTargets
    <3>2. CASE r.op = "import" /\ r.entry < Len(r.docs)
      BY <1>8, <3>2 DEF LoadTargets
    <3>3. CASE ~(r.op = "yaml" /\ ~r.wrote) /\ ~(r.op = "import" /\ r.entry < Len(r.docs))
      BY <1>8, <3>3 DEF LoadTargets
    <3> QED BY <3>1, <3>2, <3>3
  <2>2. n.ans = r.ans /\ m.ans = r.ans
    BY <1>1 DEF Request
  <2> HIDE DEF n, m
  <2>3. Answers(h, 200) => Clean
    BY <1>3, <1>4
  <2> QED BY <1>5, <2>1, <2>2, <2>3
<1>9. ASSUME InsertRow(h) \/ UpdateRow(h) \/ ReplaceTargets(h) \/ Commit(h) PROVE Clean
  <2>1. ASSUME NEW id, req' = [req EXCEPT ![h] = [r EXCEPT !.pc = "replace", !.id = id]]
        PROVE  Clean
    <3> DEFINE n == [r EXCEPT !.pc = "replace", !.id = id]
    <3>1. n.ans = r.ans
      BY <1>1 DEF Request
    <3> HIDE DEF n
    <3> QED BY <1>5, <2>1, <3>1 DEF n
  <2>2. ASSUME InsertRow(h) \/ UpdateRow(h) PROVE Clean
    <3>1. \E id, row : Drafts(h, id, row)
      BY <2>2 DEF InsertRow, UpdateRow
    <3>2. PICK id, row : Drafts(h, id, row)
      BY <3>1
    <3>3. req' = [req EXCEPT ![h] = [r EXCEPT !.pc = "replace", !.id = id]]
      BY <3>2 DEF Drafts
    <3> HIDE DEF Clean
    <3> QED BY <2>1, <3>3
  <2>3. ASSUME ReplaceTargets(h) PROVE Clean
    <3> DEFINE n == [r EXCEPT !.pc = "commit"]
    <3>1. req' = [req EXCEPT ![h] = n] /\ n.ans = r.ans
      BY <1>1, <2>3 DEF ReplaceTargets, Request
    <3> HIDE DEF n
    <3> QED BY <1>5, <3>1
  <2>4. ASSUME Commit(h) PROVE Clean
    <3> DEFINE n == [r EXCEPT !.pc = "row", !.wrote = TRUE]
    <3>1. req' = [req EXCEPT ![h] = n]
      BY <2>4 DEF Commit
    <3>2. n.ans = r.ans
      BY <1>1 DEF Request
    <3> HIDE DEF n
    <3> QED BY <1>5, <3>1, <3>2
  <2> QED BY <1>9, <2>2, <2>3, <2>4
<1>10. ASSUME WriteFails(h) \/ Rollback(h) PROVE Clean
  <2>1. Answers(h, 500) \/ Answers(h, NotFound(r))
    BY <1>10 DEF WriteFails, Rollback
  <2>2. r.pc \in Working
    BY <1>10 DEF WriteFails, Rollback, Working
  <2>3. r.op = "import"
    BY <1>2, <2>2 DEF Working
  <2> QED BY <1>3, <1>4, <2>1, <2>3
<1> QED BY <1>6, <1>7, <1>8, <1>9, <1>10 DEF AppsStep

(* A request that has written is refused only if its app has been deleted  *)
(* since, or as a part of an import.                                       *)
LEMMA LateRefusals ==
  ASSUME AppsInv, [AppsNext]_<<process, appsVars>>, NEW h \in Handlers, req[h].wrote
  PROVE  req'[h].ans \in {400, 404, 500}
           => /\ req'[h].ans # 400
              /\ req[h].op # "import" => req[h].id \notin DOMAIN db.rows
<1> DEFINE r == req[h]
<1>1. r.ans = 0 /\ r.pc # "idle"
      /\ (r.pc \in {"row", "targets"} \/ (r.op = "import" /\ r.pc \in Working))
  BY Served DEF Vetted, Working
<1>2. UNCHANGED appsVars => req'[h].ans = 0
  BY <1>1 DEF appsVars
<1>3. AppsCrash => req'[h].ans = 0
  BY DEF AppsCrash, Idle
<1>4. ASSUME AppsRequest(h) PROVE FALSE
  <2>1. r.pc = "idle"
    BY <1>4 DEF AppsRequest, CreateApp, UpdateApp, UpdateAppYAML, ImportApps, ListApps,
                LoadApp, Hook, Single, Enters
  <2> QED BY <1>1, <2>1
<1>5. ASSUME NEW g \in Handlers, g # h, AppsRequest(g) \/ AppsStep(g) PROVE req'[h].ans = 0
  BY <1>1, <1>5, OthersKeepQuiet
<1> QED BY <1>1, <1>2, <1>3, <1>4, <1>5, LateAnswers DEF AppsNext

(* A request that is refused or fails has left no trace, whatever happens  *)
(* to the apps meanwhile: importApps refuses before it writes, and an edit *)
(* that fails after its commit found the app deleted.                      *)
THEOREM FailuresAreClean == AppsSpec => FailuresWriteNothing
<1>1. AppsInv /\ [AppsNext]_<<process, appsVars>>
        => [\A h \in Handlers :
              /\ req[h].wrote
              /\ req'[h].ans \in {400, 404, 500}
              => /\ req'[h].ans # 400
                 /\ req[h].op # "import" => req[h].id \notin DOMAIN db.rows]_<<process, appsVars>>
  BY LateRefusals
<1> QED BY <1>1, AppsInvariant, PTL DEF AppsSpec, FailuresWriteNothing
====
