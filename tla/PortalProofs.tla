---------------------------- MODULE PortalProofs ----------------------------
(***************************************************************************)
(* Proofs about the connection to the hub, and about the composition:      *)
(* what holds of the apps, the login and the connection on their own holds *)
(* of the process that runs them all on one connection to the store.       *)
(***************************************************************************)
EXTENDS Portal, AppsProofs, SessionProofs, TLAPS

(***************************************************************************)
(* The connection to the hub.                                              *)
(***************************************************************************)

Saving == {"token", "apply"}

(* A request that has saved the URL finds it there, and one that has saved *)
(* the token, too, finds both; if there is none, the connection is made    *)
(* with what is saved.                                                     *)
InOrder ==
  /\ \A u, w \in Users : put[u].pc \in Saving /\ put[w].pc \in Saving => u = w
  /\ \A u \in Users : put[u].pc \in Saving => saved.url = put[u].url
  /\ \A u \in Users : put[u].pc = "apply" => saved.token = put[u].token
  /\ (\A u \in Users : put[u].pc \notin Saving)
       => link = IF saved.url = Empty THEN NoLink ELSE saved

LinkInv ==
  /\ LinkTypeOK
  /\ \A u \in Users : put[u].pc \in {"check", "url", "token", "apply"} => put[u].token # Mask
  /\ ~tangled => InOrder

(* Of the process, all that matters here is that it keeps its type.        *)
LEMMA LinkProcess ==
  ASSUME ProcessTypeOK, [LinkNext]_<<process, linkVars>>
  PROVE  ProcessTypeOK'
<1>1. Statement \/ UNCHANGED process \/ Serves \/ Restart \/ Transaction
      \/ \E c \in Components : Arrives(c)
  <2>1. ASSUME NEW u \in Users, LinkRequest(u) PROVE Arrives("link")
    BY <2>1 DEF LinkRequest, PutHub
  <2>2. ASSUME NEW u \in Users, LinkStep(u) PROVE Statement \/ UNCHANGED process
    BY <2>2 DEF LinkStep, Unmask, CheckHub, SaveURL, SaveToken, SaveFails, Apply
  <2>3. UNCHANGED <<process, linkVars>> => UNCHANGED process
    OBVIOUS
  <2> QED BY <2>1, <2>2, <2>3 DEF LinkNext, Elsewhere, Components
<1> QED BY <1>1, SessionProcess

(* A request that comes to pc without having saved anything before or now. *)
LEMMA PutMoves ==
  ASSUME LinkInv, ProcessTypeOK', NEW u \in Users, NEW p \in PutRequest,
         put' = [put EXCEPT ![u] = p], put[u].pc \notin Saving, p.pc \notin Saving,
         p.pc \in {"check", "url"} => p.token # Mask,
         UNCHANGED <<saved, link, tangled>>
  PROVE  LinkInv'
<1>1. \A w \in Users : put'[w] = IF w = u THEN p ELSE put[w]
  BY DEF LinkInv, LinkTypeOK
<1>2. LinkTypeOK'
  BY DEF LinkInv, LinkTypeOK
<1>3. \A w \in Users : put'[w].pc \in {"check", "url", "token", "apply"} => put'[w].token # Mask
  BY <1>1 DEF LinkInv, Saving
<1>4. InOrder => InOrder'
  BY <1>1 DEF InOrder, Saving
<1> QED BY <1>2, <1>3, <1>4 DEF LinkInv

(* Requests, and what happens before they save anything.                   *)
LEMMA PutsBegin ==
  ASSUME LinkInv, ProcessTypeOK', NEW u \in Users,
         LinkRequest(u) \/ Unmask(u) \/ CheckHub(u)
  PROVE  LinkInv'
<1>1. put[u] \in PutRequest /\ saved \in Link
  BY DEF LinkInv, LinkTypeOK
<1>2. CASE LinkRequest(u)
  <2>1. PICK url \in Hubs \cup {Empty}, token \in HubTokens \cup {Empty, Mask} : PutHub(u, url, token)
    BY <1>2 DEF LinkRequest
  <2> DEFINE p == [pc |-> IF token = Mask THEN "mask" ELSE "check", url |-> url, token |-> token]
  <2>2. p \in PutRequest /\ p.pc \notin Saving /\ (p.pc \in {"check", "url"} => p.token # Mask)
    BY DEF PutRequest, Saving
  <2>3. put' = [put EXCEPT ![u] = p] /\ put[u].pc \notin Saving /\ UNCHANGED <<saved, link, tangled>>
    BY <2>1 DEF PutHub, Saving
  <2> HIDE DEF p
  <2> QED BY <2>2, <2>3, PutMoves
<1>3. CASE Unmask(u)
  <2>0. PICK token \in {saved.token, Empty} :
           put' = [put EXCEPT ![u].pc = "check", ![u].token = token]
    BY <1>3 DEF Unmask, Lookup
  <2> DEFINE p == [put[u] EXCEPT !.pc = "check", !.token = token]
  <2>1. p \in PutRequest /\ p.pc \notin Saving /\ p.token # Mask
    BY <1>1, HubLinkAssumption DEF PutRequest, Link, Saving
  <2>2. put' = [put EXCEPT ![u] = p] /\ put[u].pc \notin Saving /\ UNCHANGED <<saved, link, tangled>>
    BY <1>3, <2>0, <1>1 DEF Unmask, Saving, LinkInv, LinkTypeOK
  <2> HIDE DEF p
  <2> QED BY <2>1, <2>2, PutMoves
<1>4. CASE CheckHub(u)
  <2> DEFINE q == put[u]
             p == IF q.url = Empty THEN [q EXCEPT !.pc = "url", !.token = Empty]
                  ELSE IF q.token = Empty THEN NoPut ELSE [q EXCEPT !.pc = "url"]
  <2>1. q.pc = "check" /\ q.token # Mask
    BY <1>4 DEF CheckHub, LinkInv
  <2>2. p \in PutRequest /\ p.pc \notin Saving /\ (p.pc \in {"check", "url"} => p.token # Mask)
    BY <1>1, <2>1, HubLinkAssumption DEF PutRequest, Saving, NoPut
  <2>3. put' = [put EXCEPT ![u] = p] /\ UNCHANGED <<saved, link, tangled>>
    BY <1>4 DEF CheckHub
  <2> HIDE DEF p
  <2> QED BY <2>1, <2>2, <2>3, PutMoves DEF Saving
<1> QED BY <1>2, <1>3, <1>4

(* The two rows.                                                           *)
LEMMA PutsSave ==
  ASSUME LinkInv, ProcessTypeOK', NEW u \in Users, SaveURL(u) \/ SaveToken(u) \/ SaveFails(u)
  PROVE  LinkInv'
<1>1. put \in [Users -> PutRequest] /\ put[u] \in PutRequest /\ saved \in Link
      /\ link \in Link /\ tangled \in BOOLEAN
  BY DEF LinkInv, LinkTypeOK
<1>2. put[u].pc \in {"url", "token"} /\ put[u].token # Mask
  BY DEF LinkInv, SaveURL, SaveToken, SaveFails
<1>3. CASE SaveURL(u)
  <2> DEFINE p == [put[u] EXCEPT !.pc = "token"]
  <2>1. p \in PutRequest /\ p.pc = "token" /\ p.url = put[u].url /\ p.token = put[u].token
    BY <1>1 DEF PutRequest
  <2>2. put' = [put EXCEPT ![u] = p] /\ saved' = [saved EXCEPT !.url = put[u].url]
        /\ put[u].pc = "url" /\ link' = link
        /\ tangled' = \E w \in Users \ {u} : put[w].pc \in Saving
    BY <1>3 DEF SaveURL, Saving
  <2> HIDE DEF p
  <2>3. \A w \in Users : put'[w] = IF w = u THEN p ELSE put[w]
    BY <1>1, <2>2
  <2>4. saved' \in Link /\ saved'.url = put[u].url
    BY <1>1, <2>2 DEF Link, PutRequest
  <2>5. LinkTypeOK'
    BY <1>1, <2>1, <2>2, <2>4 DEF LinkTypeOK
  <2>6. \A w \in Users : put'[w].pc \in {"check", "url", "token", "apply"} => put'[w].token # Mask
    BY <1>2, <2>1, <2>3 DEF LinkInv
  <2>7. ASSUME ~tangled' PROVE InOrder'
    <3>1. \A w \in Users : w # u => put[w].pc \notin Saving
      BY <2>2, <2>7
    <3> QED BY <2>1, <2>3, <2>4, <3>1 DEF InOrder, Saving
  <2> QED BY <2>5, <2>6, <2>7 DEF LinkInv
<1>4. CASE SaveToken(u)
  <2> DEFINE p == [put[u] EXCEPT !.pc = "apply"]
  <2>1. p \in PutRequest /\ p.pc = "apply" /\ p.url = put[u].url /\ p.token = put[u].token
    BY <1>1 DEF PutRequest
  <2>2. put' = [put EXCEPT ![u] = p] /\ saved' = [saved EXCEPT !.token = put[u].token]
        /\ put[u].pc = "token" /\ link' = link /\ tangled' = tangled
    BY <1>4 DEF SaveToken
  <2> HIDE DEF p
  <2>3. \A w \in Users : put'[w] = IF w = u THEN p ELSE put[w]
    BY <1>1, <2>2
  <2>4. saved' \in Link /\ saved'.url = saved.url /\ saved'.token = put[u].token
    BY <1>1, <1>2, <2>2 DEF Link, PutRequest
  <2>5. LinkTypeOK'
    BY <1>1, <2>1, <2>2, <2>4 DEF LinkTypeOK
  <2>6. \A w \in Users : put'[w].pc \in {"check", "url", "token", "apply"} => put'[w].token # Mask
    BY <1>2, <2>1, <2>3 DEF LinkInv
  <2>7. InOrder => InOrder'
    BY <2>1, <2>2, <2>3, <2>4 DEF InOrder, Saving
  <2> QED BY <2>2, <2>5, <2>6, <2>7 DEF LinkInv
<1>5. CASE SaveFails(u)
  <2>1. put' = [put EXCEPT ![u] = NoPut] /\ saved' = saved /\ link' = link
        /\ tangled' = (tangled \/ put[u].pc = "token")
    BY <1>5 DEF SaveFails
  <2>2. NoPut \in PutRequest /\ NoPut.pc = "idle"
    BY DEF NoPut, PutRequest
  <2>3. \A w \in Users : put'[w] = IF w = u THEN NoPut ELSE put[w]
    BY <1>1, <2>1
  <2>4. LinkTypeOK'
    BY <1>1, <2>1, <2>2 DEF LinkTypeOK
  <2>5. \A w \in Users : put'[w].pc \in {"check", "url", "token", "apply"} => put'[w].token # Mask
    BY <2>2, <2>3 DEF LinkInv
  <2>6. ASSUME ~tangled' PROVE InOrder'
    <3>1. ~tangled /\ put[u].pc = "url"
      BY <1>2, <2>1, <2>6
    <3> QED BY <2>1, <2>2, <2>3, <3>1 DEF LinkInv, InOrder, Saving
  <2> QED BY <2>4, <2>5, <2>6 DEF LinkInv
<1> QED BY <1>3, <1>4, <1>5

(* Manager.Apply.                                                          *)
LEMMA PutApplies ==
  ASSUME LinkInv, ProcessTypeOK', NEW u \in Users, Apply(u)
  PROVE  LinkInv'
<1>1. put \in [Users -> PutRequest] /\ put[u] \in PutRequest /\ saved \in Link
      /\ link \in Link /\ tangled \in BOOLEAN
  BY DEF LinkInv, LinkTypeOK
<1>2. put[u].pc = "apply" /\ put[u].token # Mask /\ put' = [put EXCEPT ![u] = NoPut]
      /\ saved' = saved /\ tangled' = tangled
      /\ link' = IF put[u].url = Empty THEN NoLink ELSE [url |-> put[u].url, token |-> put[u].token]
  BY DEF LinkInv, Apply, Connected
<1>3. NoPut \in PutRequest /\ NoPut.pc = "idle"
  BY DEF NoPut, PutRequest
<1>4. \A w \in Users : put'[w] = IF w = u THEN NoPut ELSE put[w]
  BY <1>1, <1>2
<1>5. link' \in Link
  BY <1>1, <1>2 DEF Link, NoLink, PutRequest
<1>6. LinkTypeOK'
  BY <1>1, <1>2, <1>3, <1>5 DEF LinkTypeOK
<1>7. \A w \in Users : put'[w].pc \in {"check", "url", "token", "apply"} => put'[w].token # Mask
  BY <1>3, <1>4 DEF LinkInv
<1>8. ASSUME ~tangled' PROVE InOrder'
  <2>1. InOrder
    BY <1>2, <1>8 DEF LinkInv
  <2>2. saved.url = put[u].url /\ saved.token = put[u].token
    BY <1>2, <2>1 DEF InOrder, Saving
  <2>3. saved = [url |-> put[u].url, token |-> put[u].token]
    BY <1>1, <2>2 DEF Link
  <2>4. link' = IF saved.url = Empty THEN NoLink ELSE saved
    BY <1>2, <2>2, <2>3
  <2> QED BY <1>2, <1>3, <1>4, <2>1, <2>4 DEF InOrder, Saving
<1> QED BY <1>6, <1>7, <1>8 DEF LinkInv

(* Every step keeps the invariant.                                         *)
LEMMA LinkSteps == LinkInv /\ [LinkNext]_<<process, linkVars>> => LinkInv'
<1> SUFFICES ASSUME LinkInv, [LinkNext]_<<process, linkVars>> PROVE LinkInv'
  OBVIOUS
<1>1. ProcessTypeOK'
  BY LinkProcess DEF LinkInv, LinkTypeOK
<1>2. ASSUME NEW u \in Users, LinkRequest(u) \/ LinkStep(u) PROVE LinkInv'
  BY <1>1, <1>2, PutsBegin, PutsSave, PutApplies DEF LinkStep
<1>3. CASE UNCHANGED linkVars
  BY <1>1, <1>3 DEF linkVars, LinkInv, LinkTypeOK, InOrder
<1>4. CASE Restart /\ LinkCrash
  <2>1. PICK url \in {saved.url, Empty}, token \in {saved.token, Empty} :
           /\ link' = Connected(url, token)
           /\ tangled' = ([url |-> url, token |-> token] # saved)
    BY <1>4 DEF LinkCrash, Lookup
  <2>2. saved \in Link /\ link' \in Link /\ tangled' \in BOOLEAN /\ saved' = saved
    BY <1>4, <2>1 DEF LinkCrash, LinkInv, LinkTypeOK, Link, NoLink, Connected
  <2>3. NoPut \in PutRequest /\ NoPut.pc = "idle"
    BY DEF NoPut, PutRequest
  <2>4. \A u \in Users : put'[u] = NoPut
    BY <1>4 DEF LinkCrash
  <2>5. LinkTypeOK'
    BY <1>1, <1>4, <2>2, <2>3 DEF LinkCrash, LinkTypeOK
  <2>6. ASSUME ~tangled' PROVE InOrder'
    <3>1. [url |-> url, token |-> token] = saved
      BY <2>1, <2>6, Zenon
    <3>2. url = saved.url
      BY <3>1
    <3>3. link' = IF saved.url = Empty THEN NoLink ELSE saved
      BY <2>1, <3>1, <3>2 DEF Connected
    <3> QED BY <2>2, <2>3, <2>4, <3>3 DEF InOrder, Saving
  <2> QED BY <2>3, <2>4, <2>5, <2>6 DEF LinkInv
<1> QED BY <1>2, <1>3, <1>4 DEF LinkNext

(* It holds at first.                                                      *)
LEMMA LinkStarts == ASSUME ProcessInit, LinkInit PROVE LinkInv
<1>1. ProcessTypeOK
  BY ProcessAssumption DEF ProcessInit, ProcessTypeOK
<1>2. NoPut \in PutRequest /\ NoPut.pc = "idle" /\ NoLink \in Link /\ NoLink.url = Empty
  BY DEF NoPut, PutRequest, NoLink, Link
<1> QED BY <1>1, <1>2 DEF LinkInit, LinkInv, LinkTypeOK, InOrder, Saving

(* The instance is connected with what is saved (putHubConfig,             *)
(* relay.Manager): for any number of users and restarts.                   *)
THEOREM SavedIsConnected == LinkSpec => []LinkIsSaved
<1>1. ProcessInit /\ LinkInit => LinkInv
  BY LinkStarts
<1>2. LinkInv => LinkIsSaved
  BY DEF LinkInv, InOrder, LinkIsSaved, Saving
<1> QED BY <1>1, <1>2, LinkSteps, PTL DEF LinkSpec

(***************************************************************************)
(* The composition.                                                        *)
(***************************************************************************)

(* What a component does to what the process shares.                       *)
LEMMA PortalProcess ==
  /\ \A h \in Handlers :
       /\ AppsRequest(h) => Arrives("apps")
       /\ AppsStep(h) => Statement \/ UNCHANGED process \/ Transaction
  /\ \A b \in Browsers :
       /\ SessionRequest(b) => Arrives("session")
       /\ SessionStep(b) => Statement \/ UNCHANGED process
  /\ \A u \in Users :
       /\ LinkRequest(u) => Arrives("link")
       /\ LinkStep(u) => Statement \/ UNCHANGED process
  /\ \A e \in Editors : RegistryRequest(e) => Arrives("registry")
  /\ RegistryStep => Statement \/ UNCHANGED process
  /\ Boots => Statement
<1>1. ASSUME NEW h \in Handlers, AppsRequest(h) PROVE Arrives("apps")
  BY <1>1 DEF AppsRequest, CreateApp, UpdateApp, UpdateAppYAML, ImportApps, ListApps,
              LoadApp, Hook, Single, Enters
<1>2. ASSUME NEW h \in Handlers, AppsStep(h) PROVE Statement \/ UNCHANGED process \/ Transaction
  BY <1>2 DEF AppsStep, ListRows, ReadsAll, ListTargets, Listed, FindApp, LoadRow,
              LoadTargets, Check, InsertRow, UpdateRow, Drafts, WriteFails, ReplaceTargets,
              Commit, Rollback, DeleteRow, RotateToken, SetLastSeen, Transaction
<1>3. ASSUME NEW b \in Browsers, SessionRequest(b) PROVE Arrives("session")
  BY <1>3 DEF SessionRequest, Login, ChangePassword
<1>4. ASSUME NEW b \in Browsers, SessionStep(b) PROVE Statement \/ UNCHANGED process
  BY <1>4 DEF SessionStep, ReadHash, Verify, StoreHash, ClearFlag, StoreSecret, SwapSecret,
              Sign, Forget
<1>5. ASSUME NEW u \in Users, LinkRequest(u) PROVE Arrives("link")
  BY <1>5 DEF LinkRequest, PutHub
<1>6. ASSUME NEW u \in Users, LinkStep(u) PROVE Statement \/ UNCHANGED process
  BY <1>6 DEF LinkStep, Unmask, CheckHub, SaveURL, SaveToken, SaveFails, Apply
<1>7. ASSUME NEW e \in Editors, RegistryRequest(e) PROVE Arrives("registry")
  BY <1>7 DEF RegistryRequest, PutRegistry, DeleteRegistry
<1>8. ASSUME RegistryStep PROVE Statement \/ UNCHANGED process
  BY <1>8 DEF RegistryStep, Expires, EditStep, UnmaskCred, SaveCred, DeleteCred, CallStep, Ask,
              FirstAnswer, Challenged, ReadCreds, FetchToken, SecondAnswer
<1>9. Boots => Statement
  BY DEF Boots, SeedLooks, SeedHash, SeedFlag, LoadSecret
<1> QED BY <1>1, <1>2, <1>3, <1>4, <1>5, <1>6, <1>7, <1>8, <1>9

(* To one component a step of another is a step of the environment, or     *)
(* none at all.                                                            *)
LEMMA PortalSteps ==
  ASSUME [Next]_vars
  PROVE  /\ [AppsNext]_<<process, appsVars>>
         /\ [SessionNext]_<<process, sessionVars>>
         /\ [LinkNext]_<<process, linkVars>>
<1> DEFINE Still == Statement \/ UNCHANGED process
           Others(c) == Still \/ Transaction \/ Elsewhere(c)
<1>1. Still => UNCHANGED process
  BY DEF Statement, process
<1>2. ASSUME UNCHANGED appsVars, Still \/ Serves \/ Elsewhere("apps")
      PROVE  [AppsNext]_<<process, appsVars>>
  BY <1>1, <1>2 DEF AppsNext
<1>3. ASSUME UNCHANGED sessionVars, Others("session") \/ (boot = "up" /\ Serves)
      PROVE  [SessionNext]_<<process, sessionVars>>
  BY <1>1, <1>3 DEF SessionNext
<1>4. ASSUME UNCHANGED linkVars, Others("link") \/ Serves
      PROVE  [LinkNext]_<<process, linkVars>>
  BY <1>1, <1>4 DEF LinkNext
<1>5. \A c, d \in Components : Arrives(c) /\ c # d => Elsewhere(d)
  BY DEF Elsewhere
<1>6. "apps" \in Components /\ "session" \in Components /\ "link" \in Components
      /\ "registry" \in Components
  BY DEF Components
<1> HIDE DEF Still
<1>7. CASE AppsActs
  <2>1. PICK h \in Handlers : AppsRequest(h) \/ AppsStep(h)
    BY <1>7 DEF AppsActs
  <2>2. Arrives("apps") \/ Still \/ Transaction
    BY <2>1, PortalProcess DEF Still
  <2>3. Others("session") /\ Others("link")
    BY <1>5, <1>6, <2>2
  <2>4. [AppsNext]_<<process, appsVars>>
    BY <2>1 DEF AppsNext
  <2> HIDE DEF Others
  <2> QED BY <1>3, <1>4, <1>7, <2>3, <2>4 DEF AppsActs
<1>8. CASE SessionActs
  <2>1. PICK b \in Browsers : SessionRequest(b) \/ SessionStep(b)
    BY <1>8 DEF SessionActs
  <2>2. Arrives("session") \/ Still
    BY <2>1, PortalProcess DEF Still
  <2>3. (Still \/ Elsewhere("apps")) /\ Others("link")
    BY <1>5, <1>6, <2>2
  <2>4. [SessionNext]_<<process, sessionVars>>
    BY <2>1 DEF SessionNext
  <2> HIDE DEF Others
  <2> QED BY <1>2, <1>4, <1>8, <2>3, <2>4 DEF SessionActs
<1>9. CASE LinkActs
  <2>1. PICK u \in Users : LinkRequest(u) \/ LinkStep(u)
    BY <1>9 DEF LinkActs
  <2>2. Arrives("link") \/ Still
    BY <2>1, PortalProcess DEF Still
  <2>3. (Still \/ Elsewhere("apps")) /\ Others("session")
    BY <1>5, <1>6, <2>2
  <2>4. [LinkNext]_<<process, linkVars>>
    BY <2>1 DEF LinkNext
  <2> HIDE DEF Others
  <2> QED BY <1>2, <1>3, <1>9, <2>3, <2>4 DEF LinkActs
<1>10. CASE RegistryActs
  <2>1. Arrives("registry") \/ Still
    BY <1>10, PortalProcess DEF RegistryActs, Still
  <2>2. (Still \/ Elsewhere("apps")) /\ Others("session") /\ Others("link")
    BY <1>5, <1>6, <2>1
  <2> HIDE DEF Others
  <2> QED BY <1>2, <1>3, <1>4, <1>10, <2>2 DEF RegistryActs
<1>11. CASE Starts
  <2>1. CASE Boots
    <3>1. Still
      BY <2>1, PortalProcess DEF Still
    <3>2. [SessionNext]_<<process, sessionVars>>
      BY <2>1 DEF SessionNext
    <3> QED BY <1>2, <1>4, <1>11, <3>1, <3>2 DEF Starts
  <2>2. CASE boot = "up" /\ Serves /\ UNCHANGED sessionVars
    BY <1>2, <1>3, <1>4, <1>11, <2>2 DEF Starts
  <2> QED BY <1>11, <2>1, <2>2 DEF Starts
<1>12. CASE Crash
  BY <1>12 DEF Crash, AppsNext, SessionNext, LinkNext
<1>13. CASE UNCHANGED vars
  BY <1>13 DEF vars
<1> QED BY <1>7, <1>8, <1>9, <1>10, <1>11, <1>12, <1>13 DEF Next

(* The process does what each component does on its own: sharing the       *)
(* connection, the start and the end adds no behaviour to any of them.     *)
THEOREM PortalComposes == Spec => AppsSpec /\ SessionSpec /\ LinkSpec
<1>1. Init => ProcessInit /\ AppsInit /\ SessionInit /\ LinkInit
  BY DEF Init
<1>2. [Next]_vars => /\ [AppsNext]_<<process, appsVars>>
                     /\ [SessionNext]_<<process, sessionVars>>
                     /\ [LinkNext]_<<process, linkVars>>
  BY PortalSteps
<1> QED BY <1>1, <1>2, PTL DEF Spec, AppsSpec, SessionSpec, LinkSpec

(* So whatever the other components do, edits and deletions of apps, the   *)
(* login and the connection to the hub keep what they promise, in every    *)
(* process that composes them.                                             *)
THEOREM PortalIsSafe ==
  Spec => /\ []TargetsBelong
          /\ [](UnflaggedMeansCutShort /\ RevokedStaysOut /\ LoginStaysValid)
          /\ []LinkIsSaved
BY PortalComposes, TargetsAreTheRows, UnflaggedOnlyByCutOff, SessionsAreRevoked, ChangerStaysIn,
   SavedIsConnected, PTL

(* And so does the table of the apps.                                      *)
THEOREM PortalImplements == Spec => ImplementsTable /\ FailuresWriteNothing
BY PortalComposes, TablesImplement, FailuresAreClean, PTL

(***************************************************************************)
(* Types.                                                                  *)
(***************************************************************************)

(* The client of the registries and the requests to its settings.          *)
LEMMA RegistryTypes ==
  ASSUME RegistryTypeOK, ProcessTypeOK', RegistryStep \/ \E e \in Editors : RegistryRequest(e)
  PROVE  RegistryTypeOK'
<1> USE DEF RegistryTypeOK, Creds, Bearer
<1>1. Expires => RegistryTypeOK'
  BY DEF Expires, Gone
<1>2. ASSUME NEW e \in Editors, RegistryRequest(e) PROVE RegistryTypeOK'
  BY <1>2 DEF RegistryRequest, PutRegistry, DeleteRegistry
<1>3. ASSUME NEW e \in Editors, EditStep(e) PROVE RegistryTypeOK'
  BY <1>3 DEF EditStep, UnmaskCred, Lookup, SaveCred, DeleteCred, NoEdit
<1>4. ASSUME NEW c \in Callers, Ask(c) \/ Challenged(c) \/ ReadCreds(c)
      PROVE  RegistryTypeOK'
  BY <1>4 DEF Ask, Challenged, ReadCreds, Lookup
<1>5. ASSUME NEW c \in Callers, FirstAnswer(c) \/ SecondAnswer(c)
      PROVE  RegistryTypeOK'
  <2>1. ASSUME NEW result \in {"ok", "refused"}, Ended(c, result), UNCHANGED <<cred, cache, edit>>
        PROVE  RegistryTypeOK'
    BY <2>1 DEF Ended, NoCall
  <2>2. CASE SecondAnswer(c)
    <3>1. (IF Readable(call[c].token) THEN "ok" ELSE "refused") \in {"ok", "refused"}
      OBVIOUS
    <3> QED BY <2>1, <2>2, <3>1 DEF SecondAnswer
  <2>3. CASE FirstAnswer(c)
    <3>1. CASE Readable(call[c].token)
      BY <2>1, <2>3, <3>1 DEF FirstAnswer
    <3>2. CASE ~Readable(call[c].token)
      BY <2>3, <3>2 DEF FirstAnswer
    <3> QED BY <3>1, <3>2
  <2> QED BY <1>5, <2>2, <2>3
<1>6. ASSUME NEW c \in Callers, FetchToken(c) PROVE RegistryTypeOK'
  BY <1>6 DEF FetchToken, Granted, Ended, NoCall
<1> QED BY <1>1, <1>2, <1>3, <1>4, <1>5, <1>6 DEF RegistryStep, CallStep

(* Every step of the process keeps them.                                   *)
LEMMA RegistrySteps ==
  ASSUME RegistryTypeOK, ProcessTypeOK', [Next]_vars
  PROVE  RegistryTypeOK'
<1>1. CASE UNCHANGED registryVars
  BY <1>1 DEF registryVars, RegistryTypeOK
<1>2. CASE RegistryActs
  BY <1>2, RegistryTypes DEF RegistryActs
<1>3. CASE Crash
  BY <1>3 DEF Crash, RegistryCrash, RegistryTypeOK, Creds, Bearer, NoCall, NoEdit
<1>4. CASE AppsActs \/ SessionActs \/ LinkActs \/ Starts
  <2>1. CASE AppsActs \/ SessionActs \/ LinkActs
    BY <1>1, <2>1 DEF AppsActs, SessionActs, LinkActs
  <2> QED BY <1>1, <1>4, <2>1 DEF Starts
<1> QED BY <1>1, <1>2, <1>3, <1>4 DEF Next, vars

(* Every state of the process has its type.                                *)
THEOREM PortalTypes == Spec => []TypeOK
<1>1. Init => RegistryTypeOK
  <2>1. ASSUME Init PROVE ProcessTypeOK
    BY <2>1, ProcessAssumption DEF Init, ProcessInit, ProcessTypeOK
  <2> QED BY <2>1 DEF Init, RegistryInit, RegistryTypeOK, Creds, Bearer, NoCall, NoEdit
<1>2. AppsInv => AppsTypeOK /\ ProcessTypeOK
  BY DEF AppsInv, AppsTypeOK
<1>3. SessionInv => SessionTypeOK
  BY DEF SessionInv
<1>4. LinkInv => LinkTypeOK
  BY DEF LinkInv
<1>5. RegistryTypeOK /\ ProcessTypeOK' /\ [Next]_vars => RegistryTypeOK'
  BY RegistrySteps
<1>6. ProcessInit /\ LinkInit => LinkInv
  BY LinkStarts
<1>7. Spec => [](AppsTypeOK /\ ProcessTypeOK /\ SessionTypeOK /\ LinkTypeOK)
  BY <1>2, <1>3, <1>4, <1>6, PortalComposes, AppsInvariant, SessionInvariant, LinkSteps, PTL
     DEF LinkSpec
<1>8. Spec => []RegistryTypeOK
  BY <1>1, <1>5, <1>7, PTL DEF Spec
<1>9. TypeOK <=> AppsTypeOK /\ SessionTypeOK /\ LinkTypeOK /\ RegistryTypeOK
  BY DEF TypeOK
<1> QED BY <1>7, <1>8, <1>9, PTL
=============================================================================
