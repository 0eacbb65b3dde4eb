---------------------------- MODULE SessionProofs ----------------------------
(***************************************************************************)
(* Proofs about the portal's login: for any number of browsers, passwords  *)
(* and changes, failing reads and writes and restarts, the default         *)
(* password is without its flag only where a start was cut off, sessions   *)
(* are revoked, and who changed the password stays logged in.              *)
(***************************************************************************)
EXTENDS Session, TLAPS

(* Before the listener is up nobody has a request.                         *)
Started ==
  /\ boot # "up" => ~serving
  /\ ~serving => \A b \in Browsers : auth[b] = Quiet

(* A password that is about to be stored is long enough, and one whose     *)
(* flag is about to be cleared is in place.                                *)
Hashed ==
  /\ \A b \in Browsers : At(b, "change", "hash") => auth[b].new \in Passwords
  /\ \A b \in Browsers : At(b, "change", "flag") => account.hash \in Passwords
  /\ UnflaggedMeansCutShort

(* A stored secret that is not in memory yet is new: no other request      *)
(* holds it, and no change that is under way revokes it.                   *)
Fresh ==
  /\ \A b \in Browsers : auth[b].pc = "idle" => auth[b] = Quiet
  /\ \A b \in Browsers : auth[b].fresh # 0 => At(b, "change", "swap") \/ At(b, "change", "sign")
  /\ \A b \in Browsers : auth[b].pc = "swap" => auth[b].fresh # 0 /\ auth[b].fresh \notin signed
  /\ \A b, c \in Browsers :
       auth[b].pc = "swap" /\ auth[c].pc = "swap" /\ b # c => auth[b].fresh # auth[c].fresh
  /\ \A b \in Browsers : auth[b].old \subseteq signed /\ auth[b].fresh <= generated

(* What a change is going to revoke, or has revoked, is out of use.        *)
Revoked ==
  /\ \A s \in signed : s <= generated
  /\ account.secret <= generated
  /\ secret \in signed \cup {0}
  /\ revoked \subseteq signed
  /\ \A b \in Browsers : auth[b].fresh # 0 => account.secret \notin auth[b].old
  /\ \A b \in Browsers : auth[b].fresh # 0 /\ auth[b].pc = "sign" => secret \notin auth[b].old
  /\ RevokedStaysOut

(* The browser that has stored the newest secret, step by step.            *)
Stays ==
  /\ keeper # NoKeeper => account.secret # 0
  /\ ~mixed => \A b \in Browsers :
       auth[b].pc = "swap" => b = keeper /\ auth[b].fresh = account.secret
  /\ ~mixed /\ keeper # NoKeeper =>
       /\ auth[keeper].pc # "swap" => secret \in {0, account.secret}
       /\ auth[keeper].fresh = 0 => cookie[keeper] \in {0, account.secret}

SessionInv == SessionTypeOK /\ Started /\ Hashed /\ Fresh /\ Revoked /\ Stays

(***************************************************************************)
(* Steps.                                                                  *)
(***************************************************************************)

LoginUnchanged == UNCHANGED <<account, boot, secret, cookie, generated, history>>

(* What a request or statement does to what the components share.          *)
LEMMA SessionProcess ==
  ASSUME ProcessTypeOK,
         Statement \/ UNCHANGED process \/ Serves \/ Restart \/ Transaction
         \/ \E c \in Components : Arrives(c)
  PROVE  ProcessTypeOK'
<1>1. CASE Statement \/ UNCHANGED process \/ Serves
  BY <1>1 DEF ProcessTypeOK, Statement, Serves, process
<1>2. CASE Restart
  <2>1. "restarts" \in Traffic /\ quota["restarts"] \in Nat
    BY DEF ProcessTypeOK, Traffic
  <2>2. quota' = [quota EXCEPT !["restarts"] = @ - 1] /\ quota["restarts"] > 0
    BY <1>2 DEF Restart, Spend
  <2>3. quota' \in [Traffic -> Nat]
    BY <2>1, <2>2 DEF ProcessTypeOK
  <2>4. conn' = Free /\ serving' = FALSE
    BY <1>2 DEF Restart
  <2> QED BY <2>3, <2>4 DEF ProcessTypeOK
<1>3. CASE Transaction
  BY <1>3 DEF ProcessTypeOK, Transaction, Begins, Ends
<1>4. CASE \E c \in Components : Arrives(c)
  BY <1>4 DEF ProcessTypeOK, Arrives, Spend, Traffic
<1> QED BY <1>1, <1>2, <1>3, <1>4

(* A request goes on without having stored anything or stored a secret.    *)
LEMMA Advances ==
  ASSUME SessionInv, ProcessTypeOK', serving' = serving, serving,
         NEW b \in Browsers, NEW r \in Auth,
         auth' = [auth EXCEPT ![b] = r],
         auth[b].fresh = 0, r.fresh = 0,
         r.pc \notin {"swap", "flag"},
         r.pc = "idle" => r = Quiet,
         r.op = "change" /\ r.pc = "hash" => r.new \in Passwords,
         r.old \subseteq signed,
         LoginUnchanged
  PROVE  SessionInv'
<1>1. \A c \in Browsers : auth'[c] = IF c = b THEN r ELSE auth[c]
  BY DEF SessionInv, SessionTypeOK
<1>2. SessionTypeOK'
  BY DEF SessionInv, SessionTypeOK, LoginUnchanged, history
<1>3. Started'
  BY <1>1 DEF SessionInv, Started, LoginUnchanged, history
<1>4. Hashed'
  BY <1>1 DEF SessionInv, Hashed, At, UnflaggedMeansCutShort, LoginUnchanged, history
<1>5. Fresh'
  BY <1>1, SessionAssumption
  DEF SessionInv, SessionTypeOK, Fresh, At, LoginUnchanged, history
<1>6. Revoked'
  BY <1>1 DEF SessionInv, Revoked, RevokedStaysOut, LoginUnchanged, history
<1>7. Stays'
  BY <1>1 DEF SessionInv, SessionTypeOK, Stays, LoginUnchanged, history
<1> QED BY <1>2, <1>3, <1>4, <1>5, <1>6, <1>7 DEF SessionInv

(* A request is only there while the process serves.                       *)
LEMMA Busy ==
  ASSUME SessionInv, NEW b \in Browsers, auth[b].pc # "idle"
  PROVE  serving /\ boot = "up"
BY DEF SessionInv, SessionTypeOK, Started, Quiet

(* A login or a change begins.                                             *)
LEMMA RequestInv ==
  ASSUME SessionInv, NEW b \in Browsers, SessionRequest(b)
  PROVE  SessionInv'
<1>1. ProcessTypeOK' /\ serving /\ serving' = serving
  <2>1. Arrives("session")
    BY DEF SessionRequest, Login, ChangePassword
  <2>2. ProcessTypeOK'
    BY <2>1, SessionProcess DEF SessionInv, SessionTypeOK, Components
  <2> QED BY <2>1, <2>2 DEF Arrives
<1>2. auth[b] = Quiet /\ auth[b].fresh = 0 /\ Quiet \in Auth
  <2>1. auth[b].pc = "idle"
    BY DEF SessionRequest, Login, ChangePassword
  <2>2. auth[b] = Quiet
    BY <2>1 DEF SessionInv, Fresh
  <2>3. Quiet \in Auth /\ Quiet.fresh = 0
    BY DEF Quiet, Auth
  <2> QED BY <2>2, <2>3
<1>3. ASSUME NEW p \in Passwords \cup {Default}, Login(b, p) PROVE SessionInv'
  <2> DEFINE r == [Quiet EXCEPT !.op = "login", !.pc = "read", !.pass = p]
  <2>1. r \in Auth /\ r.op = "login" /\ r.pc = "read" /\ r.fresh = 0 /\ r.old = {}
    BY <1>2 DEF Auth, Quiet
  <2>2. auth' = [auth EXCEPT ![b] = r] /\ LoginUnchanged
    BY <1>3 DEF Login, LoginUnchanged
  <2> HIDE DEF r
  <2> QED BY <1>1, <1>2, <2>1, <2>2, Advances
<1>4. ASSUME NEW p \in Passwords \cup {Default}, NEW n \in Passwords \cup {Default},
             ChangePassword(b, p, n)
      PROVE  SessionInv'
  <2> DEFINE r == [Quiet EXCEPT !.op = "change", !.pc = "read",
                                !.pass = p, !.new = n, !.old = signed]
  <2>1. r \in Auth /\ r.pc = "read" /\ r.fresh = 0 /\ r.old = signed
    BY <1>2 DEF Auth, Quiet, SessionInv, SessionTypeOK
  <2>2. auth' = [auth EXCEPT ![b] = r] /\ LoginUnchanged
    BY <1>4 DEF ChangePassword, LoginUnchanged
  <2> HIDE DEF r
  <2> QED BY <1>1, <1>2, <2>1, <2>2, Advances
<1> QED BY <1>3, <1>4 DEF SessionRequest

(* Steps before the rotation.                                              *)
LEMMA ReadHashInv ==
  ASSUME SessionInv, NEW b \in Browsers, ReadHash(b)
  PROVE  SessionInv'
<1>0. PICK hash \in {account.hash, Unset} :
         auth' = [auth EXCEPT ![b].pc = "verify", ![b].found = hash]
  BY DEF ReadHash, Lookup
<1> DEFINE r == [auth[b] EXCEPT !.pc = "verify", !.found = hash]
<1>1. auth[b] \in Auth /\ auth[b].pc = "read" /\ auth[b].fresh = 0 /\ auth[b].old \subseteq signed
  BY SessionAssumption DEF SessionInv, SessionTypeOK, Fresh, ReadHash, At
<1>2. r \in Auth /\ r.pc = "verify" /\ r.fresh = 0 /\ r.old \subseteq signed
  BY <1>1 DEF Auth, SessionInv, SessionTypeOK
<1>3. auth' = [auth EXCEPT ![b] = r] /\ LoginUnchanged
  BY <1>0 DEF ReadHash, LoginUnchanged, SessionInv, SessionTypeOK
<1>4. ProcessTypeOK' /\ serving' = serving /\ serving
  BY <1>1, Busy, SessionProcess DEF ReadHash, SessionInv, SessionTypeOK, Statement, process
<1> HIDE DEF r
<1> QED BY <1>1, <1>2, <1>3, <1>4, Advances

(* A request ends, or goes on at pc: the forms of Verify and of failures.  *)
LEMMA GoesInv ==
  ASSUME SessionInv, NEW b \in Browsers, auth[b].pc # "idle", auth[b].fresh = 0,
         UNCHANGED process \/ Statement, LoginUnchanged,
         NEW pc \in {"hash", "sign", "store"},
         Done(b) \/ Goes(b, pc),
         pc = "hash" => auth[b].new \in Passwords
  PROVE  SessionInv'
<1>1. auth[b] \in Auth /\ auth[b].old \subseteq signed
  BY DEF SessionInv, SessionTypeOK, Fresh
<1>2. ProcessTypeOK' /\ serving' = serving /\ serving
  BY Busy, SessionProcess DEF SessionInv, SessionTypeOK, Statement, process
<1>3. CASE Done(b)
  <2>1. Quiet \in Auth /\ Quiet.fresh = 0 /\ Quiet.pc = "idle" /\ Quiet.old = {}
    BY SessionAssumption DEF Quiet, Auth
  <2> QED BY <1>2, <1>3, <2>1, Advances DEF Done
<1>4. CASE Goes(b, pc)
  <2> DEFINE r == [auth[b] EXCEPT !.pc = pc]
  <2>1. r \in Auth /\ r.pc = pc /\ r.fresh = 0 /\ r.old \subseteq signed /\ r.new = auth[b].new
    BY <1>1 DEF Auth
  <2>2. auth' = [auth EXCEPT ![b] = r]
    BY <1>4 DEF Goes, SessionInv, SessionTypeOK
  <2> HIDE DEF r
  <2> QED BY <1>2, <2>1, <2>2, Advances
<1> QED BY <1>3, <1>4

(* The password is compared.                                               *)
LEMMA VerifyInv ==
  ASSUME SessionInv, NEW b \in Browsers, Verify(b)
  PROVE  SessionInv'
<1>1. auth[b].pc = "verify" /\ auth[b].fresh = 0 /\ UNCHANGED process /\ LoginUnchanged
  BY SessionAssumption DEF SessionInv, SessionTypeOK, Fresh, Verify, At, LoginUnchanged
<1>2. Done(b) \/ Goes(b, "sign") \/ (LongEnough(auth[b].new) /\ Goes(b, "hash"))
  BY DEF Verify
<1> QED BY <1>1, <1>2, GoesInv DEF LongEnough

(* The new hash is stored, or refused.                                     *)
LEMMA StoreHashInv ==
  ASSUME SessionInv, NEW b \in Browsers, StoreHash(b)
  PROVE  SessionInv'
<1>1. /\ At(b, "change", "hash") /\ auth[b].fresh = 0 /\ auth[b].new \in Passwords
      /\ auth[b] \in Auth
  BY DEF SessionInv, SessionTypeOK, Fresh, Hashed, StoreHash, At
<1>2. ProcessTypeOK' /\ serving' = serving /\ serving /\ boot = "up" /\ boot' = boot
  BY <1>1, Busy, SessionProcess DEF SessionInv, SessionTypeOK, StoreHash, Statement, process, At
<1>3. CASE HashFails(b)
  BY <1>1, <1>3, GoesInv DEF HashFails, StoreHash, LoginUnchanged, At
<1>4. CASE account' = [account EXCEPT !.hash = auth[b].new] /\ Goes(b, "flag")
  <2> DEFINE r == [auth[b] EXCEPT !.pc = "flag"]
  <2>1. r \in Auth /\ r.op = "change" /\ r.pc = "flag" /\ r.fresh = 0 /\ r.old = auth[b].old
    BY <1>1 DEF Auth, At
  <2>2. \A c \in Browsers : auth'[c] = IF c = b THEN r ELSE auth[c]
    BY <1>4 DEF Goes, SessionInv, SessionTypeOK
  <2>3. auth' \in [Browsers -> Auth] /\ auth' = [auth EXCEPT ![b] = r]
    BY <1>4, <2>1 DEF Goes, SessionInv, SessionTypeOK
  <2>4. account'.hash \in Passwords /\ account'.flag = account.flag /\ account'.secret = account.secret
    BY <1>1, <1>4 DEF SessionInv, SessionTypeOK
  <2>5. UNCHANGED <<secret, cookie, generated, signed, revoked, keeper, mixed, cutShort>>
    BY DEF StoreHash, history
  <2> HIDE DEF r
  <2>6. SessionTypeOK'
    BY <1>1, <1>2, <1>4, <2>3, <2>5 DEF SessionInv, SessionTypeOK
  <2>7. Started'
    BY <1>2 DEF Started
  <2>8. Hashed'
    BY <2>1, <2>2, <2>4, SessionAssumption DEF SessionInv, Hashed, At, UnflaggedMeansCutShort
  <2>9. Fresh'
    BY <1>1, <2>1, <2>2, <2>5 DEF SessionInv, SessionTypeOK, Fresh, At
  <2>10. Revoked'
    BY <2>1, <2>2, <2>4, <2>5 DEF SessionInv, Revoked, RevokedStaysOut
  <2>11. Stays'
    BY <1>1, <2>1, <2>2, <2>4, <2>5 DEF SessionInv, SessionTypeOK, Stays, At
  <2> QED BY <2>6, <2>7, <2>8, <2>9, <2>10, <2>11 DEF SessionInv
<1> QED BY <1>3, <1>4 DEF StoreHash

(* The flag is cleared once the hash of another password is stored.        *)
LEMMA ClearFlagInv ==
  ASSUME SessionInv, NEW b \in Browsers, ClearFlag(b)
  PROVE  SessionInv'
<1> DEFINE r == [auth[b] EXCEPT !.pc = "store"]
<1>1. /\ At(b, "change", "flag") /\ auth[b].fresh = 0 /\ account.hash \in Passwords
      /\ auth[b] \in Auth
  BY DEF SessionInv, SessionTypeOK, Fresh, Hashed, ClearFlag, At
<1>2. ProcessTypeOK' /\ serving' = serving /\ serving /\ boot = "up" /\ boot' = boot
  BY <1>1, Busy, SessionProcess DEF SessionInv, SessionTypeOK, ClearFlag, Statement, process, At
<1>3. r \in Auth /\ r.op = "change" /\ r.pc = "store" /\ r.fresh = 0 /\ r.old = auth[b].old
  BY <1>1 DEF Auth, At
<1>4. \A c \in Browsers : auth'[c] = IF c = b THEN r ELSE auth[c]
  BY DEF ClearFlag, Goes, SessionInv, SessionTypeOK
<1>5. auth' \in [Browsers -> Auth]
  BY <1>3 DEF ClearFlag, Goes, SessionInv, SessionTypeOK
<1>6. account'.hash = account.hash /\ account'.secret = account.secret
  BY DEF ClearFlag, SessionInv, SessionTypeOK
<1>7. UNCHANGED <<secret, cookie, generated, signed, revoked, keeper, mixed, cutShort>>
  BY DEF ClearFlag, history
<1> HIDE DEF r
<1>8. SessionTypeOK'
  BY <1>2, <1>5, <1>7 DEF ClearFlag, SessionInv, SessionTypeOK
<1>9. Started'
  BY <1>2 DEF Started
<1>10. Hashed'
  BY <1>1, <1>3, <1>4, <1>6, SessionAssumption DEF SessionInv, Hashed, At, UnflaggedMeansCutShort
<1>11. Fresh'
  BY <1>3, <1>4, <1>7 DEF SessionInv, SessionTypeOK, Fresh, At
<1>12. Revoked'
  BY <1>3, <1>4, <1>6, <1>7 DEF SessionInv, Revoked, RevokedStaysOut
<1>13. Stays'
  BY <1>1, <1>3, <1>4, <1>6, <1>7 DEF SessionInv, SessionTypeOK, Stays, At
<1> QED BY <1>8, <1>9, <1>10, <1>11, <1>12, <1>13 DEF SessionInv

(* The new secret is greater than all that there are.                      *)
LEMMA StoreSecretInv ==
  ASSUME SessionInv, NEW b \in Browsers, StoreSecret(b)
  PROVE  SessionInv'
<1>1. /\ At(b, "change", "store") /\ auth[b].fresh = 0 /\ auth[b] \in Auth
      /\ auth[b].old \subseteq signed
  BY DEF SessionInv, SessionTypeOK, Fresh, StoreSecret, At
<1>2. ProcessTypeOK' /\ serving' = serving /\ serving /\ boot = "up" /\ boot' = boot
  BY <1>1, Busy, SessionProcess DEF SessionInv, SessionTypeOK, StoreSecret, Statement, process, At
<1>3. CASE Goes(b, "sign") /\ UNCHANGED <<account, generated, keeper, mixed>>
  BY <1>1, <1>3, GoesInv DEF StoreSecret, LoginUnchanged, history, At
<1>4. CASE /\ generated < MaxSecret
           /\ generated' = generated + 1
           /\ account' = RowWith(generated')
           /\ auth' = [auth EXCEPT ![b].pc = "swap", ![b].fresh = generated']
           /\ keeper' = b
           /\ mixed' = (mixed \/ \E c \in Browsers \ {b} : auth[c].pc = "swap")
  <2> DEFINE r == [auth[b] EXCEPT !.pc = "swap", !.fresh = generated']
  <2>1. generated' = generated + 1 /\ generated \in Nat /\ generated' \in Secrets
    BY <1>4, SessionAssumption DEF SessionInv, SessionTypeOK, Secrets
  <2>2. /\ r \in Auth /\ r.op = "change" /\ r.pc = "swap" /\ r.fresh = generated'
        /\ r.old = auth[b].old
    BY <1>1, <2>1 DEF Auth, At
  <2>3. auth' = [auth EXCEPT ![b] = r]
    BY <1>4 DEF SessionInv, SessionTypeOK
  <2>4. \A c \in Browsers : auth'[c] = IF c = b THEN r ELSE auth[c]
    BY <2>3 DEF SessionInv, SessionTypeOK
  <2>5. /\ account' = [account EXCEPT !.secret = generated']
        /\ account'.hash = account.hash /\ account'.flag = account.flag
        /\ account'.secret = generated'
    BY <1>4 DEF RowWith, SessionInv, SessionTypeOK
  <2>6. UNCHANGED <<secret, cookie, signed, revoked, cutShort>>
    BY DEF StoreSecret
  <2>7. \A s \in signed : s \in Nat /\ s <= generated
    BY DEF SessionInv, SessionTypeOK, Revoked, Secrets
  <2>8. generated' \notin signed /\ generated' # 0
    BY <2>1, <2>7
  <2> HIDE DEF r
  <2>9. SessionTypeOK'
    <3>1. auth' \in [Browsers -> Auth]
      BY <2>2, <2>3 DEF SessionInv, SessionTypeOK
    <3>2. account' \in [hash : Passwords \cup {Default, Unset}, flag : {Unset, "0", "1"},
                        secret : Secrets \cup {0}]
      BY <2>1, <2>5 DEF SessionInv, SessionTypeOK
    <3>3. generated' \in 0..MaxSecret
      BY <2>1 DEF Secrets
    <3>4. mixed' \in BOOLEAN
      BY <1>4 DEF SessionInv, SessionTypeOK
    <3> QED BY <1>2, <1>4, <2>6, <3>1, <3>2, <3>3, <3>4 DEF SessionInv, SessionTypeOK
  <2>10. Started'
    BY <1>2 DEF Started
  <2>11. Hashed'
    BY <1>2, <2>2, <2>4, <2>5, <2>6 DEF SessionInv, Hashed, At, UnflaggedMeansCutShort
  <2>12. Fresh'
    <3>1. \A c \in Browsers : auth[c].fresh \in Nat /\ auth[c].fresh <= generated
      BY DEF SessionInv, SessionTypeOK, Fresh, Auth, Secrets
    <3> QED BY <1>1, <2>1, <2>2, <2>4, <2>6, <2>8, <3>1 DEF SessionInv, Fresh, At
  <2>13. Revoked'
    <3>1. \A c \in Browsers : auth[c].old \subseteq signed
      BY DEF SessionInv, Fresh
    <3>2. secret # generated'
      BY <2>8 DEF SessionInv, Revoked
    <3> QED BY <1>1, <2>1, <2>2, <2>4, <2>5, <2>6, <2>7, <2>8, <3>1, <3>2
        DEF SessionInv, Revoked, RevokedStaysOut
  <2>14. Stays'
    <3>1. ASSUME ~mixed', NEW c \in Browsers, auth'[c].pc = "swap" PROVE c = b
      BY <1>4, <2>4, <3>1, Zenon
    <3>2. auth'[b].pc = "swap" /\ auth'[b].fresh = account'.secret /\ auth'[b].fresh # 0
      BY <2>2, <2>4, <2>5, <2>8
    <3>3. keeper' = b
      BY <1>4
    <3> QED BY <2>5, <3>1, <3>2, <3>3 DEF Stays
  <2> QED BY <2>9, <2>10, <2>11, <2>12, <2>13, <2>14 DEF SessionInv
<1> QED BY <1>3, <1>4 DEF StoreSecret

(* The secret that comes into memory has not been there before.            *)
LEMMA SwapSecretInv ==
  ASSUME SessionInv, NEW b \in Browsers, SwapSecret(b)
  PROVE  SessionInv'
<1> DEFINE r == [auth[b] EXCEPT !.pc = "sign"]
           f == auth[b].fresh
<1>1. /\ auth[b].op = "change" /\ auth[b].pc = "swap" /\ auth[b] \in Auth
      /\ f # 0 /\ f \notin signed /\ f <= generated /\ f \in Secrets
  BY DEF SessionInv, SessionTypeOK, Fresh, SwapSecret, At, Auth
<1>2. ProcessTypeOK' /\ serving' = serving /\ serving /\ boot = "up" /\ boot' = boot
  BY <1>1, Busy DEF SessionInv, SessionTypeOK, SwapSecret, ProcessTypeOK, process
<1>3. r \in Auth /\ r.op = "change" /\ r.pc = "sign" /\ r.fresh = f /\ r.old = auth[b].old
  BY <1>1 DEF Auth
<1>4. auth' = [auth EXCEPT ![b] = r]
  BY DEF SwapSecret, Goes, SessionInv, SessionTypeOK
<1>5. \A c \in Browsers : auth'[c] = IF c = b THEN r ELSE auth[c]
  BY <1>4 DEF SessionInv, SessionTypeOK
<1>6. secret' = f /\ signed' = signed \cup {f}
  BY DEF SwapSecret, InMemory
<1>7. UNCHANGED <<account, cookie, generated, revoked, keeper, mixed, cutShort>>
  BY DEF SwapSecret
<1>8. \A c \in Browsers : auth[c].old \subseteq signed
  BY DEF SessionInv, Fresh
<1> HIDE DEF r, f
<1>9. SessionTypeOK'
  BY <1>1, <1>2, <1>3, <1>4, <1>6, <1>7 DEF SessionInv, SessionTypeOK
<1>10. Started'
  BY <1>2 DEF Started
<1>11. Hashed'
  BY <1>2, <1>3, <1>5, <1>7 DEF SessionInv, Hashed, At, UnflaggedMeansCutShort
<1>12. Fresh'
  <2>1. \A c \in Browsers \ {b} : auth[c].pc = "swap" => auth[c].fresh # f
    BY <1>1 DEF SessionInv, Fresh, f
  <2> QED BY <1>3, <1>5, <1>6, <1>7, <1>8, <2>1 DEF SessionInv, Fresh, At, f
<1>13. Revoked'
  <2>1. f \notin revoked
    BY <1>1 DEF SessionInv, Revoked
  <2>2. auth[b].fresh # 0
    BY <1>1 DEF f
  <2> QED BY <1>1, <1>3, <1>5, <1>6, <1>7, <1>8, <2>1, <2>2
      DEF SessionInv, Revoked, RevokedStaysOut
<1>14. Stays'
  <2>1. ~mixed => b = keeper /\ f = account.secret
    BY <1>1 DEF SessionInv, Stays, f
  <2>2. \A c \in Browsers : auth'[c].pc = "swap" => auth[c].pc = "swap" /\ auth'[c] = auth[c]
    BY <1>3, <1>5
  <2>3. auth'[b].fresh # 0
    BY <1>1, <1>3, <1>5
  <2> QED BY <1>6, <1>7, <2>1, <2>2, <2>3 DEF SessionInv, Stays
<1> QED BY <1>9, <1>10, <1>11, <1>12, <1>13, <1>14 DEF SessionInv

(* The answer: from now on the secrets of before are revoked.              *)
LEMMA SignInv ==
  ASSUME SessionInv, NEW b \in Browsers, Sign(b)
  PROVE  SessionInv'
<1>1. auth[b].pc = "sign" /\ auth[b] \in Auth /\ auth[b].old \subseteq signed
  BY DEF SessionInv, SessionTypeOK, Fresh, Sign
<1>2. ProcessTypeOK' /\ serving' = serving /\ serving /\ boot = "up" /\ boot' = boot
  BY <1>1, Busy DEF SessionInv, SessionTypeOK, Sign, ProcessTypeOK, process
<1>3. /\ Quiet \in Auth /\ Quiet.op = "none" /\ Quiet.pc = "idle"
      /\ Quiet.fresh = 0 /\ Quiet.old = {}
  BY DEF Quiet, Auth
<1>4. auth' = [auth EXCEPT ![b] = Quiet] /\ cookie' = [cookie EXCEPT ![b] = secret]
  BY DEF Sign, Done, Signs
<1>5. \A c \in Browsers : auth'[c] = IF c = b THEN Quiet ELSE auth[c]
  BY <1>4 DEF SessionInv, SessionTypeOK
<1>6. revoked' = IF auth[b].fresh # 0 THEN revoked \cup auth[b].old ELSE revoked
  BY DEF Sign
<1>7. UNCHANGED <<account, secret, generated, signed, keeper, mixed, cutShort>>
  BY DEF Sign
<1>8. SessionTypeOK'
  BY <1>1, <1>2, <1>3, <1>4, <1>6, <1>7 DEF SessionInv, SessionTypeOK, Auth
<1>9. Started'
  BY <1>2 DEF Started
<1>10. Hashed'
  BY <1>2, <1>3, <1>5, <1>7 DEF SessionInv, Hashed, At, UnflaggedMeansCutShort
<1>11. Fresh'
  BY <1>3, <1>5, <1>7, SessionAssumption DEF SessionInv, SessionTypeOK, Fresh, At
<1>12. Revoked'
  BY <1>1, <1>3, <1>5, <1>6, <1>7 DEF SessionInv, Revoked, RevokedStaysOut
<1>13. Stays'
  <2>1. \A c \in Browsers : cookie'[c] = IF c = b THEN secret ELSE cookie[c]
    BY <1>4 DEF SessionInv, SessionTypeOK
  <2>2. keeper # NoKeeper => keeper \in Browsers
    BY DEF SessionInv, SessionTypeOK
  <2> QED BY <1>1, <1>3, <1>5, <1>7, <2>1, <2>2 DEF SessionInv, Stays
<1> QED BY <1>8, <1>9, <1>10, <1>11, <1>12, <1>13 DEF SessionInv

(* A browser forgets its cookie.                                           *)
LEMMA ForgetInv ==
  ASSUME SessionInv, NEW b \in Browsers, Forget(b)
  PROVE  SessionInv'
<1>1. UNCHANGED <<process, account, boot, secret, auth, generated, history>>
  BY DEF Forget
<1>2. cookie' = [cookie EXCEPT ![b] = 0]
  BY DEF Forget
<1>3. UNCHANGED <<conn, serving, quota, signed, revoked, keeper, mixed, cutShort>>
  BY <1>1 DEF process, history
<1>4. SessionTypeOK'
  BY <1>1, <1>2, <1>3 DEF SessionInv, SessionTypeOK, ProcessTypeOK
<1>5. Started' /\ Hashed' /\ Fresh' /\ Revoked'
  BY <1>1, <1>3
  DEF SessionInv, Started, Hashed, At, UnflaggedMeansCutShort, Fresh, Revoked, RevokedStaysOut
<1>6. Stays'
  <2>1. keeper # NoKeeper => cookie'[keeper] \in {0, cookie[keeper]}
    BY <1>2 DEF SessionInv, SessionTypeOK
  <2> QED BY <1>1, <1>3, <2>1 DEF SessionInv, Stays
<1> QED BY <1>4, <1>5, <1>6 DEF SessionInv

(* Nobody has a request while the process starts.                          *)
LEMMA BootsInv ==
  ASSUME SessionInv, Boots
  PROVE  SessionInv'
<1>1. boot # "up" /\ Statement /\ ~serving
  BY DEF Boots, SeedLooks, SeedHash, SeedFlag, LoadSecret, SessionInv, Started
<1>2. ProcessTypeOK' /\ serving' = serving
  BY <1>1, SessionProcess DEF SessionInv, SessionTypeOK, Statement, process
<1>3. \A b \in Browsers : auth[b] = Quiet
  BY <1>1 DEF SessionInv, Started
<1>4. UNCHANGED <<cookie, auth, revoked, mixed>>
  BY DEF Boots, SeedLooks, SeedHash, SeedFlag, LoadSecret, history
<1>5. /\ Quiet.pc = "idle" /\ Quiet.op = "none" /\ Quiet.fresh = 0 /\ Quiet.old = {}
  BY DEF Quiet
<1>6. CASE SeedLooks \/ SeedHash \/ SeedFlag
  <2>1. /\ UNCHANGED <<secret, generated, signed, keeper>> /\ cutShort' \in {cutShort, FALSE}
        /\ account'.secret = account.secret
    BY <1>6 DEF SeedLooks, SeedHash, SeedFlag, history, SessionInv, SessionTypeOK
  <2>2. SessionTypeOK'
    BY <1>2, <1>4, <1>6, <2>1
    DEF SeedLooks, SeedHash, SeedFlag, SessionInv, SessionTypeOK
  <2>3. Started'
    BY <1>1, <1>2, <1>3, <1>4, <1>6
    DEF SeedLooks, SeedHash, SeedFlag, SessionInv, SessionTypeOK, Started
  <2>4. UnflaggedMeansCutShort'
    <3>1. CASE SeedLooks
      BY <3>1 DEF SeedLooks, history, SessionInv, Hashed, UnflaggedMeansCutShort
    <3>2. CASE SeedHash
      BY <3>2 DEF SeedHash, UnflaggedMeansCutShort
    <3>3. CASE SeedFlag
      BY <3>3 DEF SeedFlag, SessionInv, SessionTypeOK, UnflaggedMeansCutShort
    <3> QED BY <1>6, <3>1, <3>2, <3>3
  <2>5. Hashed'
    BY <1>3, <1>4, <1>5, <2>4 DEF Hashed, At
  <2>6. Fresh' /\ Revoked' /\ Stays'
    BY <1>4, <2>1 DEF SessionInv, Fresh, At, Revoked, RevokedStaysOut, Stays
  <2> QED BY <2>2, <2>3, <2>5, <2>6 DEF SessionInv
<1>7. CASE LoadSecret
  <2>1. signed' = signed \cup {secret'} /\ boot' = "up"
    BY <1>7 DEF LoadSecret
  <2>2. /\ account'.hash = account.hash /\ account'.flag = account.flag
        /\ \/ account' = account
           \/ account' = [account EXCEPT !.secret = generated'] /\ secret' = generated'
    BY <1>7 DEF LoadSecret, CreateSecret, SessionInv, SessionTypeOK
  <2>3. generated \in Nat /\ \A s \in signed : s \in Nat /\ s <= generated
    <3>1. Secrets \subseteq Nat /\ 0..MaxSecret \subseteq Nat
      BY SessionAssumption DEF Secrets
    <3>2. generated \in 0..MaxSecret /\ signed \subseteq Secrets
      BY DEF SessionInv, SessionTypeOK
    <3>3. \A s \in signed : s <= generated
      BY DEF SessionInv, Revoked
    <3> QED BY <3>1, <3>2, <3>3
  <2>4. /\ \/ /\ account.secret # 0 /\ secret' = account.secret
           /\ account' = account /\ generated' = generated /\ keeper' = keeper
        \/ /\ generated < MaxSecret /\ generated' = generated + 1
           /\ secret' = generated' /\ keeper' = NoKeeper
           /\ account'.secret \in {generated', account.secret}
    <3>1. PICK found \in {account.secret, 0} :
            IF found # 0
            THEN secret' = found /\ UNCHANGED <<account, generated, keeper>>
            ELSE CreateSecret
      BY <1>7 DEF LoadSecret, Lookup
    <3>2. CASE found # 0 BY <3>1, <3>2
    <3>3. CASE found = 0
      <4>1. CreateSecret BY <3>1, <3>3
      <4>2. account'.secret \in {generated', account.secret}
        BY <4>1 DEF CreateSecret, SessionInv, SessionTypeOK
      <4> QED BY <4>1, <4>2 DEF CreateSecret
    <3> QED BY <3>2, <3>3
  <2>5. secret' \in Secrets /\ secret' <= generated' /\ generated <= generated'
    BY <2>3, <2>4, SessionAssumption DEF SessionInv, SessionTypeOK, Revoked, Secrets
  <2>6. generated' \in 0..MaxSecret
    BY <2>3, <2>4, SessionAssumption DEF SessionInv, SessionTypeOK
  <2>7. SessionTypeOK'
    <3>1. account' \in [hash : Passwords \cup {Default, Unset}, flag : {Unset, "0", "1"},
                        secret : Secrets \cup {0}]
      BY <2>2, <2>5 DEF SessionInv, SessionTypeOK
    <3>2. keeper' \in Browsers \cup {NoKeeper} /\ cutShort' = cutShort
      BY <1>7, <2>4 DEF LoadSecret, SessionInv, SessionTypeOK
    <3>3. signed' \subseteq Secrets
      BY <2>1, <2>5 DEF SessionInv, SessionTypeOK
    <3> QED BY <3>2, <3>3, <1>2, <1>4, <2>1, <2>5, <2>6, <3>1 DEF SessionInv, SessionTypeOK
  <2>8. Started'
    BY <1>3, <1>4, <2>1 DEF Started
  <2>9. Hashed'
    <3>1. boot = "secret" /\ cutShort' = cutShort
      BY <1>7 DEF LoadSecret
    <3> QED BY <3>1, <1>4, <2>2 DEF SessionInv, Hashed, At, UnflaggedMeansCutShort
  <2>10. Fresh'
    BY <1>3, <1>4, <1>5, <2>3, <2>5, <2>6 DEF Fresh
  <2>11. secret' \notin revoked /\ 0 \notin revoked
    BY <2>3, <2>4 DEF SessionInv, SessionTypeOK, Revoked, RevokedStaysOut, Secrets
  <2>12. Revoked'
    <3>1. /\ account'.secret \in {secret', account.secret} /\ account.secret \notin revoked
          /\ account'.secret <= generated'
      BY <2>3, <2>4, <2>5 DEF SessionInv, SessionTypeOK, Revoked, RevokedStaysOut, Secrets
    <3>2. \A s \in signed' : s <= generated'
      BY <2>1, <2>3, <2>5, <2>6
    <3> QED BY <1>3, <1>4, <1>5, <2>1, <2>11, <3>1, <3>2
        DEF SessionInv, Revoked, RevokedStaysOut
  <2>13. Stays'
    BY <1>3, <1>4, <1>5, <2>4 DEF SessionInv, Stays
  <2> QED BY <2>7, <2>8, <2>9, <2>10, <2>12, <2>13 DEF SessionInv
<1> QED BY <1>6, <1>7 DEF Boots

(* What happens elsewhere leaves the login alone.                          *)
LEMMA LoginIdles ==
  ASSUME SessionInv, UNCHANGED sessionVars,
         UNCHANGED process \/ (boot = "up" /\ Serves) \/ Elsewhere("session") \/ Transaction
  PROVE  SessionInv'
<1>1. ProcessTypeOK'
  BY SessionProcess DEF SessionInv, SessionTypeOK, Elsewhere
<1>2. serving' = serving \/ (boot = "up" /\ serving' = TRUE)
  <2>1. UNCHANGED process => serving' = serving
    BY DEF process
  <2>2. Elsewhere("session") => serving' = serving
    BY DEF Elsewhere, Arrives
  <2>3. Transaction => serving' = serving
    BY DEF Transaction, Begins, Ends
  <2>4. Serves => serving' = TRUE
    BY DEF Serves
  <2> QED BY <2>1, <2>2, <2>3, <2>4
<1>3. UNCHANGED <<account, boot, secret, cookie, auth, generated, signed, revoked, keeper, mixed, cutShort>>
  BY DEF sessionVars, history
<1>4. SessionTypeOK'
  BY <1>1, <1>3 DEF SessionInv, SessionTypeOK
<1>5. Started'
  BY <1>2, <1>3 DEF SessionInv, Started
<1>6. Hashed' /\ Fresh' /\ Revoked' /\ Stays'
  BY <1>3
     DEF SessionInv, Hashed, At, UnflaggedMeansCutShort, Fresh, Revoked, RevokedStaysOut, Stays
<1> QED BY <1>4, <1>5, <1>6 DEF SessionInv

(* The end of the process.                                                 *)
LEMMA LoginCrashes ==
  ASSUME SessionInv, Restart, SessionCrash
  PROVE  SessionInv'
<1>1. ProcessTypeOK' /\ ~serving'
  BY SessionProcess DEF SessionInv, SessionTypeOK, Restart
<1>2. /\ Quiet \in Auth /\ Quiet.op = "none" /\ Quiet.pc = "idle"
      /\ Quiet.fresh = 0 /\ Quiet.old = {}
  BY DEF Quiet, Auth
<1>3. boot' = "seed" /\ secret' = 0 /\ \A b \in Browsers : auth'[b] = Quiet
  BY DEF SessionCrash
<1>4. keeper' \in {keeper, NoKeeper}
      /\ (keeper' # NoKeeper => keeper' = keeper /\ auth[keeper].pc = "idle")
  BY DEF SessionCrash
<1>5. /\ UNCHANGED <<account, cookie, generated, signed, revoked, mixed>>
      /\ cutShort' = (cutShort \/ boot = "seedFlag")
  BY DEF SessionCrash
<1>6. SessionTypeOK'
  BY <1>1, <1>2, <1>3, <1>4, <1>5 DEF SessionCrash, SessionInv, SessionTypeOK
<1>7. Started'
  BY <1>1, <1>3 DEF Started
<1>8. Hashed'
  BY <1>2, <1>3, <1>5 DEF SessionInv, Hashed, At, UnflaggedMeansCutShort
<1>9. Fresh'
  BY <1>2, <1>3, <1>5 DEF SessionInv, SessionTypeOK, Fresh
<1>10. Revoked'
  BY <1>2, <1>3, <1>5 DEF SessionInv, SessionTypeOK, Revoked, RevokedStaysOut, Secrets
<1>11. Stays'
  <2>1. ASSUME keeper' # NoKeeper, ~mixed PROVE cookie[keeper] \in {0, account.secret}
    <3>1. keeper \in Browsers /\ auth[keeper] = Quiet
      BY <1>4, <2>1 DEF SessionInv, SessionTypeOK, Fresh
    <3> QED BY <1>2, <1>4, <2>1, <3>1 DEF SessionInv, Stays
  <2> QED BY <1>2, <1>3, <1>4, <1>5, <2>1 DEF SessionInv, Stays
<1> QED BY <1>6, <1>7, <1>8, <1>9, <1>10, <1>11 DEF SessionInv

(* The first process.                                                      *)
LEMMA SessionStarts == ProcessInit /\ SessionInit => SessionInv
<1> SUFFICES ASSUME ProcessInit, SessionInit PROVE SessionInv
  OBVIOUS
<1>1. /\ Quiet \in Auth /\ Quiet.op = "none" /\ Quiet.pc = "idle"
      /\ Quiet.fresh = 0 /\ Quiet.old = {}
  BY DEF Quiet, Auth
<1>2. ProcessTypeOK
  BY ProcessAssumption DEF ProcessInit, ProcessTypeOK
<1>3. SessionTypeOK
  <2>1. auth \in [Browsers -> Auth] /\ cookie \in [Browsers -> Secrets \cup {0}]
    BY <1>1 DEF SessionInit
  <2>2. 0 \in 0..MaxSecret
    BY SessionAssumption
  <2>3. /\ account \in [hash : Passwords \cup {Default, Unset}, flag : {Unset, "0", "1"},
                        secret : Secrets \cup {0}]
    BY DEF SessionInit
  <2> QED BY <1>2, <2>1, <2>2, <2>3 DEF SessionInit, SessionTypeOK
<1>4. Started
  BY DEF SessionInit, ProcessInit, Started
<1>5. Hashed
  <2>1. account.flag = Unset /\ account.hash = Unset /\ \A b \in Browsers : auth[b].op = "none"
    BY <1>1 DEF SessionInit
  <2> QED BY <2>1, SessionAssumption DEF Hashed, At, UnflaggedMeansCutShort
<1>6. Fresh
  BY <1>1 DEF SessionInit, Fresh
<1>7. Revoked /\ Stays
  BY <1>1 DEF SessionInit, Revoked, RevokedStaysOut, Stays
<1> QED BY <1>3, <1>4, <1>5, <1>6, <1>7 DEF SessionInv

(* Every step keeps the invariant.                                         *)
LEMMA SessionSteps == SessionInv /\ [SessionNext]_<<process, sessionVars>> => SessionInv'
<1> SUFFICES ASSUME SessionInv, [SessionNext]_<<process, sessionVars>> PROVE SessionInv'
  OBVIOUS
<1>1. CASE UNCHANGED <<process, sessionVars>>
  BY <1>1, LoginIdles
<1>2. CASE Boots
  BY <1>2, BootsInv
<1>3. CASE boot = "up" /\ Serves /\ UNCHANGED sessionVars
  BY <1>3, LoginIdles
<1>4. CASE (Elsewhere("session") \/ Transaction) /\ UNCHANGED sessionVars
  BY <1>4, LoginIdles
<1>5. ASSUME NEW b \in Browsers, SessionRequest(b) PROVE SessionInv'
  BY <1>5, RequestInv
<1>6. ASSUME NEW b \in Browsers, SessionStep(b) PROVE SessionInv'
  BY <1>6, ReadHashInv, VerifyInv, StoreHashInv, ClearFlagInv, StoreSecretInv, SwapSecretInv,
     SignInv, ForgetInv DEF SessionStep
<1>7. CASE Restart /\ SessionCrash
  BY <1>7, LoginCrashes
<1> QED BY <1>1, <1>2, <1>3, <1>4, <1>5, <1>6, <1>7 DEF SessionNext

(* The properties follow from the invariant.                               *)
LEMMA SessionInvMeans ==
  SessionInv => SessionTypeOK /\ UnflaggedMeansCutShort /\ RevokedStaysOut /\ LoginStaysValid
<1> SUFFICES ASSUME SessionInv PROVE LoginStaysValid
  BY DEF SessionInv, Hashed, Revoked
<1> SUFFICES ASSUME keeper # NoKeeper, auth[keeper].pc = "idle", ~mixed
             PROVE  cookie[keeper] \in {0, account.secret} /\ secret \in {0, account.secret}
  BY DEF LoginStaysValid
<1>1. keeper \in Browsers
  BY DEF SessionInv, SessionTypeOK
<1>2. auth[keeper].fresh = 0
  BY <1>1 DEF SessionInv, Fresh, Quiet
<1> QED BY <1>2 DEF SessionInv, Stays

(***************************************************************************)
(* Theorems.                                                               *)
(***************************************************************************)

(* Every state of the login satisfies the invariant.                       *)
THEOREM SessionInvariant == SessionSpec => []SessionInv
BY SessionStarts, SessionSteps, PTL DEF SessionSpec

(* The default password (internal/httpapi/authn.go, SeedAdmin,             *)
(* changePassword) is without its flag only where the SeedAdmin that set   *)
(* it was cut off between its statements, for any number of changes at     *)
(* once, failing reads and writes, and restarts.                           *)
THEOREM UnflaggedOnlyByCutOff == SessionSpec => []UnflaggedMeansCutShort
BY SessionInvariant, SessionInvMeans, PTL

(* After a change of the password (changePassword, rotateSessionSecret) no *)
(* session of before is valid again, for any number of browsers, changes   *)
(* at once and restarts.                                                   *)
THEOREM SessionsAreRevoked == SessionSpec => []RevokedStaysOut
BY SessionInvariant, SessionInvMeans, PTL

(* The browser that has changed the password stays logged in, unless two   *)
(* rotations have overlapped.                                              *)
THEOREM ChangerStaysIn == SessionSpec => []LoginStaysValid
BY SessionInvariant, SessionInvMeans, PTL
=============================================================================
