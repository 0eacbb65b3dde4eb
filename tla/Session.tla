------------------------------ MODULE Session -------------------------------
(***************************************************************************)
(* The portal's login (internal/httpapi/authn.go): the account and the     *)
(* secret that signs the session cookies are rows of the settings table    *)
(* (internal/store/settings.go), each read and written by a statement of   *)
(* its own; the process keeps the secret in memory, too.                   *)
(*                                                                         *)
(* A cookie is known by the secret that it is signed with                  *)
(* (auth.SignSession, auth.VerifySession): a number, 0 for no cookie.      *)
(***************************************************************************)
EXTENDS Process, FiniteSets

CONSTANTS
  Browsers,   (* each has one cookie and one request at a time.            *)
  Passwords,  (* of 8 characters and more.                                 *)
  Default,    (* the default password, "admin", which is shorter.          *)
  Unset,      (* a row that is not there.                                  *)
  MaxSecret   (* secrets that are generated.  Bounds the model.            *)

Secrets == 1..MaxSecret

ASSUME SessionAssumption ==
  /\ Default \notin Passwords
  /\ Unset \notin Passwords \cup {Default, "0", "1"}
  /\ MaxSecret \in Nat \ {0}

VARIABLES
  account,   (* persistent: the auth_* rows of settings.                   *)
  boot,      (* how far the process has started.                           *)
  secret,    (* Server.sessionSecret.                                      *)
  cookie,    (* the browsers' cookies.                                     *)
  auth,      (* the request that each browser waits for.                   *)
  generated, (* the newest secret that has been generated.                 *)
  signed,    (* history: secrets that have been in memory.                 *)
  revoked,   (* history: those that a change of the password has replaced. *)
  keeper,    (* history: the browser that has stored the newest secret.    *)
  mixed,     (* history: two rotations have overlapped.                    *)
  cutShort   (* history: the process has ended in the middle of the last   *)
             (* SeedAdmin that wrote the default password.                 *)

history == <<signed, revoked, keeper, mixed, cutShort>>

sessionVars == <<account, boot, secret, cookie, auth, generated, history>>

NoKeeper == "none"

(* found: the password hash that the request has read.  old: the secrets   *)
(* that were in use when a change began.  fresh: the secret that it has    *)
(* stored.                                                                 *)
Auth == [op    : {"none", "login", "change"},
         pc    : {"idle", "read", "verify", "hash", "flag", "store", "swap", "sign"},
         pass  : Passwords \cup {Default},
         new   : Passwords \cup {Default},
         found : Passwords \cup {Default, Unset},
         old   : SUBSET Secrets,
         fresh : Secrets \cup {0}]

Quiet == [op |-> "none", pc |-> "idle", pass |-> Default, new |-> Default,
          found |-> Unset, old |-> {}, fresh |-> 0]

SessionTypeOK ==
  /\ ProcessTypeOK
  /\ account \in [hash   : Passwords \cup {Default, Unset},
                  flag   : {Unset, "0", "1"},
                  secret : Secrets \cup {0}]
  /\ boot \in {"seed", "seedHash", "seedFlag", "secret", "up"}
  /\ secret \in Secrets \cup {0}
  /\ cookie \in [Browsers -> Secrets \cup {0}]
  /\ auth \in [Browsers -> Auth]
  /\ generated \in 0..MaxSecret
  /\ signed \subseteq Secrets
  /\ revoked \subseteq Secrets
  /\ keeper \in Browsers \cup {NoKeeper}
  /\ mixed \in BOOLEAN
  /\ cutShort \in BOOLEAN

SessionInit ==
  /\ account = [hash |-> Unset, flag |-> Unset, secret |-> 0]
  /\ boot = "seed"
  /\ secret = 0
  /\ cookie = [b \in Browsers |-> 0]
  /\ auth = [b \in Browsers |-> Quiet]
  /\ generated = 0
  /\ signed = {}
  /\ revoked = {}
  /\ keeper = NoKeeper
  /\ mixed = FALSE
  /\ cutShort = FALSE

(***************************************************************************)
(* The start of the process.                                               *)
(***************************************************************************)

(* SeedAdmin: a database in which it finds a password is left alone.  The  *)
(* name of the account, which is written first, is always the same.  When  *)
(* a write is refused main exits, which is an end of the process like any. *)
SeedLooks ==
  /\ boot = "seed"
  /\ Statement
  /\ \E hash \in Lookup(account.hash, Unset) :
       boot' = IF hash # Unset THEN "secret" ELSE "seedHash"
  /\ UNCHANGED <<account, secret, cookie, auth, generated, history>>

SeedHash ==
  /\ boot = "seedHash"
  /\ Statement
  /\ account' = [account EXCEPT !.hash = Default]
  /\ boot' = "seedFlag"
  /\ UNCHANGED <<secret, cookie, auth, generated, history>>

SeedFlag ==
  /\ boot = "seedFlag"
  /\ Statement
  /\ account' = [account EXCEPT !.flag = "1"]
  /\ boot' = "secret"
  /\ cutShort' = FALSE
  /\ UNCHANGED <<secret, cookie, auth, generated, signed, revoked, keeper, mixed>>

(* A secret of the process's own, stored over what there is, or kept in    *)
(* memory when the store refuses it.  Nobody has stored it with a change   *)
(* of the password.                                                        *)
CreateSecret ==
  /\ generated < MaxSecret
  /\ generated' = generated + 1
  /\ secret' = generated'
  /\ account' \in {account, [account EXCEPT !.secret = generated']}
  /\ keeper' = NoKeeper

(* loadOrCreateSessionSecret, and NewServer's fallback.                    *)
LoadSecret ==
  /\ boot = "secret"
  /\ Statement
  /\ \E found \in Lookup(account.secret, 0) :
       IF found # 0
       THEN secret' = found /\ UNCHANGED <<account, generated, keeper>>
       ELSE CreateSecret
  /\ signed' = signed \cup {secret'}
  /\ boot' = "up"
  /\ UNCHANGED <<cookie, auth, revoked, mixed, cutShort>>

Boots == SeedLooks \/ SeedHash \/ SeedFlag \/ LoadSecret

(***************************************************************************)
(* Requests.                                                               *)
(***************************************************************************)

At(b, op, pc) == auth[b].op = op /\ auth[b].pc = pc

Goes(b, pc) == auth' = [auth EXCEPT ![b].pc = pc]

Done(b) == auth' = [auth EXCEPT ![b] = Quiet]

(* setSessionCookie signs with the secret of the moment.                   *)
Signs(b) == cookie' = [cookie EXCEPT ![b] = secret]

(* currentUser.                                                            *)
Authenticated(b) == cookie[b] # 0 /\ cookie[b] = secret

(* login, past the rate limit.                                             *)
Login(b, p) ==
  /\ auth[b].pc = "idle"
  /\ Arrives("session")
  /\ auth' = [auth EXCEPT ![b] = [Quiet EXCEPT !.op = "login", !.pc = "read", !.pass = p]]
  /\ UNCHANGED <<account, boot, secret, cookie, generated, history>>

(* changePassword begins.  (A refusal, here or of a password that is too   *)
(* short, changes nothing.)                                                *)
ChangePassword(b, p, n) ==
  /\ auth[b].pc = "idle"
  /\ Arrives("session")
  /\ Authenticated(b)
  /\ auth' = [auth EXCEPT ![b] = [Quiet EXCEPT !.op = "change", !.pc = "read",
                                  !.pass = p, !.new = n, !.old = signed]]
  /\ UNCHANGED <<account, boot, secret, cookie, generated, history>>

(* The password's hash is read, ...                                        *)
ReadHash(b) ==
  /\ auth[b].pc = "read"
  /\ Statement
  /\ \E hash \in Lookup(account.hash, Unset) :
       auth' = [auth EXCEPT ![b].pc = "verify", ![b].found = hash]
  /\ UNCHANGED <<account, boot, secret, cookie, generated, history>>

(* ... compared, which takes its time (PBKDF2), and the new one accepted.  *)
LongEnough(p) == p \in Passwords

Verify(b) ==
  /\ auth[b].pc = "verify"
  /\ IF auth[b].found # auth[b].pass THEN Done(b)
     ELSE IF auth[b].op = "login" THEN Goes(b, "sign")
     ELSE IF LongEnough(auth[b].new) THEN Goes(b, "hash") ELSE Done(b)
  /\ UNCHANGED <<process, account, boot, secret, cookie, generated, history>>

(* Mutated form: the error is ignored.                                     *)
HashFailsOn(b) == account' = account /\ Goes(b, "flag")

(* The store refuses the new hash: a 500.                                  *)
HashFails(b) == account' = account /\ Done(b)

StoreHash(b) ==
  /\ At(b, "change", "hash")
  /\ Statement
  /\ \/ account' = [account EXCEPT !.hash = auth[b].new] /\ Goes(b, "flag")
     \/ HashFails(b)
  /\ UNCHANGED <<boot, secret, cookie, generated, history>>

(* The flag of the default password is cleared; an error is ignored.       *)
ClearFlag(b) ==
  /\ At(b, "change", "flag")
  /\ Statement
  /\ account' \in {account, [account EXCEPT !.flag = "0"]}
  /\ Goes(b, "store")
  /\ UNCHANGED <<boot, secret, cookie, generated, history>>

(* Mutated form: the secret is replaced in memory only.                    *)
RowKept(s) == account

RowWith(s) == [account EXCEPT !.secret = s]

(* rotateSessionSecret, its row: a failure is logged, and the cookie       *)
(* signed with the secret that there is.                                   *)
StoreSecret(b) ==
  /\ At(b, "change", "store")
  /\ Statement
  /\ \/ /\ generated < MaxSecret
        /\ generated' = generated + 1
        /\ account' = RowWith(generated')
        /\ auth' = [auth EXCEPT ![b].pc = "swap", ![b].fresh = generated']
        /\ keeper' = b
        /\ mixed' = (mixed \/ \E c \in Browsers \ {b} : auth[c].pc = "swap")
     \/ /\ Goes(b, "sign")
        /\ UNCHANGED <<account, generated, keeper, mixed>>
  /\ UNCHANGED <<boot, secret, cookie, signed, revoked, cutShort>>

(* Mutated form: the secret is replaced in the settings only.              *)
InMemoryStill(s) == secret

InMemory(s) == s

(* rotateSessionSecret, the copy in memory, under secretMu.                *)
SwapSecret(b) ==
  /\ At(b, "change", "swap")
  /\ secret' = InMemory(auth[b].fresh)
  /\ signed' = signed \cup {secret'}
  /\ Goes(b, "sign")
  /\ UNCHANGED <<process, account, boot, cookie, generated, revoked, keeper, mixed,
                 cutShort>>

(* The answer of a login or of a change, with its cookie.                  *)
Sign(b) ==
  /\ auth[b].pc = "sign"
  /\ Signs(b)
  /\ revoked' = IF auth[b].fresh # 0 THEN revoked \cup auth[b].old ELSE revoked
  /\ Done(b)
  /\ UNCHANGED <<process, account, boot, secret, generated, signed, keeper, mixed,
                 cutShort>>

(* logout, and a cookie that expires (sessionTTL).                         *)
Forget(b) ==
  /\ cookie[b] # 0
  /\ auth[b].pc = "idle"
  /\ cookie' = [cookie EXCEPT ![b] = 0]
  /\ UNCHANGED <<process, account, boot, secret, auth, generated, history>>

(***************************************************************************)
(* The specification.                                                      *)
(***************************************************************************)

SessionRequest(b) ==
  \/ \E p \in Passwords \cup {Default} : Login(b, p)
  \/ \E p, n \in Passwords \cup {Default} : ChangePassword(b, p, n)

SessionStep(b) ==
  \/ ReadHash(b) \/ Verify(b)
  \/ StoreHash(b) \/ ClearFlag(b) \/ StoreSecret(b) \/ SwapSecret(b)
  \/ Sign(b) \/ Forget(b)

(* The end of the process cuts requests off; the browsers keep their       *)
(* cookies.                                                                *)
SessionCrash ==
  /\ boot' = "seed"
  /\ secret' = 0
  /\ auth' = [b \in Browsers |-> Quiet]
  /\ keeper' = IF keeper # NoKeeper /\ auth[keeper].pc # "idle" THEN NoKeeper ELSE keeper
  /\ cutShort' = (cutShort \/ boot = "seedFlag")
  /\ UNCHANGED <<account, cookie, generated, signed, revoked, mixed>>

SessionNext ==
  \/ Boots
  \/ boot = "up" /\ Serves /\ UNCHANGED sessionVars
  \/ (Elsewhere("session") \/ Transaction) /\ UNCHANGED sessionVars
  \/ \E b \in Browsers : SessionRequest(b) \/ SessionStep(b)
  \/ Restart /\ SessionCrash

SessionSpec == ProcessInit /\ SessionInit /\ [][SessionNext]_<<process, sessionVars>>

(***************************************************************************)
(* Properties.                                                             *)
(***************************************************************************)

(* SeedAdmin: "The default password is flagged so the UI can nag the       *)
(* operator to change it."  As long as it is in place the flag is up,      *)
(* whatever writes and reads fail and however changes of the password      *)
(* interleave, with one exception: the process has ended between the two   *)
(* statements that set them.  Later starts find a password and stop there. *)
UnflaggedMeansCutShort ==
  account.hash = Default /\ boot # "seedFlag" /\ account.flag # "1" => cutShort

(* rotateSessionSecret invalidates "every outstanding session token": once *)
(* a change of the password has been answered, no secret that was in use   *)
(* before it signs or verifies a cookie again, nor after a restart, also   *)
(* one that can't read or store the secret.                                *)
RevokedStaysOut == {secret, account.secret} \cap revoked = {}

(* changePassword re-issues the session "so this login stays valid": the   *)
(* browser that changed the password last, if no other change was in the   *)
(* middle of its rotation then, holds the cookie that the portal takes,    *)
(* after a restart, too, until one that can't read the secret and makes a  *)
(* new one.                                                                *)
LoginStaysValid ==
  keeper # NoKeeper /\ auth[keeper].pc = "idle" /\ ~mixed
    => /\ cookie[keeper] \in {0, account.secret}
       /\ secret \in {0, account.secret}

=============================================================================
