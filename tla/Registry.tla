------------------------------ MODULE Registry ------------------------------
(***************************************************************************)
(* The client of image registries (internal/registry/client.go, auth.go)   *)
(* with the credentials that Settings keeps for them (putRegistry and      *)
(* deleteRegistry of internal/httpapi/settings.go): one registry, and a    *)
(* private repository in it.  A bearer token is cached until it expires;   *)
(* it is good for what the credentials that it was got with are good for.  *)
(***************************************************************************)
EXTENDS Process

CONSTANTS
  Callers,  (* the poller, and requests for the tags of an app.            *)
  Editors,  (* each sends one request to Settings at a time.               *)
  Right,    (* the password that the registry takes.                       *)
  Wrong,    (* one that it does not take.                                  *)
  Masked,   (* "********", which stands for the stored password.           *)
  NoCred    (* no credentials are stored; no token is cached.              *)

ASSUME RegistryAssumption ==
  /\ Right \notin {Wrong, Masked, NoCred}
  /\ NoCred \notin {Wrong, Masked}

VARIABLES
  cred,   (* persistent: the password in registry_creds.                   *)
  cache,  (* tokenCache: what the token was got with, or NoCred.           *)
  call,   (* Client.do of each caller.                                     *)
  edit,   (* the editors' requests.                                        *)
  last    (* how each caller's last call has ended.                        *)

registryVars == <<cred, cache, call, edit, last>>

Creds == {Right, Wrong, Masked, NoCred}

(* Tokens: one of an authenticated user, one of an anonymous one, none.    *)
Bearer == {"user", "anonymous", "none"}

RegistryTypeOK ==
  /\ ProcessTypeOK
  /\ cred \in Creds
  /\ cache \in Bearer
  /\ call \in [Callers -> [pc : {"idle", "first", "challenged", "creds", "fetch", "second"},
                           token : Bearer, with : Creds]]
  /\ edit \in [Editors -> [pc : {"idle", "mask", "save", "delete"}, pass : Creds]]
  /\ last \in [Callers -> {"none", "ok", "refused"}]

NoCall == [pc |-> "idle", token |-> "none", with |-> NoCred]

NoEdit == [pc |-> "idle", pass |-> NoCred]

RegistryInit ==
  /\ cred = NoCred
  /\ cache = "none"
  /\ call = [c \in Callers |-> NoCall]
  /\ edit = [e \in Editors |-> NoEdit]
  /\ last = [c \in Callers |-> "none"]

(***************************************************************************)
(* The credentials.                                                        *)
(***************************************************************************)

PutRegistry(e, p) ==
  /\ edit[e].pc = "idle"
  /\ Arrives("registry")
  /\ edit' = [edit EXCEPT ![e] = [pc |-> IF p = Masked THEN "mask" ELSE "save", pass |-> p]]
  /\ UNCHANGED <<cred, cache, call, last>>

(* The mask stands for the stored password; where none is found, it stays. *)
UnmaskCred(e) ==
  /\ edit[e].pc = "mask"
  /\ Statement
  /\ \E found \in Lookup(cred, NoCred) :
       edit' = [edit EXCEPT ![e] = [pc |-> "save", pass |-> IF found = NoCred THEN Masked ELSE found]]
  /\ UNCHANGED <<cred, cache, call, last>>

SaveCred(e) ==
  /\ edit[e].pc = "save"
  /\ Statement
  /\ cred' = edit[e].pass
  /\ edit' = [edit EXCEPT ![e] = NoEdit]
  /\ UNCHANGED <<cache, call, last>>

DeleteRegistry(e) ==
  /\ edit[e].pc = "idle"
  /\ Arrives("registry")
  /\ edit' = [edit EXCEPT ![e].pc = "delete"]
  /\ UNCHANGED <<cred, cache, call, last>>

DeleteCred(e) ==
  /\ edit[e].pc = "delete"
  /\ Statement
  /\ cred' = NoCred
  /\ edit' = [edit EXCEPT ![e] = NoEdit]
  /\ UNCHANGED <<cache, call, last>>

(***************************************************************************)
(* The registry.                                                           *)
(***************************************************************************)

(* The repository is private.                                              *)
Readable(token) == token = "user"

(* The token endpoint gives a token to those who show no credentials, too. *)
Granted(with) ==
  IF with = Right THEN "user" ELSE IF with = NoCred THEN "anonymous" ELSE "none"

(***************************************************************************)
(* Calls of the client: Client.do.                                         *)
(***************************************************************************)

Ended(c, result) ==
  /\ call' = [call EXCEPT ![c] = NoCall]
  /\ last' = [last EXCEPT ![c] = result]

(* ListTags and HeadManifest; newReq takes a token from the cache.         *)
Ask(c) ==
  /\ call[c].pc = "idle"
  /\ serving
  /\ quota["polls"] > 0
  /\ call' = [call EXCEPT ![c].pc = "first", ![c].token = cache]
  /\ UNCHANGED <<process, cred, cache, edit, last>>

FirstAnswer(c) ==
  /\ call[c].pc = "first"
  /\ IF Readable(call[c].token)
     THEN Ended(c, "ok")
     ELSE /\ call' = [call EXCEPT ![c].pc = "challenged"]
          /\ last' = last
  /\ UNCHANGED <<process, cred, cache, edit>>

(* After a 401: a token that is cached is tried (again), ...               *)
Challenged(c) ==
  /\ call[c].pc = "challenged"
  /\ call' = IF cache # "none"
             THEN [call EXCEPT ![c].pc = "second", ![c].token = cache]
             ELSE [call EXCEPT ![c].pc = "creds"]
  /\ UNCHANGED <<process, cred, cache, edit, last>>

(* ... or else one is fetched, with the credentials of the moment, or none *)
(* when they can't be read, ...                                            *)
ReadCreds(c) ==
  /\ call[c].pc = "creds"
  /\ Statement
  /\ \E found \in Lookup(cred, NoCred) :
       call' = [call EXCEPT ![c].pc = "fetch", ![c].with = found]
  /\ UNCHANGED <<cred, cache, edit, last>>

(* ... and cached, if the endpoint does not refuse it.                     *)
FetchToken(c) ==
  LET token == Granted(call[c].with) IN
  /\ call[c].pc = "fetch"
  /\ IF token = "none"
     THEN Ended(c, "refused") /\ cache' = cache
     ELSE /\ cache' = token
          /\ call' = [call EXCEPT ![c].pc = "second", ![c].token = token]
          /\ last' = last
  /\ UNCHANGED <<process, cred, edit>>

SecondAnswer(c) ==
  /\ call[c].pc = "second"
  /\ Ended(c, IF Readable(call[c].token) THEN "ok" ELSE "refused")
  /\ UNCHANGED <<process, cred, cache, edit>>

(* Mutated form: the cache does not look at the time.                      *)
Kept(token) == token

Gone(token) == "none"

(* tokenCache.get: a token whose time has come is not there any more.      *)
Expires ==
  /\ cache # "none"
  /\ cache' = Gone(cache)
  /\ UNCHANGED <<process, cred, call, edit, last>>

(***************************************************************************)
(* The specification.                                                      *)
(***************************************************************************)

RegistryRequest(e) ==
  \/ \E p \in {Right, Wrong, Masked} : PutRegistry(e, p)
  \/ DeleteRegistry(e)

EditStep(e) == UnmaskCred(e) \/ SaveCred(e) \/ DeleteCred(e)

CallStep(c) ==
  Ask(c) \/ FirstAnswer(c) \/ Challenged(c) \/ ReadCreds(c) \/ FetchToken(c) \/ SecondAnswer(c)

RegistryStep == Expires \/ (\E e \in Editors : EditStep(e)) \/ (\E c \in Callers : CallStep(c))

RegistryCrash ==
  /\ cache' = "none"
  /\ call' = [c \in Callers |-> NoCall]
  /\ edit' = [e \in Editors |-> NoEdit]
  /\ UNCHANGED <<cred, last>>

(* A call goes on without the credentials that there are.                  *)
Misreads(c) == ReadCreds(c) /\ call'[c].with # cred

(* Credentials that are right take effect: whatever was cached or being    *)
(* fetched when they were saved (the anonymous token of the polls before,  *)
(* a token of other credentials, one of a call that could not read them),  *)
(* the calls come to succeed once the credentials can be read, although do *)
(* does not fetch a new token while it has one.                            *)
CredsTakeEffect ==
  <>[](cred = Right) /\ <>[][\A c \in Callers : ~Misreads(c)]_registryVars
    => <>[](quota["polls"] > 0 => \A c \in Callers : last[c] = "ok")
=============================================================================
