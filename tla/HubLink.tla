------------------------------- MODULE HubLink -------------------------------
(***************************************************************************)
(* This instance's own connection to a hub, as Settings configures it:     *)
(* putHubConfig (internal/httpapi/agents.go), relay.Manager                *)
(* (internal/relay/manager.go) and the start of the process                *)
(* (cmd/tagalong/main.go), without the environment variables that lock it. *)
(* URL and token are two rows of the settings table.                       *)
(***************************************************************************)
EXTENDS Process

CONSTANTS
  Users,      (* each sends one PUT /api/hub at a time.                    *)
  Hubs,       (* URLs of hubs.                                             *)
  HubTokens,  (* agent tokens.                                             *)
  Mask,       (* "********", which stands for the stored token.            *)
  Empty       (* the empty string.                                         *)

ASSUME HubLinkAssumption ==
  /\ Empty \notin Hubs \cup HubTokens \cup {Mask}
  /\ Mask \notin HubTokens

VARIABLES
  saved,   (* persistent: hub_url and hub_agent_token in settings.         *)
  link,    (* Manager.client: what the connection has been made with.      *)
  put,     (* the users' requests.                                         *)
  tangled  (* history: since a request last began to save alone, another   *)
           (* has joined it, it has saved the URL only, or the process has *)
           (* started without what is saved.                               *)

linkVars == <<saved, link, put, tangled>>

Link == [url : Hubs \cup {Empty}, token : HubTokens \cup {Empty}]

NoLink == [url |-> Empty, token |-> Empty]

PutRequest == [pc : {"idle", "mask", "check", "url", "token", "apply"},
         url : Hubs \cup {Empty}, token : HubTokens \cup {Empty, Mask}]

NoPut == [pc |-> "idle", url |-> Empty, token |-> Empty]

LinkTypeOK ==
  /\ ProcessTypeOK
  /\ saved \in Link
  /\ link \in Link
  /\ put \in [Users -> PutRequest]
  /\ tangled \in BOOLEAN

LinkInit ==
  /\ saved = NoLink
  /\ link = NoLink
  /\ put = [u \in Users |-> NoPut]
  /\ tangled = FALSE

(* Mutated form: no URL leaves the connection alone.                       *)
ConnectedStill(url, token) == IF url = Empty THEN link ELSE [url |-> url, token |-> token]

(* Manager.Apply: the client that there is is cancelled, and a new one     *)
(* started, if there is a URL, all under Manager.mu.                       *)
Connected(url, token) ==
  IF url = Empty THEN NoLink ELSE [url |-> url, token |-> token]

PutHub(u, url, token) ==
  /\ put[u].pc = "idle"
  /\ Arrives("link")
  /\ put' = [put EXCEPT ![u] = [pc    |-> IF token = Mask THEN "mask" ELSE "check",
                                url   |-> url,
                                token |-> token]]
  /\ UNCHANGED <<saved, link, tangled>>

(* The UI echoes the mask where the user has left the token alone.         *)
Unmask(u) ==
  /\ put[u].pc = "mask"
  /\ Statement
  /\ \E token \in Lookup(saved.token, Empty) :
       put' = [put EXCEPT ![u].pc = "check", ![u].token = token]
  /\ UNCHANGED <<saved, link, tangled>>

(* A URL needs a token (else 400), and disconnecting forgets the token.    *)
CheckHub(u) ==
  LET p == put[u] IN
  /\ p.pc = "check"
  /\ put' = [put EXCEPT ![u] =
               IF p.url = Empty THEN [p EXCEPT !.pc = "url", !.token = Empty]
               ELSE IF p.token = Empty THEN NoPut ELSE [p EXCEPT !.pc = "url"]]
  /\ UNCHANGED <<process, saved, link, tangled>>

SaveURL(u) ==
  /\ put[u].pc = "url"
  /\ Statement
  /\ saved' = [saved EXCEPT !.url = put[u].url]
  /\ put' = [put EXCEPT ![u].pc = "token"]
  /\ tangled' = \E w \in Users \ {u} : put[w].pc \in {"token", "apply"}
  /\ link' = link

SaveToken(u) ==
  /\ put[u].pc = "token"
  /\ Statement
  /\ saved' = [saved EXCEPT !.token = put[u].token]
  /\ put' = [put EXCEPT ![u].pc = "apply"]
  /\ UNCHANGED <<link, tangled>>

(* SetSetting fails, and the request with a 500.                           *)
SaveFails(u) ==
  /\ put[u].pc \in {"url", "token"}
  /\ Statement
  /\ put' = [put EXCEPT ![u] = NoPut]
  /\ tangled' = (tangled \/ put[u].pc = "token")
  /\ UNCHANGED <<saved, link>>

Apply(u) ==
  /\ put[u].pc = "apply"
  /\ link' = Connected(put[u].url, put[u].token)
  /\ put' = [put EXCEPT ![u] = NoPut]
  /\ UNCHANGED <<process, saved, tangled>>

LinkRequest(u) ==
  \E url \in Hubs \cup {Empty}, token \in HubTokens \cup {Empty, Mask} : PutHub(u, url, token)

LinkStep(u) ==
  \/ Unmask(u) \/ CheckHub(u) \/ SaveURL(u) \/ SaveToken(u) \/ SaveFails(u) \/ Apply(u)

(* The next process connects with what it reads of what is saved, before   *)
(* it serves anybody.                                                      *)
LinkCrash ==
  /\ \E url \in Lookup(saved.url, Empty), token \in Lookup(saved.token, Empty) :
       /\ link' = Connected(url, token)
       /\ tangled' = ([url |-> url, token |-> token] # saved)
  /\ put' = [u \in Users |-> NoPut]
  /\ saved' = saved

LinkNext ==
  \/ \E u \in Users : LinkRequest(u) \/ LinkStep(u)
  \/ (Serves \/ Elsewhere("link") \/ Transaction) /\ UNCHANGED linkVars
  \/ Restart /\ LinkCrash

LinkSpec == ProcessInit /\ LinkInit /\ [][LinkNext]_<<process, linkVars>>

(* putHubConfig "saves the hub connection and reconnects immediately": the *)
(* instance is connected with what Settings shows and what the next        *)
(* process will connect with, once the requests have ended.  Two that save *)
(* at once, one that saves the URL only, and a start that can't read what  *)
(* is saved can break that; the next request that saves undisturbed mends  *)
(* it, whatever it finds.                                                  *)
LinkIsSaved ==
  (\A u \in Users : put[u].pc = "idle") /\ ~tangled
    => link = IF saved.url = Empty THEN NoLink ELSE saved

=============================================================================
