------------------------------- MODULE Portal -------------------------------
(***************************************************************************)
(* The parts of tagalong behind the portal, in one process and on one      *)
(* database: the apps (Apps), the login (Session), the connection to a hub *)
(* (HubLink) and the client of the registries (Registry).  They share the  *)
(* store's connection, start before the first request, and end together.   *)
(***************************************************************************)
EXTENDS Apps, Session, HubLink, Registry

vars == <<process, appsVars, sessionVars, linkVars, registryVars>>

TypeOK == AppsTypeOK /\ SessionTypeOK /\ LinkTypeOK /\ RegistryTypeOK

Init == ProcessInit /\ AppsInit /\ SessionInit /\ LinkInit /\ RegistryInit

AppsActs ==
  /\ \E h \in Handlers : AppsRequest(h) \/ AppsStep(h)
  /\ UNCHANGED <<sessionVars, linkVars, registryVars>>

SessionActs ==
  /\ \E b \in Browsers : SessionRequest(b) \/ SessionStep(b)
  /\ UNCHANGED <<appsVars, linkVars, registryVars>>

LinkActs ==
  /\ \E u \in Users : LinkRequest(u) \/ LinkStep(u)
  /\ UNCHANGED <<appsVars, sessionVars, registryVars>>

RegistryActs ==
  /\ RegistryStep \/ \E e \in Editors : RegistryRequest(e)
  /\ UNCHANGED <<appsVars, sessionVars, linkVars>>

(* main: SeedAdmin, the saved connection to the hub, NewServer, and then   *)
(* the listener.                                                           *)
Starts ==
  /\ Boots \/ (boot = "up" /\ Serves /\ UNCHANGED sessionVars)
  /\ UNCHANGED <<appsVars, linkVars, registryVars>>

Crash == Restart /\ AppsCrash /\ SessionCrash /\ LinkCrash /\ RegistryCrash

Next == AppsActs \/ SessionActs \/ LinkActs \/ RegistryActs \/ Starts \/ Crash

Spec == Init /\ [][Next]_vars

(* The process starts; a handler that waits for the connection gets it:    *)
(* sql.DB gives it to some waiter each time it is given back; the poller   *)
(* goes on polling, and time goes on.                                      *)
Fairness ==
  /\ WF_vars(Starts)
  /\ \A h \in Handlers :
       SF_vars(AppsStep(h) /\ UNCHANGED <<sessionVars, linkVars, registryVars>>)
  /\ \A c \in Callers : WF_vars(CallStep(c) /\ UNCHANGED <<appsVars, sessionVars, linkVars>>)
  /\ WF_vars(Expires /\ UNCHANGED <<appsVars, sessionVars, linkVars>>)

FairSpec == Spec /\ Fairness
=============================================================================
