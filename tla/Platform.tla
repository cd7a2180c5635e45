-------------------------------- MODULE Platform --------------------------------
(***************************************************************************)
(* Whatever does not take part in the relay's network: the services beside *)
(* it, and the libraries of the repository, four simulators of earlier     *)
(* protocols (simulators/legacy) and three stores (implementations), each  *)
(* a program by itself.  A behaviour is one of one of them.                *)
(***************************************************************************)
EXTENDS Services, RelaySim, ViewSim, HolonSim, ReplicaSim, Stores

VARIABLE library  \* the library that runs in this behaviour

Simulators == {"relay_v1.4.1", "relay_v2", "holon_v4", "holon_v3"}

libVars == <<library, relaySimVars, viewSimVars, holonVars, repVars, storeVars>>

LibTypeOK ==
  /\ library \in Simulators \cup {"store", "none"}
  /\ RelaySimTypeOK /\ ViewSimTypeOK /\ HolonTypeOK /\ RepTypeOK /\ StoreTypeOK

\* Which scenario a library that does not run has does not matter.
LibInit ==
  /\ library \in Simulators \cup {"store", "none"}
  /\ RelaySimInit /\ (library # "relay_v1.4.1" => scenario = CHOOSE s \in SimScenarios : TRUE)
  /\ ViewSimInit /\ (library # "relay_v2" => doing = CHOOSE s \in ViewScenarios : TRUE)
  /\ HolonInit /\ (library # "holon_v4" => holonDoing = CHOOSE s \in HolonScenarios : TRUE)
  /\ RepInit /\ (library # "holon_v3" => repDoing = CHOOSE s \in RepScenarios : TRUE)
  /\ StoreInit /\ (library # "store" => storeRun = CHOOSE s \in StoreTraffic : TRUE)

LibNext ==
  /\ UNCHANGED library
  /\ \/ /\ library = "relay_v1.4.1" /\ RelaySimNext
        /\ UNCHANGED <<viewSimVars, holonVars, repVars, storeVars>>
     \/ /\ library = "relay_v2" /\ ViewSimNext
        /\ UNCHANGED <<relaySimVars, holonVars, repVars, storeVars>>
     \/ /\ library = "holon_v4" /\ HolonNext
        /\ UNCHANGED <<relaySimVars, viewSimVars, repVars, storeVars>>
     \/ /\ library = "holon_v3" /\ RepNext
        /\ UNCHANGED <<relaySimVars, viewSimVars, holonVars, storeVars>>
     \/ /\ library = "store" /\ StoresNext
        /\ UNCHANGED <<relaySimVars, viewSimVars, holonVars, repVars>>

\* A service or a library
platformVars == <<vars, libVars>>

PlatformTypeOK == TypeOK /\ LibTypeOK

PlatformInit == Init /\ LibInit /\ (service = "none" <=> library # "none")

PlatformNext ==
  \/ Next /\ UNCHANGED libVars
  \/ service = "none" /\ LibNext /\ UNCHANGED vars

PlatformSpec == PlatformInit /\ [][PlatformNext]_platformVars

-----------------------------------------------------------------------------
\* Whoever recomputes a feed or a view from its definition and what was claimed of
\* its sources gets what was claimed.
ClaimsRecompute ==
  /\ library = "relay_v1.4.1" => FeedsRecompute
  /\ library = "relay_v2" => ViewsRecompute
  /\ library = "holon_v4" => HolonViewsHold

\* What agents remember having done is on record, and what replicas hold is a part
\* of it, in its order; an action was asked for and committed to before it was done.
RecordsAgree ==
  /\ library = "relay_v1.4.1" => ActionsVerify /\ ActorsRemember
  /\ library = "relay_v2" => SubscribersRemember
  /\ library = "holon_v4" => HolonsRemember
  /\ library = "holon_v3" => ReplicasFollow /\ AgentsAreOnRecord
=============================================================================
