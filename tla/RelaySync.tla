------------------------------ MODULE RelaySync ------------------------------
(***************************************************************************)
(* RelayLog with the peers and readers that pull an actor's events over    *)
(* GET /api/federation/sync/{entity_id}.  The query runs on the shared     *)
(* connection, so it sees events that no commit has covered yet.           *)
(***************************************************************************)
EXTENDS RelayLog

VARIABLE served   \* every event any peer has been given

syncVars == <<vars, served>>

SyncInit == Init /\ served = {}

\* sync_entity: storage.get_events_by_actor, all rows of the actor in one read.
SyncEntity(a) ==
  /\ served' = served \cup {e \in db.events : e.actor = a}
  /\ UNCHANGED vars

SyncNext == \/ Next /\ UNCHANGED served
            \/ \E a \in Actors : SyncEntity(a)

SyncSpec == SyncInit /\ [][SyncNext]_syncVars

\* What peers hold of a log is one history: no two different events were ever
\* served under one id.  specs/MESH_PROTOCOL_v1.1.md: "Events are immutable -
\* Once written, events cannot be changed".
ServedEventsImmutable ==
  \A e, f \in served : e.actor = f.actor /\ e.seq = f.seq => e = f
=============================================================================
