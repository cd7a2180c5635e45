-------------------------------- MODULE DagLog --------------------------------
(***************************************************************************)
(* The write path of the second server, app/server/server_v2.py with       *)
(* app/server/protocol.py: an event names the heads it was built on, and   *)
(* the heads live in memory (DAGStore), beside the table events.           *)
(*                                                                         *)
(* As in RelayLog all handlers share one sqlite connection: db is what     *)
(* every statement sees, disk what the last commit (anyone's) has covered. *)
(* Here the event loop matters too: a handler reads or extends the DAG in  *)
(* a step of the loop, and its INSERT and COMMIT run later, in the         *)
(* connection's thread, after other handlers' steps of either kind.        *)
(*                                                                         *)
(* An event id is the hash of actor, lamport clock and sorted parent ids   *)
(* (generate_event_id): the triple itself.                                 *)
(***************************************************************************)
EXTENDS Naturals, FiniteSetsExt

CONSTANTS
  Actors,       \* entities (users)
  Objects,      \* contents and links
  Requests,     \* the requests clients may send
  Registered,   \* the actors registered before the behaviour starts
  MaxRequests,  \* bound: requests started in one behaviour
  MaxCrashes    \* bound: crashes of the process in one behaviour

Ops == {"create_entity", "create_content", "create_link", "merge",
        "create_dm", "delete_link"}

Request == [id : Nat, op : Ops, actor : Actors, obj : Actors \cup Objects]

ASSUME RequestsAssumption ==
  /\ Requests \subseteq Request
  /\ Registered \subseteq Actors
  /\ MaxRequests \in Nat /\ MaxCrashes \in Nat
  /\ \A r \in Requests :
       r.obj \in Actors <=> r.op \in {"create_entity", "merge"}

VARIABLES
  db,       \* the tables as the shared connection sees them
  disk,     \* the tables as of the last commit
  dag,      \* storage.dag: the events and heads the process holds in memory
  pc,       \* pc[r]: what request r does next, or how it ended
  draft,    \* draft[r]: the event r has built
  crashes   \* how often the process has crashed

vars == <<db, disk, dag, pc, draft, crashes>>

InFlight == {"insert_entity", "commit_object", "build_event", "insert_event",
             "commit_event", "index_event", "commit_only"}

Ended == {"done", "refused", "failed", "lost"}   \* as in RelayLog

Id(e) == <<e.actor, e.lamport, e.parents>>

\* Ids nest without bound, so parents has no type beyond being given.
IsEvent(e) == /\ e.actor \in Actors
              /\ e.lamport \in Nat \ {0}
              /\ e.obj \in Actors \cup Objects

TypeOK ==
  /\ \A d \in {db, disk} : /\ d.entities \subseteq Actors
                           /\ d.rows \subseteq Objects
                           /\ \A e \in d.events : IsEvent(e)
  /\ \A e \in dag.events : IsEvent(e)
  /\ DOMAIN dag.heads = Actors
  /\ pc \in [Requests -> {"idle"} \cup InFlight \cup Ended]
  /\ DOMAIN draft = Requests
  /\ \A r \in Requests :
       pc[r] \in {"insert_event", "commit_event", "index_event"} =>
         IsEvent(draft[r]) /\ draft[r].actor = r.actor
  /\ crashes \in 0 .. MaxCrashes

Event(r, lamport, parents) ==
  [actor |-> r.actor, lamport |-> lamport, parents |-> parents,
   op |-> IF r.op = "merge" THEN "merge" ELSE "create", obj |-> r.obj]

Genesis(a) == [actor |-> a, lamport |-> 1, parents |-> {},
               op |-> "create", obj |-> a]

-----------------------------------------------------------------------------
(***************************************************************************)
(* DAGStore.                                                               *)
(***************************************************************************)

\* DAGStore.add_event
AddEvent(d, e) ==
  [events |-> d.events \cup {e},
   heads  |-> [d.heads EXCEPT ![e.actor] = (@ \ e.parents) \cup {Id(e)}]]

\* DAGStore.get_heads
Heads(a) == {e \in dag.events : Id(e) \in dag.heads[a]}

NeedsMerge(a) == Cardinality(dag.heads[a]) > 1

ComputeLamport(parents) ==
  IF parents = {} THEN 1 ELSE Max({e.lamport : e \in parents}) + 1

\* Mistake: only actors with events have a set of heads.
LoadKnownActors(events) ==
  [events |-> events,
   heads  |-> [a \in {e.actor : e \in events} |->
                 {Id(e) : e \in {f \in events :
                    /\ f.actor = a
                    /\ \A g \in events : g.actor = a => Id(f) \notin g.parents}}]]

\* _load_dag at start-up adds the rows of events in the order of lamport.  A
\* parent comes before its children, which then take it off the heads: what
\* is left are the events that are nobody's parent.
LoadDag(events) ==
  [events |-> events,
   heads  |-> [a \in Actors |->
                 {Id(e) : e \in {f \in events :
                    /\ f.actor = a
                    /\ \A g \in events : g.actor = a => Id(f) \notin g.parents}}]]

Empty == [entities |-> Registered, rows |-> {},
          events |-> {Genesis(a) : a \in Registered}]

Init ==
  /\ db = Empty
  /\ disk = Empty
  /\ dag = LoadDag(Empty.events)
  /\ pc = [r \in Requests |-> "idle"]
  /\ draft = [r \in Requests |-> Genesis(r.actor)]
  /\ crashes = 0

-----------------------------------------------------------------------------
(***************************************************************************)
(* Steps of a request.                                                     *)
(***************************************************************************)
Step(r, from, to) == /\ pc[r] = from
                     /\ pc' = [pc EXCEPT ![r] = to]

Started == {r \in Requests : pc[r] # "idle"}

Start(r, op, to) == /\ r.op = op
                    /\ Cardinality(Started) < MaxRequests
                    /\ Step(r, "idle", to)

\* require_auth: a session names an entity found in the database.
Authenticated(r) == r.actor \in db.entities

\* create_entity: is there an entity with this key?  (Handles are left out: no
\* two requests ask for the same one.)
CreateEntity(r) ==
  /\ Start(r, "create_entity",
           IF r.actor \in db.entities THEN "refused" ELSE "insert_entity")
  /\ UNCHANGED <<db, disk, dag, draft, crashes>>

\* Storage.create_entity; the primary key refuses a second row.
InsertEntity(r) ==
  /\ Step(r, "insert_entity",
          IF r.actor \in db.entities THEN "failed" ELSE "commit_object")
  /\ db' = [db EXCEPT !.entities = @ \cup {r.actor}]
  /\ UNCHANGED <<disk, dag, draft, crashes>>

\* create_content: INSERT; create_link: INSERT OR REPLACE.
CreateObject(r) ==
  /\ Authenticated(r)
  /\ \E op \in {"create_content", "create_link"} :
       Start(r, op, "commit_object")
  /\ db' = [db EXCEPT !.rows = @ \cup {r.obj}]
  /\ UNCHANGED <<disk, dag, draft, crashes>>

\* create_dm inserts a content and delete_link deletes a link.  Neither builds
\* an event.
CreateDm(r) ==
  /\ Authenticated(r)
  /\ Start(r, "create_dm", "commit_only")
  /\ db' = [db EXCEPT !.rows = @ \cup {r.obj}]
  /\ UNCHANGED <<disk, dag, draft, crashes>>

DeleteLink(r) ==
  /\ Authenticated(r)
  /\ Start(r, "delete_link", "commit_only")
  /\ db' = [db EXCEPT !.rows = @ \ {r.obj}]
  /\ UNCHANGED <<disk, dag, draft, crashes>>

CommitOnly(r) ==
  /\ Step(r, "commit_only", "done")
  /\ disk' = db
  /\ UNCHANGED <<db, dag, draft, crashes>>

\* merge_forks: the answer no_merge_needed, or an event on all the heads.
MergeForks(r) ==
  /\ Authenticated(r)
  /\ Start(r, "merge", IF NeedsMerge(r.actor) THEN "insert_event" ELSE "done")
  /\ draft' = IF NeedsMerge(r.actor)
                THEN [draft EXCEPT ![r] =
                        Event(r, ComputeLamport(Heads(r.actor)),
                              {Id(e) : e \in Heads(r.actor)})]
                ELSE draft
  /\ UNCHANGED <<db, disk, dag, crashes>>

CommitObject(r) ==
  /\ Step(r, "commit_object", "build_event")
  /\ disk' = db
  /\ UNCHANGED <<db, dag, draft, crashes>>

\* Mistake: the clock counts the actor's rows instead of following the heads.
BuildEventByCount(r) ==
  /\ Step(r, "build_event", "insert_event")
  /\ draft' = [draft EXCEPT ![r] =
       Event(r, Cardinality({e \in db.events : e.actor = r.actor}) + 1,
             {Id(e) : e \in Heads(r.actor)})]
  /\ UNCHANGED <<db, disk, dag, crashes>>

\* get_heads, compute_lamport and generate_event_id await nothing, so the event
\* is built in one step of the event loop.  create_entity's is the genesis.
BuildEvent(r) ==
  /\ Step(r, "build_event", "insert_event")
  /\ draft' = [draft EXCEPT ![r] =
       IF r.op = "create_entity"
         THEN Genesis(r.actor)
         ELSE Event(r, ComputeLamport(Heads(r.actor)),
                    {Id(e) : e \in Heads(r.actor)})]
  /\ UNCHANGED <<db, disk, dag, crashes>>

HasId(d, id) == \E e \in d.events : Id(e) = id

\* Mistake: INSERT OR REPLACE.
InsertEventOrReplace(r) ==
  /\ Step(r, "insert_event", "commit_event")
  /\ db' = [db EXCEPT !.events =
               {e \in @ : Id(e) # Id(draft[r])} \cup {draft[r]}]
  /\ UNCHANGED <<disk, dag, draft, crashes>>

\* append_event: the primary key refuses an id that is taken.
InsertEvent(r) ==
  /\ Step(r, "insert_event",
          IF HasId(db, Id(draft[r])) THEN "failed" ELSE "commit_event")
  /\ db' = IF HasId(db, Id(draft[r]))
             THEN db ELSE [db EXCEPT !.events = @ \cup {draft[r]}]
  /\ UNCHANGED <<disk, dag, draft, crashes>>

\* Mistake: append_event indexes the event without waiting for a commit.
CommitEventLater(r) ==
  /\ Step(r, "commit_event", "index_event")
  /\ UNCHANGED <<db, disk, dag, draft, crashes>>

CommitEvent(r) ==
  /\ Step(r, "commit_event", "index_event")
  /\ disk' = db
  /\ UNCHANGED <<db, dag, draft, crashes>>

\* Mistake: append_event leaves the DAG to the next _load_dag.
IndexEventLater(r) ==
  /\ Step(r, "index_event", "done")
  /\ UNCHANGED <<db, disk, dag, draft, crashes>>

\* append_event, after its commit: self.dag.add_event(event)
IndexEvent(r) ==
  /\ Step(r, "index_event", "done")
  /\ dag' = AddEvent(dag, draft[r])
  /\ UNCHANGED <<db, disk, draft, crashes>>

\* Another handler (add_device_key, say) commits the shared connection.
CommitElsewhere ==
  /\ disk # db
  /\ disk' = db
  /\ UNCHANGED <<db, dag, pc, draft, crashes>>

\* The process stops and is started again on the same file.
Crash ==
  /\ crashes < MaxCrashes
  /\ crashes' = crashes + 1
  /\ db' = disk
  /\ dag' = LoadDag(disk.events)
  /\ pc' = [r \in Requests |-> IF pc[r] \in InFlight THEN "lost" ELSE pc[r]]
  /\ UNCHANGED <<disk, draft>>

BeginRequest(r) == \/ CreateEntity(r) \/ CreateObject(r) \/ CreateDm(r)
                   \/ DeleteLink(r) \/ MergeForks(r)

ContinueRequest(r) ==
  \/ InsertEntity(r) \/ CommitOnly(r) \/ CommitObject(r) \/ BuildEvent(r)
  \/ InsertEvent(r) \/ CommitEvent(r) \/ IndexEvent(r)

Next == \/ \E r \in Requests : BeginRequest(r) \/ ContinueRequest(r)
        \/ CommitElsewhere
        \/ Crash

Spec == Init /\ [][Next]_vars

-----------------------------------------------------------------------------
(***************************************************************************)
(* Properties.                                                             *)
(***************************************************************************)

\* Requests of one actor that build on the same heads collide on the id of
\* their events, and all but one are refused: a log has one head.  The server
\* claims the opposite of such a case, a head for either event and a merge of
\* both; BothPostsPreserved, below, is that claim, and a run violates it.  With
\* one head merge_forks never finds anything to merge.
SingleHead == \A a \in Actors : ~ NeedsMerge(a)

\* What GET /api/sync/{actor}/heads answers survives a crash, and an event is
\* missing from the DAG only while the request that wrote it is at work.
IndexFollowsDisk ==
  /\ dag.events \subseteq disk.events
  /\ \A e \in db.events \ dag.events :
       \E r \in Requests : /\ pc[r] \in {"commit_event", "index_event"}
                           /\ draft[r] = e

\* An answered request keeps the event it built.
AckedKeepsEvent ==
  \A r \in Requests :
    /\ pc[r] = "done"
    /\ r.op \in {"create_entity", "create_content", "create_link"}
    => draft[r] \in disk.events

Quiet(a) == \A r \in Requests : r.actor = a => pc[r] \notin InFlight

\* However many requests were refused or lost in crashes, the actor's next
\* event finds its id free.
NeverStuck ==
  \A a \in Actors : Quiet(a) =>
    ~ HasId(db, <<a, ComputeLamport(Heads(a)), {Id(e) : e \in Heads(a)}>>)

\* "Content (post) | Both posts preserved, ordered by lamport", say the merge
\* rules of the specification, which lets logs fork and derives every state
\* from them: whatever answer a post got, unless a crash cut it off, its event
\* is in the log.
BothPostsPreserved ==
  \A r \in Requests :
    r.op = "create_content" /\ pc[r] \in {"done", "failed"} =>
      \E e \in db.events : e.actor = r.actor /\ e.obj = r.obj

(***************************************************************************)
(* The durable part of every log is an append-only history.                *)
(***************************************************************************)
Entry == [op : {"create", "merge"}, obj : Actors \cup Objects]

Depth(a) == Cardinality({e \in disk.events : e.actor = a})

EventAt(a, n) == CHOOSE e \in disk.events : e.actor = a /\ e.lamport = n

History == [a \in Actors |->
              [n \in 1 .. Depth(a) |-> [op  |-> EventAt(a, n).op,
                                        obj |-> EventAt(a, n).obj]]]

Durable == INSTANCE AppendOnlyLog WITH log <- History, Entries <- Entry

\* Implementation of AppendOnlyLog, as of the first server.
AppendOnly == Durable!Spec
=============================================================================
