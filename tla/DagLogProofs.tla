----------------------------- MODULE DagLogProofs -----------------------------
(***************************************************************************)
(* Theorems about DagLog for every set of actors and requests, any number  *)
(* of requests in progress and any number of crashes.                      *)
(*                                                                         *)
(* All of them rest on one fact: an event that is not in the DAG yet was   *)
(* built on the actor's present heads (Pending), and so was every event a  *)
(* request is about to insert, unless its id is taken (Drafted).           *)
(***************************************************************************)
EXTENDS DagLog, Sequences, FiniteSetTheorems, SequenceTheorems, TLAPS

Writing == {"commit_event", "index_event"}

\* t is the last event of a in the DAG.
IsTop(t, a) == /\ t \in dag.events
               /\ t.actor = a
               /\ dag.heads[a] = {Id(t)}
               /\ \A e \in dag.events : e.actor = a => e.lamport <= t.lamport

OneHead ==
  \A a \in Actors : \/ /\ dag.heads[a] = {}
                       /\ \A e \in dag.events : e.actor # a
                    \/ \E t \in dag.events : IsTop(t, a)

\* e would come next in its actor's log.
ComesNext(e) == /\ e.parents = dag.heads[e.actor]
                /\ \/ dag.heads[e.actor] = {} /\ e.lamport = 1
                   \/ \E t \in dag.events :
                        IsTop(t, e.actor) /\ e.lamport = t.lamport + 1

\* The parents of an event are earlier events, and all events but the top have
\* a child.
Linked ==
  /\ \A e \in dag.events : \A id \in e.parents :
       \E p \in dag.events : /\ Id(p) = id /\ p.actor = e.actor
                             /\ p.lamport < e.lamport
  /\ \A e \in dag.events :
       \/ Id(e) \in dag.heads[e.actor]
       \/ \E g \in dag.events : g.actor = e.actor /\ Id(e) \in g.parents

\* A log that has events has its root.
Rooted ==
  \A e \in dag.events : \E g \in dag.events : Id(g) = <<e.actor, 1, {}>>

\* The primary key of events.
UniqueIds == \A e, f \in db.events : Id(e) = Id(f) => e = f

Stored == dag.events \subseteq disk.events /\ disk.events \subseteq db.events

Pending == \A e \in db.events \ dag.events : ComesNext(e)

Drafted == \A r \in Requests : pc[r] = "insert_event" =>
             ComesNext(draft[r]) \/ HasId(db, Id(draft[r]))

Owned == \A e \in db.events \ dag.events :
           \E r \in Requests : pc[r] \in Writing /\ draft[r] = e

Writers ==
  /\ \A r \in Requests : pc[r] \in Writing =>
       draft[r] \in db.events \ dag.events
  /\ \A r \in Requests : pc[r] = "index_event" => draft[r] \in disk.events
  /\ \A r, s \in Requests :
       pc[r] \in Writing /\ pc[s] \in Writing /\ draft[r] = draft[s] => r = s

Logged == {"create_entity", "create_content", "create_link"}

\* create_dm and delete_link never answer for an event.
Unlogged == \A r \in Requests : pc[r] = "commit_only" => r.op \notin Logged

DagInv == /\ TypeOK
          /\ OneHead /\ Linked /\ Rooted /\ UniqueIds /\ Stored
          /\ Pending /\ Drafted /\ Owned /\ Writers
          /\ Unlogged /\ AckedKeepsEvent

(***************************************************************************)
(* Heads.                                                                  *)
(***************************************************************************)

\* What the handlers compute from the heads of an actor.
LEMMA NextPlace ==
  ASSUME TypeOK, OneHead, NEW a \in Actors
  PROVE  /\ {Id(e) : e \in Heads(a)} = dag.heads[a]
         /\ ~ NeedsMerge(a)
         /\ \/ /\ dag.heads[a] = {}
               /\ ComputeLamport(Heads(a)) = 1
            \/ \E t \in dag.events : /\ IsTop(t, a)
                                     /\ ComputeLamport(Heads(a)) = t.lamport + 1
<1>1. CASE dag.heads[a] = {}
  <2>1. Heads(a) = {}
    BY <1>1 DEF Heads
  <2>2. Cardinality(dag.heads[a]) = 0
    BY <1>1, FS_EmptySet
  <2> QED
    BY <1>1, <2>1, <2>2 DEF NeedsMerge, ComputeLamport
<1>2. ASSUME NEW t \in dag.events, IsTop(t, a)
      PROVE  /\ {Id(e) : e \in Heads(a)} = dag.heads[a]
             /\ ~ NeedsMerge(a)
             /\ ComputeLamport(Heads(a)) = t.lamport + 1
  <2>1. t \in Heads(a) /\ \A e \in Heads(a) : Id(e) = Id(t)
    BY <1>2 DEF Heads, IsTop
  <2>2. \A e \in Heads(a) : e.lamport = t.lamport
    BY <2>1 DEF Id
  <2>3. {e.lamport : e \in Heads(a)} = {t.lamport} /\ t.lamport \in Nat
    BY <2>1, <2>2, <1>2 DEF TypeOK, IsEvent
  <2>4. Max({t.lamport}) = t.lamport
    BY <2>3 DEF Max
  <2>5. Cardinality(dag.heads[a]) = 1
    BY <1>2, FS_Singleton DEF IsTop
  <2>6. {Id(e) : e \in Heads(a)} = {Id(t)}
    BY <2>1
  <2>7. ComputeLamport(Heads(a)) = t.lamport + 1
    BY <2>1, <2>3, <2>4 DEF ComputeLamport
  <2>8. ~ NeedsMerge(a)
    BY <2>5 DEF NeedsMerge
  <2> QED
    BY <1>2, <2>6, <2>7, <2>8 DEF IsTop
<1> QED
  BY <1>1, <1>2 DEF OneHead

\* An event a handler builds comes next in its actor's log.
LEMMA BuiltComesNext ==
  ASSUME TypeOK, OneHead, NEW r \in Requests, r.actor \in Actors,
         r.obj \in Actors \cup Objects
  PROVE  LET e == Event(r, ComputeLamport(Heads(r.actor)),
                        {Id(h) : h \in Heads(r.actor)})
         IN  ComesNext(e) /\ IsEvent(e) /\ e.actor = r.actor
<1> DEFINE e == Event(r, ComputeLamport(Heads(r.actor)),
                      {Id(h) : h \in Heads(r.actor)})
<1>1. /\ e.actor = r.actor /\ e.obj = r.obj
      /\ e.lamport = ComputeLamport(Heads(r.actor))
      /\ e.parents = {Id(h) : h \in Heads(r.actor)}
  BY DEF Event
<1> HIDE DEF e
<1>2. ComesNext(e)
  BY <1>1, NextPlace DEF ComesNext
<1>3. e.lamport \in Nat \ {0}
  BY <1>2 DEF ComesNext, TypeOK, IsEvent
<1> QED
  BY <1>1, <1>2, <1>3 DEF e, IsEvent

\* Two events that would both come next in one log have the same id.
LEMMA SameNextId ==
  ASSUME NEW e, NEW f, ComesNext(e), ComesNext(f), e.actor = f.actor
  PROVE  Id(e) = Id(f)
<1>1. e.parents = f.parents
  BY DEF ComesNext
<1>2. e.lamport = f.lamport
  <2>1. CASE dag.heads[e.actor] = {}
    BY <2>1 DEF ComesNext, IsTop
  <2>2. CASE dag.heads[e.actor] # {}
    <3>1. PICK t \in dag.events : IsTop(t, e.actor) /\ e.lamport = t.lamport + 1
      BY <2>2 DEF ComesNext
    <3>2. PICK u \in dag.events : IsTop(u, e.actor) /\ f.lamport = u.lamport + 1
      BY <2>2 DEF ComesNext
    <3>3. Id(t) = Id(u)
      BY <3>1, <3>2 DEF IsTop
    <3>4. t.lamport = u.lamport
      BY <3>3 DEF Id
    <3> QED
      BY <3>1, <3>2, <3>4
  <2> QED
    BY <2>1, <2>2
<1> QED
  BY <1>1, <1>2 DEF Id

(***************************************************************************)
(* The invariant holds initially.                                          *)
(***************************************************************************)

\* LoadDag finds one head when the table is a DAG and what comes next to it.
LEMMA InitDagInv == Init => DagInv
<1> SUFFICES ASSUME Init PROVE DagInv
  OBVIOUS
<1> USE DEF Init, Empty
<1>1. /\ dag.events = {Genesis(a) : a \in Registered}
      /\ \A a \in Actors : dag.heads[a] =
           {Id(e) : e \in {f \in dag.events :
             /\ f.actor = a
             /\ \A g \in dag.events : g.actor = a => Id(f) \notin g.parents}}
      /\ DOMAIN dag.heads = Actors
  BY DEF LoadDag
<1>2. \A a : /\ Genesis(a).actor = a /\ Genesis(a).lamport = 1
             /\ Genesis(a).parents = {} /\ Genesis(a).obj = a
  BY DEF Genesis
<1>3. \A a \in Actors : IF a \in Registered THEN dag.heads[a] = {Id(Genesis(a))}
                                            ELSE dag.heads[a] = {}
  <2> SUFFICES ASSUME NEW a \in Actors
               PROVE  IF a \in Registered THEN dag.heads[a] = {Id(Genesis(a))}
                                          ELSE dag.heads[a] = {}
    OBVIOUS
  <2> DEFINE Last == {f \in dag.events :
                /\ f.actor = a
                /\ \A g \in dag.events : g.actor = a => Id(f) \notin g.parents}
  <2>1. \A g \in dag.events : g.parents = {} /\ g = Genesis(g.actor)
                              /\ g.actor \in Registered
    BY <1>1, <1>2
  <2>2. Last = IF a \in Registered THEN {Genesis(a)} ELSE {}
    BY <1>1, <1>2, <2>1
  <2>3. dag.heads[a] = {Id(e) : e \in Last}
    BY <1>1
  <2> HIDE DEF Last
  <2>4. CASE a \in Registered
    BY <2>2, <2>3, <2>4
  <2>5. CASE a \notin Registered
    BY <2>2, <2>3, <2>5
  <2> QED
    BY <2>4, <2>5
<1>4. \A a \in Registered : a \in Actors
  BY RequestsAssumption
<1>5. OneHead
  <2>1. \A a \in Actors : a \in Registered => IsTop(Genesis(a), a)
    BY <1>1, <1>2, <1>3 DEF IsTop
  <2>2. \A a \in Actors : a \notin Registered =>
          dag.heads[a] = {} /\ \A e \in dag.events : e.actor # a
    BY <1>1, <1>2, <1>3
  <2>3. \A a \in Registered : Genesis(a) \in dag.events
    BY <1>1
  <2> QED
    BY <2>1, <2>2, <2>3 DEF OneHead
<1>6. Linked
  BY <1>1, <1>2, <1>3, <1>4 DEF Linked
<1>7. UniqueIds
  BY <1>1, <1>2 DEF UniqueIds, Id
<1>8. TypeOK
  <2>1. \A e \in db.events : IsEvent(e)
    BY <1>1, <1>2, <1>4 DEF IsEvent
  <2> QED
    BY <1>1, <2>1, RequestsAssumption DEF TypeOK
<1>9. Rooted
  <2>1. \A e \in dag.events : Id(e) = <<e.actor, 1, {}>>
    BY <1>1, <1>2 DEF Id
  <2> QED
    BY <2>1 DEF Rooted
<1> QED
  BY <1>1, <1>5, <1>6, <1>7, <1>8, <1>9
  DEF DagInv, Stored, Pending, Drafted, Owned, Writers, Writing,
      Unlogged, AckedKeepsEvent

(***************************************************************************)
(* Steps that leave the events alone.                                      *)
(***************************************************************************)
\* A step that adds no event keeps the invariant, if the event it builds (if
\* any) comes next and no request's write is forgotten.
LEMMA FrameDagInv ==
  ASSUME DagInv, TypeOK', dag' = dag, db'.events = db.events,
         disk' = disk \/ disk' = db,
         \A r \in Requests :
           /\ pc'[r] = "insert_event" =>
                \/ pc[r] = "insert_event" /\ draft'[r] = draft[r]
                \/ (ComesNext(draft[r]) \/ HasId(db, Id(draft[r])))'
           /\ pc'[r] = "commit_only" => pc[r] = "commit_only" \/ r.op \notin Logged
           /\ pc'[r] \in Writing => pc[r] \in Writing
           /\ pc[r] \in Writing => pc'[r] \in Writing /\ draft'[r] = draft[r]
           /\ pc'[r] = "index_event" => pc[r] = "index_event" \/ disk' = db
           /\ pc'[r] = "done" /\ r.op \in Logged =>
                pc[r] = "done" /\ draft'[r] = draft[r]
  PROVE  DagInv'
<1>1. OneHead' /\ Linked' /\ Rooted'
  BY DEF DagInv, OneHead, IsTop, Linked, Rooted
<1>2. UniqueIds' /\ Stored'
  BY DEF DagInv, UniqueIds, Stored
<1>3. \A e : ComesNext(e) => ComesNext(e)'
  BY DEF ComesNext, IsTop
<1>4. Pending'
  BY <1>3 DEF DagInv, Pending
<1>5. Drafted'
  <2> SUFFICES ASSUME NEW r \in Requests, pc'[r] = "insert_event"
               PROVE  ComesNext(draft[r])' \/ HasId(db, Id(draft[r]))'
    BY DEF Drafted
  <2>1. CASE (ComesNext(draft[r]) \/ HasId(db, Id(draft[r])))'
    BY <2>1
  <2>2. CASE pc[r] = "insert_event" /\ draft'[r] = draft[r]
    <3>1. ComesNext(draft[r]) \/ HasId(db, Id(draft[r]))
      BY <2>2 DEF DagInv, Drafted
    <3> QED
      BY <2>2, <3>1 DEF HasId, ComesNext, IsTop
  <2> QED
    BY <2>1, <2>2
<1>6. Owned'
  BY DEF DagInv, Owned
<1>7. Writers'
  <2>1. \A r \in Requests : pc'[r] \in Writing =>
          draft'[r] \in db'.events \ dag'.events
    BY DEF DagInv, Writers
  <2>2. \A r \in Requests : pc'[r] = "index_event" => draft'[r] \in disk'.events
    BY <2>1 DEF DagInv, Writers, Stored, Writing
  <2>3. \A r, s \in Requests :
          pc'[r] \in Writing /\ pc'[s] \in Writing /\ draft'[r] = draft'[s]
            => r = s
    BY DEF DagInv, Writers
  <2> QED
    BY <2>1, <2>2, <2>3 DEF Writers
<1>8. Unlogged' /\ AckedKeepsEvent'
  BY DEF DagInv, Unlogged, AckedKeepsEvent, Stored, Logged
<1> QED
  BY <1>1, <1>2, <1>4, <1>5, <1>6, <1>7, <1>8 DEF DagInv

\* The first step of a request adds no event.
LEMMA BeginDagInv ==
  ASSUME DagInv, NEW r \in Requests, BeginRequest(r)
  PROVE  DagInv'
<1> USE DEF Start, Step, Writing, Logged
<1>0. r.actor \in Actors /\ r.obj \in Actors \cup Objects /\ TypeOK
  BY RequestsAssumption DEF Request, DagInv
<1>1. CASE CreateEntity(r)
  <2>1. TypeOK'
    BY <1>0, <1>1 DEF CreateEntity, TypeOK, InFlight, Ended, IsEvent
  <2> QED
    BY <1>0, <1>1, <2>1, FrameDagInv DEF CreateEntity, TypeOK
<1>2. CASE CreateObject(r)
  <2>1. r.obj \in Objects
    BY <1>0, <1>2, RequestsAssumption DEF CreateObject
  <2>2. /\ db'.events = db.events /\ db'.entities = db.entities
        /\ db'.rows = db.rows \cup {r.obj}
        /\ dag' = dag /\ disk' = disk /\ draft' = draft /\ crashes' = crashes
        /\ pc' = [pc EXCEPT ![r] = "commit_object"]
    BY <1>2 DEF CreateObject
  <2>3. TypeOK'
    BY <1>0, <2>1, <2>2 DEF TypeOK, InFlight, Ended, IsEvent
  <2> QED
    BY <1>0, <1>2, <2>2, <2>3, FrameDagInv DEF CreateObject, TypeOK
<1>3. CASE CreateDm(r)
  <2>1. r.obj \in Objects
    BY <1>0, <1>3, RequestsAssumption DEF CreateDm
  <2>2. /\ db'.events = db.events /\ db'.entities = db.entities
        /\ db'.rows = db.rows \cup {r.obj}
        /\ dag' = dag /\ disk' = disk /\ draft' = draft /\ crashes' = crashes
        /\ pc' = [pc EXCEPT ![r] = "commit_only"]
    BY <1>3 DEF CreateDm
  <2>3. TypeOK'
    BY <1>0, <2>1, <2>2 DEF TypeOK, InFlight, Ended, IsEvent
  <2> QED
    BY <1>0, <1>3, <2>2, <2>3, FrameDagInv DEF CreateDm, TypeOK
<1>4. CASE DeleteLink(r)
  <2>2. /\ db'.events = db.events /\ db'.entities = db.entities
        /\ db'.rows = db.rows \ {r.obj}
        /\ dag' = dag /\ disk' = disk /\ draft' = draft /\ crashes' = crashes
        /\ pc' = [pc EXCEPT ![r] = "commit_only"]
    BY <1>4 DEF DeleteLink
  <2>3. TypeOK'
    BY <1>0, <2>2 DEF TypeOK, InFlight, Ended, IsEvent
  <2> QED
    BY <1>0, <1>4, <2>2, <2>3, FrameDagInv DEF DeleteLink, TypeOK
<1>5. CASE MergeForks(r)
  \* There is one head at most: nothing to merge.
  <2>1. ~ NeedsMerge(r.actor)
    BY <1>0, NextPlace DEF DagInv
  <2>2. /\ UNCHANGED <<db, disk, dag, draft, crashes>>
        /\ pc' = [pc EXCEPT ![r] = "done"] /\ r.op = "merge"
        /\ pc[r] = "idle"
    BY <1>5, <2>1 DEF MergeForks
  <2>3. TypeOK'
    BY <1>0, <2>2 DEF TypeOK, InFlight, Ended, IsEvent
  <2> QED
    BY <1>0, <2>2, <2>3, FrameDagInv DEF TypeOK
<1> QED
  BY <1>1, <1>2, <1>3, <1>4, <1>5 DEF BeginRequest

(***************************************************************************)
(* Steps that touch the events.                                            *)
(***************************************************************************)

\* An id that is free belongs to an event that comes next.
LEMMA InsertDagInv ==
  ASSUME DagInv, NEW r \in Requests, InsertEvent(r),
         ~ HasId(db, Id(draft[r]))
  PROVE  DagInv'
<1>1. /\ db'.events = db.events \cup {draft[r]}
      /\ db'.entities = db.entities /\ db'.rows = db.rows
      /\ UNCHANGED <<disk, dag, draft, crashes>>
      /\ pc[r] = "insert_event"
      /\ pc' = [pc EXCEPT ![r] = "commit_event"]
  BY DEF InsertEvent, Step
<1>2. ComesNext(draft[r])
  BY <1>1 DEF DagInv, Drafted
<1>3. draft[r] \notin db.events
  BY DEF HasId
<1>4. TypeOK'
  BY <1>1 DEF DagInv, TypeOK, InFlight
<1>5. OneHead' /\ Linked' /\ Rooted'
  BY <1>1 DEF DagInv, OneHead, IsTop, Linked, Rooted
<1>6. UniqueIds' /\ Stored'
  BY <1>1 DEF DagInv, UniqueIds, Stored, HasId
<1>7. \A e : ComesNext(e) => ComesNext(e)'
  BY <1>1 DEF ComesNext, IsTop
<1>8. Pending'
  BY <1>1, <1>2, <1>7 DEF DagInv, Pending
<1>9. Drafted'
  <2> SUFFICES ASSUME NEW s \in Requests, pc'[s] = "insert_event"
               PROVE  ComesNext(draft[s])' \/ HasId(db, Id(draft[s]))'
    BY DEF Drafted
  <2>1. pc[s] = "insert_event"
    BY <1>1 DEF DagInv, TypeOK
  <2>2. ComesNext(draft[s]) \/ HasId(db, Id(draft[s]))
    BY <2>1 DEF DagInv, Drafted
  <2> QED
    BY <1>1, <1>7, <2>2 DEF HasId
<1>10. \A s \in Requests : /\ pc'[s] \in Writing <=> pc[s] \in Writing \/ s = r
                           /\ pc[s] \in Writing => s # r
  BY <1>1 DEF DagInv, TypeOK, Writing
<1>11. Owned'
  BY <1>1, <1>10 DEF DagInv, Owned
<1>12. Writers'
  <2>1. draft[r] \notin dag.events
    BY <1>3 DEF DagInv, Stored
  <2>2. \A s \in Requests : pc'[s] = "index_event" => pc[s] = "index_event"
    BY <1>1 DEF DagInv, TypeOK
  <2>3. \A s \in Requests : pc[s] \in Writing => draft[s] # draft[r]
    BY <1>3 DEF DagInv, Writers
  <2> QED
    BY <1>1, <1>10, <2>1, <2>2, <2>3 DEF DagInv, Writers
<1>13. Unlogged' /\ AckedKeepsEvent'
  BY <1>1 DEF DagInv, TypeOK, Unlogged, AckedKeepsEvent
<1> QED
  BY <1>4, <1>5, <1>6, <1>8, <1>9, <1>11, <1>12, <1>13 DEF DagInv

\* The event that joins the DAG becomes the top of its actor's log.
LEMMA IndexDagInv ==
  ASSUME DagInv, NEW r \in Requests, IndexEvent(r)
  PROVE  DagInv'
<1>0. PICK e : e = draft[r]
  OBVIOUS
<1> DEFINE a == e.actor
<1>1. /\ dag'.events = dag.events \cup {e}
      /\ dag'.heads = [dag.heads EXCEPT ![a] = (@ \ e.parents) \cup {Id(e)}]
      /\ UNCHANGED <<db, disk, draft, crashes>>
      /\ pc[r] = "index_event"
      /\ pc' = [pc EXCEPT ![r] = "done"]
  BY <1>0 DEF IndexEvent, Step, AddEvent
<1>2. e \in db.events /\ e \notin dag.events /\ e \in disk.events
  BY <1>0, <1>1 DEF DagInv, Writers, Writing
<1>3. ComesNext(e)
  BY <1>2 DEF DagInv, Pending
<1>4. a \in Actors /\ IsEvent(e)
  BY <1>2 DEF DagInv, TypeOK, IsEvent
<1>5. /\ DOMAIN dag'.heads = Actors
      /\ dag'.heads[a] = {Id(e)}
      /\ \A b \in Actors : b # a => dag'.heads[b] = dag.heads[b]
  BY <1>1, <1>3, <1>4 DEF DagInv, TypeOK, ComesNext
<1>6. TypeOK'
  BY <1>1, <1>4, <1>5 DEF DagInv, TypeOK, InFlight, Ended
<1>7. \A f \in dag.events : f.lamport \in Nat /\ f.actor \in Actors
  BY DEF DagInv, TypeOK, IsEvent
<1>8. \A f \in dag.events : f.actor = a => f.lamport < e.lamport
  <2>1. CASE dag.heads[a] = {}
    BY <1>4, <2>1 DEF DagInv, OneHead, IsTop
  <2>2. CASE dag.heads[a] # {}
    BY <1>3, <1>7, <2>2 DEF ComesNext, IsTop
  <2> QED
    BY <2>1, <2>2
<1>9. OneHead'
  <2>1. e \in dag'.events
    BY <1>1
  <2>2. \A f \in dag'.events : f.actor = a => f.lamport <= e.lamport
    BY <1>1, <1>4, <1>7, <1>8 DEF IsEvent
  <2>3. \E t \in dag'.events : IsTop(t, a)'
    BY <1>5, <2>1, <2>2 DEF IsTop
  <2>4. \A b \in Actors : b # a =>
          \/ dag'.heads[b] = {} /\ \A f \in dag'.events : f.actor # b
          \/ \E t \in dag'.events : IsTop(t, b)'
    BY <1>1, <1>5 DEF DagInv, OneHead, IsTop
  <2> QED
    BY <2>3, <2>4 DEF OneHead
<1>10. Linked'
  <2>1. \A id \in e.parents :
          \E p \in dag.events : /\ Id(p) = id /\ p.actor = e.actor
                                /\ p.lamport < e.lamport
    BY <1>3, <1>8 DEF ComesNext, IsTop
  <2>2. \A f \in dag'.events :
          \/ Id(f) \in dag'.heads[f.actor]
          \/ \E g \in dag'.events : g.actor = f.actor /\ Id(f) \in g.parents
    <3> SUFFICES ASSUME NEW f \in dag.events
                 PROVE  \/ Id(f) \in dag'.heads[f.actor]
                        \/ \E g \in dag'.events :
                             g.actor = f.actor /\ Id(f) \in g.parents
      BY <1>1, <1>5
    <3>1. CASE Id(f) \in dag.heads[f.actor]
      BY <1>1, <1>3, <1>5, <1>7, <3>1 DEF ComesNext
    <3>2. CASE \E g \in dag.events : g.actor = f.actor /\ Id(f) \in g.parents
      BY <1>1, <3>2
    <3> QED
      BY <3>1, <3>2 DEF DagInv, Linked
  <2>3. \A f \in dag'.events : \A id \in f.parents :
          \E p \in dag'.events : /\ Id(p) = id /\ p.actor = f.actor
                                 /\ p.lamport < f.lamport
    BY <1>1, <2>1 DEF DagInv, Linked
  <2> QED
    BY <2>2, <2>3 DEF Linked
<1>11. Rooted'
  <2>1. \E g \in dag'.events : Id(g) = <<a, 1, {}>>
    <3>1. CASE dag.heads[a] = {}
      BY <1>1, <1>3, <3>1 DEF ComesNext, IsTop, Id
    <3>2. CASE dag.heads[a] # {}
      BY <1>1, <1>3, <3>2 DEF ComesNext, IsTop, DagInv, Rooted
    <3> QED
      BY <3>1, <3>2
  <2> QED
    BY <1>1, <2>1 DEF DagInv, Rooted
<1>12. UniqueIds' /\ Stored'
  BY <1>1, <1>2 DEF DagInv, UniqueIds, Stored
\* Whatever else came next of this actor has the id of e.
<1>13. \A f : ComesNext(f) /\ f.actor = a => Id(f) = Id(e)
  BY <1>3, SameNextId
<1>14. \A f : ComesNext(f) /\ f.actor \in Actors /\ f.actor # a
                => ComesNext(f)'
  BY <1>1, <1>5 DEF ComesNext, IsTop
<1>15. Pending'
  <2> SUFFICES ASSUME NEW f \in db.events \ dag.events, f # e
               PROVE  ComesNext(f)'
    BY <1>1 DEF Pending
  <2>1. ComesNext(f) /\ f.actor \in Actors
    BY DEF DagInv, Pending, TypeOK, IsEvent
  <2>2. f.actor # a
    BY <1>2, <1>13, <2>1 DEF DagInv, UniqueIds
  <2> QED
    BY <1>14, <2>1, <2>2
<1>16. Drafted'
  <2> SUFFICES ASSUME NEW s \in Requests, pc'[s] = "insert_event"
               PROVE  ComesNext(draft[s])' \/ HasId(db, Id(draft[s]))'
    BY DEF Drafted
  <2>0. PICK d : d = draft[s]
    OBVIOUS
  <2>1. pc[s] = "insert_event" /\ d.actor \in Actors
    BY <1>1, <2>0 DEF DagInv, TypeOK, IsEvent
  <2>2. ComesNext(d) \/ HasId(db, Id(d))
    BY <2>0, <2>1 DEF DagInv, Drafted
  <2>3. ComesNext(d)' \/ HasId(db, Id(d))
    <3>1. CASE ComesNext(d) /\ d.actor = a
      BY <1>2, <1>13, <3>1 DEF HasId
    <3> QED
      BY <1>14, <2>1, <2>2, <3>1
  <2>4. d = draft'[s] /\ (HasId(db, Id(d)) => HasId(db, Id(d))')
    BY <1>1, <2>0 DEF HasId
  <2> QED
    BY <2>3, <2>4 DEF ComesNext, IsTop, HasId
<1>17. \A s \in Requests : /\ pc'[s] \in Writing <=> pc[s] \in Writing /\ s # r
                           /\ pc[r] \in Writing
                           /\ pc'[s] = "index_event" => pc[s] = "index_event"
  BY <1>1 DEF DagInv, TypeOK, Writing
<1>18. Owned'
  BY <1>0, <1>1, <1>17 DEF DagInv, Owned
<1>19. Writers'
  <2>1. \A s \in Requests : pc[s] \in Writing /\ s # r => draft[s] # e
    BY <1>0, <1>17 DEF DagInv, Writers
  <2> QED
    BY <1>1, <1>17, <2>1 DEF DagInv, Writers
<1>20. Unlogged' /\ AckedKeepsEvent'
  BY <1>0, <1>1, <1>2 DEF DagInv, TypeOK, Unlogged, AckedKeepsEvent
<1> QED
  BY <1>6, <1>9, <1>10, <1>11, <1>12, <1>15, <1>16, <1>18, <1>19, <1>20 DEF DagInv

(***************************************************************************)
(* Continuing a request.                                                   *)
(***************************************************************************)

\* The statements of a request.
LEMMA ContinueDagInv ==
  ASSUME DagInv, NEW r \in Requests, ContinueRequest(r)
  PROVE  DagInv'
<1> USE DEF Step, Writing, Logged
<1>0. r.actor \in Actors /\ r.obj \in Actors \cup Objects /\ TypeOK
  BY RequestsAssumption DEF Request, DagInv
<1>1. CASE InsertEntity(r)
  <2>1. /\ db'.events = db.events /\ db'.rows = db.rows
        /\ db'.entities = db.entities \cup {r.actor}
    BY <1>1 DEF InsertEntity
  <2>2. TypeOK'
    BY <1>0, <1>1, <2>1 DEF InsertEntity, TypeOK, InFlight, Ended, IsEvent
  <2> QED
    BY <1>0, <1>1, <2>1, <2>2, FrameDagInv DEF InsertEntity, TypeOK
<1>2. CASE CommitOnly(r)
  <2>1. TypeOK' /\ r.op \notin Logged
    BY <1>0, <1>2
    DEF CommitOnly, TypeOK, InFlight, Ended, IsEvent, DagInv, Unlogged
  <2> QED
    BY <1>0, <1>2, <2>1, FrameDagInv DEF CommitOnly, TypeOK
<1>3. CASE CommitObject(r)
  <2>1. TypeOK'
    BY <1>0, <1>3 DEF CommitObject, TypeOK, InFlight, Ended, IsEvent
  <2> QED
    BY <1>0, <1>3, <2>1, FrameDagInv DEF CommitObject, TypeOK
<1>4. CASE BuildEvent(r)
  <2> DEFINE e == IF r.op = "create_entity"
                    THEN Genesis(r.actor)
                    ELSE Event(r, ComputeLamport(Heads(r.actor)),
                               {Id(h) : h \in Heads(r.actor)})
  <2>1. /\ UNCHANGED <<db, disk, dag, crashes>>
        /\ draft' = [draft EXCEPT ![r] = e]
        /\ pc[r] = "build_event" /\ pc' = [pc EXCEPT ![r] = "insert_event"]
    BY <1>4 DEF BuildEvent
  <2>2. /\ ComesNext(e) \/ HasId(db, Id(e))
        /\ IsEvent(e) /\ e.actor = r.actor
    <3>1. CASE r.op = "create_entity"
      <4>1. /\ e.actor = r.actor /\ e.lamport = 1 /\ e.parents = {}
            /\ e.obj = r.actor
        BY <3>1 DEF Genesis
      <4> HIDE DEF e
      <4>2. Id(e) = <<r.actor, 1, {}>>
        BY <4>1 DEF Id
      <4>3. CASE dag.heads[r.actor] = {}
        BY <1>0, <4>1, <4>3 DEF ComesNext, IsEvent
      \* The log has its root already.
      <4>4. CASE \E t \in dag.events : IsTop(t, r.actor)
        <5>1. PICK t \in dag.events : t.actor = r.actor
          BY <4>4 DEF IsTop
        <5>2. PICK g \in dag.events : Id(g) = <<r.actor, 1, {}>>
          BY <5>1 DEF DagInv, Rooted
        <5>3. g \in db.events
          BY <5>2 DEF DagInv, Stored
        <5>4. HasId(db, Id(e))
          BY <4>2, <5>2, <5>3 DEF HasId
        <5>5. IsEvent(e)
          BY <1>0, <4>1 DEF IsEvent
        <5> QED
          BY <4>1, <5>4, <5>5
      <4> QED
        BY <1>0, <4>3, <4>4 DEF DagInv, OneHead
    <3>2. CASE r.op # "create_entity"
      BY <1>0, <3>2, BuiltComesNext DEF DagInv
    <3> QED
      BY <3>1, <3>2
  <2> HIDE DEF e
  <2>3. PICK d : d = e
    OBVIOUS
  <2>4. draft'[r] = d
    BY <1>0, <2>1, <2>3 DEF TypeOK
  <2>5. ComesNext(d)' \/ HasId(db, Id(d))'
    BY <2>1, <2>2, <2>3 DEF ComesNext, IsTop, HasId
  <2>6. (ComesNext(draft[r]) \/ HasId(db, Id(draft[r])))'
    BY <2>4, <2>5 DEF ComesNext, IsTop, HasId
  <2>7. TypeOK'
    BY <1>0, <2>1, <2>2, <2>3, <2>4 DEF TypeOK, InFlight
  <2>8. \A s \in Requests : s # r => draft'[s] = draft[s] /\ pc'[s] = pc[s]
    BY <1>0, <2>1 DEF TypeOK
  <2>9. pc'[r] = "insert_event"
    BY <1>0, <2>1 DEF TypeOK
  <2> QED
    BY <2>1, <2>6, <2>7, <2>8, <2>9, FrameDagInv
<1>5. CASE InsertEvent(r)
  <2>1. CASE ~ HasId(db, Id(draft[r]))
    BY <1>5, <2>1, InsertDagInv
  <2>2. CASE HasId(db, Id(draft[r]))
    <3>1. TypeOK'
      BY <1>0, <1>5, <2>2 DEF InsertEvent, TypeOK, InFlight, Ended, IsEvent
    <3> QED
      BY <1>0, <1>5, <2>2, <3>1, FrameDagInv DEF InsertEvent, TypeOK
  <2> QED
    BY <2>1, <2>2
<1>6. CASE CommitEvent(r)
  <2>1. TypeOK'
    BY <1>0, <1>6 DEF CommitEvent, TypeOK, InFlight, Ended, IsEvent
  <2> QED
    BY <1>0, <1>6, <2>1, FrameDagInv DEF CommitEvent, TypeOK
<1>7. CASE IndexEvent(r)
  BY <1>7, IndexDagInv
<1> QED
  BY <1>1, <1>2, <1>3, <1>4, <1>5, <1>6, <1>7 DEF ContinueRequest

(***************************************************************************)
(* A crash.                                                                *)
(***************************************************************************)

\* What _load_dag finds for an actor: the committed event that was not in the
\* DAG yet, the old head, or nothing.
LEMMA LoadedHeads ==
  ASSUME DagInv, NEW a \in Actors, NEW heads,
         heads = {Id(e) : e \in {f \in disk.events :
                    /\ f.actor = a
                    /\ \A g \in disk.events : g.actor = a => Id(f) \notin g.parents}}
  PROVE  \/ heads = {} /\ \A e \in disk.events : e.actor # a
         \/ \E t \in disk.events :
              /\ t.actor = a /\ heads = {Id(t)}
              /\ \A e \in disk.events : e.actor = a => e.lamport <= t.lamport
<1> DEFINE Childless(f) ==
             \A g \in disk.events : g.actor = a => Id(f) \notin g.parents
           Last == {f \in disk.events : f.actor = a /\ Childless(f)}
<1>1. /\ dag.events \subseteq disk.events
      /\ \A e, f \in disk.events : Id(e) = Id(f) => e = f
      /\ \A e \in disk.events : e.lamport \in Nat
  BY DEF DagInv, Stored, UniqueIds, TypeOK, IsEvent
<1>2. heads = {Id(e) : e \in Last}
  OBVIOUS
<1>3. \A g \in dag.events : \A f \in disk.events :
        Id(f) \in g.parents => f \in dag.events /\ f.lamport < g.lamport
  BY <1>1 DEF DagInv, Linked
<1>4. \A f \in dag.events : f.actor = a /\ Childless(f) => Id(f) \in dag.heads[a]
  BY <1>1 DEF DagInv, Linked
<1>5. CASE \A e \in disk.events : e.actor # a
  <2>1. Last = {}
    BY <1>5
  <2> HIDE DEF Last
  <2> QED
    BY <1>2, <1>5, <2>1
<1>6. CASE \E p \in disk.events \ dag.events : p.actor = a
  <2>1. PICK p \in disk.events \ dag.events : p.actor = a
    BY <1>6
  <2>2. ComesNext(p) /\ p.lamport \in Nat
    BY <1>1, <2>1 DEF DagInv, Pending, Stored
  <2>3. \A f \in dag.events : f.actor = a => f.lamport < p.lamport
    BY <1>1, <2>1, <2>2 DEF ComesNext, IsTop, DagInv, OneHead
  <2>4. \A f \in disk.events \ dag.events : f.actor = a => f = p
    BY <1>1, <2>1, <2>2, SameNextId DEF DagInv, Pending, Stored
  <2>5. \A id \in p.parents : \E t \in dag.events : id = Id(t)
    BY <2>2 DEF ComesNext, IsTop
  <2>6. Childless(p)
    BY <1>1, <1>3, <2>1, <2>4, <2>5
  \* The old head is the parent of p, every other event has a child already.
  <2>7. \A f \in Last : f = p
    BY <1>1, <1>4, <2>1, <2>2, <2>4 DEF ComesNext
  <2>8. Last = {p}
    BY <2>1, <2>6, <2>7
  <2>9. \A e \in disk.events : e.actor = a => e.lamport <= p.lamport
    BY <1>1, <2>2, <2>3, <2>4
  <2> HIDE DEF Last
  <2>10. heads = {Id(p)}
    BY <1>2, <2>8
  <2> QED
    BY <2>1, <2>9, <2>10
<1>7. CASE /\ \A p \in disk.events \ dag.events : p.actor # a
           /\ \E p \in disk.events : p.actor = a
  <2>1. PICK t \in dag.events : IsTop(t, a)
    BY <1>7 DEF DagInv, OneHead
  <2>2. Childless(t)
    BY <1>1, <1>3, <1>7, <2>1 DEF IsTop
  <2>3. \A f \in Last : f = t
    BY <1>1, <1>4, <1>7, <2>1 DEF IsTop
  <2>4. Last = {t}
    BY <1>1, <2>1, <2>2, <2>3 DEF IsTop
  <2> HIDE DEF Last
  <2>5. heads = {Id(t)}
    BY <1>2, <2>4
  <2> QED
    BY <1>1, <1>7, <2>1, <2>5 DEF IsTop
<1> QED
  BY <1>5, <1>6, <1>7

\* The DAG rebuilt from the table is a DAG that everything left has joined.
LEMMA CrashDagInv ==
  ASSUME DagInv, Crash
  PROVE  DagInv'
<1> DEFINE Top(f, a) ==
             /\ f.actor = a
             /\ \A g \in disk.events : g.actor = a => Id(f) \notin g.parents
<1>1. /\ db' = disk /\ disk' = disk /\ draft' = draft
      /\ dag'.events = disk.events
      /\ DOMAIN dag'.heads = Actors
      /\ \A a \in Actors : dag'.heads[a] = {Id(e) : e \in {f \in disk.events : Top(f, a)}}
  BY DEF Crash, LoadDag
<1>2. /\ crashes' \in 0 .. MaxCrashes
      /\ pc' \in [Requests -> {"idle"} \cup Ended]
      /\ \A r \in Requests : pc'[r] = "done" => pc[r] = "done"
  BY RequestsAssumption DEF Crash, DagInv, TypeOK, InFlight, Ended
<1>3. TypeOK'
  BY <1>1, <1>2 DEF DagInv, TypeOK, InFlight, Ended
<1>4. OneHead'
  <2> SUFFICES ASSUME NEW a \in Actors
               PROVE  \/ dag'.heads[a] = {} /\ \A e \in dag'.events : e.actor # a
                      \/ \E t \in dag'.events : IsTop(t, a)'
    BY DEF OneHead
  <2>1. PICK heads : heads = dag'.heads[a]
    OBVIOUS
  <2>2. \/ heads = {} /\ \A e \in disk.events : e.actor # a
        \/ \E t \in disk.events :
             /\ t.actor = a /\ heads = {Id(t)}
             /\ \A e \in disk.events : e.actor = a => e.lamport <= t.lamport
    <3>1. heads = {Id(e) : e \in {f \in disk.events : Top(f, a)}}
      BY <1>1, <2>1
    <3> QED
      BY <3>1, LoadedHeads
  <2> QED
    BY <1>1, <2>1, <2>2 DEF IsTop
<1>5. Linked'
  <2>1. \A f \in dag'.events : \A id \in f.parents :
          \E p \in dag'.events : /\ Id(p) = id /\ p.actor = f.actor
                                 /\ p.lamport < f.lamport
    <3> SUFFICES ASSUME NEW f \in disk.events, NEW id \in f.parents
                 PROVE  \E p \in dag.events : /\ Id(p) = id /\ p.actor = f.actor
                                              /\ p.lamport < f.lamport
      BY <1>1 DEF DagInv, Stored
    <3>1. CASE f \in dag.events
      BY <3>1 DEF DagInv, Linked
    <3>2. CASE f \notin dag.events
      <4>1. ComesNext(f)
        BY <3>2 DEF DagInv, Pending, Stored
      <4>2. \A t \in dag.events : t.lamport \in Nat
        BY DEF DagInv, TypeOK, IsEvent
      <4> QED
        BY <4>1, <4>2 DEF ComesNext, IsTop
    <3> QED
      BY <3>1, <3>2
  <2>2. \A f \in dag'.events :
          \/ Id(f) \in dag'.heads[f.actor]
          \/ \E g \in dag'.events : g.actor = f.actor /\ Id(f) \in g.parents
    <3>1. \A f \in disk.events : f.actor \in Actors
      BY DEF DagInv, TypeOK, IsEvent
    <3> QED
      BY <1>1, <3>1
  <2> QED
    BY <2>1, <2>2 DEF Linked
<1>6. Rooted'
  <2> SUFFICES ASSUME NEW f \in disk.events
               PROVE  \E g \in disk.events : Id(g) = <<f.actor, 1, {}>>
    BY <1>1 DEF Rooted
  <2>1. CASE f \in dag.events
    BY <2>1 DEF DagInv, Rooted, Stored
  <2>2. CASE f \notin dag.events
    <3>1. ComesNext(f)
      BY <2>2 DEF DagInv, Pending, Stored
    <3>2. CASE dag.heads[f.actor] = {}
      BY <3>1, <3>2 DEF ComesNext, IsTop, Id
    <3>3. CASE \E t \in dag.events : IsTop(t, f.actor)
      BY <3>3 DEF DagInv, Rooted, Stored, IsTop
    <3> QED
      BY <3>1, <3>2, <3>3 DEF ComesNext
  <2> QED
    BY <2>1, <2>2
<1>7. UniqueIds' /\ Stored' /\ Pending' /\ Owned'
  BY <1>1 DEF DagInv, UniqueIds, Stored, Pending, Owned
<1>8. Drafted' /\ Writers' /\ Unlogged'
  BY <1>2 DEF Drafted, Writers, Writing, Unlogged, Ended
<1>9. AckedKeepsEvent'
  BY <1>1, <1>2 DEF DagInv, AckedKeepsEvent
<1> QED
  BY <1>3, <1>4, <1>5, <1>6, <1>7, <1>8, <1>9 DEF DagInv

(***************************************************************************)
(* Theorems.                                                               *)
(***************************************************************************)

\* Every step keeps the invariant.
LEMMA StepDagInv == DagInv /\ [Next]_vars => DagInv'
<1> SUFFICES ASSUME DagInv, [Next]_vars PROVE DagInv'
  OBVIOUS
<1>1. ASSUME NEW r \in Requests, BeginRequest(r) PROVE DagInv'
  BY <1>1, BeginDagInv
<1>2. ASSUME NEW r \in Requests, ContinueRequest(r) PROVE DagInv'
  BY <1>2, ContinueDagInv
<1>3. CASE CommitElsewhere
  <2>1. TypeOK'
    BY <1>3 DEF CommitElsewhere, DagInv, TypeOK
  <2> QED
    BY <1>3, <2>1, FrameDagInv DEF CommitElsewhere
<1>4. CASE Crash
  BY <1>4, CrashDagInv
<1>5. CASE UNCHANGED vars
  <2>1. TypeOK'
    BY <1>5 DEF vars, DagInv, TypeOK
  <2> QED
    BY <1>5, <2>1, FrameDagInv DEF vars
<1> QED
  BY <1>1, <1>2, <1>3, <1>4, <1>5 DEF Next

\* The inductive invariant of DagLog: each log is a chain whose top is the only
\* head, and every event on its way was built on that head.
THEOREM DagInvariant == Spec => []DagInv
<1> QED
  BY InitDagInv, StepDagInv, PTL DEF Spec

\* Every reachable state of server_v2's write path is well typed.
COROLLARY DagWellTyped == Spec => []TypeOK
<1>1. DagInv => TypeOK
  BY DEF DagInv
<1> QED
  BY <1>1, DagInvariant, PTL

\* In no interleaving of requests and crashes does an actor get a second head:
\* what would have become one is refused for its id, and the branch of
\* merge_forks that merges is dead code on one server.
THEOREM AlwaysOneHead == Spec => []SingleHead
<1>1. DagInv => SingleHead
  BY NextPlace DEF DagInv, SingleHead
<1> QED
  BY <1>1, DagInvariant, PTL

\* The DAG in memory never holds an event that a crash could take away, and
\* lacks only events whose requests are still at work.
THEOREM IndexAlwaysFollowsDisk == Spec => []IndexFollowsDisk
<1>1. DagInv => IndexFollowsDisk
  BY DEF DagInv, IndexFollowsDisk, Stored, Owned, Writing
<1> QED
  BY <1>1, DagInvariant, PTL

\* An answered request never loses the event it built.
THEOREM AckedAlwaysKeepsEvent == Spec => []AckedKeepsEvent
<1>1. DagInv => AckedKeepsEvent
  BY DEF DagInv
<1> QED
  BY <1>1, DagInvariant, PTL

\* When none of an actor's requests is at work, the id of its next event is
\* free, whatever was refused or lost before.
THEOREM NeverGetsStuck == Spec => []NeverStuck
<1>1. DagInv => NeverStuck
  <2> SUFFICES ASSUME DagInv, NEW a \in Actors, Quiet(a),
                      NEW f \in db.events,
                      Id(f) = <<a, ComputeLamport(Heads(a)),
                                {Id(e) : e \in Heads(a)}>>
               PROVE  FALSE
    BY DEF NeverStuck, HasId
  <2>1. f.actor = a /\ f.lamport = ComputeLamport(Heads(a))
    BY DEF Id
  \* An event outside the DAG has a request at work.
  <2>2. f \in dag.events
    <3> SUFFICES ASSUME f \notin dag.events PROVE FALSE
      OBVIOUS
    <3>1. PICK r \in Requests : pc[r] \in Writing /\ draft[r] = f
      BY DEF DagInv, Owned
    <3>2. r.actor = a
      BY <2>1, <3>1 DEF DagInv, TypeOK, Writing
    <3> QED
      BY <3>1, <3>2 DEF Quiet, Writing, InFlight
  \* But the next clock value is beyond the top of the DAG.
  <2>3. PICK t \in dag.events : /\ IsTop(t, a)
                                /\ ComputeLamport(Heads(a)) = t.lamport + 1
    BY <2>1, <2>2, NextPlace DEF DagInv, OneHead, IsTop
  <2> QED
    BY <2>1, <2>2, <2>3 DEF IsTop, DagInv, TypeOK, IsEvent
<1> QED
  BY <1>1, DagInvariant, PTL
(***************************************************************************)
(* The durable histories.  A log has an event at each place up to its top, *)
(* and one only: what the abstract history of AppendOnlyLog is made of.    *)
(***************************************************************************)
Kinds == {"create", "merge"}

\* The events of a in S have the places 1 .. n, one each.
Numbered(S, a, n) ==
  /\ \A e \in S : e.actor = a => e.lamport \in 1 .. n
  /\ \A k \in 1 .. n : \E e \in S : e.actor = a /\ e.lamport = k
  /\ \A e, f \in S : e.actor = a /\ f.actor = a /\ e.lamport = f.lamport => e = f

AllNumbered(S) == \A a \in Actors : \E n \in Nat : Numbered(S, a, n)

KindsKnown ==
  /\ \A d \in {db, disk} : \A e \in d.events : e.op \in Kinds
  /\ \A r \in Requests : draft[r].op \in Kinds

PlacesInv == DagInv /\ AllNumbered(dag.events) /\ KindsKnown

\* A log that is one event ahead of the DAG is numbered as the DAG is.
LEMMA AheadNumbered ==
  ASSUME DagInv, NEW S, dag.events \subseteq S, S \subseteq db.events,
         AllNumbered(dag.events)
  PROVE  AllNumbered(S)
<1> SUFFICES ASSUME NEW a \in Actors PROVE \E n \in Nat : Numbered(S, a, n)
  BY DEF AllNumbered
<1>1. PICK n \in Nat : Numbered(dag.events, a, n)
  BY DEF AllNumbered
<1>2. CASE \A p \in S \ dag.events : p.actor # a
  BY <1>1, <1>2 DEF Numbered
<1>3. ASSUME NEW p \in S \ dag.events, p.actor = a
      PROVE  \E m \in Nat : Numbered(S, a, m)
  <2>1. ComesNext(p) /\ p \in db.events
    BY DEF DagInv, Pending
  <2>2. \A f \in S \ dag.events : f.actor = a => f = p
    BY <1>3, <2>1, SameNextId DEF DagInv, Pending, UniqueIds
  <2>3. p.lamport = n + 1
    <3>1. CASE dag.heads[a] = {}
      <4>1. \A e \in dag.events : e.actor # a
        BY <3>1 DEF DagInv, OneHead, IsTop
      <4>2. n = 0
        BY <1>1, <4>1 DEF Numbered
      <4> QED
        BY <1>3, <2>1, <3>1, <4>2 DEF ComesNext, IsTop
    <3>2. CASE dag.heads[a] # {}
      <4>1. PICK t \in dag.events : IsTop(t, a) /\ p.lamport = t.lamport + 1
        BY <1>3, <2>1, <3>2 DEF ComesNext
      <4>2. t.lamport \in 1 .. n
        BY <1>1, <4>1 DEF Numbered, IsTop
      <4>3. PICK e \in dag.events : e.actor = a /\ e.lamport = n
        BY <1>1, <4>2 DEF Numbered
      <4>4. n <= t.lamport
        BY <4>1, <4>3 DEF IsTop
      <4> QED
        BY <4>1, <4>2, <4>4
    <3> QED
      BY <3>1, <3>2
  <2>4. \A e \in S : e.actor = a => e = p \/ e \in dag.events
    BY <2>2
  <2>5. /\ \A e \in S : e.actor = a => e.lamport \in 1 .. n + 1
        /\ \A e, f \in S :
             e.actor = a /\ f.actor = a /\ e.lamport = f.lamport => e = f
    BY <1>1, <2>3, <2>4 DEF Numbered
  <2>6. \A k \in 1 .. n + 1 : \E e \in S : e.actor = a /\ e.lamport = k
    <3> SUFFICES ASSUME NEW k \in 1 .. n + 1
                 PROVE  \E e \in S : e.actor = a /\ e.lamport = k
      OBVIOUS
    <3>1. CASE k \in 1 .. n
      BY <1>1, <3>1 DEF Numbered
    <3>2. CASE k = n + 1
      BY <1>3, <2>3, <3>2
    <3> QED
      BY <3>1, <3>2
  <2>7. Numbered(S, a, n + 1)
    BY <2>5, <2>6 DEF Numbered
  <2> QED
    BY <2>7
<1> QED
  BY <1>2, <1>3

\* A relay starts with the genesis events of those registered.
LEMMA InitPlaces == Init => PlacesInv
<1> SUFFICES ASSUME Init PROVE PlacesInv
  OBVIOUS
<1>1. /\ dag.events = {Genesis(a) : a \in Registered}
      /\ db.events = dag.events /\ disk.events = dag.events
      /\ draft = [r \in Requests |-> Genesis(r.actor)]
  BY DEF Init, Empty, LoadDag
<1>2. \A a : Genesis(a).actor = a /\ Genesis(a).lamport = 1 /\ Genesis(a).op \in Kinds
  BY DEF Genesis, Kinds
<1>3. ASSUME NEW a \in Actors
      PROVE  \E n \in Nat : Numbered(dag.events, a, n)
  <2>1. CASE a \in Registered
    <3>1. Numbered(dag.events, a, 1)
      BY <1>1, <1>2, <2>1 DEF Numbered
    <3> QED
      BY <3>1
  <2>2. CASE a \notin Registered
    <3>1. Numbered(dag.events, a, 0)
      BY <1>1, <1>2, <2>2 DEF Numbered
    <3> QED
      BY <3>1
  <2> QED
    BY <2>1, <2>2
<1>4. KindsKnown
  BY <1>1, <1>2 DEF KindsKnown
<1> QED
  BY <1>3, <1>4, InitDagInv DEF PlacesInv, AllNumbered

\* Events are built by create and merge, and nothing changes them.
LEMMA KindsStay == KindsKnown /\ DagInv /\ [Next]_vars => KindsKnown'
<1> SUFFICES ASSUME KindsKnown, DagInv, [Next]_vars PROVE KindsKnown'
  OBVIOUS
<1> USE DEF KindsKnown
<1>1. ASSUME NEW r \in Requests, BeginRequest(r) PROVE KindsKnown'
  <2>1. ~ NeedsMerge(r.actor)
    BY RequestsAssumption, NextPlace DEF Request, DagInv
  <2>2. disk' = disk /\ draft' = draft
    BY <1>1, <2>1 DEF BeginRequest, CreateEntity, CreateObject, CreateDm,
                      DeleteLink, MergeForks
  <2>3. CASE CreateEntity(r) \/ MergeForks(r)
    BY <2>2, <2>3 DEF CreateEntity, MergeForks
  <2>4. CASE CreateObject(r)
    <3>1. db'.events = db.events
      BY <2>4 DEF CreateObject
    <3> QED
      BY <2>2, <3>1
  <2>5. CASE CreateDm(r)
    <3>1. db'.events = db.events
      BY <2>5 DEF CreateDm
    <3> QED
      BY <2>2, <3>1
  <2>6. CASE DeleteLink(r)
    <3>1. db'.events = db.events
      BY <2>6 DEF DeleteLink
    <3> QED
      BY <2>2, <3>1
  <2> QED
    BY <1>1, <2>3, <2>4, <2>5, <2>6 DEF BeginRequest
<1>2. ASSUME NEW r \in Requests, ContinueRequest(r) PROVE KindsKnown'
  <2>1. CASE BuildEvent(r)
    <3> DEFINE e == IF r.op = "create_entity"
                      THEN Genesis(r.actor)
                      ELSE Event(r, ComputeLamport(Heads(r.actor)),
                                 {Id(h) : h \in Heads(r.actor)})
    <3>1. UNCHANGED <<db, disk>> /\ draft' = [draft EXCEPT ![r] = e]
      BY <2>1 DEF BuildEvent
    <3>2. e.op \in Kinds
      BY DEF Event, Genesis, Kinds
    <3> HIDE DEF e
    <3>3. \A q \in Requests : draft'[q].op \in Kinds
      BY <3>1, <3>2 DEF DagInv, TypeOK
    <3> QED
      BY <3>1, <3>3
  <2>2. CASE InsertEntity(r)
    <3>1. db'.events = db.events /\ disk' = disk /\ draft' = draft
      BY <2>2 DEF InsertEntity
    <3> QED
      BY <3>1
  <2>3. CASE InsertEvent(r)
    <3>1. db'.events = db.events \/ db'.events = db.events \cup {draft[r]}
      BY <2>3 DEF InsertEvent
    <3>2. disk' = disk /\ draft' = draft
      BY <2>3 DEF InsertEvent
    <3> QED
      BY <3>1, <3>2
  <2>4. CASE CommitOnly(r) \/ CommitObject(r) \/ CommitEvent(r) \/ IndexEvent(r)
    <3>1. disk' \in {disk, db} /\ db' = db /\ draft' = draft
      BY <2>4 DEF CommitOnly, CommitObject, CommitEvent, IndexEvent
    <3> QED
      BY <3>1
  <2> QED
    BY <1>2, <2>1, <2>2, <2>3, <2>4 DEF ContinueRequest
<1>3. CASE CommitElsewhere
  BY <1>3 DEF CommitElsewhere
<1>4. CASE Crash
  BY <1>4 DEF Crash
<1>5. CASE UNCHANGED vars
  BY <1>5 DEF vars
<1> QED
  BY <1>1, <1>2, <1>3, <1>4, <1>5 DEF Next

\* What joins the DAG comes next, and what a crash reads back was committed.
LEMMA StepPlaces == PlacesInv /\ [Next]_vars => PlacesInv'
<1> SUFFICES ASSUME PlacesInv, [Next]_vars PROVE PlacesInv'
  OBVIOUS
<1>1. /\ DagInv /\ DagInv' /\ KindsKnown' /\ AllNumbered(dag.events)
  BY StepDagInv, KindsStay DEF PlacesInv
<1>2. CASE dag' = dag
  BY <1>1, <1>2 DEF PlacesInv
<1>3. ASSUME NEW r \in Requests, IndexEvent(r) PROVE AllNumbered(dag'.events)
  <2>1. /\ dag'.events = dag.events \cup {draft[r]} /\ pc[r] = "index_event"
    BY <1>3 DEF IndexEvent, AddEvent, Step
  <2>2. /\ dag.events \subseteq dag'.events /\ dag'.events \subseteq db.events
    BY <1>1, <2>1 DEF DagInv, Stored, Writers, Writing
  <2> QED
    BY <1>1, <2>2, AheadNumbered
<1>4. CASE Crash
  <2>1. dag'.events = disk.events
    BY <1>4 DEF Crash, LoadDag
  <2>2. dag.events \subseteq disk.events /\ disk.events \subseteq db.events
    BY <1>1 DEF DagInv, Stored
  <2>3. AllNumbered(disk.events)
    BY <1>1, <2>2, AheadNumbered
  <2> QED
    BY <1>1, <2>1, <2>3 DEF PlacesInv
<1>5. dag' = dag \/ Crash \/ \E r \in Requests : IndexEvent(r)
  BY DEF Next, vars, BeginRequest, CreateEntity, CreateObject, CreateDm, DeleteLink,
         MergeForks, ContinueRequest, InsertEntity, CommitOnly, CommitObject,
         BuildEvent, InsertEvent, CommitEvent, CommitElsewhere
<1> QED
  BY <1>1, <1>2, <1>3, <1>4, <1>5 DEF PlacesInv

\* A log of n places has n events.
LEMMA EventsCounted ==
  ASSUME NEW S, NEW a, NEW n \in Nat, Numbered(S, a, n)
  PROVE  Cardinality({e \in S : e.actor = a}) = n
<1> DEFINE own == {e \in S : e.actor = a}
           at  == [k \in 1 .. n |-> CHOOSE e \in own : e.lamport = k]
<1>1. \A k \in 1 .. n : \E e \in own : e.lamport = k
  BY DEF Numbered
<1>2. \A k \in 1 .. n : at[k] \in own /\ at[k].lamport = k
  BY <1>1
<1> HIDE DEF at
<1>3. at \in [1 .. n -> own]
  <2>1. at = [k \in 1 .. n |-> at[k]]
    BY DEF at
  <2> QED
    BY <1>2, <2>1
<1>4. \A j, k \in 1 .. n : at[j] = at[k] => j = k
  BY <1>2
<1>5. \A e \in own : \E k \in 1 .. n : at[k] = e
  BY <1>2 DEF Numbered
<1>6. at \in Bijection(1 .. n, own)
  BY <1>3, <1>4, <1>5 DEF Bijection, Injection, Surjection, IsInjective
<1>7. ExistsBijection(1 .. n, own)
  BY <1>6 DEF ExistsBijection
<1>8. IsFiniteSet(1 .. n) /\ Cardinality(1 .. n) = n
  BY FS_Interval
<1> QED
  BY <1>7, <1>8, FS_Bijection

\* What the history of an actor is.
LEMMA PlacesOfHistory ==
  ASSUME PlacesInv, NEW a \in Actors
  PROVE  /\ Numbered(disk.events, a, Depth(a)) /\ Depth(a) \in Nat
         /\ \A k \in 1 .. Depth(a) :
              /\ EventAt(a, k) \in disk.events
              /\ EventAt(a, k).actor = a /\ EventAt(a, k).lamport = k
<1>1. dag.events \subseteq disk.events /\ disk.events \subseteq db.events
  BY DEF PlacesInv, DagInv, Stored
<1>2. AllNumbered(disk.events)
  BY <1>1, AheadNumbered DEF PlacesInv
<1>3. PICK n \in Nat : Numbered(disk.events, a, n)
  BY <1>2 DEF AllNumbered
<1>4. Depth(a) = n
  BY <1>3, EventsCounted DEF Depth
<1>5. \A k \in 1 .. n : \E e \in disk.events : e.actor = a /\ e.lamport = k
  BY <1>3 DEF Numbered
<1> QED
  BY <1>3, <1>4, <1>5 DEF EventAt

\* ... and the same of the next state.
PlacesHistory ==
  \A a \in Actors :
    /\ Numbered(disk.events, a, Depth(a)) /\ Depth(a) \in Nat
    /\ \A k \in 1 .. Depth(a) :
         /\ EventAt(a, k) \in disk.events
         /\ EventAt(a, k).actor = a /\ EventAt(a, k).lamport = k

LEMMA PlacesHistoryHolds == PlacesInv => PlacesHistory
BY PlacesOfHistory DEF PlacesHistory

LEMMA PlacesOfHistoryNext == PlacesInv' => PlacesHistory'
BY PlacesHistoryHolds, PTL

\* A history is a sequence of entries.
HistoryTyped == \A a \in Actors : History[a] \in Seq(Entry) /\ Len(History[a]) = Depth(a)

LEMMA PlacesTyped == PlacesInv => HistoryTyped
<1> SUFFICES ASSUME PlacesInv, NEW a \in Actors
             PROVE  History[a] \in Seq(Entry) /\ Len(History[a]) = Depth(a)
  BY DEF HistoryTyped
<1>1. /\ Depth(a) \in Nat
      /\ \A k \in 1 .. Depth(a) : EventAt(a, k) \in disk.events
  BY PlacesOfHistory
<1>2. \A e \in disk.events : e.op \in {"create", "merge"} /\ e.obj \in Actors \cup Objects
  BY DEF PlacesInv, DagInv, TypeOK, IsEvent, KindsKnown, Kinds
<1>3. \A k \in 1 .. Depth(a) :
        [op |-> EventAt(a, k).op, obj |-> EventAt(a, k).obj] \in Entry
  BY <1>1, <1>2 DEF Entry
<1>4. History[a] = [k \in 1 .. Depth(a) |-> [op  |-> EventAt(a, k).op,
                                            obj |-> EventAt(a, k).obj]]
  BY DEF History
<1> QED
  BY <1>1, <1>3, <1>4, IsASeq, LenProperties

LEMMA PlacesTypedNext == PlacesInv' => HistoryTyped'
BY PlacesTyped, PTL

\* What is committed stays committed, in its place.
LEMMA HistoryGrows ==
  ASSUME PlacesInv, PlacesInv', disk.events \subseteq disk'.events, NEW a \in Actors
  PROVE  Durable!Extends(History[a], History'[a])
<1>1. /\ Numbered(disk.events, a, Depth(a)) /\ Depth(a) \in Nat
      /\ \A k \in 1 .. Depth(a) :
           /\ EventAt(a, k) \in disk.events
           /\ EventAt(a, k).actor = a /\ EventAt(a, k).lamport = k
  BY PlacesOfHistory
<1>2. /\ Numbered(disk'.events, a, Depth(a)') /\ Depth(a)' \in Nat
      /\ \A k \in 1 .. Depth(a)' :
           /\ EventAt(a, k)' \in disk'.events
           /\ EventAt(a, k)'.actor = a /\ EventAt(a, k)'.lamport = k
  BY PlacesOfHistoryNext DEF PlacesHistory
<1>3. Depth(a) <= Depth(a)'
  <2>1. CASE Depth(a) = 0
    BY <1>2, <2>1
  <2>2. CASE Depth(a) # 0
    <3>1. Depth(a) \in 1 .. Depth(a)
      BY <1>1, <2>2
    <3>2. PICK e \in disk'.events : e.actor = a /\ e.lamport = Depth(a)
      BY <1>1, <3>1
    <3>3. e.lamport \in 1 .. Depth(a)'
      BY <1>2, <3>2 DEF Numbered
    <3> QED
      BY <3>2, <3>3
  <2> QED
    BY <2>1, <2>2
<1>4. ASSUME NEW k \in 1 .. Depth(a)
      PROVE  History'[a][k] = History[a][k]
  <2>1. k \in 1 .. Depth(a)'
    BY <1>1, <1>2, <1>3
  <2>2. EventAt(a, k)' = EventAt(a, k)
    BY <1>1, <1>2, <2>1 DEF Numbered
  <2> QED
    BY <2>1, <2>2 DEF History
<1>5. Len(History[a]) = Depth(a) /\ Len(History'[a]) = Depth(a)'
  BY PlacesTyped, PlacesTypedNext DEF HistoryTyped
<1> QED
  BY <1>1, <1>2, <1>3, <1>4, <1>5 DEF Durable!Extends

\* No step takes a committed event back.
LEMMA DiskKeeps ==
  ASSUME DagInv, [Next]_vars
  PROVE  disk.events \subseteq disk'.events
<1>1. disk' = disk \/ disk' = db
  BY DEF Next, vars, BeginRequest, CreateEntity, CreateObject, CreateDm, DeleteLink,
         MergeForks, ContinueRequest, InsertEntity, CommitOnly, CommitObject,
         BuildEvent, InsertEvent, CommitEvent, IndexEvent, CommitElsewhere, Crash
<1> QED
  BY <1>1 DEF DagInv, Stored

\* The second server's table of events, as crashes leave it, implements an
\* append-only history of each actor.
THEOREM DagIsAppendOnly == Spec => AppendOnly
<1>1. PlacesInv => Durable!Init
  <2> SUFFICES ASSUME PlacesInv PROVE Durable!Init
    OBVIOUS
  <2>1. \A a \in Actors : History[a] \in Seq(Entry)
    BY PlacesTyped DEF HistoryTyped
  <2> QED
    BY <2>1 DEF Durable!Init, Durable!TypeOK, History
<1>2. PlacesInv /\ PlacesInv' /\ [Next]_vars => Durable!Publish
  <2> SUFFICES ASSUME PlacesInv, PlacesInv', [Next]_vars PROVE Durable!Publish
    OBVIOUS
  <2>1. disk.events \subseteq disk'.events
    BY DiskKeeps DEF PlacesInv
  <2>2. \A a \in Actors : History'[a] \in Seq(Entry)
    BY PlacesTypedNext DEF HistoryTyped
  <2>3. History' \in [Actors -> Seq(Entry)]
    BY <2>2 DEF History
  <2>4. \A a \in Actors : Durable!Extends(History[a], History'[a])
    BY <2>1, HistoryGrows
  <2> QED
    BY <2>3, <2>4 DEF Durable!Publish, Durable!TypeOK
<1> QED
  BY <1>1, <1>2, InitPlaces, StepPlaces, PTL DEF Spec, AppendOnly, Durable!Spec
===============================================================================
