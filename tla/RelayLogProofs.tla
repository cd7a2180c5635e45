--------------------------- MODULE RelayLogProofs ----------------------------
(***************************************************************************)
(* Theorems about RelayLog for every set of actors, contents and requests, *)
(* any number of requests in progress and any number of crashes.           *)
(*                                                                         *)
(* The safety of the log rests on LogInv: the places 1 .. head are all     *)
(* taken, none beyond head + 1 is, and a request about to write a head     *)
(* owns the one place beyond it.                                           *)
(***************************************************************************)
EXTENDS RelayLog, Sequences, TLAPS

(***************************************************************************)
(* Types.                                                                  *)
(***************************************************************************)

\* A request waits only for statements of its own handler, and inserts an
\* event only after append_log has compared seq and prev.
PcMatchesOp ==
  \A r \in Requests :
    /\ pc[r] = "insert_entity" => r.op = "create_entity"
    /\ pc[r] \in {"insert_link", "reactivate_link"} => r.op = "create_link"
    /\ pc[r] = "tombstone_link" => r.op = "delete_link"
    /\ pc[r] \in {"delete_row", "commit_delete"} => r.op = "delete_content"
    /\ pc[r] = "insert_event" => seq[r] = prev[r] + 1

TypeInv == TypeOK /\ PcMatchesOp

\* The Registered actors' tables are typed, and no request waits for anything.
LEMMA InitTypeInv == Init => TypeInv
<1> SUFFICES ASSUME Init PROVE TypeInv
  OBVIOUS
<1>1. Empty \in Database
  BY RequestsAssumption
  DEF Empty, Database, Genesis, Event, Objects, Links, LinkState
<1>2. crashes \in 0 .. MaxCrashes
  BY RequestsAssumption DEF Init
<1> QED
  BY <1>1, <1>2 DEF Init, TypeInv, TypeOK, PcMatchesOp

\* A step that starts a request leaves the tables and locals typed.
LEMMA BeginTypeInv ==
  ASSUME TypeInv, NEW r \in Requests, BeginRequest(r)
  PROVE  TypeInv'
<1> USE DEF TypeInv, Start, Step, UnchangedTables, UnchangedLocals, InFlight,
            Ended
<1>1. CASE CreateEntity(r)
  BY <1>1 DEF CreateEntity, TypeOK, PcMatchesOp
<1>2. CASE CreateContent(r)
  <2>1. <<r.obj, r.actor>> \in Contents \X Actors
    BY <1>2, RequestsAssumption DEF CreateContent, Request
  <2>2. db' \in Database
    BY <1>2, <2>1 DEF CreateContent, TypeOK, Database
  <2> QED
    BY <1>2, <2>2 DEF CreateContent, TypeOK, PcMatchesOp
<1>3. CASE DeleteContent(r)
  BY <1>3 DEF DeleteContent, TypeOK, PcMatchesOp
<1>4. CASE CreateLink(r)
  <2>1. db.links[r.obj] \in LinkState
    BY <1>4, RequestsAssumption DEF CreateLink, TypeOK, Database
  <2> QED
    BY <1>4, <2>1 DEF CreateLink, TypeOK, PcMatchesOp, LinkState
<1>5. CASE DeleteLink(r)
  BY <1>5 DEF DeleteLink, TypeOK, PcMatchesOp
<1> QED
  BY <1>1, <1>2, <1>3, <1>4, <1>5 DEF BeginRequest

\* Every statement after the first keeps the types, and a request goes on only
\* with statements of its own handler.
LEMMA ContinueTypeInv ==
  ASSUME TypeInv, NEW r \in Requests, ContinueRequest(r)
  PROVE  TypeInv'
<1> USE DEF TypeInv, Step, UnchangedTables, UnchangedLocals, InFlight, Ended
<1>0. r.actor \in Actors /\ r.obj \in Objects /\ r.op \in Ops
  BY RequestsAssumption DEF Request
<1>1. CASE InsertEntity(r)
  <2>1. db' \in Database
    BY <1>0, <1>1 DEF InsertEntity, TypeOK, Database
  <2> QED
    BY <1>1, <2>1 DEF InsertEntity, TypeOK, PcMatchesOp
<1>2. CASE InsertLink(r)
  <2>1. r.obj \in Links
    BY <1>2, RequestsAssumption DEF InsertLink, PcMatchesOp
  <2>2. db' \in Database
    BY <1>2, <2>1 DEF InsertLink, TypeOK, Database, LinkState
  <2> QED
    BY <1>2, <2>2 DEF InsertLink, TypeOK, PcMatchesOp
<1>3. CASE ReactivateLink(r)
  <2>1. db' \in Database
    BY <1>3 DEF ReactivateLink, TypeOK, Database, LinkState
  <2> QED
    BY <1>3, <2>1 DEF ReactivateLink, TypeOK, PcMatchesOp
<1>4. CASE TombstoneLink(r)
  <2>1. db' \in Database
    BY <1>4 DEF TombstoneLink, TypeOK, Database, LinkState
  <2> QED
    BY <1>4, <2>1 DEF TombstoneLink, TypeOK, PcMatchesOp
<1>5. CASE CommitObject(r)
  BY <1>5 DEF CommitObject, TypeOK, PcMatchesOp
<1>6. CASE ReadHead(r)
  BY <1>0, <1>6 DEF ReadHead, TypeOK, PcMatchesOp, Database
<1>7. CASE ReadSeq(r)
  BY <1>0, <1>7 DEF ReadSeq, TypeOK, PcMatchesOp, Database
<1>8. CASE CheckLog(r)
  BY <1>8 DEF CheckLog, FollowsHead, TypeOK, PcMatchesOp
<1>9. CASE InsertEvent(r)
  <2>1. seq[r] \in Nat \ {0} /\ prev[r] \in Nat
    BY <1>9 DEF InsertEvent, TypeOK, PcMatchesOp
  <2>2. NewEvent(r) \in Event
    BY <1>0, <2>1 DEF NewEvent, Event
  <2>3. db' \in Database
    BY <1>9, <2>2 DEF InsertEvent, TypeOK, Database
  <2> QED
    BY <1>9, <2>3 DEF InsertEvent, TypeOK, PcMatchesOp
<1>10. CASE WriteHead(r)
  <2>1. db' \in Database
    BY <1>0, <1>10 DEF WriteHead, TypeOK, Database
  <2> QED
    BY <1>10, <2>1 DEF WriteHead, TypeOK, PcMatchesOp
<1>11. CASE CommitLog(r)
  BY <1>11 DEF CommitLog, TypeOK, PcMatchesOp
<1>12. CASE DeleteRow(r)
  <2>1. db' \in Database
    BY <1>12 DEF DeleteRow, TypeOK, Database
  <2> QED
    BY <1>12, <2>1 DEF DeleteRow, TypeOK, PcMatchesOp
<1>13. CASE CommitDelete(r)
  BY <1>13 DEF CommitDelete, TypeOK, PcMatchesOp
<1> QED
  BY <1>1, <1>2, <1>3, <1>4, <1>5, <1>6, <1>7, <1>8, <1>9, <1>10, <1>11,
     <1>12, <1>13 DEF ContinueRequest

\* So does every step: the environment's moves only copy tables.
LEMMA StepTypeInv == TypeInv /\ [Next]_vars => TypeInv'
<1> SUFFICES ASSUME TypeInv, [Next]_vars PROVE TypeInv'
  OBVIOUS
<1>1. CASE CommitElsewhere
  BY <1>1 DEF CommitElsewhere, UnchangedLocals, TypeInv, TypeOK, PcMatchesOp
<1>2. CASE Crash
  BY <1>2, RequestsAssumption
  DEF Crash, TypeInv, TypeOK, PcMatchesOp, InFlight, Ended
<1>3. CASE UNCHANGED vars
  BY <1>3 DEF vars, TypeInv, TypeOK, PcMatchesOp
<1> QED
  BY <1>1, <1>2, <1>3, BeginTypeInv, ContinueTypeInv DEF Next

\* Every reachable state is well typed, and no handler waits for a statement
\* of another handler.
THEOREM TypeCorrect == Spec => []TypeInv
BY InitTypeInv, StepTypeInv, PTL DEF Spec

\* Every reachable state is well typed.
COROLLARY WellTyped == Spec => []TypeOK
BY TypeCorrect, PTL DEF TypeInv

(***************************************************************************)
(* The chain.                                                              *)
(***************************************************************************)

\* Every place up to the head is taken.
Filled(d) == \A a \in Actors, s \in Nat \ {0} :
               s <= d.heads[a] => HasEvent(d, a, s)

\* At most one place beyond the head is taken.
Bounded(d) == \A e \in d.events : e.seq <= d.heads[e.actor] + 1

LogSound(d) == /\ OneEventPerPlace(d)
               /\ \A e \in d.events : e.seq = e.prev + 1
               /\ Filled(d)
               /\ Bounded(d)

\* The place beyond the head belongs to the one request about to write the
\* head there; a request about to insert is at most one place beyond it.
WriterInv ==
  /\ \A r \in Requests :
       /\ pc[r] = "insert_event" => prev[r] <= db.heads[r.actor]
       /\ pc[r] = "write_head" => /\ seq[r] = db.heads[r.actor] + 1
                                  /\ HasEvent(db, r.actor, seq[r])
  /\ \A r, s \in Requests :
       pc[r] = "write_head" /\ pc[s] = "write_head" /\ r.actor = s.actor
         => r = s

LogInv == /\ LogSound(db) /\ LogSound(disk)
          /\ disk.events \subseteq db.events   \* events are never taken back
          /\ WriterInv

\* At the start each registered actor's log is its genesis event.
LEMMA InitLogInv == Init => LogInv
<1> SUFFICES ASSUME Init PROVE LogInv
  OBVIOUS
<1>1. LogSound(Empty)
  <2>1. OneEventPerPlace(Empty)
    BY DEF OneEventPerPlace, Empty, Genesis
  <2>2. \A e \in Empty.events : e.seq = e.prev + 1
    BY DEF Empty, Genesis
  <2>3. Filled(Empty)
    <3> SUFFICES ASSUME NEW a \in Actors, NEW s \in Nat \ {0},
                        s <= Empty.heads[a]
                 PROVE  HasEvent(Empty, a, s)
      BY DEF Filled
    <3>1. a \in Registered /\ s = 1
      BY DEF Empty
    <3>2. Genesis(a) \in Empty.events
      BY <3>1 DEF Empty
    <3> QED
      BY <3>1, <3>2 DEF HasEvent, Genesis
  <2>4. Bounded(Empty)
    BY RequestsAssumption DEF Bounded, Empty, Genesis
  <2> QED
    BY <2>1, <2>2, <2>3, <2>4 DEF LogSound
<1> QED
  BY <1>1 DEF Init, LogInv, WriterInv

\* LogSound looks at two tables only.
LEMMA SameLog ==
  ASSUME NEW d, NEW e, d.events = e.events, d.heads = e.heads, LogSound(d)
  PROVE  LogSound(e)
BY DEF LogSound, OneEventPerPlace, Filled, Bounded, HasEvent

\* Steps that touch neither table and bring no request nearer to the log.
LEMMA FrameLogInv ==
  ASSUME LogInv,
         db'.events = db.events, db'.heads = db.heads,
         disk' = disk \/ disk' = db,
         \A r \in Requests :
           /\ pc'[r] = "insert_event" =>
                pc[r] = "insert_event" /\ prev'[r] = prev[r]
           /\ pc'[r] = "write_head" =>
                pc[r] = "write_head" /\ seq'[r] = seq[r]
  PROVE  LogInv'
<1>1. LogSound(db')
  BY SameLog DEF LogInv
<1>2. LogSound(disk')
  BY DEF LogInv
<1>3. WriterInv'
  BY DEF LogInv, WriterInv, HasEvent
<1> QED
  BY <1>1, <1>2, <1>3 DEF LogInv, LogSound, OneEventPerPlace, Filled, Bounded,
                          HasEvent

\* No handler touches the log before its second statement.
LEMMA BeginLogInv ==
  ASSUME TypeInv, LogInv, NEW r \in Requests, BeginRequest(r)
  PROVE  LogInv'
<1> USE DEF Start, Step, UnchangedTables, UnchangedLocals, TypeInv, TypeOK
<1>1. CASE CreateEntity(r)
  BY <1>1, FrameLogInv DEF CreateEntity
<1>2. CASE CreateContent(r)
  BY <1>2, FrameLogInv DEF CreateContent, Database
<1>3. CASE DeleteContent(r)
  BY <1>3, FrameLogInv DEF DeleteContent
<1>4. CASE CreateLink(r)
  <2>1. db.links[r.obj] \in LinkState
    BY <1>4, RequestsAssumption DEF CreateLink, Database
  <2> QED
    BY <1>4, <2>1, FrameLogInv DEF CreateLink, LinkState
<1>5. CASE DeleteLink(r)
  BY <1>5, FrameLogInv DEF DeleteLink
<1> QED
  BY <1>1, <1>2, <1>3, <1>4, <1>5 DEF BeginRequest

\* The insertion: a free place within reach is the one beyond the head.
LEMMA InsertLogInv ==
  ASSUME TypeInv, LogInv, NEW r \in Requests, InsertEvent(r),
         ~ HasEvent(db, r.actor, seq[r])
  PROVE  LogInv'
<1> USE DEF TypeInv, TypeOK
<1>0. /\ r.actor \in Actors
      /\ seq[r] \in Nat \ {0} /\ prev[r] \in Nat /\ seq[r] = prev[r] + 1
      /\ db.heads \in [Actors -> Nat] /\ db.events \in SUBSET Event
  BY RequestsAssumption DEF Request, InsertEvent, Step, PcMatchesOp, Database
<1>1. seq[r] = db.heads[r.actor] + 1
  <2>1. prev[r] <= db.heads[r.actor]
    BY DEF LogInv, WriterInv, InsertEvent, Step
  <2>2. ~ (seq[r] <= db.heads[r.actor])
    BY <1>0 DEF LogInv, LogSound, Filled
  <2> QED
    BY <1>0, <2>1, <2>2
<1>2. /\ db'.events = db.events \cup {NewEvent(r)}
      /\ db'.heads = db.heads
      /\ disk' = disk /\ prev' = prev /\ seq' = seq
      /\ pc' = [pc EXCEPT ![r] = "write_head"]
  BY DEF InsertEvent, Step, UnchangedLocals, Database
<1>3. /\ NewEvent(r).actor = r.actor /\ NewEvent(r).seq = seq[r]
      /\ NewEvent(r).prev = prev[r]
  BY DEF NewEvent
<1>4. OneEventPerPlace(db')
  BY <1>2, <1>3 DEF LogInv, LogSound, OneEventPerPlace, HasEvent
<1>5. \A e \in db'.events : e.seq = e.prev + 1
  BY <1>0, <1>2, <1>3 DEF LogInv, LogSound
<1>6. Filled(db')
  BY <1>2 DEF LogInv, LogSound, Filled, HasEvent
<1>7. Bounded(db')
  BY <1>1, <1>2, <1>3 DEF LogInv, LogSound, Bounded
<1>8. WriterInv'
  <2>1. \A s \in Requests : pc[s] = "write_head" => s.actor # r.actor
    BY <1>1 DEF LogInv, WriterInv
  <2>2. HasEvent(db', r.actor, seq[r])
    BY <1>2, <1>3 DEF HasEvent
  <2> QED
    BY <1>1, <1>2, <2>1, <2>2 DEF LogInv, WriterInv, HasEvent
<1> QED
  BY <1>2, <1>4, <1>5, <1>6, <1>7, <1>8
  DEF LogInv, LogSound, OneEventPerPlace, Filled, Bounded, HasEvent

\* Writing the head moves it to the one place beyond it, which the request owns.
LEMMA HeadLogInv ==
  ASSUME TypeInv, LogInv, NEW r \in Requests, WriteHead(r)
  PROVE  LogInv'
<1> USE DEF TypeInv, TypeOK
<1>0. /\ r.actor \in Actors
      /\ db.heads \in [Actors -> Nat] /\ db.events \in SUBSET Event
  BY RequestsAssumption DEF Request, Database
<1>1. /\ seq[r] = db.heads[r.actor] + 1
      /\ HasEvent(db, r.actor, seq[r])
      /\ pc[r] = "write_head"
  BY DEF LogInv, WriterInv, WriteHead, Step
<1>2. /\ db'.events = db.events
      /\ db'.heads = [db.heads EXCEPT ![r.actor] = seq[r]]
      /\ disk' = disk /\ prev' = prev /\ seq' = seq
      /\ pc' = [pc EXCEPT ![r] = "commit_log"]
  BY DEF WriteHead, Step, UnchangedLocals, Database
<1>3. OneEventPerPlace(db') /\ \A e \in db'.events : e.seq = e.prev + 1
  BY <1>2 DEF LogInv, LogSound, OneEventPerPlace
<1>4. Filled(db')
  BY <1>0, <1>1, <1>2 DEF LogInv, LogSound, Filled, HasEvent
<1>5. Bounded(db')
  BY <1>0, <1>1, <1>2 DEF LogInv, LogSound, Bounded, Event
<1>6. WriterInv'
  <2>1. \A s \in Requests : pc'[s] = "write_head" => s.actor # r.actor
    BY <1>1, <1>2 DEF LogInv, WriterInv
  <2>2. \A s \in Requests : s.actor \in Actors
    BY RequestsAssumption DEF Request
  <2> QED
    BY <1>0, <1>1, <1>2, <2>1, <2>2 DEF LogInv, WriterInv, HasEvent
<1> QED
  BY <1>2, <1>3, <1>4, <1>5, <1>6
  DEF LogInv, LogSound, OneEventPerPlace, Filled, Bounded, HasEvent

\* Of the later statements only InsertEvent and WriteHead need an argument.
LEMMA ContinueLogInv ==
  ASSUME TypeInv, LogInv, NEW r \in Requests, ContinueRequest(r)
  PROVE  LogInv'
<1> USE DEF Step, UnchangedTables, UnchangedLocals, TypeInv, TypeOK
<1>1. CASE InsertEntity(r)
  BY <1>1, FrameLogInv DEF InsertEntity, Database
<1>2. CASE InsertLink(r)
  BY <1>2, FrameLogInv DEF InsertLink, Database
<1>3. CASE ReactivateLink(r)
  BY <1>3, FrameLogInv DEF ReactivateLink, Database
<1>4. CASE TombstoneLink(r)
  BY <1>4, FrameLogInv DEF TombstoneLink, Database
<1>5. CASE CommitObject(r)
  BY <1>5, FrameLogInv DEF CommitObject
<1>6. CASE ReadHead(r)
  BY <1>6, FrameLogInv DEF ReadHead
<1>7. CASE ReadSeq(r)
  BY <1>7, FrameLogInv DEF ReadSeq
<1>8. CASE CheckLog(r)
  <2>1. FollowsHead(r) => prev[r] <= db.heads[r.actor]
    BY RequestsAssumption DEF FollowsHead, Database, Request
  <2>2. WriterInv'
    BY <1>8, <2>1 DEF CheckLog, LogInv, WriterInv
  <2> QED
    BY <1>8, <2>2 DEF CheckLog, LogInv
<1>9. CASE InsertEvent(r)
  <2>1. CASE HasEvent(db, r.actor, seq[r])
    BY <1>9, <2>1, FrameLogInv DEF InsertEvent
  <2> QED
    BY <1>9, <2>1, InsertLogInv
<1>10. CASE WriteHead(r)
  BY <1>10, HeadLogInv
<1>11. CASE CommitLog(r)
  BY <1>11, FrameLogInv DEF CommitLog
<1>12. CASE DeleteRow(r)
  BY <1>12, FrameLogInv DEF DeleteRow, Database
<1>13. CASE CommitDelete(r)
  BY <1>13, FrameLogInv DEF CommitDelete
<1> QED
  BY <1>1, <1>2, <1>3, <1>4, <1>5, <1>6, <1>7, <1>8, <1>9, <1>10, <1>11,
     <1>12, <1>13 DEF ContinueRequest

\* LogInv is inductive: a commit copies one good log over another, a crash back.
LEMMA StepLogInv == TypeInv /\ LogInv /\ [Next]_vars => LogInv'
<1> SUFFICES ASSUME TypeInv, LogInv, [Next]_vars PROVE LogInv'
  OBVIOUS
<1>1. CASE CommitElsewhere
  BY <1>1, FrameLogInv DEF CommitElsewhere, UnchangedLocals
<1>2. CASE Crash
  <2>1. \A r \in Requests : pc'[r] # "insert_event" /\ pc'[r] # "write_head"
    BY <1>2 DEF Crash, TypeInv, TypeOK, InFlight
  <2> QED
    BY <1>2, <2>1 DEF Crash, LogInv, WriterInv
<1>3. CASE UNCHANGED vars
  BY <1>3, FrameLogInv DEF vars
<1> QED
  BY <1>1, <1>2, <1>3, BeginLogInv, ContinueLogInv DEF Next

\* The log tables are sound in the shared view and on disk, and an event once
\* committed is never taken back.
THEOREM LogInvariant == Spec => []LogInv
BY TypeCorrect, InitLogInv, StepLogInv, PTL DEF Spec

\* Under every interleaving of requests, commits and crashes the log of every
\* actor is one gap-free chain, in the shared view and on disk.
THEOREM ChainAlwaysSound == Spec => []ChainSound
<1>1. ASSUME NEW d \in Database, LogSound(d)
      PROVE  OneEventPerPlace(d) /\ Linked(d)
  BY <1>1 DEF LogSound, Linked, Filled, Bounded, Database, Event
<1>2. TypeInv /\ LogInv => ChainSound
  BY <1>1 DEF TypeInv, TypeOK, LogInv, ChainSound
<1> QED
  BY <1>2, TypeCorrect, LogInvariant, PTL

(***************************************************************************)
(* The head table.                                                         *)
(***************************************************************************)
HeadInv ==
  \A a \in Actors : Uncounted(db, a) /\ crashes = 0 =>
    \E r \in Requests : /\ r.actor = a /\ pc[r] = "write_head"
                        /\ seq[r] = db.heads[a] + 1

\* At the start every event is counted.
LEMMA InitHeadInv == Init => HeadInv
BY RequestsAssumption DEF Init, HeadInv, Uncounted, HasEvent, Empty, Genesis

\* Steps that keep the two tables, and whoever is about to write a head.
LEMMA FrameHeadInv ==
  ASSUME HeadInv, crashes' = crashes,
         db'.events = db.events, db'.heads = db.heads,
         \A r \in Requests : pc[r] = "write_head" =>
           pc'[r] = "write_head" /\ seq'[r] = seq[r]
  PROVE  HeadInv'
BY DEF HeadInv, Uncounted, HasEvent

\* A request that starts leaves the log and the writers of heads alone.
LEMMA BeginHeadInv ==
  ASSUME TypeInv, HeadInv, NEW r \in Requests, BeginRequest(r)
  PROVE  HeadInv'
<1> USE DEF Start, Step, UnchangedTables, UnchangedLocals, TypeInv, TypeOK
<1>1. CASE CreateEntity(r)
  BY <1>1, FrameHeadInv DEF CreateEntity
<1>2. CASE CreateContent(r)
  BY <1>2, FrameHeadInv DEF CreateContent, Database
<1>3. CASE DeleteContent(r)
  BY <1>3, FrameHeadInv DEF DeleteContent
<1>4. CASE CreateLink(r)
  BY <1>4, FrameHeadInv DEF CreateLink
<1>5. CASE DeleteLink(r)
  BY <1>5, FrameHeadInv DEF DeleteLink
<1> QED
  BY <1>1, <1>2, <1>3, <1>4, <1>5 DEF BeginRequest

\* InsertEvent makes the event uncounted and its request the one to write the
\* head; WriteHead ends both.
LEMMA ContinueHeadInv ==
  ASSUME TypeInv, LogInv, HeadInv, NEW r \in Requests, ContinueRequest(r)
  PROVE  HeadInv'
<1> USE DEF Step, UnchangedTables, UnchangedLocals, TypeInv, TypeOK
<1>1. CASE InsertEntity(r)
  BY <1>1, FrameHeadInv DEF InsertEntity, Database
<1>2. CASE InsertLink(r)
  BY <1>2, FrameHeadInv DEF InsertLink, Database
<1>3. CASE ReactivateLink(r)
  BY <1>3, FrameHeadInv DEF ReactivateLink, Database
<1>4. CASE TombstoneLink(r)
  BY <1>4, FrameHeadInv DEF TombstoneLink, Database
<1>5. CASE CommitObject(r)
  BY <1>5, FrameHeadInv DEF CommitObject
<1>6. CASE ReadHead(r)
  BY <1>6, FrameHeadInv DEF ReadHead
<1>7. CASE ReadSeq(r)
  BY <1>7, FrameHeadInv DEF ReadSeq
<1>8. CASE CheckLog(r)
  BY <1>8, FrameHeadInv DEF CheckLog
<1>9. CASE InsertEvent(r)
  <2>1. CASE HasEvent(db, r.actor, seq[r])
    BY <1>9, <2>1, FrameHeadInv DEF InsertEvent
  <2>2. CASE ~ HasEvent(db, r.actor, seq[r])
    <3>1. /\ db'.events = db.events \cup {NewEvent(r)}
          /\ db'.heads = db.heads
          /\ seq' = seq /\ crashes' = crashes
          /\ pc' = [pc EXCEPT ![r] = "write_head"]
      BY <1>9, <2>2 DEF InsertEvent, Database
    <3>2. NewEvent(r).actor = r.actor /\ NewEvent(r).seq = seq[r]
      BY DEF NewEvent
    <3>3. \A s \in Requests : pc[s] = "write_head" => pc'[s] = "write_head"
      BY <3>1
    <3> QED
      BY <3>1, <3>2, <3>3 DEF HeadInv, Uncounted, HasEvent
  <2> QED
    BY <2>1, <2>2
<1>10. CASE WriteHead(r)
  <2>0. /\ r.actor \in Actors
        /\ db.heads \in [Actors -> Nat] /\ db.events \in SUBSET Event
    BY RequestsAssumption DEF Request, Database
  <2>1. /\ db'.events = db.events /\ crashes' = crashes /\ seq' = seq
        /\ db'.heads = [db.heads EXCEPT ![r.actor] = seq[r]]
        /\ pc' = [pc EXCEPT ![r] = "commit_log"]
        /\ seq[r] = db.heads[r.actor] + 1
    BY <1>10 DEF WriteHead, LogInv, WriterInv, Database
  <2>2. ~ Uncounted(db, r.actor)'
    <3>1. \A e \in db.events : e.seq \in Nat
      BY <2>0 DEF Event
    <3> QED
      BY <2>0, <2>1, <3>1 DEF Uncounted, HasEvent, LogInv, LogSound, Bounded
  <2> QED
    BY <2>0, <2>1, <2>2 DEF HeadInv, Uncounted, HasEvent
<1>11. CASE CommitLog(r)
  BY <1>11, FrameHeadInv DEF CommitLog
<1>12. CASE DeleteRow(r)
  BY <1>12, FrameHeadInv DEF DeleteRow, Database
<1>13. CASE CommitDelete(r)
  BY <1>13, FrameHeadInv DEF CommitDelete
<1> QED
  BY <1>1, <1>2, <1>3, <1>4, <1>5, <1>6, <1>7, <1>8, <1>9, <1>10, <1>11,
     <1>12, <1>13 DEF ContinueRequest

\* HeadInv is inductive; after a crash it claims nothing of the connection.
LEMMA StepHeadInv == TypeInv /\ LogInv /\ HeadInv /\ [Next]_vars => HeadInv'
<1> SUFFICES ASSUME TypeInv, LogInv, HeadInv, [Next]_vars PROVE HeadInv'
  OBVIOUS
<1>1. CASE CommitElsewhere
  BY <1>1, FrameHeadInv DEF CommitElsewhere, UnchangedLocals
<1>2. CASE Crash
  <2>1. crashes' # 0
    BY <1>2, RequestsAssumption DEF Crash, TypeInv, TypeOK
  <2> QED
    BY <2>1 DEF HeadInv
<1>3. CASE UNCHANGED vars
  BY <1>3, FrameHeadInv DEF vars
<1> QED
  BY <1>1, <1>2, <1>3, BeginHeadInv, ContinueHeadInv DEF Next

\* The head of a log is at most one event behind the log, and before the
\* first crash only while append_log is between its two writes.
THEOREM HeadAlwaysTrails == Spec => []HeadTrails
<1>1. Spec => []HeadInv
  BY InitHeadInv, StepHeadInv, TypeCorrect, LogInvariant, PTL DEF Spec
<1>2. ASSUME NEW d \in Database, LogSound(d), NEW a \in Actors
      PROVE  /\ d.heads[a] > 0 => HasEvent(d, a, d.heads[a])
             /\ \A e \in d.events : e.actor = a => e.seq <= d.heads[a] + 1
  BY <1>2 DEF LogSound, Filled, Bounded, Database
<1>3. TypeInv /\ LogInv /\ HeadInv => HeadTrails
  BY <1>2 DEF TypeInv, TypeOK, LogInv, HeadInv, HeadTrails
<1> QED
  BY <1>1, <1>3, TypeCorrect, LogInvariant, PTL

(***************************************************************************)
(* Implementation of AppendOnlyLog.                                        *)
(***************************************************************************)

\* The history of an actor: a sequence, one entry for each durable event.
HistoryOf(a) ==
  /\ Depth(a) \in Nat
  /\ \A s \in 1 .. Depth(a) :
       /\ EventAt(a, s) \in disk.events
       /\ EventAt(a, s).actor = a /\ EventAt(a, s).seq = s
  /\ History[a] \in Seq(Entry)
  /\ Len(History[a]) = Depth(a)

HistoryInv == /\ History \in [Actors -> Seq(Entry)]
              /\ \A a \in Actors : HistoryOf(a)

\* Every place of a durable history is one event of the table.
LEMMA HistoryEntries ==
  ASSUME TypeInv, LogInv, NEW a \in Actors
  PROVE  HistoryOf(a)
<1>0. disk.heads \in [Actors -> Nat] /\ disk.events \in SUBSET Event
  BY DEF TypeInv, TypeOK, Database
<1>1. Depth(a) \in Nat
  BY <1>0 DEF Depth
<1>2. ASSUME NEW s \in 1 .. Depth(a)
      PROVE  /\ EventAt(a, s) \in disk.events
             /\ EventAt(a, s).actor = a /\ EventAt(a, s).seq = s
  <2>1. HasEvent(disk, a, s)
    BY <1>0, <1>1 DEF Depth, Uncounted, LogInv, LogSound, Filled
  <2> QED
    BY <2>1 DEF HasEvent, EventAt
<1>3. \A s \in 1 .. Depth(a) :
        [op |-> EventAt(a, s).op, obj |-> EventAt(a, s).obj] \in Entry
  BY <1>0, <1>2 DEF Entry, Event
<1>4. History[a] = [s \in 1 .. Depth(a) |-> [op |-> EventAt(a, s).op,
                                             obj |-> EventAt(a, s).obj]]
  BY DEF History
<1> QED
  BY <1>1, <1>2, <1>3, <1>4 DEF HistoryOf

\* So the history has the type AppendOnlyLog asks for,
LEMMA HistoryTyped == TypeInv /\ LogInv => HistoryInv
BY HistoryEntries DEF History, HistoryInv, HistoryOf

\* and has it again after a step.
LEMMA HistoryTypedNext == TypeInv' /\ LogInv' => HistoryInv'
BY HistoryTyped, PTL

\* A commit extends every history at its end.
LEMMA CommitExtends ==
  ASSUME TypeInv, TypeInv', LogInv, LogInv',
         disk.events \subseteq disk'.events, NEW a \in Actors
  PROVE  Durable!Extends(History[a], History'[a])
<1>0. /\ disk.heads \in [Actors -> Nat] /\ disk.events \in SUBSET Event
      /\ disk'.heads \in [Actors -> Nat] /\ disk'.events \in SUBSET Event
  BY DEF TypeInv, TypeOK, Database
<1>1. /\ Depth(a) \in Nat /\ Len(History[a]) = Depth(a)
      /\ \A s \in 1 .. Depth(a) :
           /\ EventAt(a, s) \in disk.events
           /\ EventAt(a, s).actor = a /\ EventAt(a, s).seq = s
  BY HistoryEntries DEF HistoryOf
<1>2. /\ Depth(a)' \in Nat /\ Len(History'[a]) = Depth(a)'
      /\ \A s \in 1 .. Depth(a)' :
           /\ EventAt(a, s)' \in disk'.events
           /\ EventAt(a, s)'.actor = a /\ EventAt(a, s)'.seq = s
  BY HistoryTypedNext DEF HistoryInv, HistoryOf
<1>3. Depth(a) <= Depth(a)'
  <2>1. CASE Depth(a) = 0
    BY <1>2, <2>1
  <2>2. CASE Depth(a) # 0
    <3>1. PICK e \in disk'.events : e.actor = a /\ e.seq = Depth(a)
      BY <1>1, <2>2
    <3>2. e.seq <= disk'.heads[a] + 1
      BY <3>1 DEF LogInv, LogSound, Bounded
    <3>3. e.seq = disk'.heads[a] + 1 => Depth(a)' = disk'.heads[a] + 1
      BY <3>1 DEF Depth, Uncounted, HasEvent
    <3>4. Depth(a)' \in {disk'.heads[a], disk'.heads[a] + 1}
      BY DEF Depth
    <3> QED
      BY <1>0, <1>1, <3>1, <3>2, <3>3, <3>4
  <2> QED
    BY <2>1, <2>2
<1>4. ASSUME NEW s \in 1 .. Depth(a)
      PROVE  History'[a][s] = History[a][s]
  <2>1. EventAt(a, s)' = EventAt(a, s)
    BY <1>1, <1>2, <1>3 DEF LogInv, LogSound, OneEventPerPlace
  <2>2. s \in 1 .. Depth(a)'
    BY <1>1, <1>2, <1>3
  <2> QED
    BY <2>1, <2>2 DEF History
<1> QED
  BY <1>1, <1>2, <1>3, <1>4 DEF Durable!Extends

\* No step takes a committed event back.
LEMMA DiskGrows ==
  ASSUME LogInv, [Next]_vars
  PROVE  disk' = disk \/ disk.events \subseteq disk'.events
<1>1. disk' = disk \/ disk' = db
  BY DEF Next, BeginRequest, ContinueRequest, CommitElsewhere, Crash, vars,
         UnchangedTables, CreateEntity, CreateContent, DeleteContent,
         CreateLink, DeleteLink, InsertEntity, InsertLink, ReactivateLink,
         TombstoneLink, CommitObject, ReadHead, ReadSeq, CheckLog,
         InsertEvent, WriteHead, CommitLog, DeleteRow, CommitDelete
<1> QED
  BY <1>1 DEF LogInv

\* Every step of RelayLog is a Publish of AppendOnlyLog or leaves the history.
LEMMA StepPublishes ==
  ASSUME TypeInv, TypeInv', LogInv, LogInv', [Next]_vars
  PROVE  [Durable!Publish]_History
<1>1. CASE disk' = disk
  BY <1>1 DEF History, Depth, EventAt, Uncounted, HasEvent
<1>2. CASE disk.events \subseteq disk'.events
  <2>1. History' \in [Actors -> Seq(Entry)]
    BY HistoryTypedNext DEF HistoryInv
  <2> QED
    BY <1>2, <2>1, CommitExtends DEF Durable!Publish, Durable!TypeOK
<1> QED
  BY <1>1, <1>2, DiskGrows

\* The relay's log tables, as crashes leave them, implement an append-only
\* history of each actor.
THEOREM LogIsAppendOnly == Spec => AppendOnly
<1>1. TypeInv /\ LogInv => Durable!Init
  BY HistoryTyped DEF HistoryInv, Durable!Init, Durable!TypeOK
<1>2. TypeInv /\ TypeInv' /\ LogInv /\ LogInv' /\ [Next]_vars
        => [Durable!Publish]_History
  BY StepPublishes
<1> QED
  BY <1>1, <1>2, TypeCorrect, LogInvariant, PTL
  DEF Spec, AppendOnly, Durable!Spec

-----------------------------------------------------------------------------
(***************************************************************************)
(* What an answer of the relay is worth.  AckInv follows the event of a    *)
(* request from the insertion to the disk, ObjectInv the object it writes, *)
(* and DeleteInv a content it deletes.                                     *)
(***************************************************************************)

\* The statements after InsertEvent, and those after CommitLog.
Written == {"write_head", "commit_log", "delete_row", "commit_delete", "done"}
Logged  == {"delete_row", "commit_delete", "done"}

AckInv ==
  /\ \A r \in Requests : pc[r] \in Written => NewEvent(r) \in db.events
  /\ \A r \in Requests : pc[r] \in Logged => NewEvent(r) \in disk.events
  /\ \A r, s \in Requests :
       /\ pc[r] \in Written /\ pc[s] \in Written
       /\ r # s /\ r.actor = s.actor
       => seq[r] # seq[s]

\* No request has written anything.
LEMMA InitAckInv == Init => AckInv
BY DEF Init, AckInv, Written, Logged

\* Steps that leave the log table alone and insert no event.
LEMMA FrameAckInv ==
  ASSUME LogInv, AckInv, db'.events = db.events,
         disk' = disk \/ disk' = db,
         \A r \in Requests :
           /\ pc'[r] \in Written =>
                /\ pc[r] \in Written
                /\ prev'[r] = prev[r] /\ seq'[r] = seq[r]
           /\ pc'[r] \in Logged => pc[r] \in Logged \/ disk' = db
  PROVE  AckInv'
<1>1. \A r \in Requests : pc'[r] \in Written => NewEvent(r)' = NewEvent(r)
  BY DEF NewEvent
<1>2. disk.events \subseteq disk'.events
  BY DEF LogInv
<1>3. Logged \subseteq Written
  BY DEF Logged, Written
<1> QED
  BY <1>1, <1>2, <1>3 DEF AckInv

\* A request that starts has not inserted an event.
LEMMA BeginAckInv ==
  ASSUME TypeInv, LogInv, AckInv, NEW r \in Requests, BeginRequest(r)
  PROVE  AckInv'
<1> USE DEF Start, Step, UnchangedTables, UnchangedLocals, TypeInv, TypeOK,
            Written, Logged
<1>1. CASE CreateEntity(r)
  BY <1>1, FrameAckInv DEF CreateEntity
<1>2. CASE CreateContent(r)
  BY <1>2, FrameAckInv DEF CreateContent, Database
<1>3. CASE DeleteContent(r)
  BY <1>3, FrameAckInv DEF DeleteContent
<1>4. CASE CreateLink(r)
  <2>1. db.links[r.obj] \in LinkState
    BY <1>4, RequestsAssumption DEF CreateLink, Database
  <2> QED
    BY <1>4, <2>1, FrameAckInv DEF CreateLink, LinkState
<1>5. CASE DeleteLink(r)
  BY <1>5, FrameAckInv DEF DeleteLink
<1> QED
  BY <1>1, <1>2, <1>3, <1>4, <1>5 DEF BeginRequest

\* The primary key gives the new event a place that no other request has.
LEMMA InsertAckInv ==
  ASSUME TypeInv, AckInv, NEW r \in Requests, InsertEvent(r),
         ~ HasEvent(db, r.actor, seq[r])
  PROVE  AckInv'
<1>1. /\ db'.events = db.events \cup {NewEvent(r)}
      /\ disk' = disk /\ prev' = prev /\ seq' = seq
      /\ pc' = [pc EXCEPT ![r] = "write_head"]
  BY DEF InsertEvent, Step, UnchangedLocals, Database, TypeInv, TypeOK
<1>2. \A s \in Requests : NewEvent(s)' = NewEvent(s)
  BY <1>1 DEF NewEvent
<1>3. \A s \in Requests :
        pc[s] \in Written /\ s.actor = r.actor => seq[s] # seq[r]
  <2>1. \A s \in Requests :
          NewEvent(s).actor = s.actor /\ NewEvent(s).seq = seq[s]
    BY DEF NewEvent
  <2> QED
    BY <2>1 DEF AckInv, HasEvent
<1>4. \A s \in Requests : pc'[s] \in Logged => pc[s] \in Logged
  BY <1>1 DEF Logged, TypeInv, TypeOK
<1>5. \A s \in Requests : pc'[s] \in Written => pc[s] \in Written \/ s = r
  BY <1>1 DEF TypeInv, TypeOK
<1> QED
  BY <1>1, <1>2, <1>3, <1>4, <1>5 DEF AckInv

\* Of the later statements only InsertEvent and CommitLog say more of a request.
LEMMA ContinueAckInv ==
  ASSUME TypeInv, LogInv, AckInv, NEW r \in Requests, ContinueRequest(r)
  PROVE  AckInv'
<1> USE DEF Step, UnchangedTables, UnchangedLocals, TypeInv, TypeOK,
            Written, Logged
<1>1. CASE InsertEntity(r)
  BY <1>1, FrameAckInv DEF InsertEntity, Database
<1>2. CASE InsertLink(r)
  BY <1>2, FrameAckInv DEF InsertLink, Database
<1>3. CASE ReactivateLink(r)
  BY <1>3, FrameAckInv DEF ReactivateLink, Database
<1>4. CASE TombstoneLink(r)
  BY <1>4, FrameAckInv DEF TombstoneLink, Database
<1>5. CASE CommitObject(r)
  BY <1>5, FrameAckInv DEF CommitObject
<1>6. CASE ReadHead(r)
  BY <1>6, FrameAckInv DEF ReadHead
<1>7. CASE ReadSeq(r)
  BY <1>7, FrameAckInv DEF ReadSeq
<1>8. CASE CheckLog(r)
  BY <1>8, FrameAckInv DEF CheckLog
<1>9. CASE InsertEvent(r)
  <2>1. CASE HasEvent(db, r.actor, seq[r])
    BY <1>9, <2>1, FrameAckInv DEF InsertEvent
  <2> QED
    BY <1>9, <2>1, InsertAckInv
<1>10. CASE WriteHead(r)
  BY <1>10, FrameAckInv DEF WriteHead, Database
<1>11. CASE CommitLog(r)
  BY <1>11, FrameAckInv DEF CommitLog
<1>12. CASE DeleteRow(r)
  BY <1>12, FrameAckInv DEF DeleteRow, Database
<1>13. CASE CommitDelete(r)
  BY <1>13, FrameAckInv DEF CommitDelete
<1> QED
  BY <1>1, <1>2, <1>3, <1>4, <1>5, <1>6, <1>7, <1>8, <1>9, <1>10, <1>11,
     <1>12, <1>13 DEF ContinueRequest

\* AckInv is inductive: a crash turns the requests whose events it loses into
\* lost ones.
LEMMA StepAckInv == TypeInv /\ LogInv /\ AckInv /\ [Next]_vars => AckInv'
<1> SUFFICES ASSUME TypeInv, LogInv, AckInv, [Next]_vars PROVE AckInv'
  OBVIOUS
<1>1. CASE CommitElsewhere
  BY <1>1, FrameAckInv DEF CommitElsewhere, UnchangedLocals, Logged
<1>2. CASE Crash
  \* Of the requests that have written an event only those answered remain.
  <2>1. \A r \in Requests : pc'[r] \in Written => pc[r] = "done"
    BY <1>2 DEF Crash, TypeInv, TypeOK, InFlight, Ended, Written
  <2>2. \A r \in Requests : NewEvent(r)' = NewEvent(r)
    BY <1>2 DEF Crash, NewEvent
  <2> QED
    BY <1>2, <2>1, <2>2 DEF Crash, AckInv, Written, Logged
<1>3. CASE UNCHANGED vars
  BY <1>3, FrameAckInv DEF vars
<1> QED
  BY <1>1, <1>2, <1>3, BeginAckInv, ContinueAckInv DEF Next

\* The event of an answered request is on disk, at a place no other request of
\* the actor was answered for.
THEOREM AckInvariant == Spec => []AckInv
BY InitAckInv, StepAckInv, TypeCorrect, LogInvariant, PTL DEF Spec

\* No two acknowledged requests of an actor share a place of the log.
THEOREM AckedKeepsOwnPlace == Spec => []AckedOwnPlace
<1>1. AckInv => AckedOwnPlace
  BY DEF AckInv, AckedOwnPlace, Written
<1> QED
  BY <1>1, AckInvariant, PTL

(***************************************************************************)
(* The object a request writes.                                            *)
(***************************************************************************)

\* The object of r has been committed.
Saved(r) == \/ pc[r] \in {"read_head", "read_seq", "check_log", "insert_event",
                          "write_head", "commit_log"} \cup Logged
            \/ pc[r] = "failed" /\ r.op = "create_content"

Inserted(r) == Saved(r) \/ pc[r] = "commit_object"

Kept(d, r) ==
  /\ r.op = "create_entity"  => r.actor \in d.entities
  /\ r.op = "create_content" => \/ <<r.obj, r.actor>> \in d.contents
                                \/ Deleted(disk, r.obj)
  /\ r.op \in {"create_link", "delete_link"} => d.links[r.obj] # "absent"

ObjectInv ==
  /\ disk.entities \subseteq db.entities
  /\ \A l \in Links : disk.links[l] # "absent" => db.links[l] # "absent"
  /\ \A r \in Requests : /\ Inserted(r) => Kept(db, r)
                         /\ Saved(r) => Kept(disk, r)

\* No request has created anything.
LEMMA InitObjectInv == Init => ObjectInv
BY DEF Init, ObjectInv, Inserted, Saved, Logged

\* Steps that remove no content.
LEMMA FrameObjectInv ==
  ASSUME LogInv, ObjectInv,
         db.entities \subseteq db'.entities,
         db.contents \subseteq db'.contents,
         \A l \in Links : db.links[l] # "absent" => db'.links[l] # "absent",
         disk' = disk \/ (disk' = db /\ db' = db),
         \A r \in Requests :
           /\ Inserted(r)' => Inserted(r) \/ Kept(db, r)'
           /\ Saved(r)' => Saved(r) \/ (Inserted(r) /\ disk' = db)
  PROVE  ObjectInv'
<1>1. \A o : Deleted(disk, o) => Deleted(disk, o)'
  BY DEF LogInv, Deleted
<1>2. \A r \in Requests :
        r.op \in {"create_link", "delete_link"} => r.obj \in Links
  BY RequestsAssumption
<1>3. \A r \in Requests : Kept(db, r) => Kept(db, r)'
  BY <1>1, <1>2 DEF Kept
<1>4. \A r \in Requests : Kept(disk, r) /\ disk' = disk => Kept(disk, r)'
  BY <1>1 DEF Kept
<1>5. \A r \in Requests : Kept(db, r) /\ disk' = db => Kept(disk, r)'
  BY <1>1 DEF Kept
<1>6. \A r \in Requests : Saved(r) => Inserted(r)
  BY DEF Inserted
<1>7. /\ disk'.entities \subseteq db'.entities
      /\ \A l \in Links : disk'.links[l] # "absent" => db'.links[l] # "absent"
  BY DEF ObjectInv
<1> QED
  BY <1>3, <1>4, <1>5, <1>6, <1>7 DEF ObjectInv

\* The first statement may insert a content, which its request has yet to commit.
LEMMA BeginObjectInv ==
  ASSUME TypeInv, LogInv, ObjectInv, NEW r \in Requests, BeginRequest(r)
  PROVE  ObjectInv'
<1> USE DEF Start, Step, UnchangedTables, UnchangedLocals, TypeInv, TypeOK,
            Inserted, Saved, Logged
<1>1. CASE CreateEntity(r)
  BY <1>1, FrameObjectInv DEF CreateEntity
<1>2. CASE CreateContent(r)
  <2>1. Kept(db, r)'
    BY <1>2 DEF CreateContent, Kept, Database
  <2> QED
    BY <1>2, <2>1, FrameObjectInv DEF CreateContent, Database
<1>3. CASE DeleteContent(r)
  \* Nothing is claimed of the object of a delete_content here.
  <2>1. Kept(db, r) /\ Kept(disk, r)
    BY <1>3 DEF DeleteContent, Kept
  <2>2. \A s \in Requests : /\ Kept(db, s)' = Kept(db, s)
                            /\ Kept(disk, s)' = Kept(disk, s)
    BY <1>3 DEF DeleteContent, Kept
  <2> QED
    BY <1>3, <2>1, <2>2 DEF DeleteContent, ObjectInv
<1>4. CASE CreateLink(r)
  <2>1. db.links[r.obj] \in LinkState
    BY <1>4, RequestsAssumption DEF CreateLink, Database
  <2> QED
    BY <1>4, <2>1, FrameObjectInv DEF CreateLink, LinkState
<1>5. CASE DeleteLink(r)
  BY <1>5, FrameObjectInv DEF DeleteLink
<1> QED
  BY <1>1, <1>2, <1>3, <1>4, <1>5 DEF BeginRequest

\* CommitObject makes the object durable, and DeleteRow is reached only after
\* its event is.
LEMMA ContinueObjectInv ==
  ASSUME TypeInv, LogInv, AckInv, ObjectInv,
         NEW r \in Requests, ContinueRequest(r)
  PROVE  ObjectInv'
<1> USE DEF Step, UnchangedTables, UnchangedLocals, TypeInv, TypeOK,
            Inserted, Saved, Logged
<1>1. CASE InsertEntity(r)
  <2>1. Kept(db, r)'
    BY <1>1 DEF InsertEntity, Kept, Database, PcMatchesOp
  <2> QED
    BY <1>1, <2>1, FrameObjectInv DEF InsertEntity, Database, PcMatchesOp
<1>2. CASE InsertLink(r)
  <2>0. r.op = "create_link" /\ r.obj \in Links
    BY <1>2, RequestsAssumption DEF InsertLink, PcMatchesOp
  <2>1. Kept(db, r)'
    BY <1>2, <2>0 DEF InsertLink, Kept, Database
  <2> QED
    BY <1>2, <2>0, <2>1, FrameObjectInv DEF InsertLink, Database
<1>3. CASE ReactivateLink(r)
  <2>0. r.op = "create_link" /\ r.obj \in Links
    BY <1>3, RequestsAssumption DEF ReactivateLink, PcMatchesOp
  <2>1. Kept(db, r)'
    BY <1>3, <2>0 DEF ReactivateLink, Kept, Database
  <2> QED
    BY <1>3, <2>0, <2>1, FrameObjectInv DEF ReactivateLink, Database
<1>4. CASE TombstoneLink(r)
  <2>0. r.op = "delete_link" /\ r.obj \in Links
    BY <1>4, RequestsAssumption DEF TombstoneLink, PcMatchesOp
  <2>1. Kept(db, r)'
    BY <1>4, <2>0 DEF TombstoneLink, Kept, Database
  <2> QED
    BY <1>4, <2>0, <2>1, FrameObjectInv DEF TombstoneLink, Database
<1>5. CASE CommitObject(r)
  BY <1>5, FrameObjectInv DEF CommitObject
<1>6. CASE ReadHead(r)
  BY <1>6, FrameObjectInv DEF ReadHead
<1>7. CASE ReadSeq(r)
  BY <1>7, FrameObjectInv DEF ReadSeq
<1>8. CASE CheckLog(r)
  BY <1>8, FrameObjectInv DEF CheckLog
<1>9. CASE InsertEvent(r)
  BY <1>9, FrameObjectInv DEF InsertEvent, Database
<1>10. CASE WriteHead(r)
  BY <1>10, FrameObjectInv DEF WriteHead, Database
<1>11. CASE CommitLog(r)
  BY <1>11, FrameObjectInv DEF CommitLog
<1>12. CASE DeleteRow(r)
  \* The DELETE event of r is on disk, so a removed row is accounted for.
  <2>1. Deleted(disk, r.obj)
    <3>1. NewEvent(r) \in disk.events
      BY <1>12 DEF AckInv, DeleteRow
    <3>2. NewEvent(r).op = "delete" /\ NewEvent(r).obj = r.obj
      BY <1>12 DEF NewEvent, DeleteRow, PcMatchesOp
    <3> QED
      BY <3>1, <3>2 DEF Deleted
  <2>2. /\ disk' = disk /\ db'.entities = db.entities /\ db'.links = db.links
        /\ \A row \in db.contents : row \in db'.contents \/ row[1] = r.obj
    BY <1>12 DEF DeleteRow, Database
  <2>3. \A s \in Requests : /\ Kept(db, s) => Kept(db, s)'
                            /\ Kept(disk, s)' = Kept(disk, s)
    BY <2>1, <2>2 DEF Kept
  <2>4. \A s \in Requests : /\ Inserted(s)' => Inserted(s)
                            /\ Saved(s)' => Saved(s)
    BY <1>12 DEF DeleteRow
  <2>5. \A s \in Requests : /\ Inserted(s)' => Kept(db, s)'
                            /\ Saved(s)' => Kept(disk, s)'
    BY <2>3, <2>4 DEF ObjectInv
  <2> QED
    BY <2>2, <2>5 DEF ObjectInv
<1>13. CASE CommitDelete(r)
  BY <1>13, FrameObjectInv DEF CommitDelete
<1> QED
  BY <1>1, <1>2, <1>3, <1>4, <1>5, <1>6, <1>7, <1>8, <1>9, <1>10, <1>11,
     <1>12, <1>13 DEF ContinueRequest

\* ObjectInv is inductive.
LEMMA StepObjectInv ==
  TypeInv /\ LogInv /\ AckInv /\ ObjectInv /\ [Next]_vars => ObjectInv'
<1> SUFFICES ASSUME TypeInv, LogInv, AckInv, ObjectInv, [Next]_vars
             PROVE  ObjectInv'
  OBVIOUS
<1>1. CASE CommitElsewhere
  BY <1>1, FrameObjectInv
  DEF CommitElsewhere, UnchangedLocals, Inserted, Saved
<1>2. CASE Crash
  <2>1. \A r \in Requests : Inserted(r)' => Saved(r)
    BY <1>2 DEF Crash, TypeInv, TypeOK, InFlight, Ended, Inserted, Saved, Logged
  <2>2. \A r \in Requests : Saved(r)' => Inserted(r)'
    BY DEF Inserted
  <2>3. db' = disk /\ disk' = disk
    BY <1>2 DEF Crash
  <2>4. \A r \in Requests : Saved(r) => Kept(db, r)' /\ Kept(disk, r)'
    BY <2>3 DEF ObjectInv, Kept
  <2> QED
    BY <2>1, <2>2, <2>3, <2>4 DEF ObjectInv
<1>3. CASE UNCHANGED vars
  BY <1>3, FrameObjectInv DEF vars, Inserted, Saved
<1> QED
  BY <1>1, <1>2, <1>3, BeginObjectInv, ContinueObjectInv DEF Next

\* An object, once the request that writes it has committed it, stays in the
\* tables and on disk (a content: until a durable DELETE event names it).
THEOREM ObjectInvariant == Spec => []ObjectInv
BY InitObjectInv, StepObjectInv, TypeCorrect, LogInvariant, AckInvariant, PTL
DEF Spec

\* No content leaves the tables unless its DELETE event is durable.
THEOREM NeverUnloggedDelete == Spec => []NoUnloggedDelete
<1>1. TypeInv /\ ObjectInv => NoUnloggedDelete
  <2> SUFFICES ASSUME TypeInv, ObjectInv, NEW r \in Requests,
                      r.op = "create_content",
                      pc[r] \in (InFlight \ {"commit_object"})
                                  \cup {"done", "failed"}
               PROVE  Kept(db, r)
    BY DEF NoUnloggedDelete, Kept
  <2>1. Inserted(r)
    BY DEF TypeInv, PcMatchesOp, InFlight, Inserted, Saved, Logged
  <2> QED
    BY <2>1 DEF ObjectInv
<1> QED
  BY <1>1, TypeCorrect, ObjectInvariant, PTL

(***************************************************************************)
(* The content a request deletes.                                          *)
(***************************************************************************)
DeleteInv ==
  \* A content that nobody has posted yet is in no table.
  /\ \A r \in Requests, row \in db.contents \cup disk.contents :
       r.op = "create_content" /\ pc[r] = "idle" => row[1] # r.obj
  \* What is being deleted has been posted.
  /\ \A r, s \in Requests :
       /\ r.op = "delete_content" /\ pc[r] \notin {"idle", "refused"}
       /\ s.op = "create_content" /\ s.obj = r.obj
       => pc[s] # "idle"
  \* Deleted rows stay away.
  /\ \A r \in Requests : r.op = "delete_content" =>
       /\ pc[r] \in {"commit_delete", "done"} =>
            <<r.obj, r.actor>> \notin db.contents
       /\ pc[r] = "done" => <<r.obj, r.actor>> \notin disk.contents

\* No request has deleted anything.
LEMMA InitDeleteInv == Init => DeleteInv
BY DEF Init, Empty, DeleteInv

\* Steps that add no content and bring no deletion to its last statement.
LEMMA FrameDeleteInv ==
  ASSUME DeleteInv,
         db'.contents \subseteq db.contents,
         disk' = disk \/ (disk' = db /\ db' = db),
         \A r \in Requests :
           /\ pc'[r] = "idle" => pc[r] = "idle"
           /\ r.op = "delete_content" =>
                /\ pc'[r] \notin {"idle", "refused"} =>
                     pc[r] \notin {"idle", "refused"}
                /\ pc'[r] \in {"commit_delete", "done"} =>
                     \/ pc[r] \in {"commit_delete", "done"}
                     \/ <<r.obj, r.actor>> \notin db'.contents
                /\ pc'[r] = "done" =>
                     \/ pc[r] = "done"
                     \/ pc[r] = "commit_delete" /\ disk' = db
  PROVE  DeleteInv'
<1>1. \A r \in Requests, row \in db'.contents \cup disk'.contents :
        r.op = "create_content" /\ pc'[r] = "idle" => row[1] # r.obj
  BY DEF DeleteInv
<1>2. \A r, s \in Requests :
        /\ r.op = "delete_content" /\ pc'[r] \notin {"idle", "refused"}
        /\ s.op = "create_content" /\ s.obj = r.obj
        => pc'[s] # "idle"
  BY DEF DeleteInv
<1>3. \A r \in Requests : r.op = "delete_content" =>
        /\ pc'[r] \in {"commit_delete", "done"} =>
             <<r.obj, r.actor>> \notin db'.contents
        /\ pc'[r] = "done" => <<r.obj, r.actor>> \notin disk'.contents
  BY DEF DeleteInv
<1> QED
  BY <1>1, <1>2, <1>3 DEF DeleteInv

\* A content with an answered delete is not posted again: its id is fresh.
LEMMA BeginDeleteInv ==
  ASSUME TypeInv, DeleteInv, NEW r \in Requests, BeginRequest(r)
  PROVE  DeleteInv'
<1> USE DEF Start, Step, UnchangedTables, UnchangedLocals, TypeInv, TypeOK
<1>1. CASE CreateEntity(r)
  BY <1>1, FrameDeleteInv DEF CreateEntity
<1>2. CASE CreateContent(r)
  <2>1. /\ r.op = "create_content" /\ pc[r] = "idle" /\ disk' = disk
        /\ pc' = [pc EXCEPT ![r] = "commit_object"]
        /\ db'.contents = db.contents \cup {<<r.obj, r.actor>>}
    BY <1>2 DEF CreateContent, Database
  <2>2. \A s \in Requests, row \in db'.contents \cup disk'.contents :
          s.op = "create_content" /\ pc'[s] = "idle" => row[1] # s.obj
    BY <2>1, FreshContentIds DEF DeleteInv
  <2>3. \A s \in Requests : s.op = "delete_content" /\ s.obj = r.obj
                             => pc[s] \in {"idle", "refused"}
    BY <2>1 DEF DeleteInv
  <2> QED
    BY <2>1, <2>2, <2>3 DEF DeleteInv
<1>3. CASE DeleteContent(r)
  <2>1. CASE <<r.obj, r.actor>> \in db.contents
    <3>1. \A s \in Requests : s.op = "create_content" /\ s.obj = r.obj
                               => pc[s] # "idle"
      BY <2>1 DEF DeleteInv
    <3>2. db' = db /\ disk' = disk /\ pc' = [pc EXCEPT ![r] = "read_head"]
      BY <1>3, <2>1 DEF DeleteContent
    <3> QED
      BY <3>1, <3>2 DEF DeleteInv
  <2>2. CASE <<r.obj, r.actor>> \notin db.contents
    BY <1>3, <2>2, FrameDeleteInv DEF DeleteContent
  <2> QED
    BY <2>1, <2>2
<1>4. CASE CreateLink(r)
  <2>1. db.links[r.obj] \in LinkState
    BY <1>4, RequestsAssumption DEF CreateLink, Database
  <2> QED
    BY <1>4, <2>1, FrameDeleteInv DEF CreateLink, LinkState
<1>5. CASE DeleteLink(r)
  BY <1>5, FrameDeleteInv DEF DeleteLink
<1> QED
  BY <1>1, <1>2, <1>3, <1>4, <1>5 DEF BeginRequest

\* The row is gone from the connection after DeleteRow, from the disk after
\* CommitDelete, and nothing brings it back.
LEMMA ContinueDeleteInv ==
  ASSUME TypeInv, DeleteInv, NEW r \in Requests, ContinueRequest(r)
  PROVE  DeleteInv'
<1> USE DEF Step, UnchangedTables, UnchangedLocals, TypeInv, TypeOK
<1>1. CASE InsertEntity(r)
  BY <1>1, FrameDeleteInv DEF InsertEntity, Database, PcMatchesOp
<1>2. CASE InsertLink(r)
  BY <1>2, FrameDeleteInv DEF InsertLink, Database, PcMatchesOp
<1>3. CASE ReactivateLink(r)
  BY <1>3, FrameDeleteInv DEF ReactivateLink, Database
<1>4. CASE TombstoneLink(r)
  BY <1>4, FrameDeleteInv DEF TombstoneLink, Database
<1>5. CASE CommitObject(r)
  BY <1>5, FrameDeleteInv DEF CommitObject
<1>6. CASE ReadHead(r)
  BY <1>6, FrameDeleteInv DEF ReadHead
<1>7. CASE ReadSeq(r)
  BY <1>7, FrameDeleteInv DEF ReadSeq
<1>8. CASE CheckLog(r)
  BY <1>8, FrameDeleteInv DEF CheckLog
<1>9. CASE InsertEvent(r)
  BY <1>9, FrameDeleteInv DEF InsertEvent, Database
<1>10. CASE WriteHead(r)
  BY <1>10, FrameDeleteInv DEF WriteHead, Database
<1>11. CASE CommitLog(r)
  BY <1>11, FrameDeleteInv DEF CommitLog
<1>12. CASE DeleteRow(r)
  BY <1>12, FrameDeleteInv DEF DeleteRow, Database
<1>13. CASE CommitDelete(r)
  BY <1>13, FrameDeleteInv DEF CommitDelete
<1> QED
  BY <1>1, <1>2, <1>3, <1>4, <1>5, <1>6, <1>7, <1>8, <1>9, <1>10, <1>11,
     <1>12, <1>13 DEF ContinueRequest

\* DeleteInv is inductive.
LEMMA StepDeleteInv == TypeInv /\ DeleteInv /\ [Next]_vars => DeleteInv'
<1> SUFFICES ASSUME TypeInv, DeleteInv, [Next]_vars PROVE DeleteInv'
  OBVIOUS
<1>1. CASE CommitElsewhere
  BY <1>1, FrameDeleteInv DEF CommitElsewhere
<1>2. CASE Crash
  \* Only the deletions that were answered remain, and theirs are on disk.
  <2>1. \A r \in Requests :
          /\ pc'[r] = "idle" => pc[r] = "idle"
          /\ pc'[r] \notin {"idle", "refused"} =>
               pc[r] \notin {"idle", "refused"}
          /\ pc'[r] \in {"commit_delete", "done"} => pc[r] = "done"
    BY <1>2 DEF Crash, TypeInv, TypeOK, InFlight, Ended
  <2>2. db' = disk /\ disk' = disk
    BY <1>2 DEF Crash
  <2> QED
    BY <2>1, <2>2 DEF DeleteInv
<1>3. CASE UNCHANGED vars
  BY <1>3, FrameDeleteInv DEF vars
<1> QED
  BY <1>1, <1>2, <1>3, BeginDeleteInv, ContinueDeleteInv DEF Next

\* What a client was told survives every later crash: the event of its
\* request, at the place computed for it, and the effect of the request.
THEOREM AckedStaysDurable == Spec => []AckedIsDurable
<1>1. Spec => []DeleteInv
  BY InitDeleteInv, StepDeleteInv, TypeCorrect, PTL DEF Spec
<1>2. ASSUME AckInv, ObjectInv, DeleteInv
      PROVE  AckedIsDurable
  <2> SUFFICES ASSUME NEW r \in Requests, pc[r] = "done"
               PROVE  /\ NewEvent(r) \in disk.events
                      /\ Kept(disk, r)
                      /\ r.op = "delete_content" =>
                           <<r.obj, r.actor>> \notin disk.contents
    BY DEF AckedIsDurable, Kept
  <2>1. NewEvent(r) \in disk.events
    BY <1>2 DEF AckInv, Logged
  <2>2. Kept(disk, r)
    BY <1>2 DEF ObjectInv, Saved, Logged
  <2> QED
    BY <1>2, <2>1, <2>2 DEF DeleteInv
<1>3. AckInv /\ ObjectInv /\ DeleteInv => AckedIsDurable
  BY <1>2
<1> QED
  BY <1>1, <1>3, AckInvariant, ObjectInvariant, PTL

-----------------------------------------------------------------------------
(***************************************************************************)
(* The tables are what the log says, for users that wait for an answer     *)
(* before they write again.  While a request is on its way the table may   *)
(* be ahead of the log or behind it, about the request's object only; and  *)
(* nothing refuses its event, as the head it has read stays the head.      *)
(***************************************************************************)
Creates(r) == r.op \in {"create_entity", "create_content", "create_link"}

\* What a can write
Owns(a) == {a} \cup Contents \cup ({a} \X Targets)

\* The tables have o for a.
Shown(a, o) ==
  \/ o = a /\ a \in db.entities
  \/ <<o, a>> \in db.contents
  \/ o \in Links /\ db.links[o] = "live"

Agrees(a, o) == Shown(a, o) <=> LogHas(a, o)

Author(c, a) ==
  \E s \in Requests : s.op = "create_content" /\ s.obj = c /\ s.actor = a

\* The statements between an object's and its event's, and those after the event
Pending  == {"commit_object", "read_head", "read_seq", "check_log", "insert_event"}
Appended == {"write_head", "commit_log", "delete_row", "commit_delete"}

\* What r has done and what it knows, at each of its statements
Midway(r) ==
  /\ r.obj \in Owns(r.actor)
  /\ r.op # "create_entity" => r.actor \in db.entities
  /\ r.op = "delete_content" => Author(r.obj, r.actor)
  /\ pc[r] = "insert_entity" => r.actor \notin db.entities
  /\ r.op = "create_entity" /\ pc[r] \in {"insert_entity"} \cup Pending =>
       \A e \in db.events : e.actor # r.actor
  /\ r.op = "create_entity" /\ pc[r] = "commit_object" => prev[r] = 0 /\ seq[r] = 1
  /\ pc[r] = "insert_link" => db.links[r.obj] = "absent"
  /\ r.op # "delete_content" /\ pc[r] \in Pending \cup {"write_head", "commit_log"} =>
       (Shown(r.actor, r.obj) <=> Creates(r))
  /\ pc[r] \in {"read_seq", "check_log", "insert_event"} => prev[r] = db.heads[r.actor]
  /\ pc[r] \in {"check_log", "insert_event"} => seq[r] = db.heads[r.actor] + 1
  /\ pc[r] \in Appended => (LogHas(r.actor, r.obj) <=> Creates(r))
  /\ pc[r] = "commit_delete" => <<r.obj, r.actor>> \notin db.contents

AtWorkOn(a, o) ==
  \E r \in Requests : r.actor = a /\ r.obj = o /\ pc[r] \in InFlight

DerivedInv ==
  /\ OneAtATime
  /\ \A e \in db.events : e.actor \in db.entities
  /\ \A row \in db.contents : Author(row[1], row[2])
  /\ \A a \in Actors : \A o \in Owns(a) : AtWorkOn(a, o) \/ Agrees(a, o)
  /\ \A r \in Requests : pc[r] \in InFlight => Midway(r)

\* A crash may leave a row without its event.
SerialInv == crashes = 0 => DerivedInv

\* A step of r moves no other request,
Alone(r) ==
  \A s \in Requests \ {r} : pc'[s] = pc[s] /\ prev'[s] = prev[s] /\ seq'[s] = seq[s]

\* and touches r's object only.
Spares(r) ==
  /\ \A b \in Actors \ {r.actor} :
       /\ db'.heads[b] = db.heads[b]
       /\ b \in db'.entities <=> b \in db.entities
       /\ \A e \in db.events \cup db'.events :
            e.actor = b => (e \in db'.events <=> e \in db.events)
       /\ \A o \in Owns(b) :
            /\ o \in Links => db'.links[o] = db.links[o]
            /\ <<o, b>> \in db'.contents <=> <<o, b>> \in db.contents
  /\ \A o \in Owns(r.actor) \ {r.obj} :
       /\ Shown(r.actor, o)' <=> Shown(r.actor, o)
       /\ LogHas(r.actor, o)' <=> LogHas(r.actor, o)

\* A statement of a request keeps DerivedInv if it leaves the request's own
\* object in order.
LEMMA OthersStand ==
  ASSUME TypeInv, DerivedInv, OneAtATime', NEW r \in Requests,
         pc[r] \in InFlight \/ pc'[r] \in InFlight,
         Alone(r), Spares(r),
         \A e \in db'.events : e.actor \in db'.entities,
         \A row \in db'.contents : Author(row[1], row[2]),
         pc'[r] \in InFlight => Midway(r)',
         \/ pc'[r] \in InFlight
         \/ r.obj \notin Owns(r.actor)
         \/ Agrees(r.actor, r.obj)'
  PROVE  DerivedInv'
<1>1. \A s \in Requests \ {r} : pc'[s] \in InFlight => s.actor # r.actor
  BY DEF Alone, DerivedInv, OneAtATime
<1>2. ASSUME NEW b \in Actors \ {r.actor}, NEW o \in Owns(b)
      PROVE  /\ Shown(b, o)' <=> Shown(b, o)
             /\ LogHas(b, o)' <=> LogHas(b, o)
  <2>1. Shown(b, o)' <=> Shown(b, o)
    BY DEF Spares, Shown
  <2>2. \A e : e.actor = b => (e \in db'.events <=> e \in db.events)
    BY DEF Spares
  <2>3. LogHas(b, o)' <=> LogHas(b, o)
    BY <2>2 DEF LogHas
  <2> QED
    BY <2>1, <2>3
<1>3. ASSUME NEW s \in Requests, pc'[s] \in InFlight
      PROVE  Midway(s)'
  <2>1. CASE s = r
    BY <1>3, <2>1
  <2>2. CASE s # r
    <3>1. /\ pc[s] \in InFlight /\ pc'[s] = pc[s] /\ prev'[s] = prev[s] /\ seq'[s] = seq[s]
          /\ Midway(s)
      BY <1>3, <2>2 DEF Alone, DerivedInv
    <3>2. s.actor \in Actors \ {r.actor} /\ s.obj \in Owns(s.actor)
      BY <1>1, <1>3, <2>2, <3>1, RequestsAssumption DEF Request, Midway
    <3>3. /\ Shown(s.actor, s.obj)' <=> Shown(s.actor, s.obj)
          /\ LogHas(s.actor, s.obj)' <=> LogHas(s.actor, s.obj)
      BY <1>2, <3>2
    <3>4. /\ db'.heads[s.actor] = db.heads[s.actor]
          /\ s.actor \in db'.entities <=> s.actor \in db.entities
          /\ pc[s] = "insert_link" => db'.links[s.obj] = db.links[s.obj]
          /\ <<s.obj, s.actor>> \in db'.contents <=> <<s.obj, s.actor>> \in db.contents
      BY <3>2, RequestsAssumption DEF Spares, TypeInv, PcMatchesOp
    <3>5. (\A e \in db.events : e.actor # s.actor) => \A e \in db'.events : e.actor # s.actor
      BY <3>2 DEF Spares
    <3> QED
      BY <3>1, <3>3, <3>4, <3>5 DEF Midway, Author
  <2> QED
    BY <2>1, <2>2
<1>4. ASSUME NEW a \in Actors, NEW o \in Owns(a)
      PROVE  AtWorkOn(a, o)' \/ Agrees(a, o)'
  <2>1. CASE a = r.actor /\ o = r.obj
    BY <2>1 DEF AtWorkOn
  <2>2. CASE a # r.actor \/ o # r.obj
    <3>1. /\ Shown(a, o)' <=> Shown(a, o)
          /\ LogHas(a, o)' <=> LogHas(a, o)
      BY <1>2, <2>2 DEF Spares
    <3>2. AtWorkOn(a, o) => AtWorkOn(a, o)'
      BY <2>2 DEF AtWorkOn, Alone
    <3> QED
      BY <3>1, <3>2 DEF Agrees, DerivedInv
  <2> QED
    BY <2>1, <2>2
<1> QED
  BY <1>3, <1>4 DEF DerivedInv, Author

\* A step that leaves the tables alone, and moves no request or refuses one
LEMMA NothingDerived ==
  ASSUME DerivedInv, db' = db, UNCHANGED <<prev, seq>>,
         \A s \in Requests : pc'[s] = pc[s] \/ (pc[s] \notin InFlight /\ pc'[s] \notin InFlight)
  PROVE  DerivedInv'
<1>1. \A a, o : /\ Agrees(a, o)' <=> Agrees(a, o)
                /\ AtWorkOn(a, o)' <=> AtWorkOn(a, o)
  BY DEF Agrees, Shown, LogHas, AtWorkOn
<1>2. OneAtATime'
  BY DEF DerivedInv, OneAtATime
<1>3. \A r \in Requests : pc'[r] \in InFlight => Midway(r)'
  BY DEF DerivedInv, Midway, Shown, LogHas, Author
<1> QED
  BY <1>1, <1>2, <1>3 DEF DerivedInv, Author

\* A statement of r that leaves the tables alone
LEMMA TablesStand ==
  ASSUME TypeInv, DerivedInv, OneAtATime', NEW r \in Requests,
         pc[r] \in InFlight \/ pc'[r] \in InFlight,
         Alone(r), db' = db,
         pc'[r] \in InFlight => Midway(r)',
         \/ pc'[r] \in InFlight
         \/ r.obj \notin Owns(r.actor)
         \/ Agrees(r.actor, r.obj)
  PROVE  DerivedInv'
<1>1. Spares(r)
  BY DEF Spares, Shown, LogHas
<1>2. Agrees(r.actor, r.obj)' <=> Agrees(r.actor, r.obj)
  BY DEF Agrees, Shown, LogHas
<1> QED
  BY <1>1, <1>2, OthersStand DEF DerivedInv

\* What kind of object a request is about
LEMMA ObjectKinds ==
  ASSUME NEW r \in Requests
  PROVE  /\ r.actor \in Actors /\ r.op \in Ops
         /\ r.op = "create_entity" => r.obj = r.actor /\ r.obj \notin Contents /\ r.obj \notin Links
         /\ r.op \in {"create_content", "delete_content"} =>
              r.obj \in Contents /\ r.obj \notin Actors /\ r.obj \notin Links
         /\ r.op \in {"create_link", "delete_link"} =>
              r.obj \in Links /\ r.obj \notin Actors /\ r.obj \notin Contents
         /\ r.op # "delete_link" => r.obj \in Owns(r.actor)
         /\ r.op = "delete_link" /\ r.obj[1] = r.actor => r.obj \in Owns(r.actor)
<1>1. r.actor \in Actors /\ r.op \in Ops
  BY RequestsAssumption DEF Request
<1>2. \A l \in Links : l[1] = r.actor => l \in {r.actor} \X Targets
  BY DEF Links
<1> QED
  BY <1>1, <1>2, RequestsAssumption, DistinctIds DEF Owns, Ops

\* A content has one author.
LEMMA OneAuthor ==
  ASSUME NEW c, NEW a, NEW b, Author(c, a), Author(c, b)
  PROVE  a = b
BY FreshContentIds DEF Author

\* A request starts when none of its user's is at work.
LEMMA BeginDerived ==
  ASSUME TypeInv, DerivedInv, OneAtATime', NEW r \in Requests, BeginRequest(r)
  PROVE  DerivedInv'
<1> USE DEF Start, Step, UnchangedTables, UnchangedLocals, TypeInv, TypeOK
<1>0. /\ pc[r] = "idle" /\ "idle" \notin InFlight /\ "refused" \notin InFlight
      /\ Alone(r)
  BY DEF BeginRequest, CreateEntity, CreateContent, DeleteContent, CreateLink, DeleteLink,
         InFlight, Alone
<1>r. ASSUME pc'[r] = "refused", db' = db, UNCHANGED <<prev, seq>> PROVE DerivedInv'
  BY <1>0, <1>r, NothingDerived DEF Alone
\* None of r's user's requests being at work, its objects agree.
<1>a. ASSUME pc'[r] \in InFlight, r.obj \in Owns(r.actor)
      PROVE  Agrees(r.actor, r.obj)
  <2>1. ~ AtWorkOn(r.actor, r.obj)
    BY <1>0, <1>a DEF AtWorkOn, Alone, OneAtATime
  <2> QED
    BY <1>a, <2>1, ObjectKinds DEF DerivedInv
<1>1. CASE CreateEntity(r)
  <2>0. r.op = "create_entity" /\ r.obj = r.actor
    BY <1>1, ObjectKinds DEF CreateEntity
  <2>1. CASE r.actor \in db.entities
    BY <1>1, <2>1, <1>r DEF CreateEntity
  <2>2. CASE r.actor \notin db.entities
    <3>1. pc'[r] = "insert_entity" /\ db' = db
      BY <1>1, <2>2 DEF CreateEntity
    <3>2. Midway(r)'
      BY <2>0, <2>2, <3>1, ObjectKinds DEF Midway, DerivedInv, Pending, Appended
    <3> QED
      BY <1>0, <3>1, <3>2, TablesStand DEF InFlight
  <2> QED
    BY <2>1, <2>2
<1>2. CASE CreateContent(r)
  <2>0. /\ r.op = "create_content" /\ r.obj \in Contents
        /\ r.obj \notin Actors /\ r.obj \notin Links /\ r.actor \in Actors
        /\ r.obj \in Owns(r.actor)
    BY <1>2, ObjectKinds DEF CreateContent
  <2>1. /\ pc'[r] = "commit_object" /\ pc'[r] \in InFlight
        /\ r.actor \in db.entities
        /\ db'.contents = db.contents \cup {<<r.obj, r.actor>>}
        /\ db'.entities = db.entities /\ db'.links = db.links /\ db'.events = db.events
        /\ db'.heads = db.heads
    BY <1>2 DEF CreateContent, Authenticated, Database, InFlight
  <2>2. Spares(r)
    BY <2>1 DEF Spares, Shown, LogHas
  <2>3. Midway(r)'
    BY <2>0, <2>1 DEF Midway, Shown, Creates, Pending, Appended
  <2>4. \A row \in db'.contents : Author(row[1], row[2])
    BY <2>0, <2>1 DEF DerivedInv, Author
  <2> QED
    BY <1>0, <2>1, <2>2, <2>3, <2>4, OthersStand DEF DerivedInv
<1>3. CASE DeleteContent(r)
  <2>0. r.op = "delete_content" /\ r.obj \in Owns(r.actor)
    BY <1>3, ObjectKinds DEF DeleteContent
  <2>1. CASE <<r.obj, r.actor>> \in db.contents
    <3>1. pc'[r] = "read_head" /\ db' = db /\ r.actor \in db.entities
      BY <1>3, <2>1 DEF DeleteContent, Authenticated
    <3>2. Author(r.obj, r.actor)
      BY <2>1 DEF DerivedInv
    <3>3. Midway(r)'
      BY <2>0, <3>1, <3>2 DEF Midway, Pending, Appended, Author
    <3> QED
      BY <1>0, <3>1, <3>3, TablesStand DEF InFlight
  <2>2. CASE <<r.obj, r.actor>> \notin db.contents
    BY <1>3, <2>2, <1>r DEF DeleteContent
  <2> QED
    BY <2>1, <2>2
<1>4. CASE CreateLink(r)
  <2>0. r.op = "create_link" /\ r.obj \in Owns(r.actor) /\ r.obj \in Links
    BY <1>4, ObjectKinds DEF CreateLink
  <2>1. db.links[r.obj] \in LinkState
    BY <2>0 DEF Database
  <2>2. CASE db.links[r.obj] = "live"
    BY <1>4, <2>2, <1>r DEF CreateLink
  <2>3. CASE db.links[r.obj] # "live"
    <3>1. /\ db' = db /\ pc'[r] \in {"insert_link", "reactivate_link"}
          /\ pc'[r] = "insert_link" => db.links[r.obj] = "absent"
          /\ r.actor \in db.entities
      BY <1>4, <2>1, <2>3 DEF CreateLink, LinkState, Authenticated
    <3>2. Midway(r)'
      BY <2>0, <3>1 DEF Midway, Pending, Appended
    <3> QED
      BY <1>0, <3>1, <3>2, TablesStand DEF InFlight
  <2> QED
    BY <2>2, <2>3
<1>5. CASE DeleteLink(r)
  <2>1. CASE db.links[r.obj] # "absent" /\ r.obj[1] = r.actor
    <3>1. /\ r.op = "delete_link" /\ db' = db /\ pc'[r] = "tombstone_link"
          /\ r.actor \in db.entities
      BY <1>5, <2>1 DEF DeleteLink, Authenticated
    <3>2. r.obj \in Owns(r.actor)
      BY <2>1, <3>1, ObjectKinds
    <3>3. Midway(r)'
      BY <3>1, <3>2 DEF Midway, Pending, Appended
    <3> QED
      BY <1>0, <3>1, <3>3, TablesStand DEF InFlight
  <2>2. CASE ~ (db.links[r.obj] # "absent" /\ r.obj[1] = r.actor)
    BY <1>5, <2>2, <1>r DEF DeleteLink
  <2> QED
    BY <2>1, <2>2
<1> QED
  BY <1>1, <1>2, <1>3, <1>4, <1>5 DEF BeginRequest

\* An event at a place beyond all of its actor's decides what the log has.
LEMMA LogGrows ==
  ASSUME TypeInv, NEW n, db'.events = db.events \cup {n},
         \A e \in db.events : e.actor = n.actor => e.seq < n.seq, n.seq \in Nat
  PROVE  \A a, o : LogHas(a, o)' <=> IF a = n.actor /\ o = n.obj THEN n.op = "create"
                                                                 ELSE LogHas(a, o)
<1>0. \A e \in db.events : e.seq \in Nat
  BY DEF TypeInv, TypeOK, Database, Event
<1> SUFFICES ASSUME NEW a, NEW o
             PROVE  LogHas(a, o)' <=> IF a = n.actor /\ o = n.obj THEN n.op = "create"
                                                                  ELSE LogHas(a, o)
  OBVIOUS
<1>1. CASE a = n.actor /\ o = n.obj
  <2>1. ASSUME n.op = "create" PROVE LogHas(a, o)'
    <3>1. n \in db'.events /\ \A f \in db'.events : f.actor = a /\ f.obj = o => f.seq <= n.seq
      BY <1>0, <1>1
    <3> QED
      BY <1>1, <2>1, <3>1 DEF LogHas
  <2>2. ASSUME LogHas(a, o)' PROVE n.op = "create"
    <3>1. PICK e \in db'.events : /\ e.actor = a /\ e.obj = o /\ e.op = "create"
                                  /\ n.seq <= e.seq
      BY <1>1, <2>2 DEF LogHas
    <3>2. e \notin db.events \/ e.seq < n.seq
      BY <1>1, <3>1
    <3> QED
      BY <1>0, <3>1, <3>2
  <2> QED
    BY <1>1, <2>1, <2>2
<1>2. CASE ~ (a = n.actor /\ o = n.obj)
  BY <1>2 DEF LogHas
<1> QED
  BY <1>1, <1>2

\* Of r's actor no event is beyond the head, while r has not written its own.
LEMMA NoneBeyond ==
  ASSUME TypeInv, LogInv, HeadInv, crashes = 0, DerivedInv, NEW r \in Requests,
         pc[r] = "insert_event"
  PROVE  \A e \in db.events : e.actor = r.actor => e.seq <= db.heads[r.actor]
<1>0. /\ r.actor \in Actors /\ db.heads \in [Actors -> Nat] /\ db.events \subseteq Event
  BY RequestsAssumption DEF Request, TypeInv, TypeOK, Database
<1>1. ~ Uncounted(db, r.actor)
  <2> SUFFICES ASSUME Uncounted(db, r.actor) PROVE FALSE
    OBVIOUS
  <2>1. PICK s \in Requests : s.actor = r.actor /\ pc[s] = "write_head"
    BY <1>0 DEF HeadInv
  <2>2. s = r
    BY <2>1 DEF DerivedInv, OneAtATime, InFlight
  <2> QED
    BY <2>1, <2>2
<1>2. \A e \in db.events : e.actor = r.actor =>
        e.seq <= db.heads[r.actor] + 1 /\ e.seq # db.heads[r.actor] + 1 /\ e.seq \in Nat
  BY <1>0, <1>1 DEF LogInv, LogSound, Bounded, Uncounted, HasEvent, Event
<1> QED
  BY <1>0, <1>2

\* The event of r finds its place free and decides r's object.
LEMMA InsertDerived ==
  ASSUME TypeInv, LogInv, HeadInv, crashes = 0, DerivedInv, OneAtATime',
         NEW r \in Requests, InsertEvent(r)
  PROVE  DerivedInv'
<1> USE DEF Step, UnchangedTables, UnchangedLocals, TypeInv, TypeOK
<1>0. /\ pc[r] = "insert_event" /\ pc[r] \in InFlight /\ Midway(r) /\ Alone(r)
      /\ r.actor \in Actors
  BY RequestsAssumption DEF InsertEvent, InFlight, DerivedInv, Alone, Request
<1>1. /\ seq[r] = db.heads[r.actor] + 1 /\ db.heads[r.actor] \in Nat
      /\ r.obj \in Owns(r.actor)
  BY <1>0 DEF Midway, Database
<1>2. /\ \A e \in db.events : e.actor = r.actor => e.seq < seq[r]
      /\ \A e \in db.events : e.seq \in Nat
  BY <1>0, <1>1, NoneBeyond DEF Database, Event
<1>3. ~ HasEvent(db, r.actor, seq[r])
  BY <1>1, <1>2 DEF HasEvent
<1>4. /\ db'.events = db.events \cup {NewEvent(r)}
      /\ db'.entities = db.entities /\ db'.contents = db.contents
      /\ db'.links = db.links /\ db'.heads = db.heads
      /\ pc'[r] = "write_head" /\ pc'[r] \in InFlight
  BY <1>3 DEF InsertEvent, Database, InFlight
<1>5. /\ NewEvent(r).actor = r.actor /\ NewEvent(r).obj = r.obj
      /\ NewEvent(r).seq = seq[r]
      /\ NewEvent(r).op = "create" <=> Creates(r)
  BY ObjectKinds DEF NewEvent, Creates, Ops
<1>6. \A a, o : LogHas(a, o)' <=> IF a = r.actor /\ o = r.obj THEN Creates(r) ELSE LogHas(a, o)
  BY <1>1, <1>2, <1>4, <1>5, LogGrows
<1>7. \A a, o : Shown(a, o)' <=> Shown(a, o)
  BY <1>4 DEF Shown
<1>8. Spares(r)
  BY <1>4, <1>5, <1>6, <1>7 DEF Spares
<1>9. Midway(r)'
  BY <1>0, <1>4, <1>6, <1>7 DEF Midway, Pending, Appended, Author
<1>10. r.actor \in db.entities
  <2>1. CASE r.op = "create_entity"
    <3>1. Shown(r.actor, r.obj)
      BY <1>0, <2>1 DEF Midway, Pending, Creates
    <3> QED
      BY <2>1, <3>1, ObjectKinds DEF Shown, Database
  <2>2. CASE r.op # "create_entity"
    BY <1>0, <2>2 DEF Midway
  <2> QED
    BY <2>1, <2>2
<1>11. \A e \in db'.events : e.actor \in db'.entities
  BY <1>4, <1>5, <1>10 DEF DerivedInv
<1> QED
  BY <1>0, <1>4, <1>8, <1>9, <1>11, OthersStand DEF DerivedInv

\* The statements that change a table other than the log
LEMMA ObjectDerived ==
  ASSUME TypeInv, LogInv, DerivedInv, OneAtATime', NEW r \in Requests,
         InsertEntity(r) \/ InsertLink(r) \/ ReactivateLink(r) \/ TombstoneLink(r)
  PROVE  DerivedInv'
<1> USE DEF Step, UnchangedTables, UnchangedLocals, TypeInv, TypeOK
<1>0. /\ pc[r] \in InFlight /\ Midway(r) /\ Alone(r) /\ r.actor \in Actors
  BY RequestsAssumption
  DEF InsertEntity, InsertLink, ReactivateLink, TombstoneLink, InFlight, DerivedInv, Alone, Request
<1>1. CASE InsertEntity(r)
  <2>0. r.op = "create_entity" /\ r.obj = r.actor /\ r.actor \notin db.entities
    BY <1>0, <1>1, ObjectKinds DEF InsertEntity, PcMatchesOp, Midway
  <2>1. /\ db'.entities = db.entities \cup {r.actor}
        /\ db'.contents = db.contents /\ db'.links = db.links
        /\ db'.events = db.events /\ db'.heads = db.heads
        /\ prev'[r] = 0 /\ seq'[r] = 1
        /\ pc'[r] = "commit_object" /\ pc'[r] \in InFlight
    BY <1>1, <2>0 DEF InsertEntity, Database, InFlight
  <2>2. Spares(r)
    BY <2>0, <2>1 DEF Spares, Shown, LogHas
  <2>3. \A e \in db.events : e.actor # r.actor
    BY <1>0, <1>1, <2>0 DEF Midway, InsertEntity
  <2>4. Midway(r)'
    BY <1>0, <2>0, <2>1, <2>3 DEF Midway, Shown, Creates, Pending, Appended
  <2>5. \A e \in db'.events : e.actor \in db'.entities
    BY <2>1 DEF DerivedInv
  <2> QED
    BY <1>0, <2>1, <2>2, <2>4, <2>5, OthersStand DEF DerivedInv
<1>2. ASSUME InsertLink(r) \/ ReactivateLink(r) \/ TombstoneLink(r) PROVE DerivedInv'
  <2>0. /\ r.op \in {"create_link", "delete_link"} /\ r.obj \in Links
        /\ r.obj \notin Actors /\ r.obj \notin Contents /\ r.obj \in Owns(r.actor)
        /\ r.op = "create_link" <=> ~ TombstoneLink(r)
    BY <1>0, <1>2, ObjectKinds
    DEF InsertLink, ReactivateLink, TombstoneLink, PcMatchesOp, Midway
  <2>1. /\ db'.entities = db.entities /\ db'.contents = db.contents
        /\ db'.events = db.events /\ db'.heads = db.heads
        /\ \A l \in Links \ {r.obj} : db'.links[l] = db.links[l]
        /\ db'.links[r.obj] = "live" <=> r.op = "create_link"
        /\ pc'[r] = "commit_object" /\ pc'[r] \in InFlight
    <3>1. CASE InsertLink(r)
      <4>1. db.links[r.obj] = "absent"
        BY <1>0, <3>1 DEF InsertLink, Midway
      <4> QED
        BY <2>0, <3>1, <4>1 DEF InsertLink, PcMatchesOp, Database, InFlight
    <3>2. CASE ReactivateLink(r)
      BY <2>0, <3>2 DEF ReactivateLink, PcMatchesOp, Database, InFlight
    <3>3. CASE TombstoneLink(r)
      BY <2>0, <3>3 DEF TombstoneLink, PcMatchesOp, Database, InFlight
    <3> QED
      BY <1>2, <3>1, <3>2, <3>3
  <2>2. Spares(r)
    <3>1. \A b \in Actors \ {r.actor} : r.obj \notin Owns(b)
      <4>1. PICK t \in Targets : r.obj = <<r.actor, t>>
        BY <1>0, <2>0 DEF Owns
      <4>2. \A b \in Actors \ {r.actor}, u \in Targets : <<b, u>> # <<r.actor, t>>
        OBVIOUS
      <4> QED
        BY <2>0, <4>1, <4>2 DEF Owns
    <3> QED
      BY <2>1, <3>1 DEF Spares, Shown, LogHas
  <2>3. Midway(r)'
    <3>1. <<r.obj, r.actor>> \notin db.contents
      BY <2>0 DEF Database
    <3> QED
      BY <1>0, <2>0, <2>1, <3>1 DEF Midway, Shown, Creates, Pending, Appended
  <2> QED
    BY <1>0, <2>1, <2>2, <2>3, OthersStand DEF DerivedInv
<1> QED
  BY <1>1, <1>2

\* The DELETE takes away only the author's row.
LEMMA DeleteRowDerived ==
  ASSUME TypeInv, DerivedInv, OneAtATime', NEW r \in Requests, DeleteRow(r)
  PROVE  DerivedInv'
<1> USE DEF Step, UnchangedTables, UnchangedLocals, TypeInv, TypeOK
<1>0. /\ pc[r] = "delete_row" /\ pc[r] \in InFlight /\ Midway(r) /\ Alone(r)
      /\ r.actor \in Actors /\ r.op = "delete_content"
  BY RequestsAssumption DEF DeleteRow, InFlight, DerivedInv, Alone, Request, PcMatchesOp
<1>1. /\ db'.contents = {row \in db.contents : row[1] # r.obj}
      /\ db'.entities = db.entities /\ db'.links = db.links
      /\ db'.events = db.events /\ db'.heads = db.heads
      /\ pc'[r] = "commit_delete" /\ pc'[r] \in InFlight
  BY DEF DeleteRow, Database, InFlight
<1>2. \A b \in Actors : \A o : <<o, b>> \in db.contents /\ o = r.obj => b = r.actor
  <2> SUFFICES ASSUME NEW b \in Actors, <<r.obj, b>> \in db.contents PROVE b = r.actor
    OBVIOUS
  <2>1. Author(<<r.obj, b>>[1], <<r.obj, b>>[2])
    BY DEF DerivedInv
  <2>2. Author(r.obj, b) /\ Author(r.obj, r.actor)
    BY <1>0, <2>1 DEF Midway
  <2> QED
    BY <2>2, OneAuthor
<1>3. \A b \in Actors : \A o : b # r.actor \/ o # r.obj =>
        (<<o, b>> \in db'.contents <=> <<o, b>> \in db.contents)
  BY <1>1, <1>2
<1>4. Spares(r)
  BY <1>0, <1>1, <1>3 DEF Spares, Shown, LogHas
<1>5. <<r.obj, r.actor>> \notin db'.contents
  BY <1>1
<1>6. Midway(r)'
  BY <1>0, <1>1, <1>5 DEF Midway, LogHas, Creates, Pending, Appended, Author
<1>7. \A row \in db'.contents : Author(row[1], row[2])
  BY <1>1 DEF DerivedInv
<1> QED
  BY <1>0, <1>1, <1>4, <1>6, <1>7, OthersStand DEF DerivedInv

\* The other statements: what r has read or committed is as Midway says.
LEMMA ReadsDerived ==
  ASSUME TypeInv, LogInv, DerivedInv, OneAtATime', NEW r \in Requests,
         \/ CommitObject(r) \/ ReadHead(r) \/ ReadSeq(r) \/ CheckLog(r)
         \/ WriteHead(r) \/ CommitLog(r) \/ CommitDelete(r)
  PROVE  DerivedInv'
<1> USE DEF Step, UnchangedTables, UnchangedLocals, TypeInv, TypeOK
<1>0. /\ pc[r] \in InFlight /\ Midway(r) /\ Alone(r) /\ r.actor \in Actors
      /\ "done" \notin InFlight
  BY RequestsAssumption
  DEF CommitObject, ReadHead, ReadSeq, CheckLog, WriteHead, CommitLog, CommitDelete, InFlight,
      DerivedInv, Alone, Request
<1>k. ASSUME db' = db
      PROVE  /\ Shown(r.actor, r.obj)' <=> Shown(r.actor, r.obj)
             /\ LogHas(r.actor, r.obj)' <=> LogHas(r.actor, r.obj)
  BY <1>k DEF Shown, LogHas
<1>1. CASE CommitObject(r)
  <2>1. db' = db /\ prev' = prev /\ seq' = seq /\ pc[r] = "commit_object"
    BY <1>1 DEF CommitObject
  <2>2. CASE r.op = "create_entity"
    <3>1. db.heads[r.actor] = 0
      <4>1. db.heads[r.actor] \in Nat
        BY <1>0 DEF Database
      <4>2. ~ HasEvent(db, r.actor, db.heads[r.actor])
        BY <1>0, <2>1, <2>2 DEF Midway, Pending, HasEvent
      <4> QED
        BY <1>0, <4>1, <4>2 DEF LogInv, LogSound, Filled
    <3>2. pc'[r] = "check_log" /\ pc'[r] \in InFlight
      BY <1>1, <2>2 DEF CommitObject, InFlight
    <3>3. Midway(r)'
      BY <1>0, <1>k, <2>1, <2>2, <3>1, <3>2 DEF Midway, Pending, Appended
    <3> QED
      BY <1>0, <2>1, <3>2, <3>3, TablesStand
  <2>3. CASE r.op # "create_entity"
    <3>1. pc'[r] = "read_head" /\ pc'[r] \in InFlight
      BY <1>1, <2>3 DEF CommitObject, InFlight
    <3>2. Midway(r)'
      BY <1>0, <1>k, <2>1, <2>3, <3>1 DEF Midway, Pending, Appended, Author
    <3> QED
      BY <1>0, <2>1, <3>1, <3>2, TablesStand
  <2> QED
    BY <2>2, <2>3
<1>2. CASE ReadHead(r)
  <2>1. /\ db' = db /\ prev'[r] = db.heads[r.actor] /\ seq' = seq
        /\ pc[r] = "read_head" /\ pc'[r] = "read_seq" /\ pc'[r] \in InFlight
    BY <1>2 DEF ReadHead, InFlight
  <2>2. Midway(r)'
    BY <1>0, <1>k, <2>1 DEF Midway, Pending, Appended, Author
  <2> QED
    BY <1>0, <2>1, <2>2, TablesStand
<1>3. CASE ReadSeq(r)
  <2>1. /\ db' = db /\ seq'[r] = db.heads[r.actor] + 1 /\ prev' = prev
        /\ pc[r] = "read_seq" /\ pc'[r] = "check_log" /\ pc'[r] \in InFlight
    BY <1>3 DEF ReadSeq, InFlight
  <2>2. Midway(r)'
    BY <1>0, <1>k, <2>1 DEF Midway, Pending, Appended, Author
  <2> QED
    BY <1>0, <2>1, <2>2, TablesStand
<1>4. CASE CheckLog(r)
  <2>1. /\ db' = db /\ seq' = seq /\ prev' = prev
        /\ pc[r] = "check_log" /\ FollowsHead(r)
    BY <1>0, <1>4 DEF CheckLog, Midway, FollowsHead
  <2>2. pc'[r] = "insert_event" /\ pc'[r] \in InFlight
    BY <1>4, <2>1 DEF CheckLog, InFlight
  <2>3. Midway(r)'
    BY <1>0, <1>k, <2>1, <2>2 DEF Midway, Pending, Appended, Author
  <2> QED
    BY <1>0, <2>1, <2>2, <2>3, TablesStand
<1>5. CASE WriteHead(r)
  <2>1. /\ db'.heads = [db.heads EXCEPT ![r.actor] = seq[r]]
        /\ db'.entities = db.entities /\ db'.contents = db.contents
        /\ db'.links = db.links /\ db'.events = db.events
        /\ pc[r] = "write_head" /\ pc'[r] = "commit_log" /\ pc'[r] \in InFlight
    BY <1>5 DEF WriteHead, Database, InFlight
  <2>2. \A a, o : /\ Shown(a, o)' <=> Shown(a, o)
                  /\ LogHas(a, o)' <=> LogHas(a, o)
    BY <2>1 DEF Shown, LogHas
  <2>3. Spares(r)
    BY <2>1, <2>2 DEF Spares, Database
  <2>4. Midway(r)'
    BY <1>0, <2>1, <2>2 DEF Midway, Pending, Appended, Author
  <2> QED
    BY <1>0, <2>1, <2>3, <2>4, OthersStand DEF DerivedInv
<1>6. CASE CommitLog(r)
  <2>1. db' = db /\ prev' = prev /\ seq' = seq /\ pc[r] = "commit_log"
    BY <1>6 DEF CommitLog
  <2>2. CASE r.op = "delete_content"
    <3>1. pc'[r] = "delete_row" /\ pc'[r] \in InFlight
      BY <1>6, <2>2 DEF CommitLog, InFlight
    <3>2. Midway(r)'
      BY <1>0, <1>k, <2>1, <2>2, <3>1 DEF Midway, Pending, Appended, Author
    <3> QED
      BY <1>0, <2>1, <3>1, <3>2, TablesStand
  <2>3. CASE r.op # "delete_content"
    <3>1. pc'[r] = "done"
      BY <1>6, <2>3 DEF CommitLog
    <3>2. Agrees(r.actor, r.obj)
      BY <1>0, <2>1, <2>3 DEF Midway, Agrees, Appended
    <3> QED
      BY <1>0, <2>1, <3>1, <3>2, TablesStand
  <2> QED
    BY <2>2, <2>3
<1>7. CASE CommitDelete(r)
  <2>1. db' = db /\ pc[r] = "commit_delete" /\ pc'[r] = "done" /\ r.op = "delete_content"
    BY <1>7 DEF CommitDelete, PcMatchesOp
  <2>2. Agrees(r.actor, r.obj)
    <3>1. ~ Shown(r.actor, r.obj)
      BY <1>0, <2>1, ObjectKinds DEF Shown, Midway
    <3> QED
      BY <1>0, <2>1, <3>1 DEF Agrees, Midway, Appended, Creates
  <2> QED
    BY <1>0, <2>1, <2>2, TablesStand
<1> QED
  BY <1>1, <1>2, <1>3, <1>4, <1>5, <1>6, <1>7

\* DerivedInv is inductive up to the first crash.
LEMMA StepSerialInv ==
  TypeInv /\ LogInv /\ HeadInv /\ SerialInv /\ [SerialNext]_vars => SerialInv'
<1> SUFFICES ASSUME TypeInv, LogInv, HeadInv, SerialInv, [SerialNext]_vars, crashes' = 0
             PROVE  DerivedInv'
  BY DEF SerialInv
<1>1. CASE UNCHANGED vars
  BY <1>1, NothingDerived DEF vars, SerialInv
<1>2. CASE Next /\ OneAtATime'
  <2>1. ASSUME NEW r \in Requests, BeginRequest(r) \/ ContinueRequest(r)
        PROVE  crashes' = crashes
    BY <2>1 DEF BeginRequest, ContinueRequest, UnchangedLocals, CreateEntity, CreateContent,
       DeleteContent, CreateLink, DeleteLink, InsertEntity, InsertLink, ReactivateLink,
       TombstoneLink, CommitObject, ReadHead, ReadSeq, CheckLog, InsertEvent, WriteHead,
       CommitLog, DeleteRow, CommitDelete
  <2>2. CASE \E r \in Requests : BeginRequest(r) \/ ContinueRequest(r)
    <3>1. PICK r \in Requests : BeginRequest(r) \/ ContinueRequest(r)
      BY <2>2
    <3>2. crashes = 0 /\ DerivedInv
      BY <2>1, <3>1 DEF SerialInv
    <3> QED
      BY <1>2, <3>1, <3>2, BeginDerived, ObjectDerived, InsertDerived, DeleteRowDerived,
         ReadsDerived
      DEF ContinueRequest
  <2>3. CASE CommitElsewhere
    BY <2>3, NothingDerived DEF CommitElsewhere, UnchangedLocals, SerialInv
  <2>4. CASE Crash
    BY <2>4, RequestsAssumption DEF Crash, TypeInv, TypeOK
  <2> QED
    BY <1>2, <2>2, <2>3, <2>4 DEF Next
<1> QED
  BY <1>1, <1>2 DEF SerialNext

\* At the start there are entities with their genesis event, and nothing else.
LEMMA InitSerialInv == Init => SerialInv
<1> SUFFICES ASSUME Init PROVE DerivedInv
  BY DEF SerialInv
<1>1. /\ db.entities = Registered /\ db.contents = {}
      /\ db.links = [l \in Links |-> "absent"]
      /\ db.events = {Genesis(a) : a \in Registered}
      /\ \A r \in Requests : pc[r] \notin InFlight
  BY DEF Init, Empty, InFlight
<1>2. ASSUME NEW a \in Actors, NEW o PROVE Agrees(a, o)
  <2>1. Shown(a, o) <=> o = a /\ a \in Registered
    BY <1>1 DEF Shown
  <2>2. LogHas(a, o) <=> o = a /\ a \in Registered
    <3>1. ASSUME LogHas(a, o) PROVE o = a /\ a \in Registered
      BY <1>1, <3>1 DEF LogHas, Genesis
    <3>2. ASSUME o = a, a \in Registered PROVE LogHas(a, o)
      <4>1. Genesis(a) \in db.events /\ \A f \in db.events : f.seq = 1
        BY <1>1, <3>2 DEF Genesis
      <4> QED
        BY <3>2, <4>1 DEF LogHas, Genesis
    <3> QED
      BY <3>1, <3>2
  <2> QED
    BY <2>1, <2>2 DEF Agrees
<1> QED
  BY <1>1, <1>2 DEF DerivedInv, OneAtATime, Genesis

\* Up to the first crash, and for any users each of whom waits for an answer
\* before it writes again, replaying a user's log gives its entity, contents and
\* live links, whenever none of its requests is on its way.
THEOREM TablesAreDerived ==
  Init /\ [][SerialNext]_vars => [](crashes = 0 => StateIsDerived)
<1>1. TypeInv /\ SerialInv => (crashes = 0 => StateIsDerived)
  <2> SUFFICES ASSUME TypeInv, DerivedInv, NEW a \in Actors, Quiet(a)
               PROVE  /\ a \in db.entities <=> LogHas(a, a)
                      /\ \A c \in Contents : <<c, a>> \in db.contents <=> LogHas(a, c)
                      /\ \A t \in Targets :
                           db.links[<<a, t>>] = "live" <=> LogHas(a, <<a, t>>)
    BY DEF SerialInv, StateIsDerived
  <2>0. db.contents \subseteq Contents \X Actors
    BY DEF TypeInv, TypeOK, Database
  <2>1. \A o \in Owns(a) : Shown(a, o) <=> LogHas(a, o)
    BY DEF DerivedInv, Agrees, AtWorkOn, Quiet
  <2>2. a \in db.entities <=> LogHas(a, a)
    BY <2>0, <2>1, DistinctIds DEF Owns, Shown
  <2>3. ASSUME NEW c \in Contents PROVE <<c, a>> \in db.contents <=> LogHas(a, c)
    BY <2>1, DistinctIds DEF Owns, Shown
  <2>4. ASSUME NEW t \in Targets
        PROVE  db.links[<<a, t>>] = "live" <=> LogHas(a, <<a, t>>)
    <3>1. /\ <<a, t>> \in Links /\ <<a, t>> \notin Actors /\ <<a, t>> \notin Contents
          /\ <<a, t>> \in Owns(a)
      BY DistinctIds DEF Links, Owns
    <3>2. Shown(a, <<a, t>>) <=> db.links[<<a, t>>] = "live"
      BY <2>0, <3>1 DEF Shown
    <3> QED
      BY <2>1, <3>1, <3>2
  <2> QED
    BY <2>2, <2>3, <2>4
<1>2. [SerialNext]_vars => [Next]_vars
  BY DEF SerialNext
<1>3. Init /\ [][SerialNext]_vars => [](TypeInv /\ LogInv /\ HeadInv)
  BY <1>2, TypeCorrect, LogInvariant, InitHeadInv, StepHeadInv, PTL DEF Spec
<1> QED
  BY <1>1, <1>3, InitSerialInv, StepSerialInv, PTL
=============================================================================
