------------------------------ MODULE RelayLog -------------------------------
(***************************************************************************)
(* The write path of the relay node, app/server/main.py: the handlers that *)
(* create and delete entities, contents and links, and the per-actor log   *)
(* every one of them ends in (Storage.append_log).                         *)
(*                                                                         *)
(* The relay is one asyncio process over ONE sqlite connection.  A handler *)
(* runs alone until it awaits a statement; between two awaited statements  *)
(* any other handler may run.  Because the connection is shared            *)
(*   - every statement sees the statements other handlers have not         *)
(*     committed yet (db is one view, the same for all), and               *)
(*   - a commit makes durable whatever ANY handler has written (disk' =    *)
(*     db), half of another handler's update included.                     *)
(* A crash of the process loses what no commit has covered, and every      *)
(* request in progress.                                                    *)
(*                                                                         *)
(* An event's id is sha256(actor:seq) (generate_log_event_id), so an id is *)
(* modelled by the pair <<actor, seq>>, prev (an id of the same actor) by  *)
(* its seq, and None by 0.  A log_heads row holds an id and its seq: one   *)
(* number, 0 for no row.                                                   *)
(***************************************************************************)
EXTENDS Naturals, FiniteSets

CONSTANTS
  Actors,       \* entities (users)
  Contents,     \* ids of contents
  Targets,      \* what a link can point at; a link's id is <<source, target>>
  Requests,     \* the requests clients may send
  Registered,   \* the actors registered before the behaviour starts
  MaxRequests,  \* bound: requests started in one behaviour
  MaxCrashes    \* bound: crashes of the process in one behaviour

Links   == Actors \X Targets
Objects == Actors \cup Contents \cup Links

Ops == {"create_entity", "create_content", "delete_content",
        "create_link", "delete_link"}

Request == [id : Nat, op : Ops, actor : Actors, obj : Objects]

ASSUME RequestsAssumption ==
  /\ Requests \subseteq Request
  /\ Registered \subseteq Actors
  /\ MaxRequests \in Nat /\ MaxCrashes \in Nat
  /\ \A r \in Requests :
       /\ r.op = "create_entity" => r.obj = r.actor
       /\ r.op \in {"create_content", "delete_content"} => r.obj \in Contents
       /\ r.op \in {"create_link", "delete_link"} => r.obj \in Links
       /\ r.op = "create_link" => r.obj[1] = r.actor

\* An entity's id has a prefix, and the hashes that are contents' and links' ids
\* are cut to different lengths.
ASSUME DistinctIds ==
  Actors \cap Contents = {} /\ Actors \cap Links = {} /\ Contents \cap Links = {}

\* generate_content_id hashes author, body and the time in microseconds: no
\* two posts get the same id.
ASSUME FreshContentIds ==
  \A r, s \in Requests : /\ r.op = "create_content" /\ s.op = "create_content"
                         /\ r.obj = s.obj
                         => r = s

VARIABLES
  db,       \* the tables as the shared connection sees them
  disk,     \* the tables as of the last commit
  pc,       \* pc[r]: the statement request r awaits next, or how it ended
  prev,     \* prev[r], seq[r]: the handler's local variables of those names
  seq,
  crashes   \* how often the process has crashed

vars == <<db, disk, pc, prev, seq, crashes>>

LinkState == {"absent", "live", "tombstoned"}

Event == [actor : Actors, seq : Nat \ {0}, prev : Nat,
          op : {"create", "delete"}, obj : Objects]

Database == [entities : SUBSET Actors,
             contents : SUBSET (Contents \X Actors),
             links    : [Links -> LinkState],
             events   : SUBSET Event,
             heads    : [Actors -> Nat]]

Ended == {"done",      \* answered with success
          "refused",   \* answered with an HTTP 4xx
          "failed",    \* an exception: HTTP 500
          "lost"}      \* cut off by a crash

InFlight == {"insert_entity", "insert_link", "reactivate_link",
             "tombstone_link", "commit_object", "read_head", "read_seq",
             "check_log", "insert_event", "write_head", "commit_log",
             "delete_row", "commit_delete"}

TypeOK ==
  /\ db \in Database
  /\ disk \in Database
  /\ pc \in [Requests -> {"idle"} \cup InFlight \cup Ended]
  /\ prev \in [Requests -> Nat]
  /\ seq \in [Requests -> Nat]
  /\ crashes \in 0 .. MaxCrashes

(***************************************************************************)
(* Initial states: a database in which the Registered actors have each     *)
(* completed their registration.                                           *)
(***************************************************************************)
Genesis(a) == [actor |-> a, seq |-> 1, prev |-> 0,
               op |-> "create", obj |-> a]

Empty == [entities |-> Registered,
          contents |-> {},
          links    |-> [l \in Links |-> "absent"],
          events   |-> {Genesis(a) : a \in Registered},
          heads    |-> [a \in Actors |-> IF a \in Registered THEN 1 ELSE 0]]

Init ==
  /\ db = Empty
  /\ disk = Empty
  /\ pc = [r \in Requests |-> "idle"]
  /\ prev = [r \in Requests |-> 0]
  /\ seq = [r \in Requests |-> 0]
  /\ crashes = 0

-----------------------------------------------------------------------------
(***************************************************************************)
(* Steps of a request.  A step is one awaited statement.                   *)
(***************************************************************************)
Step(r, from, to) == /\ pc[r] = from
                     /\ pc' = [pc EXCEPT ![r] = to]

\* A new request: its first statement is part of the step that starts it.
Started == {r \in Requests : pc[r] # "idle"}

Start(r, op, to) == /\ r.op = op
                    /\ Cardinality(Started) < MaxRequests
                    /\ Step(r, "idle", to)

\* require_auth: a session names an entity found in the database.
Authenticated(r) == r.actor \in db.entities

UnchangedLocals == UNCHANGED <<prev, seq, crashes>>
UnchangedTables == UNCHANGED <<db, disk>>

\* The deterministic event id makes (actor, seq) the key of log_events.
HasEvent(d, a, s) == \E e \in d.events : e.actor = a /\ e.seq = s

NewEvent(r) ==
  [actor |-> r.actor, seq |-> seq[r], prev |-> prev[r], obj |-> r.obj,
   op |-> IF r.op \in {"delete_content", "delete_link"}
            THEN "delete" ELSE "create"]

\* Mistake: append_log compares the seq alone.
FollowsHeadBySeq(r) == seq[r] = db.heads[r.actor] + 1

\* append_log's comparison of the event with the head row it has read.
FollowsHead(r) == LET head == db.heads[r.actor] IN
                    /\ prev[r] = head
                    /\ seq[r] = head + 1

(***************************************************************************)
(* Handlers up to the log: what each does before its event is appended.    *)
(***************************************************************************)

\* create_entity: is there an entity with this key?  (Handles are left out: no
\* two requests ask for the same one.)
CreateEntity(r) ==
  /\ Start(r, "create_entity",
           IF r.actor \in db.entities THEN "refused" ELSE "insert_entity")
  /\ UnchangedTables /\ UnchangedLocals

\* Storage.create_entity; the primary key refuses a second row.  The handler
\* builds the genesis event with the constants seq=1 and prev=None.
InsertEntity(r) ==
  /\ Step(r, "insert_entity",
          IF r.actor \in db.entities THEN "failed" ELSE "commit_object")
  /\ db' = [db EXCEPT !.entities = @ \cup {r.actor}]
  /\ prev' = [prev EXCEPT ![r] = 0]
  /\ seq' = [seq EXCEPT ![r] = 1]
  /\ UNCHANGED <<disk, crashes>>

\* create_content: Storage.create_content inserts the row.
CreateContent(r) ==
  /\ Authenticated(r)
  /\ Start(r, "create_content", "commit_object")
  /\ db' = [db EXCEPT !.contents = @ \cup {<<r.obj, r.actor>>}]
  /\ UNCHANGED disk /\ UnchangedLocals

\* Mistake: the row is deleted and nothing is logged.
DeleteContentUnlogged(r) ==
  /\ Authenticated(r)
  /\ Start(r, "delete_content",
           IF <<r.obj, r.actor>> \in db.contents THEN "delete_row"
                                                 ELSE "refused")
  /\ UnchangedTables /\ UnchangedLocals

\* delete_content: the content must exist and be the user's own.  Its event
\* is appended first, the row deleted after.
DeleteContent(r) ==
  /\ Authenticated(r)
  /\ Start(r, "delete_content",
           IF <<r.obj, r.actor>> \in db.contents THEN "read_head"
                                                 ELSE "refused")
  /\ UnchangedTables /\ UnchangedLocals

\* create_link: refused when live, revived when tombstoned, else inserted.
CreateLink(r) ==
  /\ Authenticated(r)
  /\ Start(r, "create_link",
           CASE db.links[r.obj] = "live"       -> "refused"
             [] db.links[r.obj] = "tombstoned" -> "reactivate_link"
             [] db.links[r.obj] = "absent"     -> "insert_link")
  /\ UnchangedTables /\ UnchangedLocals

\* Storage.create_link; the primary key refuses a second row.
InsertLink(r) ==
  /\ Step(r, "insert_link",
          IF db.links[r.obj] = "absent" THEN "commit_object" ELSE "failed")
  /\ db' = [db EXCEPT !.links[r.obj] = IF @ = "absent" THEN "live" ELSE @]
  /\ UNCHANGED disk /\ UnchangedLocals

\* Mistake: the UPDATE leaves the tombstone.
ReactivateLinkTombstoned(r) ==
  /\ Step(r, "reactivate_link", "commit_object")
  /\ UnchangedTables /\ UnchangedLocals

\* UPDATE links SET tombstone = 0
ReactivateLink(r) ==
  /\ Step(r, "reactivate_link", "commit_object")
  /\ db' = [db EXCEPT !.links[r.obj] = "live"]
  /\ UNCHANGED disk /\ UnchangedLocals

\* delete_link: the row must exist, tombstoned or not, and be the user's own.
DeleteLink(r) ==
  /\ Authenticated(r)
  /\ Start(r, "delete_link",
           IF db.links[r.obj] # "absent" /\ r.obj[1] = r.actor
             THEN "tombstone_link" ELSE "refused")
  /\ UnchangedTables /\ UnchangedLocals

TombstoneLink(r) ==
  /\ Step(r, "tombstone_link", "commit_object")
  /\ db' = [db EXCEPT !.links[r.obj] = "tombstoned"]
  /\ UNCHANGED disk /\ UnchangedLocals

\* The commit of the object, before anything is logged.  create_entity has
\* its seq and prev already; the others read them.
CommitObject(r) ==
  /\ Step(r, "commit_object",
          IF r.op = "create_entity" THEN "check_log" ELSE "read_head")
  /\ disk' = db
  /\ UNCHANGED db /\ UnchangedLocals

\* prev = await storage.get_log_head(current_user)
ReadHead(r) ==
  /\ Step(r, "read_head", "read_seq")
  /\ prev' = [prev EXCEPT ![r] = db.heads[r.actor]]
  /\ UNCHANGED <<seq, crashes>> /\ UnchangedTables

\* seq = await storage.get_log_seq(current_user) + 1
ReadSeq(r) ==
  /\ Step(r, "read_seq", "check_log")
  /\ seq' = [seq EXCEPT ![r] = db.heads[r.actor] + 1]
  /\ UNCHANGED <<prev, crashes>> /\ UnchangedTables

(***************************************************************************)
(* Storage.append_log: check, insert, head, commit.                        *)
(***************************************************************************)

\* A stale prev or seq raises ValueError.
CheckLog(r) ==
  /\ Step(r, "check_log", IF FollowsHead(r) THEN "insert_event" ELSE "failed")
  /\ UnchangedTables /\ UnchangedLocals

\* Mistake: INSERT OR IGNORE.
InsertEventOrIgnore(r) ==
  /\ Step(r, "insert_event", "write_head")
  /\ db' = IF HasEvent(db, r.actor, seq[r])
             THEN db
             ELSE [db EXCEPT !.events = @ \cup {NewEvent(r)}]
  /\ UNCHANGED disk /\ UnchangedLocals

\* Mistake: INSERT OR REPLACE.
InsertEventOrReplace(r) ==
  /\ Step(r, "insert_event", "write_head")
  /\ db' = [db EXCEPT !.events =
               {e \in @ : e.actor # r.actor \/ e.seq # seq[r]}
                 \cup {NewEvent(r)}]
  /\ UNCHANGED disk /\ UnchangedLocals

\* The primary key refuses an event whose place is taken: IntegrityError.
InsertEvent(r) ==
  /\ Step(r, "insert_event",
          IF HasEvent(db, r.actor, seq[r]) THEN "failed" ELSE "write_head")
  /\ db' = IF HasEvent(db, r.actor, seq[r])
             THEN db
             ELSE [db EXCEPT !.events = @ \cup {NewEvent(r)}]
  /\ UNCHANGED disk /\ UnchangedLocals

\* Mistake: INSERT OR IGNORE INTO log_heads.
WriteHeadOnce(r) ==
  /\ Step(r, "write_head", "commit_log")
  /\ db' = [db EXCEPT !.heads[r.actor] = IF @ = 0 THEN seq[r] ELSE @]
  /\ UNCHANGED disk /\ UnchangedLocals

\* Mistake: the object's id bound to the column head_seq.
WriteHeadWrongColumn(r) ==
  /\ Step(r, "write_head", "commit_log")
  /\ db' = [db EXCEPT !.heads[r.actor] = r.obj]
  /\ UNCHANGED disk /\ UnchangedLocals

\* INSERT OR REPLACE INTO log_heads
WriteHead(r) ==
  /\ Step(r, "write_head", "commit_log")
  /\ db' = [db EXCEPT !.heads[r.actor] = seq[r]]
  /\ UNCHANGED disk /\ UnchangedLocals

\* Mistake: append_log leaves the commit to whoever commits next.
CommitLogLater(r) ==
  /\ Step(r, "commit_log",
          IF r.op = "delete_content" THEN "delete_row" ELSE "done")
  /\ UnchangedTables /\ UnchangedLocals

\* The last statement of append_log.  All handlers but delete_content answer.
CommitLog(r) ==
  /\ Step(r, "commit_log",
          IF r.op = "delete_content" THEN "delete_row" ELSE "done")
  /\ disk' = db
  /\ UNCHANGED db /\ UnchangedLocals

\* delete_content, after its event: DELETE FROM content
DeleteRow(r) ==
  /\ Step(r, "delete_row", "commit_delete")
  /\ db' = [db EXCEPT !.contents = {row \in @ : row[1] # r.obj}]
  /\ UNCHANGED disk /\ UnchangedLocals

CommitDelete(r) ==
  /\ Step(r, "commit_delete", "done")
  /\ disk' = db
  /\ UNCHANGED db /\ UnchangedLocals

(***************************************************************************)
(* The environment of these handlers.                                      *)
(***************************************************************************)

\* Any other handler that writes (update_entity, say) commits the shared
\* connection, and with it what these handlers have written so far.
CommitElsewhere ==
  /\ disk # db
  /\ disk' = db
  /\ UNCHANGED <<db, pc>> /\ UnchangedLocals

\* The process stops and is started again on the same file.
Crash ==
  /\ crashes < MaxCrashes
  /\ crashes' = crashes + 1
  /\ db' = disk
  /\ pc' = [r \in Requests |-> IF pc[r] \in InFlight THEN "lost" ELSE pc[r]]
  /\ UNCHANGED <<disk, prev, seq>>

-----------------------------------------------------------------------------
BeginRequest(r) == \/ CreateEntity(r) \/ CreateContent(r) \/ DeleteContent(r)
                   \/ CreateLink(r) \/ DeleteLink(r)

ContinueRequest(r) ==
  \/ InsertEntity(r) \/ InsertLink(r) \/ ReactivateLink(r)
  \/ TombstoneLink(r) \/ CommitObject(r) \/ ReadHead(r) \/ ReadSeq(r)
  \/ CheckLog(r) \/ InsertEvent(r) \/ WriteHead(r) \/ CommitLog(r)
  \/ DeleteRow(r) \/ CommitDelete(r)

Next == \/ \E r \in Requests : BeginRequest(r) \/ ContinueRequest(r)
        \/ CommitElsewhere
        \/ Crash

Spec == Init /\ [][Next]_vars

\* Every awaited statement is eventually executed: aiosqlite runs them from a
\* queue, in order, and a handler waits for nothing else.
FairSpec == Spec /\ \A r \in Requests : WF_vars(ContinueRequest(r))

-----------------------------------------------------------------------------
(***************************************************************************)
(* Properties.                                                             *)
(***************************************************************************)

OneEventPerPlace(d) ==
  \A e, f \in d.events : e.actor = f.actor /\ e.seq = f.seq => e = f

Linked(d) ==
  \A e \in d.events : /\ e.seq = e.prev + 1
                      /\ e.prev = 0 \/ HasEvent(d, e.actor, e.prev)

\* Whatever the interleaving of requests and crashes, the events of an actor
\* form one chain from seq 1 without a gap or a fork, in what handlers read
\* and in what survives a crash: validate_log_chain accepts every log.
ChainSound == \A d \in {db, disk} : OneEventPerPlace(d) /\ Linked(d)

\* An event that log_heads does not count yet.
Uncounted(d, a) == HasEvent(d, a, d.heads[a] + 1)

\* log_heads never names a missing event and is never more than one event
\* behind the log.  While the process has not crashed it is behind only
\* between append_log's two writes.  (After a crash at that point it stays
\* behind, and every later append of the actor fails on the taken place.)
HeadTrails ==
  \A a \in Actors :
    /\ \A d \in {db, disk} :
         /\ d.heads[a] > 0 => HasEvent(d, a, d.heads[a])
         /\ \A e \in d.events : e.actor = a => e.seq <= d.heads[a] + 1
    /\ Uncounted(db, a) /\ crashes = 0 =>
         \E r \in Requests : /\ r.actor = a /\ pc[r] = "write_head"
                             /\ seq[r] = db.heads[a] + 1

Deleted(d, o) == \E e \in d.events : e.op = "delete" /\ e.obj = o

\* What a client was told is on disk: the request's event, at the place the
\* handler computed, and its effect, unless a later logged delete undid it.
AckedIsDurable ==
  \A r \in Requests : pc[r] = "done" =>
    /\ NewEvent(r) \in disk.events
    /\ r.op = "create_entity"  => r.actor \in disk.entities
    /\ r.op = "create_content" => \/ <<r.obj, r.actor>> \in disk.contents
                                  \/ Deleted(disk, r.obj)
    /\ r.op = "delete_content" => <<r.obj, r.actor>> \notin disk.contents
    /\ r.op \in {"create_link", "delete_link"} =>
         disk.links[r.obj] # "absent"

\* No two acknowledged writes share an event: concurrent requests of one user
\* either get a place of their own in the log or are refused.
AckedOwnPlace ==
  \A r, s \in Requests :
    /\ pc[r] = "done" /\ pc[s] = "done"
    /\ r # s /\ r.actor = s.actor
    => seq[r] # seq[s]

\* A content whose insertion was committed leaves the tables only after the
\* DELETE event that accounts for it is durable.
NoUnloggedDelete ==
  \A r \in Requests :
    /\ r.op = "create_content"
    /\ pc[r] \in (InFlight \ {"commit_object"}) \cup {"done", "failed"}
    => <<r.obj, r.actor>> \in db.contents \/ Deleted(disk, r.obj)

(***************************************************************************)
(* The durable part of every log is an append-only history.                *)
(***************************************************************************)
Entry == [op : {"create", "delete"}, obj : Objects]

Depth(a) == IF Uncounted(disk, a) THEN disk.heads[a] + 1 ELSE disk.heads[a]

EventAt(a, s) == CHOOSE e \in disk.events : e.actor = a /\ e.seq = s

History == [a \in Actors |->
              [s \in 1 .. Depth(a) |-> [op  |-> EventAt(a, s).op,
                                        obj |-> EventAt(a, s).obj]]]

Durable == INSTANCE AppendOnlyLog WITH log <- History, Entries <- Entry

\* Implementation of AppendOnlyLog: a commit extends histories at their end,
\* a crash and everything else leaves them alone.
AppendOnly == Durable!Spec

(***************************************************************************)
(* One request at a time.                                                  *)
(***************************************************************************)
\* A user with one client that waits for each answer before the next write.
OneAtATime == \A r, s \in Requests :
                /\ pc[r] \in InFlight /\ pc[s] \in InFlight
                /\ r.actor = s.actor
                => r = s

SerialNext == Next /\ OneAtATime'

FairSerialSpec == /\ Init /\ [][SerialNext]_vars
                  /\ \A r \in Requests : WF_vars(ContinueRequest(r))

Quiet(a) == \A r \in Requests : r.actor = a => pc[r] \notin InFlight

\* The last event of a about o creates it.
LogHas(a, o) ==
  \E e \in db.events :
    /\ e.actor = a /\ e.obj = o /\ e.op = "create"
    /\ \A f \in db.events : f.actor = a /\ f.obj = o => f.seq <= e.seq

\* When no request of a is under way, replaying a's log gives exactly a's
\* entities, contents and live links.
StateIsDerived ==
  \A a \in Actors : Quiet(a) =>
    /\ a \in db.entities <=> LogHas(a, a)
    /\ \A c \in Contents : <<c, a>> \in db.contents <=> LogHas(a, c)
    /\ \A t \in Targets : db.links[<<a, t>>] = "live" <=> LogHas(a, <<a, t>>)

\* Without crashes an event once written is counted by log_heads in the end,
\* so the actor's log can always go on.
HeadCatchesUp == \A a \in Actors : Uncounted(db, a) ~> ~Uncounted(db, a)

\* The docstring of LogEvent (integrity.py): "Every write is wrapped in a
\* LogEvent for integrity."  Read when the actor has no request under way.
EveryWriteLogged ==
  \A a \in Actors, c \in Contents :
    Quiet(a) /\ <<c, a>> \in disk.contents =>
      \E e \in disk.events : e.actor = a /\ e.obj = c /\ e.op = "create"
=============================================================================
