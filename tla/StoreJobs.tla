------------------------------- MODULE StoreJobs -------------------------------
(***************************************************************************)
(* Requests to a store of the legacy implementations.  A store is one      *)
(* aiosqlite connection that all requests share: each statement runs alone *)
(* and a request awaits each of its own, so that the statements of several *)
(* requests interleave; what one has written the others read at once, and  *)
(* any commit makes durable what all of them have written so far.          *)
(***************************************************************************)
EXTENDS Naturals, Sequences, FiniteSets

CONSTANTS
  StoreActors,
  StoreObjects,    \* object ids of states, feeds and views
  StoreTraffic,    \* for each behaviour, which store runs, what is asked of it,
                   \* and who has put an identity, and what rows, before
  MaxTogether,     \* bound: requests that run at a time
  MaxStoreCrashes  \* bound

VARIABLES
  storeRun,  \* the member of StoreTraffic
  job,       \* job[r]: what request r has still to do, has read, has answered,
             \* and (history) which requests ran while it did
  working,   \* the tables as the connection sees them
  disk,      \* the tables as of the last commit
  storeCrashes

storeVars == <<storeRun, job, working, disk, storeCrashes>>

Asks    == storeRun.asks
Running == {r \in Asks : job[r].answer = "running"}
NoRow   == [version |-> 0, sources |-> << >>]

Empty ==
  [actors   |-> {},                               \* identities
   log      |-> {},                               \* log_events, events
   head     |-> [a \in StoreActors |-> "none"],   \* log_heads, event_heads
   rows     |-> [o \in StoreObjects |-> NoRow],   \* state, feed and view rows
   objects  |-> {},                               \* entities, content, links
   channels |-> {},
   members  |-> {},
   cache    |-> {},                               \* view_cache
   seq      |-> 0]

StoreInit ==
  /\ storeRun \in StoreTraffic
  /\ job = [r \in Asks |-> [todo |-> << >>, read |-> << >>, answer |-> "none", met |-> {}]]
  /\ working = [Empty EXCEPT !.actors = storeRun.known,
               !.seq = Cardinality(storeRun.known) + Cardinality(DOMAIN storeRun.put),
               !.rows = [o \in StoreObjects |-> IF o \in DOMAIN storeRun.put
                 THEN [version |-> 1, sources |-> storeRun.put[o]] ELSE NoRow]]
  /\ disk = working
  /\ storeCrashes = 0

StoreTypeOK ==
  /\ storeRun \in StoreTraffic
  /\ DOMAIN job = Asks
  /\ \A r \in Asks :
       /\ job[r].answer \in {"none", "running", "ok", "refused", "raised", "lost"}
       /\ job[r].answer = "running" <=> job[r].todo # << >>
       /\ job[r].met \subseteq Asks \ {r}
  /\ \A t \in {working, disk} :
       /\ DOMAIN t = DOMAIN Empty
       /\ \A a \in StoreActors : t.head[a] \in {"none"} \cup {e.id : e \in t.log}
       /\ t.seq \in Nat
  /\ storeCrashes \in 0 .. MaxStoreCrashes

\* The statements a request still has to run, by name
Statements(names) == [n \in DOMAIN names |-> <<names[n], "none">>]

BeginJob(r, todo) ==
  /\ job[r].answer = "none"
  /\ Cardinality(Running) < MaxTogether
  /\ job' = [q \in Asks |->
       IF q = r THEN [todo |-> todo, read |-> << >>, answer |-> "running", met |-> Running]
       ELSE IF q \in Running THEN [job[q] EXCEPT !.met = @ \cup {r}]
       ELSE job[q]]
  /\ UNCHANGED <<storeRun, working, disk, storeCrashes>>

At(r, statement) == r \in Running /\ Head(job[r].todo)[1] = statement
Argument(r)      == Head(job[r].todo)[2]

\* r has run its statement and goes on with todo.
Goes(r, todo, read) ==
  /\ job' = [job EXCEPT ![r].todo = todo, ![r].read = read,
                        ![r].answer = IF todo = << >> THEN "ok" ELSE "running"]
  /\ UNCHANGED <<storeRun, storeCrashes>>

ReadsOn(r, read) == Goes(r, Tail(job[r].todo), read) /\ UNCHANGED <<working, disk>>

Writes(r, tables, read) ==
  /\ Goes(r, Tail(job[r].todo), read)
  /\ working' = tables
  /\ UNCHANGED disk

\* A ValueError is answered 409, a missing row 404, any other error 500.
Ends(r, answer) ==
  /\ job' = [job EXCEPT ![r].todo = << >>, ![r].answer = answer]
  /\ UNCHANGED <<storeRun, working, disk, storeCrashes>>

NextSeq(r) ==
  /\ At(r, "count")
  /\ Writes(r, [working EXCEPT !.seq = @ + 1], working.seq + 1)

Commit(r) ==
  /\ At(r, "commit")
  /\ Goes(r, Tail(job[r].todo), job[r].read)
  /\ disk' = working
  /\ UNCHANGED working

\* The process ends; what was not committed is gone.
StoreCrash ==
  /\ storeCrashes < MaxStoreCrashes
  /\ storeCrashes' = storeCrashes + 1
  /\ working' = disk
  /\ job' = [r \in Asks |->
       IF r \in Running THEN [job[r] EXCEPT !.todo = << >>, !.answer = "lost"] ELSE job[r]]
  /\ UNCHANGED <<storeRun, disk>>

\* put_state, put_feed_definition, put_view_definition: is the version new?
ReadVersion(r) ==
  /\ At(r, "version")
  /\ IF r.version > working.rows[r.object].version THEN ReadsOn(r, job[r].read)
                                                   ELSE Ends(r, "refused")

Replace(r) ==
  /\ At(r, "replace")
  /\ Writes(r, [working EXCEPT !.rows[r.object] =
                  [version |-> r.version, sources |-> r.sources]], job[r].read)

\* An event whose id is there already raises.
InsertEvent(r) ==
  /\ At(r, "insert")
  /\ IF r.id \in {e.id : e \in working.log} THEN Ends(r, "raised")
     ELSE Writes(r, [working EXCEPT !.log = @ \cup {[id |-> r.id, actor |-> r.actor,
                       prev |-> r.prev, seq |-> job[r].read, by |-> r]}], job[r].read)

MoveHead(r) ==
  /\ At(r, "lead")
  /\ Writes(r, [working EXCEPT !.head[r.actor] = r.id], job[r].read)

StoreStep(r) ==
  \/ NextSeq(r) \/ Commit(r)
  \/ ReadVersion(r) \/ Replace(r)
  \/ InsertEvent(r) \/ MoveHead(r)

-----------------------------------------------------------------------------
Appends(as) == {r \in Asks : r.op = "append" /\ r.actor \in as}
EventsBy(as) == {e \in working.log : e.actor \in as}

\* What r did overlapped no append to the logs of as, and none is under way, or
\* was cut off and may have left its event without its head.
Undisturbed(r, as) ==
  \A q \in Appends(as) : q \notin job[r].met /\ job[q].answer \notin {"running", "lost"}

\* What is acknowledged is on disk, and seqs (in Mesh, those of an actor) tell events
\* apart, whatever else was committed or cut off in between.
WritesLast ==
  /\ \A r \in Asks : job[r].answer = "ok" =>
       /\ r.op = "append" => \A t \in {working, disk} : r.id \in {e.id : e \in t.log}
       /\ r.op = "put" => disk.rows[r.object].version > 0
  /\ \A d, e \in working.log :
       d.seq = e.seq /\ (storeRun.store = "mesh" => d.actor = e.actor) => d = e

\* A version that was acknowledged is undone by no put but one of a lower version
\* that overlapped it, for the check and the write are two statements.
VersionsRise ==
  \A r \in Asks : (r.op = "put" /\ job[r].answer = "ok") =>
    \/ disk.rows[r.object].version >= r.version
    \/ \E q \in job[r].met : q.op = "put" /\ q.object = r.object /\ q.version < r.version
=============================================================================
