----------------------------- MODULE StoreProofs -----------------------------
(***************************************************************************)
(* Theorems about Stores for every set of actors and objects, any requests *)
(* and any number of them at a time.                                       *)
(*                                                                         *)
(* What is left of a request is read from its end: Left(r) statements of   *)
(* its script are to come, and which they are follows from their number.   *)
(***************************************************************************)
EXTENDS Stores, FiniteSetTheorems, SequenceTheorems, TLAPS

-----------------------------------------------------------------------------
(***************************************************************************)
(* Types.                                                                  *)
(***************************************************************************)
Fields == {"actors", "log", "head", "rows", "objects", "channels", "members",
           "cache", "seq"}

OverActorsNames  == {"fetch", "tip", "gather", "peek", "follows"}
OverObjectsNames == {"reduce", "define", "execute", "view", "plan"}
PlainNames ==
  {"name", "commit", "count", "identity", "head", "insert", "lead", "version",
   "replace", "open", "own", "lookup", "store", "return", "create", "chain",
   "number", "batch"}

Statement == (OverActorsNames \X StoreActors) \cup (OverObjectsNames \X StoreObjects)
               \cup (PlainNames \X {"none"})

Mesh == storeRun.store = "mesh"

\* What comes when k statements of a request are left
AppendName(k) ==
  IF k = 1 THEN "commit" ELSE IF k = 2 THEN "lead"
  ELSE IF Mesh THEN (IF k = 3 THEN "number" ELSE "chain")
  ELSE IF k = 3 THEN "insert" ELSE IF k = 4 THEN "commit" ELSE IF k = 5 THEN "count"
  ELSE IF k = 6 THEN "head" ELSE "identity"

PutName(k) ==
  IF k = 1 THEN "commit"
  ELSE IF Mesh THEN (IF k = 2 THEN "replace" ELSE "version")
  ELSE IF k = 2 THEN "count" ELSE IF k = 3 THEN "commit" ELSE IF k = 4 THEN "replace"
  ELSE IF k = 5 THEN "version" ELSE "identity"

ChannelName(k) == IF k = 1 THEN "commit" ELSE IF k = 2 THEN "own" ELSE "open"

\* s can come at place n of the todo of r, after which k are left.
Fits(r, n, k, s) ==
  /\ r.op = "identity" => s \in {"name", "commit", "count"}
  /\ r.op = "append" => s = AppendName(k)
  /\ r.op = "put" => s = PutName(k)
  /\ r.op = "channel" => s = ChannelName(k)
  /\ r.op = "create" => s \in {"create", "commit"}
  /\ r.op = "reduce" => s \in {"reduce", "define", "fetch", "gather", "tip", "peek"}
  /\ r.op = "execute" =>
       IF Mesh THEN s \in {"plan", "fetch", "tip", "follows", "batch"}
               ELSE s \in {"execute", "view", "fetch", "tip", "lookup", "store",
                           "commit", "return"}
  /\ s = "tip" => n = 1
  /\ s \in {"reduce", "execute", "plan"} => n = 1 /\ k = 1

TodoType(r, todo) ==
  /\ todo \in Seq(Statement)
  /\ \A n \in 1 .. Len(todo) : Fits(r, n, Len(todo) - n + 1, todo[n][1])

\* What a reduction or an execution has to do once it knows its sources
CollectNames(r) ==
  IF r.op = "reduce" THEN {"define", "fetch", "gather", "tip", "peek"}
  ELSE IF Mesh THEN {"fetch", "tip", "follows", "batch"}
  ELSE {"view", "fetch", "tip", "lookup", "store", "commit", "return"}

Collects(r, todo) ==
  /\ todo \in Seq(Statement)
  /\ \A n \in 1 .. Len(todo) : /\ todo[n][1] \in CollectNames(r)
                               /\ todo[n][1] = "tip" => n = 1

\* What an execution goes on with once a view it came across is done
Resumes(r, todo) == Collects(r, todo) /\ \A n \in 1 .. Len(todo) : todo[n][1] # "tip"

Left(r) == Len(job[r].todo)

Appenders == {r \in Asks : r.op = "append"}
KnownIds  == {"none"} \cup {r.id : r \in Appenders}
RowSet      == [version : Nat, sources : Seq(SourcesIn(storeRun.store))]

LoggedAs(r, n) == [id |-> r.id, actor |-> r.actor, prev |-> r.prev, seq |-> n, by |-> r]

Heads == SUBSET (StoreActors \X KnownIds)

Kept == [view : StoreObjects, version : Nat, sources : Seq(SourcesIn("view")),
         heads : Heads, ids : SUBSET KnownIds, by : Asks]

TablesType(t) ==
  /\ DOMAIN t = Fields
  /\ t.seq \in Nat
  /\ t.rows \in [StoreObjects -> RowSet]
  /\ t.head \in [StoreActors -> KnownIds]
  /\ \A e \in t.log : e.by \in Appenders /\ e.seq \in Nat /\ e = LoggedAs(e.by, e.seq)
  /\ IsFiniteSet(t.log)
  /\ \A o \in t.objects : o.kind = "follow" => o.to \in StoreActors
  /\ t.cache \subseteq Kept

\* What r has read: an append its number, a reduction or an execution what it has
\* collected, of each view it is in the middle of.
Reading(r) == r \in Running /\ job[r].todo[1][1] \notin {"reduce", "execute", "plan"}
Opened(r)  == Reading(r) \/ job[r].answer = "ok"

Feeds == [version : Nat, sources : Seq(SourcesIn("relay")), heads : Heads,
          ids : SUBSET KnownIds]
PlanSet == [heads : Heads, ids : SUBSET KnownIds, of : SUBSET StoreActors]

Frames == [view : StoreObjects, version : Nat, sources : Seq(SourcesIn("view")),
           heads : Heads, ids : SUBSET KnownIds, rest : Seq(Statement)]

\* The view that was asked for is the outermost one, and nothing comes after it.
StackType(r, read) ==
  /\ \A n \in 1 .. Len(read) : Resumes(r, read[n].rest)
  /\ read[Len(read)].rest = << >>

ReadType(r) ==
  /\ r.op = "append" /\ ~Mesh /\ Left(r) \in {3, 4} => job[r].read \in Nat
  /\ r.op = "reduce" /\ Opened(r) => job[r].read \in Feeds
  /\ r.op = "execute" =>
       IF Mesh THEN Opened(r) => job[r].read \in PlanSet
       ELSE /\ job[r].read \in Seq(Frames)
            /\ job[r].answer \in {"running", "ok"} => (Opened(r) <=> job[r].read # << >>)
            /\ job[r].read # << >> => StackType(r, job[r].read)

JobType(r) ==
  /\ DOMAIN job[r] = {"todo", "read", "answer", "met"}
  /\ job[r].answer \in {"none", "running", "ok", "refused", "raised", "lost"}
  /\ job[r].answer = "running" <=> job[r].todo # << >>
  /\ job[r].met \subseteq Asks \ {r}
  /\ TodoType(r, job[r].todo)
  /\ ReadType(r)

TypeInv ==
  /\ storeRun \in StoreTraffic
  /\ TablesType(working) /\ TablesType(disk)
  /\ storeCrashes \in 0 .. MaxStoreCrashes
  /\ DOMAIN job = Asks
  /\ \A r \in Asks : JobType(r)

-----------------------------------------------------------------------------
(***************************************************************************)
(* A statement of a request changes the request's own job only.            *)
(***************************************************************************)
OnlyJob(r) ==
  /\ storeRun' = storeRun /\ Asks' = Asks /\ storeCrashes' = storeCrashes
  /\ DOMAIN job' = Asks
  /\ \A q \in Asks : q # r => job'[q] = job[q]
  /\ DOMAIN job'[r] = {"todo", "read", "answer", "met"}
  /\ job'[r].met = job[r].met
  /\ job'[r].answer \in {"running", "ok", "refused", "raised"}

LEMMA RunningAsks ==
  ASSUME TypeInv, NEW r \in Running
  PROVE  /\ r \in Asks /\ job[r].answer = "running" /\ job[r].todo # << >>
         /\ job[r].todo \in Seq(Statement) /\ Left(r) \in Nat \ {0}
         /\ Head(job[r].todo) = job[r].todo[1] /\ job[r].todo[1] \in Statement
         /\ Fits(r, 1, Left(r), job[r].todo[1][1])
<1>1. /\ r \in Asks /\ job[r].answer = "running" /\ job[r].todo # << >>
      /\ job[r].todo \in Seq(Statement)
  BY DEF TypeInv, JobType, TodoType, Running
<1>2. Left(r) \in Nat \ {0}
  BY <1>1, EmptySeq DEF Left
<1>3. Head(job[r].todo) = job[r].todo[1] /\ job[r].todo[1] \in Statement
  BY <1>1, <1>2, ElementOfSeq DEF Left
<1> QED
  BY <1>1, <1>2, <1>3 DEF TypeInv, JobType, TodoType, Left

LEMMA RequestsFit ==
  ASSUME TypeInv, NEW r \in Asks
  PROVE  /\ storeRun.store \in {"relay", "view", "mesh"}
         /\ r.op \in OpsOf(storeRun.store)
         /\ r.op = "append" => /\ r.actor \in StoreActors /\ r.id # "none"
                               /\ Mesh => r.seq \in Nat
         /\ r.op = "put" => /\ r.object \in StoreObjects /\ r.version \in Nat
                            /\ r.sources \in Seq(SourcesIn(storeRun.store))
                            /\ r.feed \in BOOLEAN
         /\ r.op \in {"reduce", "execute"} => r.object \in StoreObjects
         /\ r.op = "create" /\ r.object.kind = "follow" => r.object.to \in StoreActors
<1>1. storeRun \in StoreTraffic /\ r \in storeRun.asks
  BY DEF TypeInv, Asks
<1> QED
  BY <1>1, StoresAssumption DEF Mesh

LEMMA GoesOnly ==
  ASSUME TypeInv, NEW r \in Asks, NEW todo, NEW read, Goes(r, todo, read)
  PROVE  /\ OnlyJob(r) /\ job'[r].todo = todo /\ job'[r].read = read
         /\ job'[r].answer = IF todo = << >> THEN "ok" ELSE "running"
BY DEF TypeInv, JobType, Goes, OnlyJob, Asks

LEMMA EndsOnly ==
  ASSUME TypeInv, NEW r \in Asks, NEW answer \in {"refused", "raised"}, Ends(r, answer)
  PROVE  /\ OnlyJob(r) /\ job'[r].todo = << >> /\ job'[r].read = job[r].read
         /\ job'[r].answer = answer /\ working' = working /\ disk' = disk
BY DEF TypeInv, JobType, Ends, OnlyJob, Asks

LEMMA TypeFrame ==
  ASSUME TypeInv, NEW r \in Asks, OnlyJob(r), JobType(r)',
         TablesType(working)', TablesType(disk)'
  PROVE  TypeInv'
<1>1. Mesh' = Mesh /\ Heads' = Heads /\ Feeds' = Feeds /\ PlanSet' = PlanSet /\ Frames' = Frames
  BY DEF OnlyJob, Mesh, Heads, Feeds, PlanSet, Frames, KnownIds, Appenders
<1>2. ASSUME NEW q \in Asks, q # r
      PROVE  JobType(q)'
  <2>1. job'[q] = job[q] /\ JobType(q)
    BY <1>2 DEF TypeInv, OnlyJob
  <2>2. \A x : TodoType(q, x)' <=> TodoType(q, x)
    BY <1>1 DEF TodoType, Fits, AppendName, PutName
  <2>a. \A x : StackType(q, x)' <=> StackType(q, x)
    BY <1>1 DEF StackType, Resumes, Collects, CollectNames
  <2>3. Reading(q)' <=> Reading(q)
    BY <2>1, <1>2 DEF Reading, Running, OnlyJob
  <2>4. ReadType(q)'
    BY <2>1, <2>a, <2>3, <1>1 DEF JobType, ReadType, Opened, Left
  <2> QED
    BY <2>1, <2>2, <2>4 DEF JobType, OnlyJob
<1> QED
  BY <1>2 DEF TypeInv, OnlyJob

LEMMA TailFits ==
  ASSUME TypeInv, NEW r \in Running
  PROVE  LET todo == Tail(job[r].todo)
         IN  /\ TodoType(r, todo)
             /\ Len(todo) = Left(r) - 1
             /\ \A n \in 1 .. Len(todo) : todo[n] = job[r].todo[n + 1] /\ todo[n][1] # "tip"
                  /\ todo[n][1] \notin {"reduce", "execute", "plan"}
<1> DEFINE todo == Tail(job[r].todo)
<1>1. /\ todo \in Seq(Statement) /\ Len(todo) = Left(r) - 1
      /\ \A n \in 1 .. Len(todo) : todo[n] = job[r].todo[n + 1]
  BY RunningAsks, HeadTailProperties DEF Left
<1>2. ASSUME NEW n \in 1 .. Len(todo)
      PROVE  Fits(r, n + 1, Len(todo) - n + 1, todo[n][1])
  <2>1. n + 1 \in 1 .. Left(r) /\ Left(r) - (n + 1) + 1 = Len(todo) - n + 1 /\ n \in Nat
    BY <1>1, RunningAsks
  <2>2. Fits(r, n + 1, Left(r) - (n + 1) + 1, job[r].todo[n + 1][1])
    BY <2>1 DEF TypeInv, JobType, TodoType, Left, Running
  <2> QED
    BY <1>1, <2>1, <2>2
<1>3. ASSUME NEW n \in 1 .. Len(todo)
      PROVE  /\ Fits(r, n, Len(todo) - n + 1, todo[n][1]) /\ todo[n][1] # "tip"
             /\ todo[n][1] \notin {"reduce", "execute", "plan"}
  <2>1. n + 1 # 1
    BY RunningAsks, <1>1
  <2> QED
    BY <1>2, <2>1 DEF Fits
<1> QED
  BY <1>1, <1>3 DEF TodoType

\* Which requests can be at which statement, and how much is left of them
Placed(r, s, k) ==
  /\ s = "name" => r.op = "identity"
  /\ s = "count" => /\ ~Mesh
                    /\ \/ (r.op = "append" /\ k = 5)
                       \/ (r.op = "put" /\ k = 2)
                       \/ r.op = "identity"
  /\ s = "commit" => /\ r.op # "reduce"
                     /\ r.op = "execute" => ~Mesh
                     /\ r.op = "append" => (k = 1 \/ (k = 4 /\ ~Mesh))
                     /\ r.op = "put" => (k = 1 \/ (k = 3 /\ ~Mesh))
                     /\ r.op = "channel" => k = 1
  /\ s = "identity" => ~Mesh /\ ((r.op = "append" /\ k > 6) \/ (r.op = "put" /\ k > 5))
  /\ s = "head" => ~Mesh /\ r.op = "append" /\ k = 6
  /\ s = "insert" => ~Mesh /\ r.op = "append" /\ k = 3
  /\ s = "lead" => r.op = "append" /\ k = 2
  /\ s = "chain" => Mesh /\ r.op = "append" /\ k > 3
  /\ s = "number" => Mesh /\ r.op = "append" /\ k = 3
  /\ s = "version" => r.op = "put" /\ k > 2
  /\ s = "replace" => r.op = "put" /\ k = (IF Mesh THEN 2 ELSE 4)
  /\ s = "open" => r.op = "channel" /\ k > 2
  /\ s = "own" => r.op = "channel" /\ k = 2
  /\ s = "create" => r.op = "create"
  /\ s \in {"reduce", "define", "gather", "peek"} => r.op = "reduce"
  /\ s \in {"fetch", "tip"} => r.op \in {"reduce", "execute"}
  /\ s \in {"execute", "view", "lookup", "store", "return"} => r.op = "execute" /\ ~Mesh
  /\ s \in {"plan", "follows", "batch"} => r.op = "execute" /\ Mesh
  /\ s \in {"reduce", "execute", "plan"} => k = 1

LEMMA StoreOf ==
  ASSUME TypeInv, NEW r \in Asks
  PROVE  /\ r.op \in {"identity", "channel", "reduce"} => storeRun.store = "relay"
         /\ r.op = "create" => storeRun.store = "mesh"
         /\ r.op = "execute" => storeRun.store \in {"view", "mesh"}
BY RequestsFit DEF OpsOf

LEMMA StandsAt ==
  ASSUME TypeInv, NEW r \in Running
  PROVE  Placed(r, job[r].todo[1][1], Left(r))
<1> DEFINE s == job[r].todo[1][1]
           k == Left(r)
<1>1. /\ k \in Nat \ {0} /\ Fits(r, 1, k, s) /\ r \in Asks
      /\ r.op \in {"identity", "append", "put", "channel", "reduce", "execute", "create"}
  BY RunningAsks, RequestsFit DEF OpsOf, Mesh
<1> HIDE DEF s, k
<1>2. r.op = "append" => Placed(r, s, k)
  BY <1>1 DEF Fits, AppendName, Mesh, Placed
<1>3. r.op = "put" => Placed(r, s, k)
  BY <1>1 DEF Fits, PutName, Mesh, Placed
<1>4. r.op = "channel" => Placed(r, s, k)
  BY <1>1 DEF Fits, ChannelName, Mesh, Placed
<1>5. r.op \in {"identity", "create"} => Placed(r, s, k)
  BY <1>1, StoreOf DEF Fits, Mesh, Placed
<1>6. r.op \in {"reduce", "execute"} => Placed(r, s, k)
  BY <1>1 DEF Fits, Mesh, Placed
<1> QED
  BY <1>1, <1>2, <1>3, <1>4, <1>5, <1>6 DEF s, k

\* One that goes on to its next statement
LEMMA NextStatement ==
  ASSUME TypeInv, NEW r \in Running, NEW read, Goes(r, Tail(job[r].todo), read),
         r.op = "append" /\ ~Mesh /\ Left(r) \in {4, 5} => read \in Nat,
         r.op \notin {"reduce", "execute"},
         TablesType(working)', TablesType(disk)'
  PROVE  TypeInv'
<1>1. r \in Asks
  BY RunningAsks
<1>2. /\ OnlyJob(r) /\ job'[r].todo = Tail(job[r].todo) /\ job'[r].read = read
      /\ job'[r].answer = IF job'[r].todo = << >> THEN "ok" ELSE "running"
  BY <1>1, GoesOnly
<1>3. TodoType(r, job'[r].todo) /\ Len(job'[r].todo) = Left(r) - 1
  BY <1>2, TailFits
<1>4. TodoType(r, job[r].todo)'
  BY <1>3, <1>2 DEF TodoType, Fits, AppendName, PutName, Mesh, OnlyJob
<1>5. ReadType(r)'
  BY <1>2, <1>3, RunningAsks DEF ReadType, Left, Mesh, OnlyJob
<1>6. JobType(r)'
  BY <1>1, <1>2, <1>4, <1>5 DEF JobType, OnlyJob, TypeInv
<1> QED
  BY <1>1, <1>2, <1>6, TypeFrame

LEMMA EndsType ==
  ASSUME TypeInv, NEW r \in Running, NEW answer \in {"refused", "raised"}, Ends(r, answer)
  PROVE  TypeInv'
<1>1. r \in Asks
  BY RunningAsks
<1>2. /\ OnlyJob(r) /\ job'[r].todo = << >> /\ job'[r].read = job[r].read
      /\ job'[r].answer = answer /\ working' = working /\ disk' = disk
  BY <1>1, EndsOnly
<1>3. TodoType(r, job[r].todo)'
  BY <1>2, EmptySeq DEF TodoType
<1>4. ~Opened(r)' /\ Left(r)' = 0
  BY <1>2, EmptySeq DEF Opened, Reading, Running, Left
<1>5. ReadType(r)'
  <2>1. JobType(r)
    BY <1>1 DEF TypeInv
  <2>2. Mesh' = Mesh /\ Frames' = Frames
    BY <1>2 DEF OnlyJob, Mesh, Frames, Heads, KnownIds, Appenders
  <2>3. \A x : StackType(r, x)' <=> StackType(r, x)
    BY <2>2 DEF StackType, Resumes, Collects, CollectNames
  <2> QED
    BY <1>2, <1>4, <2>1, <2>2, <2>3 DEF ReadType, JobType
<1>6. JobType(r)'
  BY <1>1, <1>2, <1>3, <1>5 DEF JobType, OnlyJob, TypeInv
<1>7. TablesType(working)' /\ TablesType(disk)'
  BY <1>2 DEF TypeInv, TablesType, OnlyJob, KnownIds, Appenders, RowSet, LoggedAs, Kept, Heads
<1> QED
  BY <1>1, <1>2, <1>6, <1>7, TypeFrame

LEMMA TablesFrame ==
  ASSUME TypeInv, NEW r \in Asks, OnlyJob(r)
  PROVE  /\ working' = working => TablesType(working)'
         /\ disk' \in {disk, working} => TablesType(disk)'
<1>1. KnownIds' = KnownIds /\ RowSet' = RowSet /\ Appenders' = Appenders /\ Kept' = Kept
  BY DEF OnlyJob, KnownIds, Appenders, RowSet, Kept, Heads
<1> QED
  BY <1>1 DEF TypeInv, TablesType, LoggedAs

\* Statements of requests that collect nothing
LEMMA PlainType ==
  ASSUME TypeInv, NEW r \in Running,
         \/ NextSeq(r) \/ ReadVersion(r) \/ Replace(r) \/ InsertEvent(r)
         \/ MoveHead(r) \/ PutIdentity(r) \/ FindIdentity(r) \/ ReadHead(r)
         \/ OpenChannel(r) \/ OwnerJoins(r) \/ CreateObject(r) \/ CheckChain(r)
         \/ InsertNumbered(r)
  PROVE  TypeInv'
<1>0. r \in Asks /\ Left(r) \in Nat /\ job[r].todo[1] = Head(job[r].todo) /\ Placed(r, job[r].todo[1][1], Left(r))
  BY RunningAsks, StandsAt
<1>1. ASSUME NEW read, Goes(r, Tail(job[r].todo), read)
      PROVE  /\ OnlyJob(r) /\ KnownIds' = KnownIds /\ RowSet' = RowSet /\ Appenders' = Appenders
             /\ Kept' = Kept
             /\ working' = working => TablesType(working)'
             /\ disk' = disk => TablesType(disk)'
  BY <1>0, <1>1, GoesOnly, TablesFrame DEF OnlyJob, KnownIds, Appenders, RowSet, Kept, Heads
<1>2. r.op = "append" /\ ~Mesh /\ Left(r) = 4 => job[r].read \in Nat
  BY <1>0 DEF TypeInv, JobType, ReadType
<1>3. CASE NextSeq(r)
  <2>1. /\ Goes(r, Tail(job[r].todo), working.seq + 1) /\ At(r, "count")
        /\ working' = [working EXCEPT !.seq = @ + 1] /\ disk' = disk
    BY <1>3 DEF NextSeq, Writes
  <2>2. TablesType(working)'
    BY <1>1, <2>1 DEF TypeInv, TablesType, Fields, LoggedAs
  <2>3. r.op \notin {"reduce", "execute"} /\ working.seq + 1 \in Nat
    BY <1>0, <2>1 DEF At, Placed, TypeInv, TablesType
  <2> QED
    BY <1>1, <2>1, <2>2, <2>3, NextStatement
<1>4. CASE ReadVersion(r) \/ FindIdentity(r) \/ ReadHead(r)
  <2>1. /\ \/ Goes(r, Tail(job[r].todo), job[r].read) /\ working' = working /\ disk' = disk
           \/ Ends(r, "refused")
        /\ At(r, "version") \/ At(r, "identity") \/ At(r, "head")
    BY <1>4 DEF ReadVersion, FindIdentity, ReadHead, ReadsOn
  <2>2. r.op \notin {"reduce", "execute"} /\ (r.op = "append" => Left(r) > 5)
    BY <1>0, <2>1 DEF At, Placed
  <2> QED
    BY <1>1, <2>1, <2>2, NextStatement, EndsType
<1>5. CASE Replace(r)
  <2>1. /\ Goes(r, Tail(job[r].todo), job[r].read) /\ At(r, "replace")
        /\ working' = [working EXCEPT !.rows[r.object] =
                         [version |-> r.version, sources |-> r.sources]]
        /\ disk' = disk
    BY <1>5 DEF Replace, Writes
  <2>2. r.op = "put"
    BY <1>0, <2>1 DEF At, Placed
  <2>3. /\ r.object \in StoreObjects
        /\ [version |-> r.version, sources |-> r.sources] \in RowSet
    BY <1>0, <2>2, RequestsFit DEF RowSet
  <2>4. working'.rows \in [StoreObjects -> RowSet]
    BY <2>1, <2>3 DEF TypeInv, TablesType, Fields
  <2>5. TablesType(working)'
    BY <1>1, <2>1, <2>4 DEF TypeInv, TablesType, Fields, LoggedAs
  <2> QED
    BY <1>1, <2>1, <2>2, <2>5, NextStatement
<1>6. CASE InsertEvent(r) \/ InsertNumbered(r)
  <2> DEFINE n == IF At(r, "insert") THEN job[r].read ELSE r.seq
  <2>1. /\ At(r, "insert") \/ At(r, "number")
        /\ \/ Ends(r, "raised")
           \/ /\ Goes(r, Tail(job[r].todo), job[r].read) /\ disk' = disk
              /\ working' = [working EXCEPT !.log = @ \cup {LoggedAs(r, n)}]
    BY <1>6, <1>0 DEF InsertEvent, InsertNumbered, Writes, LoggedAs, At
  <2>2. r.op = "append" /\ Left(r) = 3 /\ (At(r, "insert") <=> ~Mesh)
    BY <1>0, <2>1 DEF At, Placed
  <2>3. n \in Nat
    BY <1>0, <2>2, RequestsFit DEF TypeInv, JobType, ReadType
  <2>4. CASE /\ Goes(r, Tail(job[r].todo), job[r].read) /\ disk' = disk
             /\ working' = [working EXCEPT !.log = @ \cup {LoggedAs(r, n)}]
    <3>2. IsFiniteSet(working.log \cup {LoggedAs(r, n)})
      BY FS_AddElement DEF TypeInv, TablesType
    <3>3. LoggedAs(r, n).by = r /\ LoggedAs(r, n).seq = n /\ r \in Appenders
      BY <1>0, <2>2 DEF LoggedAs, Appenders
    <3> HIDE DEF n
    <3>4. /\ DOMAIN working' = Fields /\ working'.log = working.log \cup {LoggedAs(r, n)}
          /\ working'.seq = working.seq /\ working'.rows = working.rows
          /\ working'.head = working.head /\ working'.objects = working.objects
          /\ working'.cache = working.cache
      BY <2>4 DEF TypeInv, TablesType, Fields
    <3>5. \A e \in working'.log : /\ e.by \in Appenders /\ e.seq \in Nat
                                 /\ e = LoggedAs(e.by, e.seq)
      BY <2>3, <3>3, <3>4 DEF TypeInv, TablesType
    <3>6. TablesType(working)'
      <4>1. KnownIds' = KnownIds /\ RowSet' = RowSet /\ Appenders' = Appenders /\ Kept' = Kept
        BY <1>1, <2>4
      <4>2. TablesType(working)
        BY DEF TypeInv
      <4> QED
        BY <3>2, <3>4, <3>5, <4>1, <4>2 DEF TablesType
    <3>7. r.op = "append" /\ ~Mesh /\ Left(r) \in {4, 5} => job[r].read \in Nat
      BY <2>2
    <3> QED
      BY <1>1, <2>2, <2>4, <3>6, <3>7, NextStatement
  <2> QED
    BY <2>1, <2>4, EndsType
<1>7. CASE MoveHead(r)
  <2>1. /\ Goes(r, Tail(job[r].todo), job[r].read) /\ At(r, "lead")
        /\ working' = [working EXCEPT !.head[r.actor] = r.id] /\ disk' = disk
    BY <1>7 DEF MoveHead, Writes
  <2>2. r.op = "append" /\ Left(r) = 2 /\ r.id \in KnownIds
    BY <1>0, <2>1 DEF At, Placed, KnownIds, Appenders
  <2>3. working'.head \in [StoreActors -> KnownIds]
    BY <2>1, <2>2 DEF TypeInv, TablesType, Fields
  <2>4. /\ DOMAIN working' = Fields /\ working'.log = working.log
        /\ working'.seq = working.seq /\ working'.rows = working.rows
        /\ working'.objects = working.objects /\ working'.cache = working.cache
    BY <2>1 DEF TypeInv, TablesType, Fields
  <2>5. TablesType(working)'
    <3>1. KnownIds' = KnownIds /\ RowSet' = RowSet /\ Appenders' = Appenders /\ Kept' = Kept
      BY <1>1, <2>1
    <3>2. TablesType(working)
      BY DEF TypeInv
    <3> QED
      BY <2>3, <2>4, <3>1, <3>2 DEF TablesType
  <2>6. r.op = "append" /\ ~Mesh /\ Left(r) \in {4, 5} => job[r].read \in Nat
    BY <2>2
  <2> QED
    BY <1>1, <2>1, <2>2, <2>5, <2>6, NextStatement
<1>8. CASE PutIdentity(r) \/ OwnerJoins(r) \/ OpenChannel(r)
  <2>1. /\ At(r, "name") \/ At(r, "own") \/ At(r, "open")
        /\ \/ Ends(r, "raised")
           \/ /\ Goes(r, Tail(job[r].todo), job[r].read) /\ disk' = disk
              /\ \E x : working' \in {[working EXCEPT !.actors = x],
                                      [working EXCEPT !.members = x],
                                      [working EXCEPT !.channels = x]}
    BY <1>8 DEF PutIdentity, OwnerJoins, OpenChannel, Writes
  <2>2. r.op \notin {"append", "reduce", "execute"}
    BY <1>0, <2>1 DEF At, Placed
  <2>3. CASE /\ Goes(r, Tail(job[r].todo), job[r].read) /\ disk' = disk
             /\ \E x : working' \in {[working EXCEPT !.actors = x],
                                     [working EXCEPT !.members = x],
                                     [working EXCEPT !.channels = x]}
    <3>2. TablesType(working)'
      BY <1>1, <2>3 DEF TypeInv, TablesType, Fields, LoggedAs
    <3> QED
      BY <1>1, <2>2, <2>3, <3>2, NextStatement
  <2> QED
    BY <2>1, <2>3, EndsType
<1>9. CASE CreateObject(r)
  <2>1. /\ At(r, "create")
        /\ \/ Ends(r, "raised")
           \/ /\ Goes(r, Tail(job[r].todo), job[r].read) /\ disk' = disk
              /\ working' = [working EXCEPT !.objects = @ \cup {r.object}]
    BY <1>9 DEF CreateObject, Writes
  <2>2. r.op = "create"
    BY <1>0, <2>1 DEF At, Placed
  <2>3. CASE /\ Goes(r, Tail(job[r].todo), job[r].read) /\ disk' = disk
             /\ working' = [working EXCEPT !.objects = @ \cup {r.object}]
    <3>1. r.object.kind = "follow" => r.object.to \in StoreActors
      BY <1>0, <2>2, RequestsFit
    <3>2. TablesType(working)'
      BY <1>1, <2>3, <3>1 DEF TypeInv, TablesType, Fields, LoggedAs
    <3> QED
      BY <1>1, <2>2, <2>3, <3>2, NextStatement
  <2> QED
    BY <2>1, <2>3, EndsType
<1>10. CASE CheckChain(r)
  <2>1. /\ \/ Goes(r, Tail(job[r].todo), r.seq) /\ working' = working /\ disk' = disk
           \/ Ends(r, "refused")
        /\ At(r, "chain")
    BY <1>10 DEF CheckChain, ReadsOn
  <2>2. Mesh /\ r.op = "append"
    BY <1>0, <2>1 DEF At, Placed
  <2> QED
    BY <1>1, <2>1, <2>2, NextStatement, EndsType
<1> QED
  BY <1>3, <1>4, <1>5, <1>6, <1>7, <1>8, <1>9, <1>10

LEMMA FunctionIsSeq ==
  ASSUME NEW S, NEW k \in Nat, NEW f \in [1 .. k -> S]
  PROVE  f \in Seq(S) /\ Len(f) = k
<1>1. f \in Seq(S)
  BY SeqDef
<1> QED
  BY <1>1, LenProperties

LEMMA CollectsFit ==
  ASSUME TypeInv, NEW r \in Asks, r.op \in {"reduce", "execute"}, NEW todo, Collects(r, todo)
  PROVE  TodoType(r, todo)
BY DEF Collects, CollectNames, TodoType, Fits, Mesh

LEMMA TailCollects ==
  ASSUME TypeInv, NEW r \in Running, r.op \in {"reduce", "execute"}
  PROVE  /\ Collects(r, Tail(job[r].todo))
         /\ \A n \in 1 .. Len(Tail(job[r].todo)) : Tail(job[r].todo)[n][1] # "tip"
BY TailFits DEF Collects, CollectNames, TodoType, Fits, Mesh

LEMMA ConcatCollects ==
  ASSUME NEW r, NEW s, NEW t, Collects(r, s), Collects(r, t),
         \A n \in 1 .. Len(t) : t[n][1] # "tip"
  PROVE  Collects(r, s \o t)
<1>1. s \in Seq(Statement) /\ t \in Seq(Statement) /\ Len(s) \in Nat /\ Len(t) \in Nat
  BY LenProperties DEF Collects
<1>2. /\ s \o t \in Seq(Statement) /\ Len(s \o t) = Len(s) + Len(t)
      /\ \A n \in 1 .. Len(s) + Len(t) : (s \o t)[n] = IF n <= Len(s) THEN s[n] ELSE t[n - Len(s)]
  BY <1>1, ConcatProperties
<1>3. ASSUME NEW n \in 1 .. Len(s) + Len(t)
      PROVE  n \in 1 .. Len(s) \/ n - Len(s) \in 1 .. Len(t)
  BY <1>1
<1> QED
  BY <1>1, <1>2, <1>3 DEF Collects

\* The statements a list of sources asks for
LEMMA VisitsCollect ==
  ASSUME NEW r, NEW sources, Len(sources) \in Nat, NEW f,
         f \in [1 .. Len(sources) -> Statement],
         \A n \in 1 .. Len(sources) : f[n][1] \in CollectNames(r) \ {"tip"}
  PROVE  Collects(r, f) /\ Len(f) = Len(sources)
BY FunctionIsSeq DEF Collects

LEMMA OneMore ==
  ASSUME TypeInv, NEW r \in Running, r.op \in {"reduce", "execute"},
         NEW s \in Statement, s[1] \in CollectNames(r)
  PROVE  Collects(r, <<s>> \o Tail(job[r].todo))
<1>1. <<s>> \in Seq(Statement) /\ Len(<<s>>) = 1 /\ <<s>>[1] = s
  OBVIOUS
<1>2. Collects(r, <<s>>)
  BY <1>1 DEF Collects
<1> QED
  BY <1>2, TailCollects, ConcatCollects

GoodRead(r, read) ==
  /\ r.op = "reduce" => read \in Feeds
  /\ r.op = "execute" =>
       IF Mesh THEN read \in PlanSet
       ELSE /\ read \in Seq(Frames) /\ read # << >>
            /\ StackType(r, read)

LEMMA ReadsAreGood ==
  ASSUME TypeInv, NEW r \in Asks, r.op \in {"reduce", "execute"}, Opened(r)
  PROVE  GoodRead(r, job[r].read)
BY DEF TypeInv, JobType, ReadType, GoodRead, Opened, Reading, Running

\* A reduction or an execution takes a step.
LEMMA CollectStep ==
  ASSUME TypeInv, NEW r \in Running, r.op \in {"reduce", "execute"},
         NEW todo, NEW read, Goes(r, todo, read), Collects(r, todo), GoodRead(r, read),
         TablesType(working)', TablesType(disk)'
  PROVE  TypeInv'
<1>1. r \in Asks
  BY RunningAsks
<1>2. /\ OnlyJob(r) /\ job'[r].todo = todo /\ job'[r].read = read
      /\ job'[r].answer = IF todo = << >> THEN "ok" ELSE "running"
  BY <1>1, GoesOnly
<1>3. TodoType(r, todo)
  BY <1>1, CollectsFit
<1>4. TodoType(r, job[r].todo)'
  BY <1>3, <1>2 DEF TodoType, Fits, AppendName, PutName, Mesh, OnlyJob
<1>5. Opened(r)'
  <2>1. todo = << >> \/ todo[1][1] \notin {"reduce", "execute", "plan"}
    BY EmptySeq DEF Collects, CollectNames
  <2> QED
    BY <1>1, <1>2, <2>1 DEF Opened, Reading, Running, OnlyJob
<1>6. ReadType(r)'
  <2>1. Mesh' = Mesh /\ Frames' = Frames /\ Feeds' = Feeds /\ PlanSet' = PlanSet
    BY <1>2 DEF OnlyJob, Mesh, Frames, Feeds, PlanSet, Heads, KnownIds, Appenders
  <2>2. \A x : StackType(r, x)' <=> StackType(r, x)
    BY <2>1 DEF StackType, Resumes, Collects, CollectNames
  <2> QED
    BY <1>2, <1>5, <2>1, <2>2 DEF ReadType, GoodRead
<1>7. JobType(r)'
  BY <1>1, <1>2, <1>4, <1>6 DEF JobType, OnlyJob, TypeInv
<1> QED
  BY <1>1, <1>2, <1>7, TypeFrame

LEMMA ArgumentFits ==
  ASSUME TypeInv, NEW r \in Running
  PROVE  LET s == job[r].todo[1]
         IN  /\ s[1] \in OverActorsNames => Argument(r) = s[2] /\ s[2] \in StoreActors
             /\ s[1] \in OverObjectsNames => Argument(r) = s[2] /\ s[2] \in StoreObjects
<1> DEFINE s == job[r].todo[1]
<1>1. s \in Statement /\ Argument(r) = s[2]
  BY RunningAsks DEF Argument
<1> HIDE DEF s
<1>2. /\ s[1] \in OverActorsNames => s[2] \in StoreActors
      /\ s[1] \in OverObjectsNames => s[2] \in StoreObjects
  BY <1>1 DEF Statement, OverActorsNames, OverObjectsNames, PlainNames
<1> QED
  BY <1>1, <1>2 DEF s

LEMMA RowsFit ==
  ASSUME TypeInv, NEW o \in StoreObjects
  PROVE  /\ working.rows[o] \in RowSet
         /\ working.rows[o].version \in Nat
         /\ working.rows[o].sources \in Seq(SourcesIn(storeRun.store))
         /\ DOMAIN working.rows[o].sources = 1 .. Len(working.rows[o].sources)
         /\ Len(working.rows[o].sources) \in Nat
         /\ \A n \in 1 .. Len(working.rows[o].sources) :
              working.rows[o].sources[n] \in SourcesIn(storeRun.store)
<1>1. working.rows[o] \in RowSet
  BY DEF TypeInv, TablesType
<1>2. working.rows[o].sources \in Seq(SourcesIn(storeRun.store)) /\ working.rows[o].version \in Nat
  BY <1>1 DEF RowSet
<1> QED
  BY <1>1, <1>2, LenProperties, ElementOfSeq

LEMMA EventsFit ==
  ASSUME TypeInv, NEW a \in StoreActors
  PROVE  /\ {e.id : e \in EventsBy({a})} \subseteq KnownIds
         /\ working.head[a] \in KnownIds
         /\ <<a, working.head[a]>> \in StoreActors \X KnownIds
BY DEF TypeInv, TablesType, EventsBy, KnownIds, LoggedAs, Appenders

LEMMA FeedType ==
  ASSUME TypeInv, NEW r \in Running, storeRun.store = "relay",
         Reduce(r) \/ Define(r) \/ FetchLog(r) \/ FetchHead(r)
  PROVE  TypeInv' /\ r.op = "reduce" /\ working' = working /\ disk' = disk
<1>0. r \in Asks /\ job[r].todo[1] = Head(job[r].todo) /\ Placed(r, job[r].todo[1][1], Left(r))
  BY RunningAsks, StandsAt
<1>1. r.op # "execute" /\ ~Mesh
  BY <1>0, StoreOf DEF Mesh
<1>2. ASSUME NEW todo, NEW read, Goes(r, todo, read), working' = working, disk' = disk,
             r.op = "reduce", Collects(r, todo), read \in Feeds
      PROVE  TypeInv'
  BY <1>0, <1>2, GoesOnly, TablesFrame, CollectStep DEF GoodRead
<1>3. CASE Reduce(r)
  <2> DEFINE o == Argument(r)
             row == working.rows[o]
             f == [n \in DOMAIN row.sources |->
                     IF row.sources[n] \in StoreActors THEN <<"fetch", row.sources[n]>>
                                                       ELSE <<"define", row.sources[n]>>]
             read == [version |-> row.version, sources |-> row.sources, heads |-> {}, ids |-> {}]
  <2>1. /\ At(r, "reduce")
        /\ \/ Ends(r, "refused")
           \/ Goes(r, f, read) /\ working' = working /\ disk' = disk
    BY <1>3 DEF Reduce
  <2>2. r.op = "reduce" /\ o \in StoreObjects
    BY <1>0, <2>1, ArgumentFits DEF At, Placed, OverObjectsNames
  <2>3. f \in [1 .. Len(row.sources) -> Statement]
        /\ \A n \in 1 .. Len(row.sources) : f[n][1] \in CollectNames(r) \ {"tip"}
    BY <2>2, RowsFit DEF SourcesIn, Statement, OverActorsNames, OverObjectsNames, CollectNames
  <2>4. Collects(r, f)
    BY <2>2, <2>3, RowsFit, VisitsCollect
  <2>5. read \in Feeds
    BY <2>2, RowsFit DEF Feeds, Heads
  <2> HIDE DEF f, read
  <2>6. Ends(r, "refused") => working' = working /\ disk' = disk
    BY DEF Ends
  <2> QED
    BY <1>2, <2>1, <2>2, <2>4, <2>5, <2>6, EndsType
<1>4. CASE Define(r)
  <2> DEFINE o == Argument(r)
             sources == working.rows[o].sources
             f == [n \in DOMAIN sources |->
                     IF sources[n] \in StoreActors THEN <<"gather", sources[n]>>
                                                   ELSE <<"define", sources[n]>>]
  <2>1. /\ At(r, "define") /\ working' = working /\ disk' = disk
        /\ Goes(r, f \o Tail(job[r].todo), job[r].read)
    BY <1>4 DEF Define
  <2>2. r.op = "reduce" /\ o \in StoreObjects
    BY <1>0, <2>1, ArgumentFits DEF At, Placed, OverObjectsNames
  <2>3. f \in [1 .. Len(sources) -> Statement]
        /\ \A n \in 1 .. Len(sources) : f[n][1] \in CollectNames(r) \ {"tip"}
    BY <2>2, RowsFit DEF SourcesIn, Statement, OverActorsNames, OverObjectsNames, CollectNames
  <2>4. Collects(r, f)
    BY <2>2, <2>3, RowsFit, VisitsCollect
  <2> HIDE DEF f
  <2>5. Collects(r, f \o Tail(job[r].todo))
    BY <2>2, <2>4, TailCollects, ConcatCollects
  <2>6. job[r].read \in Feeds
    BY <1>0, <2>1, <2>2, ReadsAreGood DEF Opened, Reading, At, GoodRead
  <2> QED
    BY <1>2, <2>1, <2>2, <2>5, <2>6
<1>5. CASE FetchLog(r)
  <2> DEFINE tip == IF At(r, "fetch") THEN "tip" ELSE "peek"
             got == {e.id : e \in EventsBy({Argument(r)})}
  <2>1. /\ At(r, "fetch") \/ At(r, "gather")
        /\ working' = working /\ disk' = disk
        /\ Goes(r, <<<<tip, Argument(r)>>>> \o Tail(job[r].todo),
                [job[r].read EXCEPT !.ids = @ \cup got])
    BY <1>5 DEF FetchLog
  <2>2. Argument(r) \in StoreActors
    BY <1>0, <2>1, ArgumentFits DEF At, OverActorsNames
  <2>3. r.op = "reduce" /\ job[r].todo[1][1] \in {"fetch", "gather"}
    BY <1>0, <1>1, <2>1 DEF At, Placed
  <2>4. <<tip, Argument(r)>> \in Statement /\ tip \in CollectNames(r)
    BY <2>2, <2>3 DEF Statement, OverActorsNames, CollectNames
  <2>5. Collects(r, <<<<tip, Argument(r)>>>> \o Tail(job[r].todo))
    BY <2>3, <2>4, OneMore
  <2>6. job[r].read \in Feeds
    BY <1>0, <2>3, ReadsAreGood DEF Opened, Reading, GoodRead
  <2>7. [job[r].read EXCEPT !.ids = @ \cup got] \in Feeds
    BY <2>2, <2>6, EventsFit DEF Feeds
  <2> HIDE DEF tip, got
  <2> QED
    BY <1>2, <2>1, <2>3, <2>5, <2>7
<1>6. CASE FetchHead(r)
  <2>1. /\ At(r, "tip") \/ At(r, "peek")
        /\ working' = working /\ disk' = disk
    BY <1>6 DEF FetchHead, ReadsOn
  <2>2. r.op = "reduce" /\ job[r].todo[1][1] \in {"tip", "peek"}
    BY <1>0, <1>1, <2>1 DEF At, Placed
  <2>3. job[r].read \in Feeds
    BY <1>0, <2>2, ReadsAreGood DEF Opened, Reading, GoodRead
  <2>4. Collects(r, Tail(job[r].todo))
    BY <2>2, TailCollects
  <2>5. CASE At(r, "peek") /\ Goes(r, Tail(job[r].todo), job[r].read)
    BY <1>2, <2>1, <2>2, <2>3, <2>4, <2>5
  <2>6. CASE At(r, "tip") /\ ReadsOn(r, [job[r].read EXCEPT !.heads = @ \cup
                                  {<<Argument(r), working.head[Argument(r)]>>}])
    <3> DEFINE read == [job[r].read EXCEPT !.heads = @ \cup
                                  {<<Argument(r), working.head[Argument(r)]>>}]
    <3>1. Argument(r) \in StoreActors
      BY <1>0, <2>6, ArgumentFits DEF At, OverActorsNames
    <3>2. read \in Feeds
      BY <2>3, <3>1, EventsFit DEF Feeds, Heads
    <3>3. Goes(r, Tail(job[r].todo), read)
      BY <2>6 DEF ReadsOn
    <3> HIDE DEF read
    <3> QED
      BY <1>2, <2>1, <2>2, <2>4, <3>2, <3>3
  <2> QED
    BY <1>6, <2>5, <2>6 DEF FetchHead, ReadsOn
<1>7. r.op = "reduce"
  BY <1>0, <1>1, <1>3, <1>4, <1>5, <1>6 DEF Reduce, Define, FetchLog, FetchHead, At, Placed
<1>8. working' = working /\ disk' = disk
  BY <1>3, <1>4, <1>5, <1>6 DEF Reduce, Define, FetchLog, FetchHead, ReadsOn, Ends
<1> QED
  BY <1>3, <1>4, <1>5, <1>6, <1>7, <1>8

LEMMA FetchAllType ==
  ASSUME NEW as, as \subseteq StoreActors
  PROVE  /\ Cardinality(as) \in Nat
         /\ FetchAll(as) \in [1 .. Cardinality(as) -> {"fetch"} \X StoreActors]
<1>1. IsFiniteSet(as) /\ Cardinality(as) \in Nat
  BY StoresAssumption, FS_Subset, FS_CardinalityType
<1> DEFINE Orders(s) == s \in [1 .. Cardinality(as) -> as] /\ \A a \in as : \E n \in DOMAIN s : s[n] = a
<1>2. \E s \in [1 .. Cardinality(as) -> as] : \A a \in as : \E n \in DOMAIN s : s[n] = a
  <2>0. PICK k \in Nat : ExistsBijection(1 .. k, as)
    BY <1>1, FS_NatBijection
  <2>a. k = Cardinality(as)
    BY <2>0, FS_CountingElements
  <2>1. PICK f : f \in Bijection(1 .. Cardinality(as), as)
    BY <2>0, <2>a DEF ExistsBijection
  <2>2. f \in [1 .. Cardinality(as) -> as] /\ \A a \in as : \E n \in DOMAIN f : f[n] = a
    BY <2>1 DEF Bijection, Injection, Surjection
  <2> QED
    BY <2>2
<1> DEFINE order == CHOOSE s \in [1 .. Cardinality(as) -> as] :
                      \A a \in as : \E n \in DOMAIN s : s[n] = a
<1>3. order \in [1 .. Cardinality(as) -> as]
  BY <1>2
<1>4. FetchAll(as) = [n \in 1 .. Cardinality(as) |-> <<"fetch", order[n]>>]
  BY DEF FetchAll
<1> HIDE DEF order
<1>5. \A n \in 1 .. Cardinality(as) : order[n] \in StoreActors
  BY <1>3
<1>6. \A n \in 1 .. Cardinality(as) : <<"fetch", order[n]>> \in {"fetch"} \X StoreActors
  BY <1>5
<1>7. [n \in 1 .. Cardinality(as) |-> <<"fetch", order[n]>>]
         \in [1 .. Cardinality(as) -> {"fetch"} \X StoreActors]
  BY <1>6
<1> QED
  BY <1>1, <1>4, <1>7

LEMMA PlanType ==
  ASSUME TypeInv, NEW r \in Running, Mesh,
         Plan(r) \/ FetchFollows(r) \/ FetchActor(r) \/ FetchActorHead(r) \/ FetchBatch(r)
  PROVE  TypeInv' /\ r.op = "execute" /\ working' = working /\ disk' = disk
<1>0. r \in Asks /\ job[r].todo[1] = Head(job[r].todo) /\ Placed(r, job[r].todo[1][1], Left(r))
  BY RunningAsks, StandsAt
<1>1. r.op # "reduce" /\ storeRun.store = "mesh"
  BY <1>0, StoreOf DEF Mesh
<1>2. ASSUME NEW todo, NEW read, Goes(r, todo, read), working' = working, disk' = disk,
             r.op = "execute", Collects(r, todo), read \in PlanSet
      PROVE  TypeInv'
  BY <1>0, <1>2, GoesOnly, TablesFrame, CollectStep DEF GoodRead
<1>3. CASE Plan(r)
  <2> DEFINE row == working.rows[r.object]
             f == [n \in DOMAIN row.sources |->
                     IF row.sources[n] \in StoreActors THEN <<"fetch", row.sources[n]>>
                                                       ELSE <<"follows", row.sources[n][2]>>]
             read == [heads |-> {}, ids |-> {}, of |-> {}]
             last == Statements(<<"batch">>)
  <2>1. /\ At(r, "plan")
        /\ \/ Ends(r, "refused")
           \/ Goes(r, f \o last, read) /\ working' = working /\ disk' = disk
    BY <1>3 DEF Plan
  <2>2. r.op = "execute" /\ r.object \in StoreObjects
    BY <1>0, <2>1, RequestsFit DEF At, Placed
  <2>3. f \in [1 .. Len(row.sources) -> Statement]
        /\ \A n \in 1 .. Len(row.sources) : f[n][1] \in CollectNames(r) \ {"tip"}
    BY <1>1, <2>2, RowsFit DEF SourcesIn, Statement, OverActorsNames, CollectNames
  <2>4. Collects(r, f)
    BY <2>2, <2>3, RowsFit, VisitsCollect
  <2>5. last = << <<"batch", "none">> >>
    BY DEF Statements
  <2>a. <<"batch", "none">> \in Statement
    BY DEF Statement, PlainNames
  <2> HIDE DEF last
  <2>6. last \in Seq(Statement) /\ Len(last) = 1 /\ last[1][1] = "batch"
    BY <2>5, <2>a
  <2>7. Collects(r, last) /\ \A n \in 1 .. Len(last) : last[n][1] # "tip"
    BY <1>1, <2>2, <2>6 DEF Collects, CollectNames
  <2> HIDE DEF f, last
  <2>8. Collects(r, f \o last)
    BY <2>4, <2>7, ConcatCollects
  <2>9. read \in PlanSet
    BY DEF PlanSet, Heads
  <2> HIDE DEF read
  <2>10. Ends(r, "refused") => working' = working /\ disk' = disk
    BY DEF Ends
  <2> QED
    BY <1>2, <2>1, <2>2, <2>8, <2>9, <2>10, EndsType
<1>4. CASE FetchFollows(r)
  <2> DEFINE all == FetchAll(FollowedBy(Argument(r)))
  <2>1. /\ At(r, "follows") /\ working' = working /\ disk' = disk
        /\ Goes(r, all \o Tail(job[r].todo), job[r].read)
    BY <1>4 DEF FetchFollows
  <2>2. r.op = "execute" /\ job[r].read \in PlanSet
    BY <1>0, <2>1, ReadsAreGood DEF At, Placed, Opened, Reading, GoodRead
  <2>3. FollowedBy(Argument(r)) \subseteq StoreActors
    BY DEF FollowedBy, TypeInv, TablesType
  <2>4. /\ Cardinality(FollowedBy(Argument(r))) \in Nat
        /\ all \in [1 .. Cardinality(FollowedBy(Argument(r))) -> {"fetch"} \X StoreActors]
    BY <2>3, FetchAllType
  <2> HIDE DEF all
  <2>5. all \in Seq({"fetch"} \X StoreActors) /\ Len(all) = Cardinality(FollowedBy(Argument(r)))
    BY <2>4, FunctionIsSeq
  <2>6. Collects(r, all)
    <3>1. all \in Seq(Statement)
      BY <2>5, SeqMonotonic DEF Statement, OverActorsNames
    <3>2. \A n \in 1 .. Len(all) : all[n][1] = "fetch"
      BY <2>4, <2>5
    <3> QED
      BY <1>1, <3>1, <3>2 DEF Collects, CollectNames
  <2>7. Collects(r, all \o Tail(job[r].todo))
    BY <2>2, <2>6, TailCollects, ConcatCollects
  <2> QED
    BY <1>2, <2>1, <2>2, <2>7
<1>5. CASE FetchActor(r)
  <2> DEFINE got == {e.id : e \in EventsBy({Argument(r)})}
             read == [job[r].read EXCEPT !.ids = @ \cup got, !.of = @ \cup {Argument(r)}]
  <2>1. /\ At(r, "fetch") /\ working' = working /\ disk' = disk
        /\ Goes(r, <<<<"tip", Argument(r)>>>> \o Tail(job[r].todo), read)
    BY <1>5 DEF FetchActor
  <2>2. r.op = "execute" /\ job[r].read \in PlanSet /\ Argument(r) \in StoreActors
    BY <1>0, <1>1, <2>1, ReadsAreGood, ArgumentFits
       DEF At, Placed, Opened, Reading, GoodRead, OverActorsNames
  <2>3. <<"tip", Argument(r)>> \in Statement /\ "tip" \in CollectNames(r)
    BY <1>1, <2>2 DEF Statement, OverActorsNames, CollectNames
  <2>4. Collects(r, <<<<"tip", Argument(r)>>>> \o Tail(job[r].todo))
    BY <2>2, <2>3, OneMore
  <2>5. read \in PlanSet
    BY <2>2, EventsFit DEF PlanSet
  <2> HIDE DEF read
  <2> QED
    BY <1>2, <2>1, <2>2, <2>4, <2>5
<1>6. CASE FetchActorHead(r)
  <2> DEFINE read == [job[r].read EXCEPT !.heads = @ \cup {<<Argument(r), working.head[Argument(r)]>>}]
  <2>1. /\ At(r, "tip") /\ working' = working /\ disk' = disk
        /\ Goes(r, Tail(job[r].todo), read)
    BY <1>6 DEF FetchActorHead, ReadsOn
  <2>2. r.op = "execute" /\ job[r].read \in PlanSet /\ Argument(r) \in StoreActors
    BY <1>0, <1>1, <2>1, ReadsAreGood, ArgumentFits
       DEF At, Placed, Opened, Reading, GoodRead, OverActorsNames
  <2>3. read \in PlanSet
    BY <2>2, EventsFit DEF PlanSet, Heads
  <2> HIDE DEF read
  <2> QED
    BY <1>2, <2>1, <2>2, <2>3, TailCollects
<1>7. CASE FetchBatch(r)
  <2> DEFINE kept == {d \in working.log : d.id \in job[r].read.ids /\ d.actor \notin r.without}
             read == [job[r].read EXCEPT !.ids = {e.id : e \in kept}]
  <2>1. /\ At(r, "batch") /\ working' = working /\ disk' = disk
        /\ Goes(r, Tail(job[r].todo), read)
    BY <1>7 DEF FetchBatch, ReadsOn
  <2>2. r.op = "execute" /\ job[r].read \in PlanSet
    BY <1>0, <1>1, <2>1, ReadsAreGood DEF At, Placed, Opened, Reading, GoodRead
  <2>3. {e.id : e \in kept} \subseteq KnownIds
    BY <2>2 DEF PlanSet
  <2>4. read \in PlanSet
    BY <2>2, <2>3 DEF PlanSet
  <2> HIDE DEF read
  <2> QED
    BY <1>2, <2>1, <2>2, <2>4, TailCollects
<1>8. r.op = "execute"
  BY <1>0, <1>1, <1>3, <1>4, <1>5, <1>6, <1>7
     DEF Plan, FetchFollows, FetchActor, FetchActorHead, FetchBatch, At, Placed
<1>9. working' = working /\ disk' = disk
  BY <1>3, <1>4, <1>5, <1>6, <1>7
     DEF Plan, FetchFollows, FetchActor, FetchActorHead, FetchBatch, ReadsOn, Ends
<1> QED
  BY <1>3, <1>4, <1>5, <1>6, <1>7, <1>8, <1>9

\* The innermost view of a stack is replaced, or one more is begun.
LEMMA OnTop ==
  ASSUME NEW S, NEW read \in Seq(S), NEW f \in S
  PROVE  LET more == <<f>> \o read
         IN  /\ more \in Seq(S) /\ more # << >> /\ Len(more) = Len(read) + 1 /\ more[1] = f
             /\ Head(more) = f /\ Tail(more) = read
             /\ \A n \in 2 .. Len(more) : more[n] = read[n - 1]
<1>1. /\ <<f>> \in Seq(S) /\ Len(<<f>>) = 1 /\ <<f>>[1] = f /\ <<f>> # << >>
      /\ Head(<<f>>) = f /\ Tail(<<f>>) = << >> /\ Len(read) \in Nat
  BY LenProperties
<1> DEFINE more == <<f>> \o read
<1>2. /\ more \in Seq(S) /\ Len(more) = Len(read) + 1
      /\ \A n \in 1 .. Len(read) + 1 : more[n] = IF n <= 1 THEN f ELSE read[n - 1]
  BY <1>1, ConcatProperties
<1>3. more # << >> /\ more[1] = f /\ \A n \in 2 .. Len(more) : more[n] = read[n - 1]
  BY <1>1, <1>2, EmptySeq
<1>4. Head(more) = f
  BY <1>2, <1>3, HeadTailProperties
<1>5. Tail(more) = read
  <2>1. Tail(more) \in Seq(S) /\ Len(Tail(more)) = Len(read)
        /\ \A n \in 1 .. Len(read) : Tail(more)[n] = more[n + 1]
    BY <1>1, <1>2, <1>3, HeadTailProperties
  <2>2. \A n \in 1 .. Len(read) : Tail(more)[n] = read[n]
    BY <1>1, <1>2, <2>1
  <2> HIDE DEF more
  <2> QED
    BY <2>1, <2>2, SeqEqual
<1> QED
  BY <1>2, <1>3, <1>4, <1>5

LEMMA TopOff ==
  ASSUME NEW S, NEW read \in Seq(S), read # << >>
  PROVE  /\ Tail(read) \in Seq(S) /\ Len(Tail(read)) = Len(read) - 1
         /\ Head(read) = read[1] /\ Head(read) \in S /\ Len(read) \in Nat \ {0}
         /\ \A n \in 1 .. Len(Tail(read)) : Tail(read)[n] = read[n + 1]
         /\ Tail(read) # << >> => /\ Head(Tail(read)) = read[2] /\ Len(read) > 1
                                  /\ Tail(read)[Len(Tail(read))] = read[Len(read)]
<1>1. /\ Tail(read) \in Seq(S) /\ Len(Tail(read)) = Len(read) - 1
      /\ Head(read) = read[1] /\ Head(read) \in S /\ Len(read) \in Nat \ {0}
      /\ \A n \in 1 .. Len(Tail(read)) : Tail(read)[n] = read[n + 1]
  BY HeadTailProperties, LenProperties, EmptySeq
<1>2. Tail(read) # << >> => Len(Tail(read)) \in Nat \ {0} /\ Head(Tail(read)) = Tail(read)[1]
  BY <1>1, HeadTailProperties, LenProperties, EmptySeq
<1>3. Tail(read) # << >> => Tail(read)[Len(Tail(read))] = read[Len(read)]
  <2> DEFINE k == Len(Tail(read))
  <2>1. Tail(read) # << >> => k \in 1 .. Len(Tail(read)) /\ k + 1 = Len(read)
    BY <1>1, <1>2
  <2> QED
    BY <1>1, <2>1
<1> QED
  BY <1>1, <1>2, <1>3

LEMMA NewTop ==
  ASSUME NEW r, NEW read \in Seq(Frames), read # << >>, StackType(r, read),
         NEW f \in Frames, f.rest = read[1].rest
  PROVE  LET more == <<f>> \o Tail(read)
         IN  more \in Seq(Frames) /\ more # << >> /\ StackType(r, more) /\ Len(more) = Len(read)
<1> DEFINE more == <<f>> \o Tail(read)
<1>1. /\ more \in Seq(Frames) /\ more # << >> /\ Len(more) = Len(read) /\ more[1] = f
      /\ Len(read) \in Nat \ {0}
      /\ \A n \in 2 .. Len(more) : more[n] = Tail(read)[n - 1] /\ Tail(read)[n - 1] = read[n]
  BY TopOff, OnTop
<1>2. \A n \in 1 .. Len(read) : more[n].rest = read[n].rest
  BY <1>1
<1> HIDE DEF more
<1>3. StackType(r, more)
  BY <1>1, <1>2 DEF StackType
<1> QED
  BY <1>1, <1>3 DEF more

LEMMA ViewType ==
  ASSUME TypeInv, NEW r \in Running, storeRun.store = "view",
         \/ OpenView(r) \/ FetchEvents(r) \/ FetchTip(r)
         \/ Lookup(r) \/ StoreResult(r) \/ ReturnView(r)
  PROVE  TypeInv' /\ r.op = "execute"
<1>0. r \in Asks /\ job[r].todo[1] = Head(job[r].todo) /\ Placed(r, job[r].todo[1][1], Left(r))
      /\ Fits(r, 1, Left(r), job[r].todo[1][1])
  BY RunningAsks, StandsAt
<1>1. r.op # "reduce" /\ ~Mesh
  BY <1>0, StoreOf DEF Mesh
<1>a. r.op = "execute"
  BY <1>0, <1>1 DEF OpenView, FetchEvents, FetchTip, Lookup, StoreResult, ReturnView, At, Placed
<1> SUFFICES TypeInv'
  BY <1>a
<1>b. ~At(r, "execute") => /\ job[r].read \in Seq(Frames) /\ job[r].read # << >>
                           /\ StackType(r, job[r].read) /\ Opened(r)
  <2>1. ~At(r, "execute") => Opened(r)
    BY <1>0, <1>1, <1>a DEF Opened, Reading, At, Fits, Mesh
  <2> QED
    BY <1>0, <1>1, <1>a, <2>1, ReadsAreGood DEF GoodRead
<1>c. ~At(r, "execute") =>
        /\ Inner(r) \in Frames /\ Inner(r) = job[r].read[1] /\ Outer(r) = Tail(job[r].read)
        /\ Resumes(r, Inner(r).rest)
  BY <1>b, TopOff DEF Inner, Outer, StackType
<1>2. ASSUME NEW todo, NEW read, Goes(r, todo, read), working' = working \/ TablesType(working)',
             disk' \in {disk, working},
             Collects(r, todo), read \in Seq(Frames), read # << >>, StackType(r, read)
      PROVE  TypeInv'
  BY <1>0, <1>1, <1>a, <1>2, GoesOnly, TablesFrame, CollectStep DEF GoodRead
<1>d. Resumes(r, Tail(job[r].todo))
  BY <1>a, TailCollects DEF Resumes
<1>3. CASE OpenView(r) /\ ExecuteView(r)
  <2> DEFINE o == Argument(r)
             row == working.rows[o]
             f == [n \in DOMAIN row.sources |->
                     IF row.sources[n] \in StoreActors THEN <<"fetch", row.sources[n]>>
                                                       ELSE <<"view", row.sources[n]>>]
             last == Statements(<<"lookup", "store", "commit", "return">>)
             frame == [view |-> o, version |-> row.version, sources |-> row.sources,
                       heads |-> {}, ids |-> {}, rest |-> Tail(job[r].todo)]
  <2>1. /\ At(r, "execute") \/ At(r, "view")
        /\ Goes(r, f \o last, <<frame>> \o job[r].read) /\ working' = working /\ disk' = disk
    BY <1>3 DEF OpenView, ExecuteView
  <2>2. o \in StoreObjects
    BY <1>0, <2>1, ArgumentFits DEF At, OverObjectsNames
  <2>3. f \in [1 .. Len(row.sources) -> Statement]
        /\ \A n \in 1 .. Len(row.sources) : f[n][1] \in CollectNames(r) \ {"tip"}
    BY <1>1, <1>a, <2>2, RowsFit
       DEF SourcesIn, Statement, OverActorsNames, OverObjectsNames, CollectNames, Mesh
  <2>4. Collects(r, f)
    BY <2>2, <2>3, RowsFit, VisitsCollect
  <2>5. last = << <<"lookup", "none">>, <<"store", "none">>, <<"commit", "none">>,
                  <<"return", "none">> >>
    BY DEF Statements
  <2>6. /\ <<"lookup", "none">> \in Statement /\ <<"store", "none">> \in Statement
        /\ <<"commit", "none">> \in Statement /\ <<"return", "none">> \in Statement
    BY DEF Statement, PlainNames
  <2>7. frame \in Frames
    BY <2>2, <1>d, RowsFit, storeRun.store = "view" DEF Frames, Heads, Resumes, Collects
  <2>8. frame.rest = Tail(job[r].todo)
    OBVIOUS
  <2> HIDE DEF f, last, frame
  <2>9. last \in Seq(Statement) /\ Len(last) = 4
        /\ \A n \in 1 .. 4 : last[n][1] \in {"lookup", "store", "commit", "return"}
    BY <2>5, <2>6
  <2>10. Resumes(r, last)
    BY <1>1, <1>a, <2>9 DEF Resumes, Collects, CollectNames
  <2>11. Collects(r, f \o last)
    BY <2>4, <2>10, ConcatCollects DEF Resumes
  <2>12. job[r].read \in Seq(Frames) /\ (job[r].read # << >> => StackType(r, job[r].read))
    BY <1>0, <1>1, <1>a DEF TypeInv, JobType, ReadType
  <2>13. At(r, "execute") => job[r].read = << >> /\ Tail(job[r].todo) = << >>
    <3>1. ASSUME At(r, "execute")
          PROVE  ~Opened(r) /\ job[r].answer = "running" /\ Left(r) = 1
      BY <1>0, <3>1, RunningAsks DEF At, Opened, Reading, Placed
    <3>2. At(r, "execute") => job[r].read = << >>
      <4>1. JobType(r)
        BY <1>0 DEF TypeInv
      <4> QED
        BY <1>1, <1>a, <3>1, <4>1 DEF JobType, ReadType
    <3>3. At(r, "execute") => Tail(job[r].todo) = << >>
      BY <3>1, TailFits, <1>d, EmptySeq DEF Resumes, Collects
    <3> QED
      BY <3>2, <3>3
  <2>14. At(r, "view") => job[r].read # << >>
    BY <1>b, <1>0 DEF At
  <2> DEFINE more == <<frame>> \o job[r].read
  <2>15. /\ more \in Seq(Frames) /\ more # << >> /\ Len(more) = Len(job[r].read) + 1
         /\ more[1] = frame /\ \A n \in 2 .. Len(more) : more[n] = job[r].read[n - 1]
         /\ Len(job[r].read) \in Nat
    BY <2>7, <2>12, OnTop, LenProperties
  <2> HIDE DEF more
  <2>16. \A n \in 1 .. Len(more) : Resumes(r, more[n].rest)
    <3>1. ASSUME NEW n \in 2 .. Len(more)
          PROVE  Resumes(r, more[n].rest)
      <4>1. n - 1 \in 1 .. Len(job[r].read) /\ job[r].read # << >>
        BY <2>15, EmptySeq
      <4> QED
        BY <4>1, <2>12, <2>15 DEF StackType
    <3> QED
      BY <3>1, <2>8, <1>d, <2>15
  <2>17. more[Len(more)].rest = << >>
    <3>1. CASE At(r, "execute")
      <4>1. Len(more) = 1
        BY <3>1, <2>13, <2>15, EmptySeq
      <4> QED
        BY <3>1, <4>1, <2>8, <2>13, <2>15
    <3>2. CASE At(r, "view")
      <4>1. Len(job[r].read) \in Nat \ {0}
        BY <2>12, <2>14, <3>2, EmptySeq, <2>15
      <4> QED
        BY <4>1, <2>12, <2>14, <2>15, <3>2 DEF StackType
    <3> QED
      BY <2>1, <3>1, <3>2
  <2>18. StackType(r, more)
    BY <2>16, <2>17 DEF StackType
  <2> QED
    BY <1>2, <2>1, <2>11, <2>15, <2>18 DEF more
<1>4. CASE OpenView(r) /\ ~ExecuteView(r)
  <2>1. \/ At(r, "execute") /\ Ends(r, "refused")
        \/ ~At(r, "execute") /\ ReadsOn(r, job[r].read)
    BY <1>4 DEF OpenView
  <2> QED
    BY <2>1, <1>2, <1>b, <1>d, EndsType DEF ReadsOn, Resumes
<1>5. CASE FetchEvents(r)
  <2> DEFINE got == {e.id : e \in EventsBy({Argument(r)})}
             top == [Inner(r) EXCEPT !.ids = @ \cup got]
  <2>1. /\ At(r, "fetch") /\ working' = working /\ disk' = disk
        /\ Goes(r, <<<<"tip", Argument(r)>>>> \o Tail(job[r].todo), <<top>> \o Outer(r))
    BY <1>5 DEF FetchEvents
  <2>2. Argument(r) \in StoreActors /\ ~At(r, "execute")
    BY <1>0, <2>1, ArgumentFits DEF At, OverActorsNames
  <2>3. <<"tip", Argument(r)>> \in Statement /\ "tip" \in CollectNames(r)
    BY <1>1, <1>a, <2>2 DEF Statement, OverActorsNames, CollectNames
  <2>4. Collects(r, <<<<"tip", Argument(r)>>>> \o Tail(job[r].todo))
    BY <1>a, <2>3, OneMore
  <2>5. top \in Frames /\ top.rest = Inner(r).rest
    BY <1>c, <2>2, EventsFit DEF Frames
  <2> HIDE DEF top
  <2> QED
    BY <1>2, <1>b, <1>c, <2>1, <2>2, <2>4, <2>5, NewTop
<1>6. CASE FetchTip(r)
  <2> DEFINE top == [Inner(r) EXCEPT !.heads = @ \cup {<<Argument(r), working.head[Argument(r)]>>}]
  <2>1. /\ At(r, "tip") /\ working' = working /\ disk' = disk
        /\ Goes(r, Tail(job[r].todo), <<top>> \o Outer(r))
    BY <1>6 DEF FetchTip, ReadsOn
  <2>2. Argument(r) \in StoreActors /\ ~At(r, "execute")
    BY <1>0, <2>1, ArgumentFits DEF At, OverActorsNames
  <2>5. top \in Frames /\ top.rest = Inner(r).rest
    BY <1>c, <2>2, EventsFit DEF Frames, Heads
  <2> HIDE DEF top
  <2> QED
    BY <1>2, <1>b, <1>c, <1>d, <2>1, <2>2, <2>5, NewTop DEF Resumes
<1>7. CASE Lookup(r)
  <2>1. ~At(r, "execute")
    BY <1>7 DEF Lookup, At
  <2>2. CASE ReadsOn(r, job[r].read)
    BY <1>2, <1>b, <1>d, <2>1, <2>2 DEF ReadsOn, Resumes
  <2>3. CASE ~ReadsOn(r, job[r].read)
    <3>1. PICK c \in working.cache :
            /\ Boundary(c) = Boundary(Inner(r))
            /\ Goes(r, Statements(<<"return">>), <<[Inner(r) EXCEPT !.ids = c.ids]>> \o Outer(r))
            /\ UNCHANGED <<working, disk>>
      BY <1>7, <2>3 DEF Lookup
    <3> DEFINE top == [Inner(r) EXCEPT !.ids = c.ids]
               last == Statements(<<"return">>)
    <3>2. c.ids \in SUBSET KnownIds
      BY DEF TypeInv, TablesType, Kept
    <3>3. top \in Frames /\ top.rest = Inner(r).rest
      BY <1>c, <2>1, <3>2 DEF Frames
    <3>4. last = << <<"return", "none">> >> /\ <<"return", "none">> \in Statement
      BY DEF Statements, Statement, PlainNames
    <3> HIDE DEF top, last
    <3>5. last \in Seq(Statement) /\ Len(last) = 1 /\ last[1][1] = "return"
      BY <3>4
    <3>6. Collects(r, last)
      BY <1>1, <1>a, <3>5 DEF Collects, CollectNames
    <3> QED
      BY <1>2, <1>b, <1>c, <2>1, <3>1, <3>3, <3>6, NewTop DEF top, last
  <2> QED
    BY <2>2, <2>3
<1>8. CASE StoreResult(r)
  <2>1. /\ ~At(r, "execute") /\ disk' = disk /\ Goes(r, Tail(job[r].todo), job[r].read)
        /\ working' = [working EXCEPT !.cache =
                  {c \in @ : Boundary(c) # Boundary(Inner(r))}
                    \cup {[view |-> Inner(r).view, version |-> Inner(r).version,
                           sources |-> Inner(r).sources, heads |-> Inner(r).heads,
                           ids |-> Inner(r).ids, by |-> r]}]
    BY <1>8 DEF StoreResult, At, Writes
  <2>2. TablesType(working)'
    <3> DEFINE new == [view |-> Inner(r).view, version |-> Inner(r).version,
                       sources |-> Inner(r).sources, heads |-> Inner(r).heads,
                       ids |-> Inner(r).ids, by |-> r]
    <3>1. new \in Kept
      BY <1>0, <1>c, <2>1 DEF Frames, Kept
    <3> HIDE DEF new
    <3>2. /\ DOMAIN working' = Fields /\ working'.log = working.log
          /\ working'.seq = working.seq /\ working'.rows = working.rows
          /\ working'.head = working.head /\ working'.objects = working.objects
          /\ working'.cache \subseteq working.cache \cup {new}
      BY <2>1 DEF TypeInv, TablesType, Fields, new
    <3>3. KnownIds' = KnownIds /\ RowSet' = RowSet /\ Appenders' = Appenders /\ Kept' = Kept
      BY <1>0, <2>1, GoesOnly DEF OnlyJob, KnownIds, Appenders, RowSet, Kept, Heads
    <3>4. TablesType(working)
      BY DEF TypeInv
    <3> QED
      BY <3>1, <3>2, <3>3, <3>4 DEF TablesType, LoggedAs
  <2> QED
    BY <1>2, <1>b, <1>d, <2>1, <2>2 DEF Resumes
<1>9. CASE ReturnView(r)
  <2> DEFINE read == IF Outer(r) = << >> THEN job[r].read
          ELSE <<[Head(Outer(r)) EXCEPT !.ids = @ \cup Inner(r).ids]>> \o Tail(Outer(r))
  <2>1. /\ ~At(r, "execute") /\ working' = working /\ disk' = disk
        /\ Goes(r, Inner(r).rest, read)
    BY <1>9 DEF ReturnView, At
  <2>2. CASE Outer(r) = << >>
    BY <1>2, <1>b, <1>c, <2>1, <2>2 DEF Resumes
  <2>3. CASE Outer(r) # << >>
    <3> DEFINE top == [Head(Outer(r)) EXCEPT !.ids = @ \cup Inner(r).ids]
    <3>1. /\ Outer(r) \in Seq(Frames) /\ Len(Outer(r)) = Len(job[r].read) - 1
          /\ Head(Outer(r)) = Outer(r)[1] /\ Head(Outer(r)) \in Frames
          /\ Len(Outer(r)) \in Nat \ {0} /\ Len(job[r].read) \in Nat
          /\ \A n \in 1 .. Len(Outer(r)) : Outer(r)[n] = job[r].read[n + 1]
      <4>1. /\ Outer(r) \in Seq(Frames) /\ Len(Outer(r)) = Len(job[r].read) - 1
            /\ Len(job[r].read) \in Nat
            /\ \A n \in 1 .. Len(Outer(r)) : Outer(r)[n] = job[r].read[n + 1]
        <5>1. job[r].read \in Seq(Frames) /\ job[r].read # << >> /\ Outer(r) = Tail(job[r].read)
          BY <1>b, <1>c, <2>1
        <5>2. /\ Tail(job[r].read) \in Seq(Frames)
              /\ Len(Tail(job[r].read)) = Len(job[r].read) - 1
              /\ Len(job[r].read) \in Nat
              /\ \A n \in 1 .. Len(Tail(job[r].read)) : Tail(job[r].read)[n] = job[r].read[n + 1]
          BY <5>1, TopOff
        <5> QED
          BY <5>1, <5>2
      <4>2. /\ Head(Outer(r)) = Outer(r)[1] /\ Head(Outer(r)) \in Frames
            /\ Len(Outer(r)) \in Nat \ {0}
        BY <2>3, <4>1, TopOff
      <4> QED
        BY <4>1, <4>2
    <3>2. StackType(r, Outer(r))
      <4>1. \A n \in 1 .. Len(Outer(r)) : n + 1 \in 1 .. Len(job[r].read)
        BY <3>1
      <4>2. Outer(r)[Len(Outer(r))] = job[r].read[Len(job[r].read)]
        BY <1>b, <1>c, <2>1, <2>3, TopOff
      <4> QED
        BY <1>b, <2>1, <3>1, <4>1, <4>2 DEF StackType
    <3>3. top \in Frames /\ top.rest = Outer(r)[1].rest
      BY <1>c, <2>1, <3>1 DEF Frames
    <3> HIDE DEF top
    <3>4. LET more == <<top>> \o Tail(Outer(r))
          IN  more \in Seq(Frames) /\ more # << >> /\ StackType(r, more)
      BY <2>3, <3>1, <3>2, <3>3, NewTop
    <3> QED
      BY <1>2, <1>c, <2>1, <2>3, <3>4 DEF Resumes, top
  <2> QED
    BY <2>2, <2>3
<1> QED
  BY <1>a, <1>3, <1>4, <1>5, <1>6, <1>7, <1>8, <1>9

LEMMA CommitType ==
  ASSUME TypeInv, NEW r \in Running, Commit(r)
  PROVE  TypeInv' /\ working' = working /\ disk' = working
<1>0. r \in Asks /\ job[r].todo[1] = Head(job[r].todo) /\ Placed(r, job[r].todo[1][1], Left(r))
  BY RunningAsks, StandsAt
<1>1. /\ At(r, "commit") /\ Goes(r, Tail(job[r].todo), job[r].read)
      /\ working' = working /\ disk' = working
  BY DEF Commit
<1>2. TablesType(working)' /\ TablesType(disk)'
  BY <1>0, <1>1, GoesOnly, TablesFrame
<1>3. CASE r.op \notin {"reduce", "execute"}
  <2>1. r.op = "append" /\ ~Mesh /\ Left(r) \in {4, 5} => job[r].read \in Nat
    BY <1>0, <1>1 DEF At, Placed, TypeInv, JobType, ReadType
  <2> QED
    BY <1>1, <1>2, <1>3, <2>1, NextStatement
<1>4. CASE r.op \in {"reduce", "execute"}
  <2>1. GoodRead(r, job[r].read)
    BY <1>0, <1>1, <1>4, ReadsAreGood DEF Opened, Reading, At
  <2>2. Collects(r, Tail(job[r].todo))
    BY <1>4, TailCollects
  <2> QED
    BY <1>1, <1>2, <1>4, <2>1, <2>2, CollectStep
<1> QED
  BY <1>1, <1>3, <1>4

LEMMA StatementsFit ==
  ASSUME NEW r, NEW names \in Seq(PlainNames), NEW k \in Nat \ {0}, Len(names) = k,
         \A n \in 1 .. k : Fits(r, n, k - n + 1, names[n])
  PROVE  TodoType(r, Statements(names)) /\ Statements(names) # << >>
<1> DEFINE todo == Statements(names)
<1>1. DOMAIN names = 1 .. Len(names) /\ Len(names) \in Nat
      /\ \A n \in 1 .. Len(names) : names[n] \in PlainNames
  BY LenProperties, ElementOfSeq
<1>2. todo = [n \in 1 .. Len(names) |-> <<names[n], "none">>]
  BY <1>1 DEF Statements
<1>3. \A n \in 1 .. Len(names) : <<names[n], "none">> \in Statement
  BY <1>1 DEF Statement
<1>4. todo \in [1 .. Len(names) -> Statement]
  BY <1>2, <1>3
<1>5. todo \in Seq(Statement) /\ Len(todo) = Len(names)
  BY <1>1, <1>4, FunctionIsSeq
<1>6. \A n \in 1 .. Len(names) : todo[n][1] = names[n]
  BY <1>2
<1> HIDE DEF todo
<1>7. TodoType(r, todo) /\ todo # << >>
  BY <1>5, <1>6, EmptySeq DEF TodoType
<1> QED
  BY <1>7 DEF todo

LEMMA FirstFits ==
  ASSUME NEW r, NEW s \in Statement, Fits(r, 1, 1, s[1])
  PROVE  TodoType(r, <<s>>)
<1>1. <<s>> \in Seq(Statement) /\ Len(<<s>>) = 1 /\ <<s>>[1] = s
  OBVIOUS
<1> QED
  BY <1>1 DEF TodoType

LEMMA RelayScriptFits ==
  ASSUME TypeInv, NEW r \in Asks, storeRun.store = "relay"
  PROVE  TodoType(r, RelayScript(r)) /\ RelayScript(r) # << >>
<1>0. ~Mesh /\ r.op \in {"identity", "append", "put", "channel", "reduce"}
      /\ (r.op = "put" => r.feed \in BOOLEAN)
  BY RequestsFit DEF OpsOf, Mesh
<1>2. CASE r.op = "identity"
  <2> DEFINE names == <<"name", "commit", "count", "commit">>
  <2>1. names \in Seq(PlainNames) /\ Len(names) = 4 /\ 4 \in Nat \ {0}
    BY DEF PlainNames
  <2>2. \A n \in 1 .. 4 : Fits(r, n, 4 - n + 1, names[n])
    BY <1>2 DEF Fits
  <2>3. RelayScript(r) = Statements(names)
    BY <1>2 DEF RelayScript
  <2> HIDE DEF names
  <2> QED
    BY <2>1, <2>2, <2>3, StatementsFit, Zenon
<1>3. CASE r.op = "append"
  <2> DEFINE names == <<"identity", "head", "count", "commit", "insert", "lead", "commit">>
  <2>1. names \in Seq(PlainNames) /\ Len(names) = 7 /\ 7 \in Nat \ {0}
    BY DEF PlainNames
  <2>2. \A n \in 1 .. 7 : names[n] = AppendName(7 - n + 1)
    BY <1>0 DEF AppendName
  <2>3. \A n \in 1 .. 7 : Fits(r, n, 7 - n + 1, names[n])
    BY <1>3, <2>2 DEF Fits
  <2>4. RelayScript(r) = Statements(names)
    BY <1>3 DEF RelayScript
  <2> HIDE DEF names
  <2> QED
    BY <2>1, <2>3, <2>4, StatementsFit, Zenon
<1>4. CASE r.op = "put" /\ ~r.feed
  <2> DEFINE names == <<"identity", "version", "replace", "commit", "count", "commit">>
  <2>1. names \in Seq(PlainNames) /\ Len(names) = 6 /\ 6 \in Nat \ {0}
    BY DEF PlainNames
  <2>2. \A n \in 1 .. 6 : names[n] = PutName(6 - n + 1)
    BY <1>0 DEF PutName
  <2>3. \A n \in 1 .. 6 : Fits(r, n, 6 - n + 1, names[n])
    BY <1>4, <2>2 DEF Fits
  <2>4. RelayScript(r) = Statements(names)
    BY <1>4 DEF RelayScript
  <2> HIDE DEF names
  <2> QED
    BY <2>1, <2>3, <2>4, StatementsFit, Zenon
<1>5. CASE r.op = "put" /\ r.feed
  <2> DEFINE names == <<"version", "replace", "commit", "count", "commit">>
  <2>1. names \in Seq(PlainNames) /\ Len(names) = 5 /\ 5 \in Nat \ {0}
    BY DEF PlainNames
  <2>2. \A n \in 1 .. 5 : names[n] = PutName(5 - n + 1)
    BY <1>0 DEF PutName
  <2>3. \A n \in 1 .. 5 : Fits(r, n, 5 - n + 1, names[n])
    BY <1>5, <2>2 DEF Fits
  <2>4. RelayScript(r) = Statements(names)
    BY <1>5 DEF RelayScript
  <2> HIDE DEF names
  <2> QED
    BY <2>1, <2>3, <2>4, StatementsFit, Zenon
<1>6. CASE r.op = "channel"
  <2> DEFINE names == <<"open", "own", "commit">>
  <2>1. names \in Seq(PlainNames) /\ Len(names) = 3 /\ 3 \in Nat \ {0}
    BY DEF PlainNames
  <2>2. \A n \in 1 .. 3 : names[n] = ChannelName(3 - n + 1)
    BY <1>0 DEF ChannelName
  <2>3. \A n \in 1 .. 3 : Fits(r, n, 3 - n + 1, names[n])
    BY <1>6, <2>2 DEF Fits
  <2>4. RelayScript(r) = Statements(names)
    BY <1>6 DEF RelayScript
  <2> HIDE DEF names
  <2> QED
    BY <2>1, <2>3, <2>4, StatementsFit, Zenon
<1>7. CASE r.op = "reduce"
  <2>1. <<"reduce", r.object>> \in Statement
    BY <1>7, RequestsFit DEF Statement, OverObjectsNames
  <2>2. RelayScript(r) = <<<<"reduce", r.object>>>>
    BY <1>7 DEF RelayScript
  <2>3. Fits(r, 1, 1, "reduce")
    BY <1>7 DEF Fits
  <2>4. TodoType(r, <<<<"reduce", r.object>>>>)
    BY <2>1, <2>3, FirstFits
  <2> QED
    BY <2>2, <2>4
<1> QED
  BY <1>0, <1>2, <1>3, <1>4, <1>5, <1>6, <1>7

LEMMA ViewScriptFits ==
  ASSUME TypeInv, NEW r \in Asks, storeRun.store = "view"
  PROVE  TodoType(r, ViewScript(r)) /\ ViewScript(r) # << >>
<1>0. ~Mesh /\ r.op \in {"append", "put", "execute"}
  BY RequestsFit DEF OpsOf, Mesh
<1>2. CASE r.op = "append"
  <2> DEFINE names == <<"count", "commit", "insert", "lead", "commit">>
  <2>1. names \in Seq(PlainNames) /\ Len(names) = 5 /\ 5 \in Nat \ {0}
    BY DEF PlainNames
  <2>2. \A n \in 1 .. 5 : names[n] = AppendName(5 - n + 1)
    BY <1>0 DEF AppendName
  <2>3. \A n \in 1 .. 5 : Fits(r, n, 5 - n + 1, names[n])
    BY <1>2, <2>2 DEF Fits
  <2>4. ViewScript(r) = Statements(names)
    BY <1>2 DEF ViewScript
  <2> HIDE DEF names
  <2> QED
    BY <2>1, <2>3, <2>4, StatementsFit, Zenon
<1>3. CASE r.op = "put"
  <2> DEFINE names == <<"version", "replace", "commit", "count", "commit">>
  <2>1. names \in Seq(PlainNames) /\ Len(names) = 5 /\ 5 \in Nat \ {0}
    BY DEF PlainNames
  <2>2. \A n \in 1 .. 5 : names[n] = PutName(5 - n + 1)
    BY <1>0 DEF PutName
  <2>3. \A n \in 1 .. 5 : Fits(r, n, 5 - n + 1, names[n])
    BY <1>3, <2>2 DEF Fits
  <2>4. ViewScript(r) = Statements(names)
    BY <1>3 DEF ViewScript
  <2> HIDE DEF names
  <2> QED
    BY <2>1, <2>3, <2>4, StatementsFit, Zenon
<1>4. CASE r.op = "execute"
  <2>1. <<"execute", r.object>> \in Statement
    BY <1>4, RequestsFit DEF Statement, OverObjectsNames
  <2>2. ViewScript(r) = <<<<"execute", r.object>>>>
    BY <1>4 DEF ViewScript
  <2>3. Fits(r, 1, 1, "execute")
    BY <1>0, <1>4 DEF Fits
  <2>4. TodoType(r, <<<<"execute", r.object>>>>)
    BY <2>1, <2>3, FirstFits
  <2> QED
    BY <2>2, <2>4
<1> QED
  BY <1>0, <1>2, <1>3, <1>4

LEMMA MeshScriptFits ==
  ASSUME TypeInv, NEW r \in Asks, storeRun.store = "mesh"
  PROVE  TodoType(r, MeshScript(r)) /\ MeshScript(r) # << >>
<1>0. Mesh /\ r.op \in {"create", "append", "put", "execute"}
  BY RequestsFit DEF OpsOf, Mesh
<1>2. CASE r.op = "create"
  <2> DEFINE names == <<"create", "commit">>
  <2>1. names \in Seq(PlainNames) /\ Len(names) = 2 /\ 2 \in Nat \ {0}
    BY DEF PlainNames
  <2>2. \A n \in 1 .. 2 : Fits(r, n, 2 - n + 1, names[n])
    BY <1>2 DEF Fits
  <2>3. MeshScript(r) = Statements(names)
    BY <1>2 DEF MeshScript
  <2> HIDE DEF names
  <2> QED
    BY <2>1, <2>2, <2>3, StatementsFit, Zenon
<1>3. CASE r.op = "append"
  <2> DEFINE names == <<"chain", "number", "lead", "commit">>
  <2>1. names \in Seq(PlainNames) /\ Len(names) = 4 /\ 4 \in Nat \ {0}
    BY DEF PlainNames
  <2>2. \A n \in 1 .. 4 : names[n] = AppendName(4 - n + 1)
    BY <1>0 DEF AppendName
  <2>3. \A n \in 1 .. 4 : Fits(r, n, 4 - n + 1, names[n])
    BY <1>3, <2>2 DEF Fits
  <2>4. MeshScript(r) = Statements(names)
    BY <1>3 DEF MeshScript
  <2> HIDE DEF names
  <2> QED
    BY <2>1, <2>3, <2>4, StatementsFit, Zenon
<1>4. CASE r.op = "put"
  <2> DEFINE names == <<"version", "replace", "commit">>
  <2>1. names \in Seq(PlainNames) /\ Len(names) = 3 /\ 3 \in Nat \ {0}
    BY DEF PlainNames
  <2>2. \A n \in 1 .. 3 : names[n] = PutName(3 - n + 1)
    BY <1>0 DEF PutName
  <2>3. \A n \in 1 .. 3 : Fits(r, n, 3 - n + 1, names[n])
    BY <1>4, <2>2 DEF Fits
  <2>4. MeshScript(r) = Statements(names)
    BY <1>4 DEF MeshScript
  <2> HIDE DEF names
  <2> QED
    BY <2>1, <2>3, <2>4, StatementsFit, Zenon
<1>5. CASE r.op = "execute"
  <2>1. <<"plan", r.object>> \in Statement
    BY <1>5, RequestsFit DEF Statement, OverObjectsNames
  <2>2. MeshScript(r) = <<<<"plan", r.object>>>>
    BY <1>5 DEF MeshScript
  <2>3. Fits(r, 1, 1, "plan")
    BY <1>0, <1>5 DEF Fits
  <2>4. TodoType(r, <<<<"plan", r.object>>>>)
    BY <2>1, <2>3, FirstFits
  <2> QED
    BY <2>2, <2>4
<1> QED
  BY <1>0, <1>2, <1>3, <1>4, <1>5

LEMMA BeginType ==
  ASSUME TypeInv, NEW r \in Asks, NEW todo, todo # << >>, TodoType(r, todo), BeginJob(r, todo),
         r.op \in {"reduce", "execute"} => todo[1][1] \in {"reduce", "execute", "plan"},
         r.op = "append" => Len(todo) \notin {3, 4} \/ Mesh
  PROVE  TypeInv' /\ working' = working /\ disk' = disk
<1>1. /\ storeRun' = storeRun /\ Asks' = Asks /\ storeCrashes' = storeCrashes
      /\ working' = working /\ disk' = disk /\ job[r].answer = "none"
      /\ DOMAIN job' = Asks
      /\ job'[r] = [todo |-> todo, read |-> << >>, answer |-> "running", met |-> Running]
      /\ \A q \in Asks \ {r} :
           \/ job'[q] = [job[q] EXCEPT !.met = @ \cup {r}]
           \/ job'[q] = job[q]
  BY DEF BeginJob, Asks
<1>2. /\ Mesh' = Mesh /\ Frames' = Frames /\ Feeds' = Feeds /\ PlanSet' = PlanSet
      /\ KnownIds' = KnownIds /\ RowSet' = RowSet /\ Appenders' = Appenders /\ Kept' = Kept
  BY <1>1 DEF Mesh, Frames, Feeds, PlanSet, Heads, KnownIds, Appenders, RowSet, Kept
<1>3. TablesType(working)' /\ TablesType(disk)'
  BY <1>1, <1>2 DEF TypeInv, TablesType, LoggedAs
<1>4. \A q, x : /\ TodoType(q, x)' <=> TodoType(q, x)
                /\ StackType(q, x)' <=> StackType(q, x)
  BY <1>2 DEF TodoType, Fits, AppendName, PutName, StackType, Resumes, Collects, CollectNames
<1>5. ASSUME NEW q \in Asks \ {r}
      PROVE  JobType(q)'
  <2>1. JobType(q)
    BY DEF TypeInv
  <2>2. /\ DOMAIN job'[q] = {"todo", "read", "answer", "met"}
        /\ job'[q].todo = job[q].todo /\ job'[q].read = job[q].read
        /\ job'[q].answer = job[q].answer /\ job'[q].met \subseteq job[q].met \cup {r}
    BY <1>1, <2>1 DEF JobType
  <2>3. Opened(q)' <=> Opened(q)
    BY <1>1, <2>2 DEF Opened, Reading, Running
  <2>4. ReadType(q)'
    BY <1>2, <1>4, <2>1, <2>2, <2>3 DEF JobType, ReadType, Left
  <2> QED
    BY <1>1, <1>4, <2>1, <2>2, <2>4 DEF JobType
<1>6. JobType(r)'
  <2>1. r.op \in {"reduce", "execute"} => ~Opened(r)'
    BY <1>1 DEF Opened, Reading
  <2>2. ReadType(r)'
    <3>1. << >> \in Seq(Frames')
      BY EmptySeq
    <3> QED
      BY <1>1, <1>2, <2>1, <3>1 DEF ReadType, Left
  <2>3. Running \subseteq Asks \ {r}
    BY <1>1 DEF Running
  <2> QED
    BY <1>1, <1>4, <2>2, <2>3 DEF JobType
<1> QED
  BY <1>1, <1>3, <1>5, <1>6 DEF TypeInv

LEMMA CrashType ==
  ASSUME TypeInv, StoreCrash
  PROVE  TypeInv'
<1>1. /\ storeRun' = storeRun /\ Asks' = Asks /\ storeCrashes' \in 0 .. MaxStoreCrashes
      /\ working' = disk /\ disk' = disk /\ DOMAIN job' = Asks
      /\ \A q \in Asks : \/ job'[q] = [job[q] EXCEPT !.todo = << >>, !.answer = "lost"]
                         \/ job'[q] = job[q] /\ q \notin Running
  <2>1. /\ storeRun' = storeRun /\ Asks' = Asks /\ working' = disk /\ disk' = disk
        /\ job' = [q \in Asks |-> IF q \in Running
                      THEN [job[q] EXCEPT !.todo = << >>, !.answer = "lost"] ELSE job[q]]
    BY DEF StoreCrash, Asks
  <2>2. storeCrashes' \in 0 .. MaxStoreCrashes
    <3>1. storeCrashes \in 0 .. MaxStoreCrashes /\ MaxStoreCrashes \in Nat
      BY StoresAssumption DEF TypeInv
    <3>2. storeCrashes < MaxStoreCrashes /\ storeCrashes' = storeCrashes + 1
      BY DEF StoreCrash
    <3> QED
      BY <3>1, <3>2
  <2> QED
    BY <2>1, <2>2
<1>2. /\ Mesh' = Mesh /\ Frames' = Frames /\ Feeds' = Feeds /\ PlanSet' = PlanSet
      /\ KnownIds' = KnownIds /\ RowSet' = RowSet /\ Appenders' = Appenders /\ Kept' = Kept
  BY <1>1 DEF Mesh, Frames, Feeds, PlanSet, Heads, KnownIds, Appenders, RowSet, Kept
<1>3. TablesType(working)' /\ TablesType(disk)'
  BY <1>1, <1>2 DEF TypeInv, TablesType, LoggedAs
<1>4. \A q, x : /\ TodoType(q, x)' <=> TodoType(q, x)
                /\ StackType(q, x)' <=> StackType(q, x)
  BY <1>2 DEF TodoType, Fits, AppendName, PutName, StackType, Resumes, Collects, CollectNames
<1>5. ASSUME NEW q \in Asks
      PROVE  JobType(q)'
  <2>1. JobType(q)
    BY DEF TypeInv
  <2>2. CASE job'[q] = job[q] /\ q \notin Running
    <3>1. Opened(q)' <=> Opened(q)
      BY <1>1, <2>1, <2>2 DEF Opened, Reading, Running
    <3>2. ReadType(q)'
      BY <1>2, <1>4, <2>1, <2>2, <3>1 DEF JobType, ReadType, Left
    <3> QED
      BY <1>1, <1>4, <2>1, <2>2, <3>2 DEF JobType
  <2>3. CASE job'[q] = [job[q] EXCEPT !.todo = << >>, !.answer = "lost"]
    <3>1. /\ DOMAIN job'[q] = {"todo", "read", "answer", "met"}
          /\ job'[q].todo = << >> /\ job'[q].read = job[q].read
          /\ job'[q].answer = "lost" /\ job'[q].met = job[q].met
      BY <2>1, <2>3 DEF JobType
    <3>2. ~Opened(q)' /\ Left(q)' = 0
      BY <3>1, EmptySeq DEF Opened, Reading, Running, Left
    <3>3. ReadType(q)'
      BY <1>2, <1>4, <2>1, <3>1, <3>2 DEF JobType, ReadType
    <3>4. TodoType(q, << >>)
      BY EmptySeq DEF TodoType
    <3> QED
      BY <1>1, <1>4, <2>1, <3>1, <3>3, <3>4 DEF JobType
  <2> QED
    BY <1>1, <2>2, <2>3
<1> QED
  BY <1>1, <1>3, <1>5 DEF TypeInv

LEMMA InitType ==
  ASSUME StoreInit
  PROVE  TypeInv
<1>1. /\ storeRun \in StoreTraffic /\ DOMAIN job = Asks /\ storeCrashes = 0 /\ disk = working
      /\ \A r \in Asks :
           job[r] = [todo |-> << >>, read |-> << >>, answer |-> "none", met |-> {}]
  BY DEF StoreInit
<1>2. /\ DOMAIN working = Fields /\ working.log = {} /\ working.objects = {} /\ working.cache = {}
      /\ working.head = [a \in StoreActors |-> "none"]
      /\ working.seq = Cardinality(storeRun.known) + Cardinality(DOMAIN storeRun.put)
      /\ working.rows = [o \in StoreObjects |-> IF o \in DOMAIN storeRun.put
                 THEN [version |-> 1, sources |-> storeRun.put[o]] ELSE NoRow]
  BY DEF StoreInit, Empty, Fields
<1>3. working.seq \in Nat
  <2>1. /\ storeRun.known \subseteq StoreActors /\ DOMAIN storeRun.put \subseteq StoreObjects
        /\ IsFiniteSet(StoreActors) /\ IsFiniteSet(StoreObjects)
    BY <1>1, StoresAssumption
  <2>2. IsFiniteSet(storeRun.known) /\ IsFiniteSet(DOMAIN storeRun.put)
    BY <2>1, FS_Subset
  <2>3. Cardinality(storeRun.known) \in Nat /\ Cardinality(DOMAIN storeRun.put) \in Nat
    BY <2>2, FS_CardinalityType
  <2> QED
    BY <1>2, <2>3
<1>4. working.rows \in [StoreObjects -> RowSet]
  <2>1. NoRow \in RowSet
    BY EmptySeq DEF NoRow, RowSet
  <2>2. ASSUME NEW o \in DOMAIN storeRun.put
        PROVE  [version |-> 1, sources |-> storeRun.put[o]] \in RowSet
    BY <1>1, <2>2, StoresAssumption DEF RowSet
  <2> QED
    BY <1>2, <2>1, <2>2
<1>5. working.head \in [StoreActors -> KnownIds]
  BY <1>2 DEF KnownIds
<1>6. IsFiniteSet(working.log)
  BY <1>2, FS_EmptySet
<1>7. TablesType(working)
  BY <1>2, <1>3, <1>4, <1>5, <1>6 DEF TablesType
<1>8. ASSUME NEW r \in Asks
      PROVE  JobType(r)
  <2>0. job[r].todo = << >> /\ job[r].read = << >> /\ job[r].answer = "none" /\ job[r].met = {}
        /\ DOMAIN job[r] = {"todo", "read", "answer", "met"}
    BY <1>1
  <2>a. TodoType(r, << >>) /\ Len(<< >>) = 0
    BY EmptySeq DEF TodoType
  <2>1. TodoType(r, job[r].todo) /\ Left(r) = 0
    BY <2>0, <2>a DEF Left
  <2>2. << >> \in Seq(Frames)
    BY EmptySeq
  <2>3. ~Opened(r)
    BY <1>1 DEF Opened, Reading, Running
  <2>4. ReadType(r)
    BY <2>0, <2>1, <2>2, <2>3 DEF ReadType
  <2> QED
    BY <2>0, <2>1, <2>4 DEF JobType
<1> QED
  BY <1>1, <1>7, <1>8, StoresAssumption DEF TypeInv

\* How a request to one of the stores begins
Script(r) ==
  CASE storeRun.store = "relay" -> RelayScript(r)
    [] storeRun.store = "view"  -> ViewScript(r)
    [] storeRun.store = "mesh"  -> MeshScript(r)

JobBegins(r) == r \in Asks /\ BeginJob(r, Script(r))

\* The statements, by the kind of request they belong to
PlainStep(r) ==
  \/ NextSeq(r) \/ ReadVersion(r) \/ Replace(r) \/ InsertEvent(r)
  \/ MoveHead(r) \/ PutIdentity(r) \/ FindIdentity(r) \/ ReadHead(r)
  \/ OpenChannel(r) \/ OwnerJoins(r) \/ CreateObject(r) \/ CheckChain(r)
  \/ InsertNumbered(r)

FeedStep(r) ==
  storeRun.store = "relay" /\ (Reduce(r) \/ Define(r) \/ FetchLog(r) \/ FetchHead(r))

ViewStep(r) ==
  /\ storeRun.store = "view"
  /\ \/ OpenView(r) \/ FetchEvents(r) \/ FetchTip(r)
     \/ Lookup(r) \/ StoreResult(r) \/ ReturnView(r)

PlanStep(r) ==
  /\ Mesh
  /\ Plan(r) \/ FetchFollows(r) \/ FetchActor(r) \/ FetchActorHead(r) \/ FetchBatch(r)

LEMMA StepsOf ==
  ASSUME TypeInv, StoresNext
  PROVE  \/ \E r \in Asks : JobBegins(r)
         \/ \E r \in Running : PlainStep(r) \/ Commit(r) \/ FeedStep(r) \/ ViewStep(r) \/ PlanStep(r)
         \/ StoreCrash
<1>1. ASSUME NEW r \in Asks,
             \/ StoreStep(r)
             \/ PutIdentity(r) \/ FindIdentity(r) \/ ReadHead(r)
             \/ OpenChannel(r) \/ OwnerJoins(r)
             \/ CreateObject(r) \/ CheckChain(r) \/ InsertNumbered(r)
      PROVE  r \in Running /\ (PlainStep(r) \/ Commit(r))
  BY <1>1 DEF StoreStep, PlainStep, NextSeq, Commit, ReadVersion, Replace, InsertEvent, MoveHead,
       PutIdentity, FindIdentity, ReadHead, OpenChannel, OwnerJoins,
       CreateObject, CheckChain, InsertNumbered, At
<1>2. CASE RelayStoreNext
  <2>1. storeRun.store = "relay" /\ ~StoreCrash =>
          \E r \in Asks : \/ BeginJob(r, RelayScript(r))
                        \/ StoreStep(r)
                        \/ PutIdentity(r) \/ FindIdentity(r) \/ ReadHead(r)
                        \/ OpenChannel(r) \/ OwnerJoins(r)
                        \/ Reduce(r) \/ Define(r) \/ FetchLog(r) \/ FetchHead(r)
    BY <1>2 DEF RelayStoreNext
  <2>2. storeRun.store = "relay"
    BY <1>2 DEF RelayStoreNext
  <2>3. ASSUME NEW r \in Asks, BeginJob(r, RelayScript(r))
        PROVE  JobBegins(r)
    BY <2>2, <2>3 DEF JobBegins, Script
  <2>4. ASSUME NEW r \in Asks, Reduce(r) \/ Define(r) \/ FetchLog(r) \/ FetchHead(r)
        PROVE  r \in Running /\ FeedStep(r)
    BY <2>2, <2>4 DEF FeedStep, Reduce, Define, FetchLog, FetchHead, At
  <2> QED
    BY <2>1, <2>2, <2>3, <2>4, <1>1
<1>3. CASE ViewStoreNext
  <2>1. storeRun.store = "view" /\ ~StoreCrash =>
          \E r \in Asks : \/ BeginJob(r, ViewScript(r))
                        \/ StoreStep(r)
                        \/ OpenView(r) \/ FetchEvents(r) \/ FetchTip(r)
                        \/ Lookup(r) \/ StoreResult(r) \/ ReturnView(r)
    BY <1>3 DEF ViewStoreNext
  <2>2. storeRun.store = "view"
    BY <1>3 DEF ViewStoreNext
  <2>3. ASSUME NEW r \in Asks, BeginJob(r, ViewScript(r))
        PROVE  JobBegins(r)
    BY <2>2, <2>3 DEF JobBegins, Script
  <2>4. ASSUME NEW r \in Asks, \/ OpenView(r) \/ FetchEvents(r) \/ FetchTip(r)
                               \/ Lookup(r) \/ StoreResult(r) \/ ReturnView(r)
        PROVE  r \in Running /\ ViewStep(r)
    BY <2>2, <2>4 DEF ViewStep, OpenView, FetchEvents, FetchTip, Lookup, StoreResult, ReturnView, At
  <2> QED
    BY <2>1, <2>2, <2>3, <2>4, <1>1
<1>4. CASE MeshStoreNext
  <2>1. storeRun.store = "mesh" /\ ~StoreCrash =>
          \E r \in Asks : \/ BeginJob(r, MeshScript(r))
                        \/ StoreStep(r)
                        \/ CreateObject(r) \/ CheckChain(r) \/ InsertNumbered(r)
                        \/ Plan(r) \/ FetchFollows(r) \/ FetchActor(r)
                        \/ FetchActorHead(r) \/ FetchBatch(r)
    BY <1>4 DEF MeshStoreNext
  <2>2. storeRun.store = "mesh" /\ Mesh
    BY <1>4 DEF MeshStoreNext, Mesh
  <2>3. ASSUME NEW r \in Asks, BeginJob(r, MeshScript(r))
        PROVE  JobBegins(r)
    BY <2>2, <2>3 DEF JobBegins, Script
  <2>4. ASSUME NEW r \in Asks, \/ Plan(r) \/ FetchFollows(r) \/ FetchActor(r)
                               \/ FetchActorHead(r) \/ FetchBatch(r)
        PROVE  r \in Running /\ PlanStep(r)
    BY <2>2, <2>4 DEF PlanStep, Plan, FetchFollows, FetchActor, FetchActorHead, FetchBatch, At
  <2> QED
    BY <2>1, <2>2, <2>3, <2>4, <1>1
<1> QED
  BY <1>2, <1>3, <1>4 DEF StoresNext

\* A script begins as its kind of request does.
LEMMA ScriptBegins ==
  ASSUME TypeInv, NEW r \in Asks
  PROVE  /\ TodoType(r, Script(r)) /\ Script(r) # << >>
         /\ r.op \in {"reduce", "execute"} =>
              Len(Script(r)) = 1 /\ Script(r)[1][1] \in {"reduce", "execute", "plan"}
         /\ r.op = "append" => Len(Script(r)) = IF Mesh THEN 4
                                                 ELSE IF storeRun.store = "relay" THEN 7 ELSE 5
         /\ r.op = "put" => Len(Script(r)) \in (IF Mesh THEN {3} ELSE {5, 6})
         /\ r.op = "channel" => Len(Script(r)) = 3
<1>0. storeRun.store \in {"relay", "view", "mesh"} /\ r.op \in OpsOf(storeRun.store)
      /\ (r.op = "put" => r.feed \in BOOLEAN)
  BY RequestsFit
<1>1. TodoType(r, Script(r)) /\ Script(r) # << >>
  BY <1>0, RelayScriptFits, ViewScriptFits, MeshScriptFits DEF Script
<1>2. CASE r.op \in {"reduce", "execute"}
  <2>1. Script(r) \in {<<<<"reduce", r.object>>>>, <<<<"execute", r.object>>>>, <<<<"plan", r.object>>>>}
    BY <1>0, <1>2 DEF Script, RelayScript, ViewScript, MeshScript, OpsOf
  <2> QED
    BY <1>1, <1>2, <2>1
<1>a. ASSUME NEW names, NEW k \in Nat, DOMAIN names = 1 .. k
      PROVE  Len(Statements(names)) = k
  <2>1. Statements(names) \in [1 .. k -> {<<names[n], "none">> : n \in 1 .. k}]
    BY <1>a DEF Statements
  <2> QED
    BY <2>1, FunctionIsSeq
<1>3. CASE r.op = "append"
  <2>1. Script(r) = IF Mesh THEN Statements(<<"chain", "number", "lead", "commit">>)
          ELSE IF storeRun.store = "relay"
            THEN Statements(<<"identity", "head", "count", "commit", "insert", "lead", "commit">>)
            ELSE Statements(<<"count", "commit", "insert", "lead", "commit">>)
    BY <1>0, <1>3 DEF Script, RelayScript, ViewScript, MeshScript, OpsOf, Mesh
  <2>2. /\ DOMAIN <<"chain", "number", "lead", "commit">> = 1 .. 4
        /\ DOMAIN <<"identity", "head", "count", "commit", "insert", "lead", "commit">> = 1 .. 7
        /\ DOMAIN <<"count", "commit", "insert", "lead", "commit">> = 1 .. 5
    OBVIOUS
  <2> QED
    BY <1>1, <1>a, <1>3, <2>1, <2>2
<1>4. CASE r.op = "put"
  <2>1. Script(r) = IF Mesh THEN Statements(<<"version", "replace", "commit">>)
          ELSE IF storeRun.store = "relay" /\ ~r.feed
            THEN Statements(<<"identity", "version", "replace", "commit", "count", "commit">>)
            ELSE Statements(<<"version", "replace", "commit", "count", "commit">>)
    BY <1>0, <1>4 DEF Script, RelayScript, ViewScript, MeshScript, OpsOf, Mesh
  <2>2. /\ DOMAIN <<"version", "replace", "commit">> = 1 .. 3
        /\ DOMAIN <<"identity", "version", "replace", "commit", "count", "commit">> = 1 .. 6
        /\ DOMAIN <<"version", "replace", "commit", "count", "commit">> = 1 .. 5
    OBVIOUS
  <2> QED
    BY <1>1, <1>a, <1>4, <2>1, <2>2
<1>5. CASE r.op = "channel"
  <2>1. Script(r) = Statements(<<"open", "own", "commit">>)
    BY <1>0, <1>5 DEF Script, RelayScript, OpsOf
  <2>2. DOMAIN <<"open", "own", "commit">> = 1 .. 3
    OBVIOUS
  <2> QED
    BY <1>1, <1>a, <1>5, <2>1, <2>2
<1> QED
  BY <1>1, <1>2, <1>3, <1>4, <1>5

LEMMA TypeStep ==
  ASSUME TypeInv, [StoresNext]_storeVars
  PROVE  TypeInv'
<1>1. CASE UNCHANGED storeVars
  <2>1. /\ storeRun' = storeRun /\ job' = job /\ working' = working /\ disk' = disk
        /\ storeCrashes' = storeCrashes /\ Asks' = Asks
    BY <1>1 DEF storeVars, Asks
  <2>2. /\ Mesh' = Mesh /\ Frames' = Frames /\ Feeds' = Feeds /\ PlanSet' = PlanSet
        /\ KnownIds' = KnownIds /\ RowSet' = RowSet /\ Appenders' = Appenders /\ Kept' = Kept
    BY <2>1 DEF Mesh, Frames, Feeds, PlanSet, Heads, KnownIds, Appenders, RowSet, Kept
  <2>3. TablesType(working)' /\ TablesType(disk)'
    BY <2>1, <2>2 DEF TypeInv, TablesType, LoggedAs
  <2>4. \A q, x : /\ TodoType(q, x)' <=> TodoType(q, x)
                  /\ StackType(q, x)' <=> StackType(q, x)
    BY <2>2 DEF TodoType, Fits, AppendName, PutName, StackType, Resumes, Collects, CollectNames
  <2>5. ASSUME NEW q \in Asks
        PROVE  JobType(q)'
    <3>1. JobType(q)
      BY DEF TypeInv
    <3>2. Opened(q)' <=> Opened(q)
      BY <2>1 DEF Opened, Reading, Running
    <3>3. ReadType(q)'
      BY <2>1, <2>2, <2>4, <3>1, <3>2 DEF JobType, ReadType, Left
    <3> QED
      BY <2>1, <2>4, <3>1, <3>3 DEF JobType
  <2> QED
    BY <2>1, <2>3, <2>5 DEF TypeInv
<1>2. ASSUME NEW r \in Asks, JobBegins(r)
      PROVE  TypeInv'
  <2>1. /\ BeginJob(r, Script(r)) /\ TodoType(r, Script(r)) /\ Script(r) # << >>
        /\ r.op \in {"reduce", "execute"} => Script(r)[1][1] \in {"reduce", "execute", "plan"}
        /\ r.op = "append" => Len(Script(r)) \notin {3, 4} \/ Mesh
    <3>1. 7 \notin {3, 4} /\ 5 \notin {3, 4}
      OBVIOUS
    <3> QED
      BY <1>2, <3>1, ScriptBegins DEF JobBegins
  <2> QED
    BY <2>1, BeginType
<1>3. ASSUME NEW r \in Running,
             PlainStep(r) \/ Commit(r) \/ FeedStep(r) \/ ViewStep(r) \/ PlanStep(r)
      PROVE  TypeInv'
  BY <1>3, PlainType, CommitType, FeedType, ViewType, PlanType
     DEF PlainStep, FeedStep, ViewStep, PlanStep
<1> QED
  BY <1>1, <1>2, <1>3, StepsOf, CrashType

\* Every request has a script that fits its kind, whatever overlaps it, and the rows it
\* reads, the numbers it is given and what a reduction or a view has collected are
\* what the tables hold.
THEOREM StoresAreTyped == StoresSpec => []TypeInv
<1>1. StoreInit => TypeInv
  BY InitType
<1>2. TypeInv /\ [StoresNext]_storeVars => TypeInv'
  BY TypeStep
<1> QED
  BY <1>1, <1>2, PTL DEF StoresSpec

-----------------------------------------------------------------------------
(***************************************************************************)
(* What a statement does, by the kind of request and what is left of it.   *)
(***************************************************************************)
Step(r) ==
  /\ r \in Running
  /\ PlainStep(r) \/ Commit(r) \/ FeedStep(r) \/ ViewStep(r) \/ PlanStep(r)

Advances(r) ==
  /\ job'[r].answer = IF Left(r) = 1 THEN "ok" ELSE "running"
  /\ Left(r)' = Left(r) - 1

Halts(r) ==
  /\ job'[r].answer \in {"refused", "raised"}
  /\ working' = working /\ disk' = disk

LEMMA HaltsOnly ==
  ASSUME TypeInv, NEW r \in Running, NEW answer \in {"refused", "raised"}, Ends(r, answer)
  PROVE  OnlyJob(r) /\ Halts(r)
BY RunningAsks, EndsOnly DEF Halts

LEMMA AdvancesOnly ==
  ASSUME TypeInv, NEW r \in Running, NEW read, Goes(r, Tail(job[r].todo), read)
  PROVE  OnlyJob(r) /\ Advances(r) /\ job'[r].read = read
<1>0. r \in Asks /\ Left(r) \in Nat \ {0}
  BY RunningAsks
<1>1. /\ OnlyJob(r) /\ job'[r].todo = Tail(job[r].todo) /\ job'[r].read = read
      /\ job'[r].answer = IF Tail(job[r].todo) = << >> THEN "ok" ELSE "running"
  BY <1>0, GoesOnly
<1>2. Len(Tail(job[r].todo)) = Left(r) - 1 /\ Tail(job[r].todo) \in Seq(Statement)
  BY <1>0, TailFits DEF TodoType
<1>3. Tail(job[r].todo) = << >> <=> Left(r) = 1
  <2>1. Tail(job[r].todo) = << >> <=> Len(Tail(job[r].todo)) = 0
    BY <1>2, EmptySeq
  <2>2. Left(r) - 1 = 0 <=> Left(r) = 1
    BY <1>0
  <2> QED
    BY <1>2, <2>1, <2>2, Zenon
<1> QED
  BY <1>1, <1>2, <1>3 DEF Advances, Left

AppendEffect(r) ==
  \/ Halts(r) /\ Left(r) > 2
  \/ /\ Advances(r)
     /\ \/ ~Mesh /\ Left(r) > 6 /\ working' = working /\ disk' = disk
        \/ /\ ~Mesh /\ Left(r) = 6 /\ r.prev = working.head[r.actor]
           /\ working' = working /\ disk' = disk
        \/ /\ ~Mesh /\ Left(r) = 5
           /\ working' = [working EXCEPT !.seq = @ + 1] /\ disk' = disk
           /\ job'[r].read = working.seq + 1
        \/ /\ ~Mesh /\ Left(r) = 4 /\ working' = working /\ disk' = working
           /\ job'[r].read = job[r].read
        \/ /\ Mesh /\ Left(r) > 3
           /\ r.prev = working.head[r.actor] /\ r.seq = HeadSeq(r.actor) + 1
           /\ working' = working /\ disk' = disk
        \/ /\ Left(r) = 3 /\ r.id \notin {e.id : e \in working.log}
           /\ working' = [working EXCEPT !.log = @ \cup
                            {LoggedAs(r, IF Mesh THEN r.seq ELSE job[r].read)}]
           /\ disk' = disk
        \/ /\ Left(r) = 2
           /\ working' = [working EXCEPT !.head[r.actor] = r.id] /\ disk' = disk
        \/ Left(r) = 1 /\ working' = working /\ disk' = working

LEMMA AppendsDo ==
  ASSUME TypeInv, NEW r \in Asks, Step(r), r.op = "append"
  PROVE  AppendEffect(r) /\ OnlyJob(r)
<1>0. /\ r \in Running /\ job[r].todo[1] = Head(job[r].todo)
      /\ Placed(r, job[r].todo[1][1], Left(r)) /\ Left(r) \in Nat \ {0}
  BY RunningAsks, StandsAt DEF Step
<1>1. PlainStep(r) \/ Commit(r)
  <2>1. ~FeedStep(r)
    BY <1>0 DEF FeedStep, Reduce, Define, FetchLog, FetchHead, At, Placed
  <2>2. ~ViewStep(r)
    BY <1>0 DEF ViewStep, OpenView, FetchEvents, FetchTip, Lookup, StoreResult, ReturnView, At, Placed
  <2>3. ~PlanStep(r)
    BY <1>0 DEF PlanStep, Plan, FetchFollows, FetchActor, FetchActorHead, FetchBatch, At, Placed
  <2> QED
    BY <2>1, <2>2, <2>3 DEF Step
<1>2. ASSUME NEW answer \in {"refused", "raised"}, Ends(r, answer)
      PROVE  OnlyJob(r) /\ Halts(r)
  BY <1>0, <1>2, HaltsOnly
<1>3. ASSUME NEW read, Goes(r, Tail(job[r].todo), read)
      PROVE  OnlyJob(r) /\ Advances(r) /\ job'[r].read = read
  BY <1>0, <1>3, AdvancesOnly
<1>4. CASE NextSeq(r)
  <2>1. At(r, "count") /\ Goes(r, Tail(job[r].todo), working.seq + 1)
        /\ working' = [working EXCEPT !.seq = @ + 1] /\ disk' = disk
    BY <1>4 DEF NextSeq, Writes
  <2>2. ~Mesh /\ Left(r) = 5
    BY <1>0, <2>1 DEF At, Placed
  <2> QED
    BY <1>3, <2>1, <2>2 DEF AppendEffect
<1>5. CASE FindIdentity(r)
  <2>1. At(r, "identity") /\ (ReadsOn(r, job[r].read) \/ Ends(r, "refused"))
    BY <1>5 DEF FindIdentity
  <2>2. ~Mesh /\ Left(r) > 6
    BY <1>0, <2>1 DEF At, Placed
  <2>3. CASE Ends(r, "refused")
    BY <1>0, <1>2, <2>2, <2>3 DEF AppendEffect
  <2>4. CASE ReadsOn(r, job[r].read)
    BY <1>3, <2>2, <2>4 DEF ReadsOn, AppendEffect
  <2> QED
    BY <2>1, <2>3, <2>4
<1>6. CASE ReadHead(r)
  <2>1. /\ At(r, "head")
        /\ \/ ReadsOn(r, job[r].read) /\ r.prev = working.head[r.actor]
           \/ Ends(r, "refused")
    BY <1>6 DEF ReadHead
  <2>2. ~Mesh /\ Left(r) = 6
    BY <1>0, <2>1 DEF At, Placed
  <2>3. CASE Ends(r, "refused")
    BY <1>0, <1>2, <2>2, <2>3 DEF AppendEffect
  <2>4. CASE ReadsOn(r, job[r].read) /\ r.prev = working.head[r.actor]
    BY <1>3, <2>2, <2>4 DEF ReadsOn, AppendEffect
  <2> QED
    BY <2>1, <2>3, <2>4
<1>7. CASE CheckChain(r)
  <2>1. /\ At(r, "chain")
        /\ \/ /\ ReadsOn(r, r.seq)
              /\ r.prev = working.head[r.actor] /\ r.seq = HeadSeq(r.actor) + 1
           \/ Ends(r, "refused")
    BY <1>7 DEF CheckChain
  <2>2. Mesh /\ Left(r) > 3
    BY <1>0, <2>1 DEF At, Placed
  <2>3. CASE Ends(r, "refused")
    BY <1>0, <1>2, <2>2, <2>3 DEF AppendEffect
  <2>4. CASE ReadsOn(r, r.seq) /\ r.prev = working.head[r.actor] /\ r.seq = HeadSeq(r.actor) + 1
    BY <1>3, <2>2, <2>4 DEF ReadsOn, AppendEffect
  <2> QED
    BY <2>1, <2>3, <2>4
<1>8. CASE InsertEvent(r) \/ InsertNumbered(r)
  <2>1. At(r, "insert") \/ At(r, "number")
    BY <1>8 DEF InsertEvent, InsertNumbered
  <2>2. Left(r) = 3 /\ (At(r, "insert") => ~Mesh) /\ (At(r, "number") => Mesh)
    BY <1>0, <2>1 DEF At, Placed
  <2>3. CASE r.id \in {e.id : e \in working.log}
    <3>1. Ends(r, "raised")
      BY <1>8, <2>3 DEF InsertEvent, InsertNumbered
    <3> QED
      BY <1>2, <2>2, <3>1 DEF AppendEffect
  <2>4. CASE r.id \notin {e.id : e \in working.log}
    <3>1. /\ Goes(r, Tail(job[r].todo), job[r].read) /\ disk' = disk
          /\ working' = [working EXCEPT !.log = @ \cup
                           {LoggedAs(r, IF Mesh THEN r.seq ELSE job[r].read)}]
      <4>1. CASE InsertEvent(r)
        BY <2>2, <2>4, <4>1 DEF InsertEvent, Writes, LoggedAs
      <4>2. CASE InsertNumbered(r)
        BY <2>2, <2>4, <4>2 DEF InsertNumbered, Writes, LoggedAs
      <4> QED
        BY <1>8, <4>1, <4>2
    <3> QED
      BY <1>3, <2>2, <2>4, <3>1 DEF AppendEffect
  <2> QED
    BY <2>3, <2>4
<1>9. CASE MoveHead(r)
  <2>1. /\ At(r, "lead") /\ Goes(r, Tail(job[r].todo), job[r].read)
        /\ working' = [working EXCEPT !.head[r.actor] = r.id] /\ disk' = disk
    BY <1>9 DEF MoveHead, Writes
  <2>2. Left(r) = 2
    BY <1>0, <2>1 DEF At, Placed
  <2> QED
    BY <1>3, <2>1, <2>2 DEF AppendEffect
<1>10. CASE Commit(r)
  <2>1. /\ At(r, "commit") /\ Goes(r, Tail(job[r].todo), job[r].read)
        /\ working' = working /\ disk' = working
    BY <1>10 DEF Commit
  <2>2. Left(r) = 1 \/ (Left(r) = 4 /\ ~Mesh)
    BY <1>0, <2>1 DEF At, Placed
  <2> QED
    BY <1>3, <2>1, <2>2 DEF AppendEffect
<1>11. ~(\/ ReadVersion(r) \/ Replace(r) \/ PutIdentity(r) \/ OpenChannel(r)
         \/ OwnerJoins(r) \/ CreateObject(r))
  BY <1>0 DEF ReadVersion, Replace, PutIdentity, OpenChannel, OwnerJoins, CreateObject, At, Placed
<1> QED
  BY <1>1, <1>4, <1>5, <1>6, <1>7, <1>8, <1>9, <1>10, <1>11 DEF PlainStep

PutEffect(r) ==
  \/ Halts(r) /\ Left(r) > (IF Mesh THEN 2 ELSE 4)
  \/ /\ Advances(r)
     /\ \/ ~Mesh /\ Left(r) > 5 /\ working' = working /\ disk' = disk
        \/ /\ Left(r) > (IF Mesh THEN 2 ELSE 4)
           /\ r.version > working.rows[r.object].version
           /\ working' = working /\ disk' = disk
        \/ /\ Left(r) = (IF Mesh THEN 2 ELSE 4) /\ disk' = disk
           /\ working' = [working EXCEPT !.rows[r.object] =
                            [version |-> r.version, sources |-> r.sources]]
        \/ /\ ~Mesh /\ Left(r) = 2 /\ disk' = disk
           /\ working' = [working EXCEPT !.seq = @ + 1]
        \/ Left(r) = 1 /\ working' = working /\ disk' = working
        \/ ~Mesh /\ Left(r) = 3 /\ working' = working /\ disk' = working

\* A request that neither reduces nor executes runs none of their statements.
PlainOnly(r) ==
  /\ r.op \notin {"reduce", "execute"}
  /\ ~FeedStep(r) /\ ~ViewStep(r) /\ ~PlanStep(r)

LEMMA PlainRequests ==
  ASSUME TypeInv, NEW r \in Running, r.op \notin {"reduce", "execute"}
  PROVE  PlainOnly(r)
<1>0. job[r].todo[1] = Head(job[r].todo) /\ Placed(r, job[r].todo[1][1], Left(r))
  BY RunningAsks, StandsAt
<1>1. ~FeedStep(r)
  BY <1>0 DEF FeedStep, Reduce, Define, FetchLog, FetchHead, At, Placed
<1>2. ~ViewStep(r)
  BY <1>0 DEF ViewStep, OpenView, FetchEvents, FetchTip, Lookup, StoreResult, ReturnView, At, Placed
<1>3. ~PlanStep(r)
  BY <1>0 DEF PlanStep, Plan, FetchFollows, FetchActor, FetchActorHead, FetchBatch, At, Placed
<1> QED
  BY <1>1, <1>2, <1>3 DEF PlainOnly

LEMMA PutsDo ==
  ASSUME TypeInv, NEW r \in Asks, Step(r), r.op = "put"
  PROVE  PutEffect(r) /\ OnlyJob(r)
<1>0. /\ r \in Running /\ job[r].todo[1] = Head(job[r].todo)
      /\ Placed(r, job[r].todo[1][1], Left(r)) /\ Left(r) \in Nat \ {0}
  BY RunningAsks, StandsAt DEF Step
<1>1. PlainStep(r) \/ Commit(r)
  BY <1>0, PlainRequests DEF Step, PlainOnly
<1>2. CASE NextSeq(r)
  <2>1. At(r, "count") /\ Goes(r, Tail(job[r].todo), working.seq + 1)
        /\ working' = [working EXCEPT !.seq = @ + 1] /\ disk' = disk
    BY <1>2 DEF NextSeq, Writes
  <2>2. ~Mesh /\ Left(r) = 2
    BY <1>0, <2>1 DEF At, Placed
  <2> QED
    BY <1>0, AdvancesOnly, <2>1, <2>2 DEF PutEffect
<1>3. CASE FindIdentity(r)
  <2>1. At(r, "identity") /\ (ReadsOn(r, job[r].read) \/ Ends(r, "refused"))
    BY <1>3 DEF FindIdentity
  <2>2. ~Mesh /\ Left(r) > 5 /\ Left(r) > 4
    BY <1>0, <2>1 DEF At, Placed
  <2>3. CASE Ends(r, "refused")
    BY <1>0, HaltsOnly, <2>2, <2>3 DEF PutEffect
  <2>4. CASE ReadsOn(r, job[r].read)
    BY <1>0, AdvancesOnly, <2>2, <2>4 DEF ReadsOn, PutEffect
  <2> QED
    BY <2>1, <2>3, <2>4
<1>4. CASE ReadVersion(r)
  <2>1. /\ At(r, "version")
        /\ \/ ReadsOn(r, job[r].read) /\ r.version > working.rows[r.object].version
           \/ Ends(r, "refused")
    BY <1>4 DEF ReadVersion
  <2>2. Left(r) > (IF Mesh THEN 2 ELSE 4)
    <3>1. Fits(r, 1, Left(r), "version")
      BY <1>0, <2>1, RunningAsks DEF At
    <3>2. PutName(Left(r)) = "version"
      BY <3>1 DEF Fits
    <3> QED
      BY <1>0, <3>2 DEF PutName
  <2>3. CASE Ends(r, "refused")
    BY <1>0, HaltsOnly, <2>2, <2>3 DEF PutEffect
  <2>4. CASE ReadsOn(r, job[r].read) /\ r.version > working.rows[r.object].version
    BY <1>0, AdvancesOnly, <2>2, <2>4 DEF ReadsOn, PutEffect
  <2> QED
    BY <2>1, <2>3, <2>4
<1>5. CASE Replace(r)
  <2>1. /\ Goes(r, Tail(job[r].todo), job[r].read) /\ At(r, "replace")
        /\ working' = [working EXCEPT !.rows[r.object] =
                         [version |-> r.version, sources |-> r.sources]]
        /\ disk' = disk
    BY <1>5 DEF Replace, Writes
  <2>2. Left(r) = IF Mesh THEN 2 ELSE 4
    BY <1>0, <2>1 DEF At, Placed
  <2> QED
    BY <1>0, AdvancesOnly, <2>1, <2>2 DEF PutEffect
<1>6. CASE Commit(r)
  <2>1. /\ At(r, "commit") /\ Goes(r, Tail(job[r].todo), job[r].read)
        /\ working' = working /\ disk' = working
    BY <1>6 DEF Commit
  <2>2. Left(r) = 1 \/ (Left(r) = 3 /\ ~Mesh)
    BY <1>0, <2>1 DEF At, Placed
  <2> QED
    BY <1>0, AdvancesOnly, <2>1, <2>2 DEF PutEffect
<1>7. ~(\/ ReadHead(r) \/ CheckChain(r) \/ InsertEvent(r) \/ InsertNumbered(r)
        \/ MoveHead(r) \/ PutIdentity(r) \/ OpenChannel(r)
        \/ OwnerJoins(r) \/ CreateObject(r))
  BY <1>0 DEF ReadHead, CheckChain, InsertEvent, InsertNumbered, MoveHead,
       PutIdentity, OpenChannel, OwnerJoins, CreateObject, At, Placed
<1> QED
  BY <1>1, <1>2, <1>3, <1>4, <1>5, <1>6, <1>7 DEF PlainStep

ChannelEffect(r) ==
  \/ Halts(r) /\ Left(r) > 2
  \/ /\ Advances(r)
     /\ \/ /\ Left(r) > 2 /\ disk' = disk
           /\ working' = [working EXCEPT !.channels = @ \cup {r.object}]
        \/ /\ Left(r) = 2 /\ disk' = disk
           /\ working' = [working EXCEPT !.members = @ \cup {<<r.object, r.actor>>}]
        \/ Left(r) = 1 /\ working' = working /\ disk' = working

LEMMA ChannelsDo ==
  ASSUME TypeInv, NEW r \in Asks, Step(r), r.op = "channel"
  PROVE  ChannelEffect(r) /\ OnlyJob(r)
<1>0. /\ r \in Running /\ job[r].todo[1] = Head(job[r].todo)
      /\ Placed(r, job[r].todo[1][1], Left(r)) /\ Left(r) \in Nat \ {0}
  BY RunningAsks, StandsAt DEF Step
<1>1. PlainStep(r) \/ Commit(r)
  BY <1>0, PlainRequests DEF Step, PlainOnly
<1>2. CASE OpenChannel(r)
  <2>1. /\ At(r, "open")
        /\ \/ Ends(r, "raised")
           \/ /\ Goes(r, Tail(job[r].todo), job[r].read) /\ disk' = disk
              /\ working' = [working EXCEPT !.channels = @ \cup {r.object}]
    BY <1>2 DEF OpenChannel, Writes
  <2>2. Left(r) > 2
    BY <1>0, <2>1 DEF At, Placed
  <2> QED
    BY <1>0, HaltsOnly, AdvancesOnly, <2>1, <2>2 DEF ChannelEffect
<1>3. CASE OwnerJoins(r)
  <2>1. /\ Goes(r, Tail(job[r].todo), job[r].read) /\ At(r, "own") /\ disk' = disk
        /\ working' = [working EXCEPT !.members = @ \cup {<<r.object, r.actor>>}]
    BY <1>3 DEF OwnerJoins, Writes
  <2>2. Left(r) = 2
    BY <1>0, <2>1 DEF At, Placed
  <2> QED
    BY <1>0, AdvancesOnly, <2>1, <2>2 DEF ChannelEffect
<1>4. CASE Commit(r)
  <2>1. /\ At(r, "commit") /\ Goes(r, Tail(job[r].todo), job[r].read)
        /\ working' = working /\ disk' = working
    BY <1>4 DEF Commit
  <2>2. Left(r) = 1
    BY <1>0, <2>1 DEF At, Placed
  <2> QED
    BY <1>0, AdvancesOnly, <2>1, <2>2 DEF ChannelEffect
<1>5. ~(\/ NextSeq(r) \/ ReadVersion(r) \/ Replace(r) \/ InsertEvent(r)
        \/ MoveHead(r) \/ PutIdentity(r) \/ FindIdentity(r) \/ ReadHead(r)
        \/ CreateObject(r) \/ CheckChain(r) \/ InsertNumbered(r))
  BY <1>0 DEF NextSeq, ReadVersion, Replace, InsertEvent, MoveHead, PutIdentity, FindIdentity,
       ReadHead, CreateObject, CheckChain, InsertNumbered, At, Placed
<1> QED
  BY <1>1, <1>2, <1>3, <1>4, <1>5 DEF PlainStep

\* A request of another kind leaves logs, heads, rows and channels alone, or saves them.
Keeps ==
  /\ working'.log = working.log /\ working'.head = working.head
  /\ working'.rows = working.rows
  /\ working'.channels = working.channels /\ working'.members = working.members
  /\ working'.seq >= working.seq
  /\ disk' = disk \/ (working' = working /\ disk' = working)

LEMMA OthersDo ==
  ASSUME TypeInv, NEW r \in Asks, Step(r), r.op \notin {"append", "put", "channel"}
  PROVE  Keeps /\ OnlyJob(r)
<1>0. /\ r \in Running /\ job[r].todo[1] = Head(job[r].todo)
      /\ Placed(r, job[r].todo[1][1], Left(r)) /\ Left(r) \in Nat \ {0}
      /\ working.seq \in Nat /\ DOMAIN working = Fields
  BY RunningAsks, StandsAt DEF Step, TypeInv, TablesType
<1>1. working' = working /\ (disk' = disk \/ disk' = working) => Keeps
  BY <1>0 DEF Keeps
<1>2. CASE PlainStep(r)
  <2>1. ~(\/ ReadVersion(r) \/ Replace(r) \/ InsertEvent(r) \/ FindIdentity(r)
          \/ MoveHead(r) \/ ReadHead(r) \/ OpenChannel(r) \/ OwnerJoins(r)
          \/ CheckChain(r) \/ InsertNumbered(r))
    BY <1>0 DEF ReadVersion, Replace, InsertEvent, MoveHead, FindIdentity, ReadHead, OpenChannel,
         OwnerJoins, CheckChain, InsertNumbered, At, Placed
  <2>2. CASE NextSeq(r)
    <3>1. Goes(r, Tail(job[r].todo), working.seq + 1) /\ disk' = disk
          /\ working' = [working EXCEPT !.seq = @ + 1]
      BY <2>2 DEF NextSeq, Writes
    <3>2. Keeps
      BY <1>0, <3>1 DEF Keeps, Fields
    <3> QED
      BY <1>0, <3>1, <3>2, AdvancesOnly
  <2>3. CASE PutIdentity(r) \/ CreateObject(r)
    <3>1. \/ Ends(r, "raised")
          \/ /\ Goes(r, Tail(job[r].todo), job[r].read) /\ disk' = disk
             /\ \E x : working' \in {[working EXCEPT !.actors = x], [working EXCEPT !.objects = x]}
      BY <2>3 DEF PutIdentity, CreateObject, Writes
    <3>2. CASE Ends(r, "raised")
      BY <1>0, <1>1, <3>2, HaltsOnly DEF Halts
    <3>3. CASE /\ Goes(r, Tail(job[r].todo), job[r].read) /\ disk' = disk
               /\ \E x : working' \in {[working EXCEPT !.actors = x], [working EXCEPT !.objects = x]}
      <4>1. Keeps
        BY <1>0, <3>3 DEF Keeps, Fields
      <4> QED
        BY <1>0, <3>3, <4>1, AdvancesOnly
    <3> QED
      BY <3>1, <3>2, <3>3
  <2> QED
    BY <1>2, <2>1, <2>2, <2>3 DEF PlainStep
<1>3. CASE Commit(r)
  BY <1>0, <1>1, <1>3, AdvancesOnly DEF Commit
<1>4. ASSUME NEW todo, NEW read, Goes(r, todo, read)
      PROVE  OnlyJob(r)
  BY <1>0, <1>4, GoesOnly
<1>5. CASE FeedStep(r)
  <2>1. working' = working /\ disk' = disk /\
        ((\E todo, read : Goes(r, todo, read)) \/ Ends(r, "refused"))
    BY <1>5 DEF FeedStep, Reduce, Define, FetchLog, FetchHead, ReadsOn, Ends
  <2> QED
    BY <1>0, <1>1, <1>4, <2>1, HaltsOnly
<1>6. CASE PlanStep(r)
  <2>1. working' = working /\ disk' = disk /\
        ((\E todo, read : Goes(r, todo, read)) \/ Ends(r, "refused"))
    BY <1>6 DEF PlanStep, Plan, FetchFollows, FetchActor, FetchActorHead, FetchBatch, ReadsOn, Ends
  <2> QED
    BY <1>0, <1>1, <1>4, <2>1, HaltsOnly
<1>7. CASE ViewStep(r) /\ ~StoreResult(r)
  <2>1. working' = working /\ disk' = disk /\
        ((\E todo, read : Goes(r, todo, read)) \/ Ends(r, "refused"))
    BY <1>7 DEF ViewStep, OpenView, ExecuteView, FetchEvents, FetchTip, Lookup, ReturnView, ReadsOn, Ends
  <2> QED
    BY <1>0, <1>1, <1>4, <2>1, HaltsOnly
<1>8. CASE StoreResult(r)
  <2>1. Goes(r, Tail(job[r].todo), job[r].read) /\ disk' = disk
        /\ \E x : working' = [working EXCEPT !.cache = x]
    BY <1>8 DEF StoreResult, Writes
  <2>2. Keeps
    BY <1>0, <2>1 DEF Keeps, Fields
  <2> QED
    BY <1>4, <2>1, <2>2
<1> QED
  BY <1>2, <1>3, <1>5, <1>6, <1>7, <1>8 DEF Step

-----------------------------------------------------------------------------
(***************************************************************************)
(* Logs: what is saved, numbered, and chained.                             *)
(***************************************************************************)
Relay   == storeRun.store = "relay"
Lost(r) == job[r].answer = "lost"

\* An append whose event is there, and of these one whose head is still to be moved,
\* and one that is not done
IsWritten(r) == /\ r.op = "append"
                /\ job[r].answer = "ok" \/ (r \in Running /\ Left(r) \in {1, 2})
Acked(r)   == r.op = "append" /\ job[r].answer = "ok"
Leading(r) == r.op = "append" /\ r \in Running /\ Left(r) = 2
InWrite(r) == r.op = "append" /\ r \in Running /\ Left(r) \in {1, 2}

\* One that found the head it follows, and one that has its number
HeadRead(r) == r.op = "append" /\ r \in Running /\ Left(r) \in (IF Mesh THEN {3} ELSE 3 .. 5)
Given(r)   == ~Mesh /\ r.op = "append" /\ r \in Running /\ Left(r) \in {3, 4}

LogOf(t, a) == {e \in t.log : e.actor = a}

\* Overlapping goes both ways, and what runs overlaps all that runs.
MeetInv ==
  /\ \A q, r \in Asks : q # r =>
       /\ q \in job[r].met <=> r \in job[q].met
       /\ q \in Running /\ r \in Running => q \in job[r].met
  /\ \A r \in Asks : job[r].answer = "none" => job[r].met = {}

HeadsFit(t) ==
  \A a \in StoreActors :
    t.head[a] # "none" => \E e \in t.log : e.id = t.head[a] /\ e.actor = a

EventsInv ==
  /\ disk.log \subseteq working.log
  /\ \A d, e \in working.log : d.id = e.id => d = e
  /\ \A q \in Asks : \A e \in working.log : e.by = q => IsWritten(q) \/ Lost(q)
  /\ \A r \in Asks : IsWritten(r) => \E e \in working.log : e.by = r
  /\ \A r \in Asks : Acked(r) => \E e \in disk.log : e.by = r
  /\ HeadsFit(working) /\ HeadsFit(disk)

\* Where no append of an actor is writing, the disk has its log as it is.
SavedInv ==
  \A a \in StoreActors : (\A q \in Appends({a}) : ~InWrite(q)) =>
    working.head[a] = disk.head[a] /\ LogOf(working, a) = LogOf(disk, a)

UpToSeq(t) == \A e \in t.log : e.seq <= t.seq

CountsInv ==
  ~Mesh =>
  /\ UpToSeq(working) /\ UpToSeq(disk)
  /\ \A r \in Asks : Given(r) =>
       /\ job[r].read <= working.seq
       /\ \A e \in working.log : e.seq # job[r].read
       /\ \A q \in Asks : q # r /\ Given(q) => job[q].read # job[r].read
  /\ \A d, e \in working.log : d.seq = e.seq => d = e

Chained(t) ==
  \A e \in t.log :
    e.prev # "none" => \E d \in t.log : d.id = e.prev /\ d.actor = e.actor /\ d.seq < e.seq

ChainInv ==
  Relay =>
  /\ Chained(working) /\ Chained(disk)
  /\ \A r \in Asks : HeadRead(r) /\ r.prev # "none" =>
       \E d \in working.log : /\ d.id = r.prev /\ d.actor = r.actor
                              /\ Given(r) => d.seq < job[r].read

\* Nothing follows an event whose head is not moved yet; and the head an event
\* followed is not a head any more once it is the head.
TipsInv ==
  Relay =>
  /\ \A q \in Asks : Leading(q) =>
       /\ \A a \in StoreActors : working.head[a] # q.id
       /\ \A e \in working.log : e.prev # q.id
       /\ \A r \in Asks : HeadRead(r) => r.prev # q.id
  /\ \A q \in Asks : \A d \in working.log : d.by = q =>
       /\ IsWritten(q) /\ ~Leading(q) => working.head[d.actor] # d.prev
       /\ Acked(q) => disk.head[d.actor] # d.prev

ForksInv ==
  Relay =>
  /\ \A r \in Asks : HeadRead(r) => \A q \in Asks : \A d \in working.log :
       d.by = q /\ d.actor = r.actor /\ d.prev = r.prev => q \in job[r].met \/ Lost(q)
  /\ \A p, q \in Asks : \A d, e \in working.log :
       d # e /\ d.by = p /\ e.by = q /\ d.actor = e.actor /\ d.prev = e.prev =>
         q \in job[p].met \/ Lost(p) \/ Lost(q)

LastSeq(t, a) == Cardinality(LogOf(t, a))

HeadSeqOf(t, a) ==
  IF t.head[a] = "none" THEN 0 ELSE (CHOOSE e \in t.log : e.id = t.head[a]).seq

Numbered(t) ==
  \A a \in StoreActors :
    /\ {e.seq : e \in LogOf(t, a)} = 1 .. LastSeq(t, a)
    /\ \A e \in LogOf(t, a) :
         IF e.seq = 1 THEN e.prev = "none"
                      ELSE \E d \in LogOf(t, a) : d.seq = e.seq - 1 /\ e.prev = d.id

NumbersInv ==
  Mesh =>
  /\ \A e \in working.log : e.seq = e.by.seq
  /\ Numbered(working) /\ Numbered(disk)
  /\ \A q \in Asks : HeadRead(q) =>
       /\ q.seq \in 1 .. (HeadSeqOf(working, q.actor) + 1)
       /\ IF q.seq = 1 THEN q.prev = "none"
          ELSE \E d \in LogOf(working, q.actor) : d.seq = q.seq - 1 /\ q.prev = d.id

LeadInv ==
  Mesh => \A a \in StoreActors :
    /\ \/ HeadSeqOf(working, a) = LastSeq(working, a)
       \/ /\ HeadSeqOf(working, a) = LastSeq(working, a) - 1
          /\ \E q \in Appends({a}) : Leading(q) \/ Lost(q)
    /\ \/ HeadSeqOf(disk, a) = LastSeq(disk, a)
       \/ /\ HeadSeqOf(disk, a) = LastSeq(disk, a) - 1
          /\ \E q \in Appends({a}) : InWrite(q) \/ Lost(q)
    /\ \A q \in Appends({a}) : Leading(q) =>
         q.seq = LastSeq(working, a) /\ HeadSeqOf(working, a) = LastSeq(working, a) - 1

-----------------------------------------------------------------------------
(***************************************************************************)
(* Rows and channels.                                                      *)
(***************************************************************************)
\* A put that found its version new, and one that has written it
Allowed(r) == r.op = "put" /\ r \in Running /\ Left(r) = (IF Mesh THEN 2 ELSE 4)
Put(r)     == /\ r.op = "put"
              /\ \/ job[r].answer = "ok"
                 \/ r \in Running /\ Left(r) < (IF Mesh THEN 2 ELSE 4)

Outdone(r) ==
  \E q \in job[r].met : q.op = "put" /\ q.object = r.object /\ q.version < r.version

Bears(t, r) == t.rows[r.object].version >= r.version \/ Outdone(r)

RowInv ==
  \A r \in Asks :
  /\ Allowed(r) => r.version > 0
  /\ Put(r) => Bears(working, r) /\ working.rows[r.object].version > 0
  /\ r.op = "put" /\ job[r].answer = "ok" => Bears(disk, r) /\ disk.rows[r.object].version > 0
  /\ \A q \in Asks : Put(r) /\ Allowed(q) /\ q.object = r.object =>
       q.version > r.version \/ q \in job[r].met \/ Outdone(r)

Owns(t, r) == <<r.object, r.actor>> \in t.members

\* A channel that is there without its owner: its creation goes on, or was cut off.
Coming(r) == (r \in Running /\ Left(r) \in {1, 2}) \/ Lost(r)

Owned(t, c) == \E r \in Asks : r.op = "channel" /\ r.object = c /\ (Owns(t, r) \/ Coming(r))

OwnersInv ==
  /\ \A r \in Asks : r.op = "channel" /\ r \in Running =>
       Left(r) <= 3 /\ (Left(r) = 1 => Owns(working, r))
  /\ \A c \in working.channels : Owned(working, c)
  /\ \A c \in disk.channels : Owned(disk, c)

WriteInv == /\ TypeInv /\ MeetInv /\ EventsInv /\ SavedInv /\ CountsInv /\ ChainInv /\ TipsInv
            /\ ForksInv /\ NumbersInv /\ LeadInv /\ RowInv /\ OwnersInv

-----------------------------------------------------------------------------
(***************************************************************************)
(* What a step is for the appends: one of them moves on, all is calm, or   *)
(* the process ends.                                                       *)
(***************************************************************************)
Still(q) ==
  /\ IsWritten(q)' <=> IsWritten(q)
  /\ Leading(q)' <=> Leading(q)
  /\ InWrite(q)' <=> InWrite(q)
  /\ Given(q)' <=> Given(q)
  /\ Relay \/ Mesh => (HeadRead(q)' <=> HeadRead(q))
  /\ Acked(q)' <=> Acked(q)
  /\ q.op = "append" => (Lost(q)' <=> Lost(q))
  /\ HeadRead(q) \/ Given(q) => job'[q].read = job[q].read
  /\ job[q].met \subseteq job'[q].met

SameRun == storeRun' = storeRun /\ Asks' = Asks /\ (Relay' <=> Relay) /\ (Mesh' <=> Mesh)

KeepsLogs ==
  /\ working'.log = working.log /\ working'.head = working.head
  /\ working'.seq >= working.seq
  /\ disk' = disk \/ (working' = working /\ disk' = working)

CalmStep == SameRun /\ KeepsLogs /\ \A q \in Asks : Still(q)

Halting ==
  /\ SameRun /\ working' = disk /\ disk' = disk
  /\ \A q \in Asks :
       /\ IsWritten(q)' <=> Acked(q)
       /\ Acked(q)' <=> Acked(q)
       /\ ~Leading(q)' /\ ~InWrite(q)' /\ ~Given(q)' /\ ~HeadRead(q)'
       /\ Lost(q)' <=> Lost(q) \/ q \in Running
       /\ job'[q].met = job[q].met

\* An append moves on, and the others do not.
LoneStep(r) ==
  /\ SameRun /\ r \in Running /\ r.op = "append" /\ ~Lost(r) /\ ~Lost(r)' /\ ~Acked(r)
  /\ job'[r].met = job[r].met
  /\ \A q \in Asks : q # r => Still(q)

Waits(r) == ~IsWritten(r)' /\ ~Leading(r)' /\ ~InWrite(r)' /\ ~Acked(r)'

IdleStep(r) ==
  /\ Waits(r) /\ ~IsWritten(r) /\ ~HeadRead(r)' /\ ~Given(r)'
  /\ working' = working /\ disk' = disk

Check(r) ==
  /\ Waits(r) /\ ~IsWritten(r) /\ (~Mesh => ~Given(r)')
  /\ r.prev = working.head[r.actor]
  /\ Mesh => r.seq = HeadSeq(r.actor) + 1
  /\ working' = working /\ disk' = disk

Count(r) ==
  /\ Waits(r) /\ ~IsWritten(r) /\ ~Mesh /\ HeadRead(r) /\ ~Given(r)
  /\ job'[r].read = working.seq + 1
  /\ working' = [working EXCEPT !.seq = @ + 1] /\ disk' = disk

Save(r) ==
  /\ Waits(r) /\ ~IsWritten(r) /\ ~Mesh /\ HeadRead(r) /\ Given(r)
  /\ job'[r].read = job[r].read
  /\ working' = working /\ disk' = working

Insert(r) ==
  /\ IsWritten(r)' /\ Leading(r)' /\ InWrite(r)' /\ ~Acked(r)' /\ ~HeadRead(r)' /\ ~Given(r)'
  /\ ~IsWritten(r) /\ ~InWrite(r) /\ ~Leading(r) /\ HeadRead(r) /\ (~Mesh => Given(r))
  /\ r.id \notin {e.id : e \in working.log}
  /\ working' = [working EXCEPT !.log = @ \cup
                   {LoggedAs(r, IF Mesh THEN r.seq ELSE job[r].read)}]
  /\ disk' = disk

Lead(r) ==
  /\ IsWritten(r)' /\ ~Leading(r)' /\ InWrite(r)' /\ ~Acked(r)' /\ ~HeadRead(r)' /\ ~Given(r)'
  /\ IsWritten(r) /\ Leading(r) /\ InWrite(r)
  /\ working' = [working EXCEPT !.head[r.actor] = r.id] /\ disk' = disk

Close(r) ==
  /\ IsWritten(r)' /\ ~Leading(r)' /\ ~InWrite(r)' /\ Acked(r)' /\ ~HeadRead(r)' /\ ~Given(r)'
  /\ IsWritten(r) /\ ~Leading(r) /\ InWrite(r)
  /\ working' = working /\ disk' = working

Kinds(r) == IdleStep(r) \/ Check(r) \/ Count(r) \/ Save(r) \/ Insert(r) \/ Lead(r) \/ Close(r)

LEMMA OnlyStill ==
  ASSUME TypeInv, NEW r \in Asks, OnlyJob(r)
  PROVE  SameRun /\ \A q \in Asks : q # r => Still(q)
<1>1. SameRun
  BY DEF SameRun, OnlyJob, Relay, Mesh
<1>2. ASSUME NEW q \in Asks, q # r
      PROVE  Still(q)
  <2>1. job'[q] = job[q] /\ (q \in Running' <=> q \in Running) /\ Left(q)' = Left(q)
    BY <1>2 DEF OnlyJob, Running, Left
  <2> QED
    BY <1>1, <2>1 DEF Still, SameRun, IsWritten, Leading, InWrite, Given, HeadRead, Acked, Lost
<1> QED
  BY <1>1, <1>2

LEMMA OthersCalm ==
  ASSUME TypeInv, NEW r \in Asks, Step(r), r.op # "append"
  PROVE  CalmStep
<1>1. OnlyJob(r) /\ KeepsLogs
  <2>0. working.seq \in Nat /\ DOMAIN working = Fields
    BY DEF TypeInv, TablesType
  <2>1. CASE r.op = "put"
    <3>1. PutEffect(r) /\ OnlyJob(r)
      BY <2>1, PutsDo
    <3> QED
      BY <2>0, <3>1 DEF PutEffect, Halts, KeepsLogs, Fields
  <2>2. CASE r.op = "channel"
    <3>1. ChannelEffect(r) /\ OnlyJob(r)
      BY <2>2, ChannelsDo
    <3> QED
      BY <2>0, <3>1 DEF ChannelEffect, Halts, KeepsLogs, Fields
  <2>3. CASE r.op \notin {"append", "put", "channel"}
    BY <2>3, OthersDo DEF Keeps, KeepsLogs
  <2> QED
    BY <2>1, <2>2, <2>3
<1>2. SameRun /\ \A q \in Asks : q # r => Still(q)
  BY <1>1, OnlyStill
<1>3. Still(r)
  BY <1>1 DEF OnlyJob, Still, IsWritten, Leading, InWrite, Given, HeadRead, Acked
<1> QED
  BY <1>1, <1>2, <1>3 DEF CalmStep

LEMMA BeginCalm ==
  ASSUME TypeInv, MeetInv, NEW r \in Asks, JobBegins(r)
  PROVE  CalmStep
<1>1. /\ storeRun' = storeRun /\ Asks' = Asks /\ working' = working /\ disk' = disk
      /\ job[r].answer = "none" /\ DOMAIN job' = Asks
      /\ job'[r] = [todo |-> Script(r), read |-> << >>, answer |-> "running", met |-> Running]
      /\ \A q \in Asks \ {r} :
           \/ job'[q] = [job[q] EXCEPT !.met = @ \cup {r}]
           \/ job'[q] = job[q]
  BY DEF JobBegins, BeginJob, Asks
<1>2. SameRun
  BY <1>1 DEF SameRun, Relay, Mesh
<1>3. KeepsLogs
  BY <1>1 DEF KeepsLogs, TypeInv, TablesType
<1>4. ASSUME NEW q \in Asks, q # r
      PROVE  Still(q)
  <2>1. /\ job'[q].todo = job[q].todo /\ job'[q].read = job[q].read
        /\ job'[q].answer = job[q].answer /\ job[q].met \subseteq job'[q].met
    BY <1>1, <1>4 DEF TypeInv, JobType
  <2>2. (q \in Running' <=> q \in Running) /\ Left(q)' = Left(q)
    BY <1>1, <2>1 DEF Running, Left
  <2> QED
    BY <1>2, <2>1, <2>2 DEF Still, SameRun, IsWritten, Leading, InWrite, Given, HeadRead, Acked, Lost
<1>5. Still(r)
  <2>1. r \notin Running /\ job[r].answer = "none"
    BY <1>1 DEF Running
  <2>2. job'[r].answer = "running" /\ Left(r)' = Len(Script(r))
    BY <1>1 DEF Left
  <2>3. r.op = "append" => /\ Left(r)' \in {4, 5, 7} /\ (~Mesh => Left(r)' \in {5, 7})
                           /\ (Mesh => Left(r)' = 4) /\ (Relay => Left(r)' = 7)
    BY <2>2, ScriptBegins DEF Relay, Mesh
  <2>4. /\ 4 \notin {1, 2} /\ 5 \notin {1, 2} /\ 7 \notin {1, 2}
        /\ 5 \notin {3, 4} /\ 7 \notin {3, 4} /\ 4 \notin {3} /\ 7 \notin 3 .. 5
    OBVIOUS
  <2>6. /\ ~IsWritten(r)' /\ ~Leading(r)' /\ ~InWrite(r)' /\ ~Given(r)' /\ ~Acked(r)'
        /\ ~IsWritten(r) /\ ~Leading(r) /\ ~InWrite(r) /\ ~Given(r) /\ ~Acked(r) /\ ~HeadRead(r)
        /\ ~Lost(r) /\ ~Lost(r)'
    BY <1>2, <2>1, <2>2, <2>3, <2>4
       DEF SameRun, IsWritten, Leading, InWrite, Given, HeadRead, Acked, Lost
  <2>7. Relay \/ Mesh => ~HeadRead(r)'
    BY <1>2, <2>3, <2>4 DEF SameRun, HeadRead
  <2>5. job[r].met = {}
    BY <2>1 DEF MeetInv
  <2> QED
    BY <2>5, <2>6, <2>7 DEF Still
<1> QED
  BY <1>2, <1>3, <1>4, <1>5 DEF CalmStep

LEMMA AppendKinds ==
  ASSUME TypeInv, NEW r \in Asks, Step(r), r.op = "append"
  PROVE  LoneStep(r) /\ Kinds(r)
<1>0. /\ AppendEffect(r) /\ OnlyJob(r) /\ r \in Running /\ job[r].answer = "running"
      /\ Left(r) \in Nat \ {0}
  BY AppendsDo, RunningAsks DEF Step
<1>1. SameRun /\ (\A q \in Asks : q # r => Still(q)) /\ job'[r].met = job[r].met /\ r \in Asks'
  BY <1>0, OnlyStill DEF OnlyJob
<1>2. /\ IsWritten(r) <=> Left(r) \in {1, 2}
      /\ InWrite(r) <=> Left(r) \in {1, 2}
      /\ Leading(r) <=> Left(r) = 2
      /\ Given(r) <=> ~Mesh /\ Left(r) \in {3, 4}
      /\ HeadRead(r) <=> Left(r) \in (IF Mesh THEN {3} ELSE 3 .. 5)
      /\ ~Acked(r) /\ ~Lost(r)
  BY <1>0 DEF IsWritten, InWrite, Leading, Given, HeadRead, Acked, Lost
<1>3. CASE Halts(r) /\ Left(r) > 2
  <2>1. job'[r].answer \in {"refused", "raised"} /\ r \notin Running'
    BY <1>3 DEF Halts, Running
  <2>2. /\ Waits(r) /\ ~HeadRead(r)' /\ ~Given(r)' /\ ~Lost(r)'
    BY <2>1 DEF Waits, IsWritten, InWrite, Leading, Given, HeadRead, Acked, Lost
  <2>3. ~IsWritten(r)
    BY <1>0, <1>2, <1>3
  <2> QED
    BY <1>0, <1>1, <1>2, <1>3, <2>2, <2>3 DEF LoneStep, Kinds, IdleStep, Halts
<1>4. ASSUME Advances(r)
      PROVE  LET k == Left(r) - 1
             IN  /\ ~Lost(r)' /\ (Acked(r)' <=> Left(r) = 1)
                 /\ IsWritten(r)' <=> k \in {0, 1, 2}
                 /\ InWrite(r)' <=> k \in {1, 2}
                 /\ Leading(r)' <=> k = 2
                 /\ Given(r)' <=> ~Mesh /\ k \in {3, 4}
                 /\ HeadRead(r)' <=> k \in (IF Mesh THEN {3} ELSE 3 .. 5)
  <2>1. /\ job'[r].answer = (IF Left(r) = 1 THEN "ok" ELSE "running")
        /\ Left(r)' = Left(r) - 1 /\ (r \in Running' <=> Left(r) # 1)
        /\ Mesh' <=> Mesh
    BY <1>1, <1>4 DEF Advances, Running, SameRun
  <2> DEFINE k == Left(r) - 1
  <2>2. k \in Nat /\ (Left(r) = 1 <=> k = 0)
    BY <1>0
  <2> HIDE DEF k
  <2>3. Left(r)' = k
    BY <2>1 DEF k
  <2>4. 0 \notin {1, 2} /\ 0 # 2 /\ 0 \notin {3, 4} /\ 0 \notin (IF Mesh THEN {3} ELSE 3 .. 5)
    OBVIOUS
  <2>5. /\ ~Lost(r)' /\ (Acked(r)' <=> k = 0)
        /\ IsWritten(r)' <=> k \in {0, 1, 2}
        /\ InWrite(r)' <=> k \in {1, 2}
        /\ Leading(r)' <=> k = 2
        /\ Given(r)' <=> ~Mesh /\ k \in {3, 4}
        /\ HeadRead(r)' <=> k \in (IF Mesh THEN {3} ELSE 3 .. 5)
    BY <2>1, <2>2, <2>3, <2>4 DEF IsWritten, InWrite, Leading, Given, HeadRead, Acked, Lost
  <2> QED
    BY <2>2, <2>5 DEF k
<1>5. CASE Advances(r)
  <2> DEFINE k == Left(r) - 1
  <2>0. k \in Nat
    BY <1>0
  <2>1. LoneStep(r)
    BY <1>0, <1>1, <1>2, <1>4, <1>5 DEF LoneStep
  <2>2. CASE ~Mesh /\ Left(r) > 6 /\ working' = working /\ disk' = disk
    BY <1>0, <1>2, <1>4, <1>5, <2>1, <2>2 DEF Kinds, IdleStep, Waits
  <2>3. CASE \/ ~Mesh /\ Left(r) = 6 /\ r.prev = working.head[r.actor]
                /\ working' = working /\ disk' = disk
             \/ /\ Mesh /\ Left(r) > 3
                /\ r.prev = working.head[r.actor] /\ r.seq = HeadSeq(r.actor) + 1
                /\ working' = working /\ disk' = disk
    BY <1>0, <1>2, <1>4, <1>5, <2>1, <2>3 DEF Kinds, Check, Waits
  <2>4. CASE /\ ~Mesh /\ Left(r) = 5
             /\ working' = [working EXCEPT !.seq = @ + 1] /\ disk' = disk
             /\ job'[r].read = working.seq + 1
    BY <1>0, <1>2, <1>4, <1>5, <2>1, <2>4 DEF Kinds, Count, Waits
  <2>5. CASE /\ ~Mesh /\ Left(r) = 4 /\ working' = working /\ disk' = working
             /\ job'[r].read = job[r].read
    BY <1>0, <1>2, <1>4, <1>5, <2>1, <2>5 DEF Kinds, Save, Waits
  <2>6. CASE /\ Left(r) = 3 /\ r.id \notin {e.id : e \in working.log}
             /\ working' = [working EXCEPT !.log = @ \cup
                              {LoggedAs(r, IF Mesh THEN r.seq ELSE job[r].read)}]
             /\ disk' = disk
    BY <1>0, <1>2, <1>4, <1>5, <2>1, <2>6 DEF Kinds, Insert
  <2>7. CASE /\ Left(r) = 2
             /\ working' = [working EXCEPT !.head[r.actor] = r.id] /\ disk' = disk
    BY <1>0, <1>2, <1>4, <1>5, <2>1, <2>7 DEF Kinds, Lead
  <2>8. CASE Left(r) = 1 /\ working' = working /\ disk' = working
    BY <1>0, <1>2, <1>4, <1>5, <2>1, <2>8 DEF Kinds, Close
  <2> QED
    BY <1>0, <1>5, <2>1, <2>2, <2>3, <2>4, <2>5, <2>6, <2>7, <2>8 DEF AppendEffect, Advances, Halts
<1> QED
  BY <1>0, <1>3, <1>5 DEF AppendEffect

LEMMA CrashHalts ==
  ASSUME TypeInv, StoreCrash
  PROVE  Halting
<1>1. /\ storeRun' = storeRun /\ Asks' = Asks /\ working' = disk /\ disk' = disk
      /\ job' = [q \in Asks |-> IF q \in Running
                    THEN [job[q] EXCEPT !.todo = << >>, !.answer = "lost"] ELSE job[q]]
  BY DEF StoreCrash, Asks
<1>2. SameRun
  BY <1>1 DEF SameRun, Relay, Mesh
<1>3. ASSUME NEW q \in Asks
      PROVE  /\ job'[q].met = job[q].met /\ q \notin Running'
             /\ job'[q].answer = IF q \in Running THEN "lost" ELSE job[q].answer
             /\ q \in Running <=> job[q].answer = "running"
  <2>1. DOMAIN job[q] = {"todo", "read", "answer", "met"}
    BY DEF TypeInv, JobType
  <2>2. job'[q] = IF q \in Running THEN [job[q] EXCEPT !.todo = << >>, !.answer = "lost"] ELSE job[q]
    BY <1>1
  <2>3. job'[q].met = job[q].met /\ job'[q].answer = IF q \in Running THEN "lost" ELSE job[q].answer
    BY <2>1, <2>2
  <2>4. q \in Running <=> job[q].answer = "running"
    BY DEF Running
  <2>5. q \notin Running'
    BY <2>3, <2>4 DEF Running
  <2> QED
    BY <2>3, <2>4, <2>5
<1> QED
  <2>1. ASSUME NEW q \in Asks
        PROVE  /\ IsWritten(q)' <=> Acked(q)
               /\ Acked(q)' <=> Acked(q)
               /\ ~Leading(q)' /\ ~InWrite(q)' /\ ~Given(q)' /\ ~HeadRead(q)'
               /\ Lost(q)' <=> Lost(q) \/ q \in Running
    BY <1>3 DEF IsWritten, InWrite, Leading, Given, HeadRead, Acked, Lost
  <2> QED
    BY <1>1, <1>2, <1>3, <2>1 DEF Halting

LEMMA LogSteps ==
  ASSUME TypeInv, MeetInv, [StoresNext]_storeVars
  PROVE  CalmStep \/ Halting \/ \E r \in Asks : LoneStep(r) /\ Kinds(r)
<1>1. CASE UNCHANGED storeVars
  <2>1. /\ storeRun' = storeRun /\ job' = job /\ working' = working /\ disk' = disk
        /\ Asks' = Asks /\ Running' = Running
    BY <1>1 DEF storeVars, Asks, Running
  <2>2. SameRun /\ KeepsLogs
    BY <2>1 DEF SameRun, Relay, Mesh, KeepsLogs, TypeInv, TablesType
  <2>3. \A q \in Asks : Still(q)
    BY <2>1, <2>2 DEF SameRun, Still, IsWritten, InWrite, Leading, Given, HeadRead, Acked, Lost, Left
  <2> QED
    BY <2>2, <2>3 DEF CalmStep
<1>2. ASSUME NEW r \in Running,
             PlainStep(r) \/ Commit(r) \/ FeedStep(r) \/ ViewStep(r) \/ PlanStep(r)
      PROVE  CalmStep \/ (r \in Asks /\ LoneStep(r) /\ Kinds(r))
  <2>1. Step(r) /\ r \in Asks
    BY <1>2 DEF Step, Running
  <2> QED
    BY <2>1, OthersCalm, AppendKinds
<1> QED
  BY <1>1, <1>2, StepsOf, BeginCalm, CrashHalts

LEMMA MetStep ==
  ASSUME TypeInv, MeetInv, [StoresNext]_storeVars
  PROVE  MeetInv'
<1>1. CASE UNCHANGED storeVars
  BY <1>1 DEF storeVars, MeetInv, Running, Asks
<1>2. ASSUME NEW r \in Asks, JobBegins(r)
      PROVE  MeetInv'
  <2>1. /\ Asks' = Asks /\ job[r].answer = "none" /\ r \notin Running
        /\ job'[r].met = Running /\ job'[r].answer = "running"
        /\ \A q \in Asks \ {r} :
             /\ job'[q].answer = job[q].answer
             /\ job'[q].met = IF q \in Running THEN job[q].met \cup {r} ELSE job[q].met
    <3>1. /\ Asks' = Asks /\ job[r].answer = "none" /\ r \notin Running
          /\ job'[r] = [todo |-> Script(r), read |-> << >>, answer |-> "running", met |-> Running]
          /\ \A q \in Asks \ {r} :
               job'[q] = IF q \in Running THEN [job[q] EXCEPT !.met = @ \cup {r}] ELSE job[q]
      BY <1>2 DEF JobBegins, BeginJob, Asks, Running
    <3>2. ASSUME NEW q \in Asks \ {r}
          PROVE  /\ job'[q].answer = job[q].answer
                 /\ job'[q].met = IF q \in Running THEN job[q].met \cup {r} ELSE job[q].met
      <4>1. DOMAIN job[q] = {"todo", "read", "answer", "met"}
        BY DEF TypeInv, JobType
      <4> QED
        BY <3>1, <4>1
    <3>3. job'[r].met = Running /\ job'[r].answer = "running"
      BY <3>1
    <3> QED
      BY <3>1, <3>2, <3>3
  <2>2. Running' = Running \cup {r}
    BY <2>1 DEF Running
  <2>3. job[r].met = {} /\ \A q \in Asks \ {r} : r \notin job[q].met
    BY <2>1 DEF MeetInv
  <2>4. \A q \in Asks \ {r} : (r \in job'[q].met <=> q \in Running)
    BY <2>1, <2>3
  <2>5. \A p, q \in Asks \ {r} : p # q => (p \in job'[q].met <=> p \in job[q].met)
    BY <2>1
  <2>6. \A q \in Asks \ {r} : q \in Running => job[q].answer = "running"
    BY DEF Running
  <2>7. ASSUME NEW p \in Asks, NEW q \in Asks, p # q
        PROVE  /\ p \in job'[q].met <=> q \in job'[p].met
               /\ p \in Running' /\ q \in Running' => p \in job'[q].met
    <3>1. CASE p # r /\ q # r
      BY <2>1, <2>2, <2>5, <2>7, <3>1 DEF MeetInv
    <3>2. CASE p = r
      BY <2>1, <2>2, <2>4, <2>7, <3>2
    <3>3. CASE q = r
      BY <2>1, <2>2, <2>4, <2>7, <3>3
    <3> QED
      BY <3>1, <3>2, <3>3
  <2>8. ASSUME NEW q \in Asks, job'[q].answer = "none"
        PROVE  job'[q].met = {}
    BY <2>1, <2>6, <2>8 DEF MeetInv
  <2> QED
    BY <2>1, <2>7, <2>8 DEF MeetInv
<1>3. ASSUME NEW r \in Asks, OnlyJob(r), r \in Running
      PROVE  MeetInv'
  <2>1. /\ Asks' = Asks /\ Running' \subseteq Running
        /\ \A q \in Asks : job'[q].met = job[q].met /\ (q = r \/ job'[q].answer = job[q].answer)
    BY <1>3 DEF OnlyJob, Running
  <2>2. \A q \in Asks : job'[q].answer = "none" => job[q].answer = "none"
    BY <1>3, <2>1 DEF OnlyJob
  <2> QED
    BY <2>1, <2>2 DEF MeetInv
<1>4. CASE StoreCrash
  <2>1. Halting
    BY <1>4, CrashHalts
  <2>2. /\ Running' = {} /\ Asks' = Asks
        /\ \A q \in Asks : /\ job'[q].met = job[q].met
                           /\ job'[q].answer = "none" => job[q].answer = "none"
    <3>1. job' = [q \in Asks |-> IF q \in Running
                    THEN [job[q] EXCEPT !.todo = << >>, !.answer = "lost"] ELSE job[q]]
      BY <1>4 DEF StoreCrash
    <3>2. \A q \in Asks : job'[q].answer = IF q \in Running THEN "lost" ELSE job[q].answer
      <4>1. ASSUME NEW q \in Asks
            PROVE  job'[q].answer = IF q \in Running THEN "lost" ELSE job[q].answer
        <5>1. DOMAIN job[q] = {"todo", "read", "answer", "met"}
          BY DEF TypeInv, JobType
        <5> QED
          BY <3>1, <5>1
      <4> QED
        BY <4>1
    <3> QED
      BY <2>1, <3>2 DEF Halting, SameRun, Running
  <2> QED
    BY <2>2 DEF MeetInv
<1>5. ASSUME NEW r \in Running,
             PlainStep(r) \/ Commit(r) \/ FeedStep(r) \/ ViewStep(r) \/ PlanStep(r)
      PROVE  MeetInv'
  <2>1. Step(r) /\ r \in Asks
    BY <1>5 DEF Step, Running
  <2>2. OnlyJob(r)
    BY <2>1, AppendsDo, PutsDo, ChannelsDo, OthersDo
  <2> QED
    BY <1>3, <2>1, <2>2
<1> QED
  BY <1>1, <1>2, <1>4, <1>5, StepsOf

\* What the kinds of step do to logs and heads
LEMMA Insertion ==
  ASSUME TypeInv, NEW r \in Asks, LoneStep(r), Insert(r)
  PROVE  LET n == IF Mesh THEN r.seq ELSE job[r].read
             e == LoggedAs(r, n)
         IN  /\ working'.log = working.log \cup {e} /\ working'.head = working.head
             /\ working'.seq = working.seq /\ disk' = disk
             /\ e.id = r.id /\ e.actor = r.actor /\ e.prev = r.prev /\ e.seq = n /\ e.by = r
             /\ \A d \in working.log : d.id # r.id
<1>1. DOMAIN working = Fields
  BY DEF TypeInv, TablesType
<1> QED
  BY <1>1 DEF Insert, Fields, LoggedAs

LEMMA Tipping ==
  ASSUME TypeInv, NEW r \in Asks, LoneStep(r), Lead(r)
  PROVE  /\ working'.log = working.log /\ working'.seq = working.seq /\ disk' = disk
         /\ r.actor \in StoreActors /\ r.id # "none"
         /\ working'.head[r.actor] = r.id
         /\ \A a \in StoreActors : a # r.actor => working'.head[a] = working.head[a]
<1>1. DOMAIN working = Fields /\ working.head \in [StoreActors -> KnownIds]
  BY DEF TypeInv, TablesType
<1>2. r.actor \in StoreActors /\ r.id # "none"
  BY RequestsFit DEF LoneStep
<1> QED
  BY <1>1, <1>2 DEF Lead, Fields

LEMMA CountStep ==
  ASSUME TypeInv, NEW r \in Asks, LoneStep(r), Count(r)
  PROVE  /\ working'.log = working.log /\ working'.head = working.head
         /\ working'.seq = working.seq + 1 /\ working.seq \in Nat /\ disk' = disk
         /\ job'[r].read = working.seq + 1
<1>1. DOMAIN working = Fields /\ working.seq \in Nat
  BY DEF TypeInv, TablesType
<1> QED
  BY <1>1 DEF Count, Fields

LEMMA EventFacts ==
  ASSUME TypeInv
  PROVE  \A t \in {working, disk} : \A e \in t.log :
           /\ e.by \in Asks /\ e.by.op = "append" /\ e.seq \in Nat
           /\ e.id = e.by.id /\ e.actor = e.by.actor /\ e.prev = e.by.prev
           /\ e.actor \in StoreActors /\ e.id # "none"
<1>1. ASSUME NEW t \in {working, disk}, NEW e \in t.log
      PROVE  /\ e.by \in Asks /\ e.by.op = "append" /\ e.seq \in Nat
             /\ e.id = e.by.id /\ e.actor = e.by.actor /\ e.prev = e.by.prev
  <2>1. e.by \in Appenders /\ e.seq \in Nat /\ e = LoggedAs(e.by, e.seq)
    BY DEF TypeInv, TablesType
  <2> QED
    BY <2>1 DEF LoggedAs, Appenders
<1>2. \A r \in Asks : r.op = "append" => r.actor \in StoreActors /\ r.id # "none"
  BY RequestsFit
<1> QED
  BY <1>1, <1>2

LEMMA EventsStep ==
  ASSUME TypeInv, TypeInv', MeetInv, EventsInv, [StoresNext]_storeVars
  PROVE  EventsInv'
<1>0. \A t \in {working, disk} : \A e \in t.log : e.by \in Asks /\ e.by.op = "append" /\ e.id = e.by.id
  BY EventFacts
<1>1. CASE CalmStep
  <2>1. /\ Asks' = Asks /\ working'.log = working.log /\ working'.head = working.head
        /\ disk' = disk \/ (working' = working /\ disk' = working)
        /\ \A q \in Asks : /\ (IsWritten(q)' <=> IsWritten(q)) /\ (Acked(q)' <=> Acked(q))
                           /\ q.op = "append" => (Lost(q)' <=> Lost(q))
    BY <1>1 DEF CalmStep, SameRun, KeepsLogs, Still
  <2>2. \A q \in Asks : Acked(q) => IsWritten(q)
    BY DEF Acked, IsWritten
  <2> QED
    BY <1>0, <2>1, <2>2 DEF EventsInv, HeadsFit
<1>2. CASE Halting
  <2>1. /\ Asks' = Asks /\ working' = disk /\ disk' = disk
        /\ \A q \in Asks : /\ (IsWritten(q)' <=> Acked(q)) /\ (Acked(q)' <=> Acked(q))
                           /\ Lost(q)' <=> Lost(q) \/ q \in Running
    BY <1>2 DEF Halting, SameRun
  <2>2. \A q \in Asks : IsWritten(q) => Acked(q) \/ q \in Running
    BY DEF Acked, IsWritten
  <2> QED
    BY <1>0, <2>1, <2>2 DEF EventsInv, HeadsFit
<1>3. ASSUME NEW r \in Asks, LoneStep(r), Kinds(r)
      PROVE  EventsInv'
  <2>1. /\ Asks' = Asks /\ ~Lost(r) /\ ~Lost(r)' /\ ~Acked(r) /\ r.op = "append"
        /\ \A q \in Asks \ {r} : /\ (IsWritten(q)' <=> IsWritten(q)) /\ (Acked(q)' <=> Acked(q))
                                 /\ q.op = "append" => (Lost(q)' <=> Lost(q))
    BY <1>3 DEF LoneStep, SameRun, Still
  <2>2. \A q \in Asks : Acked(q) => IsWritten(q)
    BY DEF Acked, IsWritten
  <2>3. CASE IdleStep(r) \/ Check(r) \/ Count(r) \/ Save(r)
    <3>1. /\ working'.log = working.log /\ working'.head = working.head
          /\ disk' = disk \/ (working' = working /\ disk' = working)
          /\ ~IsWritten(r) /\ ~IsWritten(r)' /\ ~Acked(r)'
      BY <1>3, <2>3, CountStep DEF IdleStep, Check, Count, Save, Waits
    <3> QED
      BY <1>0, <2>1, <2>2, <3>1 DEF EventsInv, HeadsFit
  <2>4. CASE Insert(r)
    <3> DEFINE n == IF Mesh THEN r.seq ELSE job[r].read
               e == LoggedAs(r, n)
    <3>1. /\ working'.log = working.log \cup {e} /\ working'.head = working.head /\ disk' = disk
          /\ e.id = r.id /\ e.by = r /\ \A d \in working.log : d.id # r.id
      BY <1>3, <2>4, Insertion
    <3> HIDE DEF e
    <3>2. IsWritten(r)' /\ ~Acked(r)' /\ ~IsWritten(r)
      BY <2>4 DEF Insert
    <3> QED
      BY <1>0, <2>1, <2>2, <3>1, <3>2 DEF EventsInv, HeadsFit
  <2>5. CASE Lead(r)
    <3>1. /\ working'.log = working.log /\ disk' = disk /\ r.actor \in StoreActors
          /\ working'.head[r.actor] = r.id
          /\ \A a \in StoreActors : a # r.actor => working'.head[a] = working.head[a]
      BY <1>3, <2>5, Tipping
    <3>2. IsWritten(r)' /\ ~Acked(r)' /\ IsWritten(r)
      BY <2>5 DEF Lead
    <3>3. \E e \in working.log : e.id = r.id /\ e.actor = r.actor
      <4>1. PICK e \in working.log : e.by = r
        BY <3>2 DEF EventsInv
      <4> QED
        BY <4>1, EventFacts
    <3> QED
      BY <1>0, <2>1, <2>2, <3>1, <3>2, <3>3 DEF EventsInv, HeadsFit
  <2>6. CASE Close(r)
    <3>1. IsWritten(r)' /\ IsWritten(r) /\ working' = working /\ disk' = working
      BY <2>6 DEF Close
    <3> QED
      BY <1>0, <2>1, <2>2, <3>1 DEF EventsInv, HeadsFit
  <2> QED
    BY <1>3, <2>3, <2>4, <2>5, <2>6 DEF Kinds
<1> QED
  BY <1>1, <1>2, <1>3, LogSteps

\* Each of the parts of the invariant, kept by a calm step, a crash, and the appends
LEMMA SavedStep ==
  ASSUME TypeInv, TypeInv', MeetInv, EventsInv, SavedInv, [StoresNext]_storeVars
  PROVE  SavedInv'
<1>1. ASSUME NEW a \in StoreActors, (\A q \in Appends({a}) : ~InWrite(q))', CalmStep \/ Halting
      PROVE  working'.head[a] = disk'.head[a] /\ LogOf(working, a)' = LogOf(disk, a)'
  <2>1. CASE CalmStep
    <3>1. /\ Asks' = Asks /\ working'.log = working.log /\ working'.head = working.head
          /\ disk' = disk \/ (working' = working /\ disk' = working)
          /\ \A q \in Asks : InWrite(q)' <=> InWrite(q)
      BY <2>1 DEF CalmStep, SameRun, KeepsLogs, Still
    <3>2. \A q \in Appends({a}) : ~InWrite(q)
      BY <1>1, <3>1 DEF Appends
    <3> QED
      BY <3>1, <3>2 DEF SavedInv, LogOf
  <2>2. CASE Halting
    BY <2>2 DEF Halting, LogOf
  <2> QED
    BY <1>1, <2>1, <2>2
<1>2. ASSUME NEW a \in StoreActors, (\A q \in Appends({a}) : ~InWrite(q))',
             NEW r \in Asks, LoneStep(r), Kinds(r)
      PROVE  working'.head[a] = disk'.head[a] /\ LogOf(working, a)' = LogOf(disk, a)'
  <2>1. /\ Asks' = Asks /\ r.op = "append"
        /\ \A q \in Asks \ {r} : InWrite(q)' <=> InWrite(q)
    BY <1>2 DEF LoneStep, SameRun, Still
  <2>2. Appends({a})' = Appends({a}) /\ \A q \in Appends({a}) : q \in Asks /\ ~InWrite(q)'
    BY <1>2, <2>1 DEF Appends
  <2>3. CASE Save(r) \/ Close(r)
    BY <2>3 DEF Save, Close, LogOf
  <2>4. CASE IdleStep(r) \/ Check(r) \/ Count(r)
    <3>1. /\ working'.log = working.log /\ working'.head = working.head /\ disk' = disk
          /\ ~InWrite(r)
      BY <1>2, <2>4, CountStep DEF IdleStep, Check, Count, IsWritten, InWrite
    <3>2. \A q \in Appends({a}) : ~InWrite(q)
      BY <2>1, <2>2, <3>1
    <3> QED
      BY <3>1, <3>2 DEF SavedInv, LogOf
  <2>5. CASE Insert(r) \/ Lead(r)
    <3>1. InWrite(r)'
      BY <2>5 DEF Insert, Lead
    <3>2. r.actor # a
      BY <2>1, <2>2, <3>1 DEF Appends
    <3>3. \A q \in Appends({a}) : ~InWrite(q)
      BY <2>1, <2>2, <3>2 DEF Appends
    <3>4. working'.head[a] = working.head[a] /\ LogOf(working, a)' = LogOf(working, a) /\ disk' = disk
      <4>1. CASE Insert(r)
        <5> DEFINE n == IF Mesh THEN r.seq ELSE job[r].read
                   e == LoggedAs(r, n)
        <5>1. /\ working'.log = working.log \cup {e} /\ working'.head = working.head /\ disk' = disk
              /\ e.actor = r.actor
          BY <1>2, <4>1, Insertion
        <5> HIDE DEF e
        <5> QED
          BY <3>2, <5>1 DEF LogOf
      <4>2. CASE Lead(r)
        BY <1>2, <3>2, <4>2, Tipping DEF LogOf
      <4> QED
        BY <2>5, <4>1, <4>2
    <3> QED
      BY <3>3, <3>4 DEF SavedInv, LogOf
  <2> QED
    BY <1>2, <2>3, <2>4, <2>5 DEF Kinds
<1> QED
  BY <1>1, <1>2, LogSteps DEF SavedInv

LEMMA CountsStep ==
  ASSUME TypeInv, TypeInv', MeetInv, EventsInv, CountsInv, [StoresNext]_storeVars
  PROVE  CountsInv'
<1>0. /\ working.seq \in Nat /\ disk.seq \in Nat
      /\ \A e \in working.log : e.seq \in Nat
      /\ \A r \in Asks : Given(r) => job[r].read \in Nat
  BY EventFacts DEF TypeInv, TablesType, JobType, ReadType, Given
<1>1. CASE Mesh
  <2>1. Mesh'
    <3>1. SameRun
      BY LogSteps DEF CalmStep, Halting, LoneStep
    <3> QED
      BY <1>1, <3>1 DEF SameRun
  <2> QED
    BY <2>1 DEF CountsInv
<1>2. CASE ~Mesh /\ CalmStep
  <2>1. /\ Asks' = Asks /\ working'.log = working.log /\ working'.seq >= working.seq
        /\ working'.seq \in Nat
        /\ disk' = disk \/ (working' = working /\ disk' = working)
        /\ \A q \in Asks : (Given(q)' <=> Given(q)) /\ (Given(q) => job'[q].read = job[q].read)
    BY <1>2 DEF CalmStep, SameRun, KeepsLogs, Still, TypeInv, TablesType
  <2>2. UpToSeq(working)' /\ UpToSeq(disk)'
    BY <1>0, <1>2, <2>1 DEF CountsInv, UpToSeq
  <2> QED
    BY <1>0, <1>2, <2>1, <2>2 DEF CountsInv
<1>3. CASE ~Mesh /\ Halting
  <2>1. /\ Asks' = Asks /\ working' = disk /\ disk' = disk /\ \A q \in Asks : ~Given(q)'
    BY <1>3 DEF Halting, SameRun
  <2>2. disk.log \subseteq working.log
    BY DEF EventsInv
  <2> QED
    BY <1>3, <2>1, <2>2 DEF CountsInv, UpToSeq
<1>4. ASSUME ~Mesh, NEW r \in Asks, LoneStep(r), Kinds(r)
      PROVE  CountsInv'
  <2>1. /\ Asks' = Asks /\ r.op = "append"
        /\ \A q \in Asks \ {r} : /\ Given(q)' <=> Given(q)
                                 /\ Given(q) => job'[q].read = job[q].read
    BY <1>4 DEF LoneStep, SameRun, Still
  <2>2. CASE IdleStep(r) \/ Check(r) \/ Lead(r) \/ Close(r)
    <3>1. /\ working'.log = working.log /\ working'.seq = working.seq /\ ~Given(r)'
          /\ disk' = disk \/ (working' = working /\ disk' = working)
      BY <1>4, <2>2, Tipping DEF IdleStep, Check, Lead, Close
    <3>2. UpToSeq(working)' /\ UpToSeq(disk)'
      BY <1>0, <1>4, <3>1 DEF CountsInv, UpToSeq
    <3> QED
      BY <1>0, <1>4, <2>1, <3>1, <3>2 DEF CountsInv
  <2>3. CASE Save(r)
    <3>1. /\ working' = working /\ disk' = working /\ job'[r].read = job[r].read /\ Given(r)
      BY <2>3 DEF Save
    <3>2. UpToSeq(working)' /\ UpToSeq(disk)'
      BY <1>0, <1>4, <3>1 DEF CountsInv, UpToSeq
    <3> QED
      BY <1>0, <1>4, <2>1, <3>1, <3>2 DEF CountsInv
  <2>4. CASE Count(r)
    <3>1. /\ working'.log = working.log /\ working'.seq = working.seq + 1 /\ disk' = disk
          /\ job'[r].read = working.seq + 1
      BY <1>4, <2>4, CountStep
    <3>2. UpToSeq(working)' /\ UpToSeq(disk)'
      BY <1>0, <1>4, <3>1 DEF CountsInv, UpToSeq
    <3>3. \A e \in working.log : e.seq # working.seq + 1
      BY <1>0, <1>4 DEF CountsInv, UpToSeq
    <3>4. \A q \in Asks : Given(q) => job[q].read # working.seq + 1 /\ job[q].read <= working.seq + 1
      BY <1>0, <1>4 DEF CountsInv
    <3> QED
      BY <1>0, <1>4, <2>1, <3>1, <3>2, <3>3, <3>4 DEF CountsInv
  <2>5. CASE Insert(r)
    <3> DEFINE e == LoggedAs(r, job[r].read)
    <3>1. /\ working'.log = working.log \cup {e} /\ working'.seq = working.seq /\ disk' = disk
          /\ e.seq = job[r].read
      BY <1>4, <2>5, Insertion
    <3> HIDE DEF e
    <3>2. Given(r) /\ ~Given(r)'
      BY <1>4, <2>5 DEF Insert
    <3>3. UpToSeq(working)' /\ UpToSeq(disk)'
      BY <1>0, <1>4, <3>1, <3>2 DEF CountsInv, UpToSeq
    <3> QED
      BY <1>0, <1>4, <2>1, <3>1, <3>2, <3>3 DEF CountsInv
  <2> QED
    BY <1>4, <2>2, <2>3, <2>4, <2>5 DEF Kinds
<1> QED
  BY <1>1, <1>2, <1>3, <1>4, LogSteps

LEMMA ChainStep ==
  ASSUME TypeInv, TypeInv', MeetInv, EventsInv, CountsInv, ChainInv, [StoresNext]_storeVars
  PROVE  ChainInv'
<1>0. /\ Relay => ~Mesh
      /\ working.seq \in Nat /\ \A e \in working.log : e.seq \in Nat
      /\ \A r \in Asks : Given(r) => job[r].read \in Nat
  BY EventFacts DEF Relay, Mesh, TypeInv, TablesType, JobType, ReadType, Given
<1>1. CASE ~Relay
  <2>1. SameRun
    BY LogSteps DEF CalmStep, Halting, LoneStep
  <2> QED
    BY <1>1, <2>1 DEF SameRun, ChainInv
<1>2. CASE Relay /\ CalmStep
  <2>1. /\ Asks' = Asks /\ working'.log = working.log
        /\ disk' = disk \/ (working' = working /\ disk' = working)
        /\ \A q \in Asks : /\ (HeadRead(q)' <=> HeadRead(q)) /\ (Given(q)' <=> Given(q))
                           /\ (Given(q) => job'[q].read = job[q].read)
    BY <1>2 DEF CalmStep, SameRun, KeepsLogs, Still
  <2>2. Chained(working)' /\ Chained(disk)'
    BY <1>2, <2>1 DEF ChainInv, Chained
  <2> QED
    BY <1>2, <2>1, <2>2 DEF ChainInv
<1>3. CASE Relay /\ Halting
  <2>1. /\ Asks' = Asks /\ working' = disk /\ disk' = disk /\ \A q \in Asks : ~HeadRead(q)'
    BY <1>3 DEF Halting, SameRun
  <2> QED
    BY <1>3, <2>1 DEF ChainInv, Chained
<1>4. ASSUME Relay, NEW r \in Asks, LoneStep(r), Kinds(r)
      PROVE  ChainInv'
  <2>1. /\ Asks' = Asks /\ r.op = "append"
        /\ \A q \in Asks \ {r} : /\ (HeadRead(q)' <=> HeadRead(q)) /\ (Given(q)' <=> Given(q))
                                 /\ (Given(q) => job'[q].read = job[q].read)
    BY <1>4 DEF LoneStep, SameRun, Still
  <2>2. Chained(working) /\ Chained(disk) /\ ~Mesh
    BY <1>0, <1>4 DEF ChainInv
  <2>3. CASE IdleStep(r) \/ Lead(r) \/ Close(r)
    <3>1. /\ working'.log = working.log /\ ~HeadRead(r)'
          /\ disk' = disk \/ (working' = working /\ disk' = working)
      BY <1>4, <2>3, Tipping DEF IdleStep, Lead, Close
    <3>2. Chained(working)' /\ Chained(disk)'
      BY <2>2, <3>1 DEF Chained
    <3> QED
      BY <1>4, <2>1, <3>1, <3>2 DEF ChainInv
  <2>4. CASE Check(r)
    <3>1. /\ working' = working /\ disk' = disk /\ ~Given(r)' /\ r.prev = working.head[r.actor]
      BY <2>2, <2>4 DEF Check
    <3>2. r.prev # "none" => \E d \in working.log : d.id = r.prev /\ d.actor = r.actor
      BY <2>1, <3>1, RequestsFit DEF EventsInv, HeadsFit
    <3>3. Chained(working)' /\ Chained(disk)'
      BY <2>2, <3>1
    <3> QED
      BY <1>4, <2>1, <3>1, <3>2, <3>3 DEF ChainInv
  <2>5. CASE Count(r)
    <3>1. /\ working'.log = working.log /\ disk' = disk
          /\ job'[r].read = working.seq + 1 /\ HeadRead(r)
      BY <1>4, <2>5, CountStep DEF Count
    <3>2. r.prev # "none" => \E d \in working.log : /\ d.id = r.prev /\ d.actor = r.actor
                                                    /\ d.seq < job'[r].read
      <4>1. \A d \in working.log : d.seq < working.seq + 1
        BY <1>0, <2>2 DEF CountsInv, UpToSeq
      <4> QED
        BY <1>4, <3>1, <4>1 DEF ChainInv
    <3>3. Chained(working)' /\ Chained(disk)'
      BY <2>2, <3>1 DEF Chained
    <3> QED
      BY <1>4, <2>1, <3>1, <3>2, <3>3 DEF ChainInv
  <2>6. CASE Save(r)
    <3>1. /\ working' = working /\ disk' = working /\ HeadRead(r) /\ Given(r)
          /\ job'[r].read = job[r].read
      BY <2>6 DEF Save
    <3>3. Chained(working)' /\ Chained(disk)'
      BY <2>2, <3>1
    <3> QED
      BY <1>4, <2>1, <3>1, <3>3 DEF ChainInv
  <2>7. CASE Insert(r)
    <3> DEFINE n == IF Mesh THEN r.seq ELSE job[r].read
               e == LoggedAs(r, n)
    <3>1. /\ working'.log = working.log \cup {e} /\ disk' = disk
          /\ e.actor = r.actor /\ e.prev = r.prev /\ e.seq = job[r].read
      BY <1>4, <2>2, <2>7, Insertion
    <3> HIDE DEF e
    <3>2. HeadRead(r) /\ Given(r) /\ ~HeadRead(r)'
      BY <2>2, <2>7 DEF Insert
    <3>3. e.prev # "none" =>
            \E d \in working.log : d.id = e.prev /\ d.actor = e.actor /\ d.seq < e.seq
      BY <1>4, <3>1, <3>2 DEF ChainInv
    <3>4. Chained(working)' /\ Chained(disk)'
      BY <2>2, <3>1, <3>3 DEF Chained
    <3> QED
      BY <1>4, <2>1, <3>1, <3>2, <3>4 DEF ChainInv
  <2> QED
    BY <1>4, <2>3, <2>4, <2>5, <2>6, <2>7 DEF Kinds
<1> QED
  BY <1>1, <1>2, <1>3, <1>4, LogSteps

LEMMA TipsStep ==
  ASSUME TypeInv, TypeInv', MeetInv, EventsInv, ChainInv, TipsInv, [StoresNext]_storeVars
  PROVE  TipsInv'
<1>0. /\ \A q \in Asks : /\ Acked(q) => IsWritten(q) /\ ~Leading(q)
                         /\ Leading(q) => IsWritten(q)
      /\ \A q \in Asks : Leading(q) \/ HeadRead(q) => q.op = "append"
      /\ Relay => ~Mesh
  BY DEF Acked, Leading, IsWritten, HeadRead, Running, Relay, Mesh
<1>1. CASE ~Relay
  <2>1. SameRun
    BY LogSteps DEF CalmStep, Halting, LoneStep
  <2> QED
    BY <1>1, <2>1 DEF SameRun, TipsInv
<1>2. CASE Relay /\ CalmStep
  <2>1. /\ Asks' = Asks /\ working'.log = working.log /\ working'.head = working.head
        /\ disk' = disk \/ (working' = working /\ disk' = working)
        /\ \A q \in Asks : /\ (HeadRead(q)' <=> HeadRead(q)) /\ (Leading(q)' <=> Leading(q))
                           /\ (IsWritten(q)' <=> IsWritten(q)) /\ (Acked(q)' <=> Acked(q))
    BY <1>2 DEF CalmStep, SameRun, KeepsLogs, Still
  <2> QED
    BY <1>0, <1>2, <2>1 DEF TipsInv
<1>3. CASE Relay /\ Halting
  <2>1. /\ Asks' = Asks /\ working' = disk /\ disk' = disk
        /\ \A q \in Asks : ~Leading(q)' /\ (Acked(q)' <=> Acked(q)) /\ (IsWritten(q)' <=> Acked(q))
    BY <1>3 DEF Halting, SameRun
  <2>2. disk.log \subseteq working.log
    BY DEF EventsInv
  <2> QED
    BY <1>3, <2>1, <2>2 DEF TipsInv
<1>4. ASSUME Relay, NEW r \in Asks, LoneStep(r), Kinds(r)
      PROVE  TipsInv'
  <2>1. /\ Asks' = Asks /\ r.op = "append" /\ r.actor \in StoreActors /\ r.id # "none"
        /\ \A q \in Asks \ {r} : /\ (HeadRead(q)' <=> HeadRead(q)) /\ (Leading(q)' <=> Leading(q))
                                 /\ (IsWritten(q)' <=> IsWritten(q)) /\ (Acked(q)' <=> Acked(q))
    BY <1>4, RequestsFit DEF LoneStep, SameRun, Still
  <2>2. ~Mesh /\ (Relay' <=> Relay)
    BY <1>0, <1>4 DEF LoneStep, SameRun
  <2>3. CASE IdleStep(r) \/ Check(r) \/ Count(r) \/ Save(r)
    <3>1. /\ working'.log = working.log /\ working'.head = working.head
          /\ disk' = disk \/ (working' = working /\ disk' = working)
          /\ ~Leading(r)' /\ ~IsWritten(r)' /\ ~Acked(r)'
          /\ HeadRead(r)' => HeadRead(r) \/ r.prev = working.head[r.actor]
      BY <1>4, <2>3, CountStep DEF IdleStep, Check, Count, Save, Waits
    <3> QED
      BY <1>0, <1>4, <2>1, <3>1 DEF TipsInv
  <2>4. CASE Insert(r)
    <3> DEFINE n == IF Mesh THEN r.seq ELSE job[r].read
               e == LoggedAs(r, n)
    <3>1. /\ working'.log = working.log \cup {e} /\ disk' = disk /\ working'.head = working.head
          /\ e.by = r /\ e.prev = r.prev /\ \A d \in working.log : d.id # r.id
      BY <1>4, <2>2, <2>4, Insertion
    <3> HIDE DEF e
    <3>2. HeadRead(r) /\ ~HeadRead(r)' /\ Leading(r)' /\ ~Acked(r)'
      BY <2>2, <2>4 DEF Insert
    <3>3. /\ \A a \in StoreActors : working.head[a] # r.id
          /\ \A d \in working.log : d.prev # r.id
          /\ \A q \in Asks : HeadRead(q) => q.prev # r.id
      BY <1>4, <2>1, <3>1 DEF EventsInv, HeadsFit, ChainInv, Chained
    <3>4. ASSUME NEW q \in Asks, Leading(q)'
          PROVE  /\ \A a \in StoreActors : working'.head[a] # q.id
                 /\ \A d \in working'.log : d.prev # q.id
                 /\ \A p \in Asks : HeadRead(p)' => p.prev # q.id
      <4>1. CASE q = r
        BY <2>1, <3>1, <3>2, <3>3, <4>1
      <4>2. CASE q # r
        BY <1>4, <2>1, <3>1, <3>2, <3>4, <4>2 DEF TipsInv
      <4> QED
        BY <4>1, <4>2
    <3>5. ASSUME NEW q \in Asks, NEW d \in working'.log, d.by = q
          PROVE  /\ IsWritten(q)' /\ ~Leading(q)' => working'.head[d.actor] # d.prev
                 /\ Acked(q)' => disk'.head[d.actor] # d.prev
      <4>1. CASE q = r
        BY <3>2, <4>1
      <4>2. CASE q # r
        BY <1>4, <2>1, <3>1, <3>5, <4>2 DEF TipsInv
      <4> QED
        BY <4>1, <4>2
    <3> QED
      BY <2>1, <3>4, <3>5 DEF TipsInv
  <2>5. CASE Lead(r)
    <3>1. /\ working'.log = working.log /\ disk' = disk /\ working'.head[r.actor] = r.id
          /\ \A a \in StoreActors : a # r.actor => working'.head[a] = working.head[a]
      BY <1>4, <2>5, Tipping
    <3>2. Leading(r) /\ ~Leading(r)' /\ ~HeadRead(r)' /\ ~Acked(r)'
      BY <2>5 DEF Lead
    <3>3. \A q \in Asks : Leading(q) /\ q # r => q.id # r.id
      <4>1. ASSUME NEW q \in Asks, Leading(q), q # r
            PROVE  q.id # r.id
        <5>1. PICK d \in working.log : d.by = q
          BY <1>0, <4>1 DEF EventsInv
        <5>2. PICK e \in working.log : e.by = r
          BY <1>0, <3>2 DEF EventsInv
        <5>3. d.id = q.id /\ e.id = r.id
          BY <5>1, <5>2, EventFacts
        <5> QED
          BY <4>1, <5>1, <5>2, <5>3 DEF EventsInv
      <4> QED
        BY <4>1
    <3>4. ASSUME NEW q \in Asks, Leading(q)'
          PROVE  /\ \A a \in StoreActors : working'.head[a] # q.id
                 /\ \A d \in working'.log : d.prev # q.id
                 /\ \A p \in Asks : HeadRead(p)' => p.prev # q.id
      <4>1. q # r /\ Leading(q)
        BY <2>1, <3>2, <3>4
      <4> QED
        BY <1>4, <2>1, <3>1, <3>2, <3>3, <4>1 DEF TipsInv
    <3>5. ASSUME NEW q \in Asks, NEW d \in working'.log, d.by = q
          PROVE  /\ IsWritten(q)' /\ ~Leading(q)' => working'.head[d.actor] # d.prev
                 /\ Acked(q)' => disk'.head[d.actor] # d.prev
      <4>1. d \in working.log /\ d.actor = q.actor /\ d.prev # r.id /\ d.actor \in StoreActors
        BY <1>4, <3>1, <3>2, <3>5, EventFacts DEF TipsInv
      <4>2. CASE q = r
        BY <3>1, <3>2, <4>1, <4>2
      <4>3. CASE q # r
        BY <1>4, <2>1, <3>1, <3>5, <4>1, <4>3 DEF TipsInv
      <4> QED
        BY <4>2, <4>3
    <3> QED
      BY <2>1, <3>4, <3>5 DEF TipsInv
  <2>6. CASE Close(r)
    <3>1. /\ working' = working /\ disk' = working /\ IsWritten(r) /\ ~Leading(r)
          /\ ~Leading(r)' /\ ~HeadRead(r)'
      BY <2>6 DEF Close
    <3> QED
      BY <1>0, <1>4, <2>1, <3>1 DEF TipsInv
  <2> QED
    BY <1>4, <2>3, <2>4, <2>5, <2>6 DEF Kinds
<1> QED
  BY <1>1, <1>2, <1>3, <1>4, LogSteps

LEMMA ForksStep ==
  ASSUME TypeInv, TypeInv', MeetInv, EventsInv, TipsInv, ForksInv, [StoresNext]_storeVars
  PROVE  ForksInv'
<1>0. /\ \A q \in Asks : Leading(q) \/ HeadRead(q) => q.op = "append" /\ q \in Running
      /\ Relay => ~Mesh
      /\ \A e \in working.log : e.by \in Asks /\ e.by.op = "append"
  BY EventFacts DEF Leading, HeadRead, Relay, Mesh
<1>1. CASE ~Relay
  <2>1. SameRun
    BY LogSteps DEF CalmStep, Halting, LoneStep
  <2> QED
    BY <1>1, <2>1 DEF SameRun, ForksInv
<1>2. CASE Relay /\ CalmStep
  <2>1. /\ Asks' = Asks /\ working'.log = working.log
        /\ \A q \in Asks : /\ (HeadRead(q)' <=> HeadRead(q)) /\ job[q].met \subseteq job'[q].met
                           /\ q.op = "append" => (Lost(q)' <=> Lost(q))
    BY <1>2 DEF CalmStep, SameRun, KeepsLogs, Still
  <2> QED
    BY <1>0, <1>2, <2>1 DEF ForksInv
<1>3. CASE Relay /\ Halting
  <2>1. /\ Asks' = Asks /\ working' = disk
        /\ \A q \in Asks : ~HeadRead(q)' /\ (Lost(q) => Lost(q)') /\ job'[q].met = job[q].met
    BY <1>3 DEF Halting, SameRun
  <2>2. disk.log \subseteq working.log
    BY DEF EventsInv
  <2> QED
    BY <1>3, <2>1, <2>2 DEF ForksInv
<1>4. ASSUME Relay, NEW r \in Asks, LoneStep(r), Kinds(r)
      PROVE  ForksInv'
  <2>1. /\ Asks' = Asks /\ r.op = "append" /\ r.actor \in StoreActors /\ ~Lost(r) /\ ~Lost(r)'
        /\ r \in Running /\ job'[r].met = job[r].met
        /\ \A q \in Asks \ {r} : /\ (HeadRead(q)' <=> HeadRead(q)) /\ job[q].met \subseteq job'[q].met
                                 /\ q.op = "append" => (Lost(q)' <=> Lost(q))
    BY <1>4, RequestsFit DEF LoneStep, SameRun, Still
  <2>2. ~Mesh /\ (Relay' <=> Relay)
    BY <1>0, <1>4 DEF LoneStep, SameRun
  <2>3. CASE \/ IdleStep(r) \/ Count(r) \/ Save(r) \/ Lead(r) \/ Close(r)
    <3>1. working'.log = working.log /\ (HeadRead(r)' => HeadRead(r))
      BY <1>4, <2>3, CountStep, Tipping DEF IdleStep, Count, Save, Lead, Close
    <3> QED
      BY <1>0, <1>4, <2>1, <3>1 DEF ForksInv
  <2>4. CASE Check(r)
    <3>1. working' = working /\ r.prev = working.head[r.actor] /\ ~IsWritten(r)
      BY <2>4 DEF Check
    <3>2. ASSUME NEW q \in Asks, NEW d \in working.log, d.by = q, d.actor = r.actor, d.prev = r.prev
          PROVE  q \in job[r].met \/ Lost(q)
      <4>1. IsWritten(q) \/ Lost(q)
        BY <3>2 DEF EventsInv
      <4>2. CASE Lost(q)
        BY <4>2
      <4>3. CASE IsWritten(q)
        <5>1. Leading(q)
          BY <1>4, <3>1, <3>2, <4>3 DEF TipsInv
        <5>2. q \in Running /\ q # r
          BY <1>0, <3>1, <4>3, <5>1
        <5> QED
          BY <2>1, <5>2 DEF MeetInv
      <4> QED
        BY <4>1, <4>2, <4>3
    <3> QED
      BY <1>0, <1>4, <2>1, <3>1, <3>2 DEF ForksInv
  <2>5. CASE Insert(r)
    <3> DEFINE n == IF Mesh THEN r.seq ELSE job[r].read
               e == LoggedAs(r, n)
    <3>1. /\ working'.log = working.log \cup {e}
          /\ e.by = r /\ e.prev = r.prev /\ e.actor = r.actor
      BY <1>4, <2>2, <2>5, Insertion
    <3> HIDE DEF e
    <3>2. HeadRead(r) /\ ~HeadRead(r)' /\ ~IsWritten(r)
      BY <2>2, <2>5 DEF Insert
    <3>3. \A d \in working.log : d.by # r
      BY <2>1, <3>2 DEF EventsInv
    <3>4. ASSUME NEW q \in Asks, HeadRead(q)', NEW p \in Asks, NEW d \in working'.log,
                 d.by = p, d.actor = q.actor, d.prev = q.prev
          PROVE  p \in job'[q].met \/ Lost(p)'
      <4>1. q # r /\ HeadRead(q) /\ q \in Running
        BY <1>0, <2>1, <3>2, <3>4
      <4>2. CASE d = e
        BY <2>1, <3>1, <3>4, <4>1, <4>2 DEF MeetInv
      <4>3. CASE d \in working.log
        <5>1. p \in job[q].met \/ Lost(p)
          BY <1>4, <3>4, <4>1, <4>3 DEF ForksInv
        <5>2. p # r /\ p.op = "append"
          BY <1>0, <3>3, <3>4, <4>3
        <5> QED
          BY <2>1, <4>1, <5>1, <5>2
      <4> QED
        BY <3>1, <4>2, <4>3
    <3>5. ASSUME NEW d \in working.log
          PROVE  /\ d.by # r /\ d.by \in Asks /\ d.by.op = "append"
                 /\ d.actor = r.actor /\ d.prev = r.prev =>
                      (d.by \in job[r].met /\ r \in job[d.by].met) \/ job[d.by].answer = "lost"
      <4> DEFINE p == d.by
      <4>1. p # r /\ p \in Asks /\ p.op = "append"
        BY <1>0, <3>3
      <4>2. d.actor = r.actor /\ d.prev = r.prev => p \in job[r].met \/ Lost(p)
        BY <1>4, <3>2, <4>1 DEF ForksInv
      <4>3. p \in job[r].met <=> r \in job[p].met
        BY <4>1 DEF MeetInv
      <4> QED
        BY <4>1, <4>2, <4>3 DEF Lost
    <3>6. ASSUME NEW p \in Asks, NEW q \in Asks, NEW d \in working'.log, NEW f \in working'.log,
                 d # f, d.by = p, f.by = q, d.actor = f.actor, d.prev = f.prev
          PROVE  q \in job'[p].met \/ Lost(p)' \/ Lost(q)'
      <4>1. CASE d \in working.log /\ f \in working.log
        <5>1. p # r /\ q # r /\ p.op = "append" /\ q.op = "append"
          BY <3>5, <3>6, <4>1
        <5>2. q \in job[p].met \/ Lost(p) \/ Lost(q)
          BY <1>4, <3>6, <4>1 DEF ForksInv
        <5> QED
          BY <2>1, <5>1, <5>2
      <4>2. CASE d \in working.log /\ f = e
        <5>1. p # r /\ q = r /\ p.op = "append" /\ (r \in job[p].met \/ Lost(p))
          BY <3>1, <3>5, <3>6, <4>2 DEF Lost
        <5> QED
          BY <2>1, <5>1
      <4>3. CASE d = e /\ f \in working.log
        <5>1. q # r /\ p = r /\ q.op = "append" /\ (q \in job[r].met \/ Lost(q))
          BY <3>1, <3>5, <3>6, <4>3 DEF Lost
        <5> QED
          BY <2>1, <5>1
      <4> QED
        BY <3>1, <3>6, <4>1, <4>2, <4>3
    <3> QED
      BY <2>1, <3>4, <3>6 DEF ForksInv
  <2> QED
    BY <1>4, <2>3, <2>4, <2>5 DEF Kinds
<1> QED
  BY <1>1, <1>2, <1>3, <1>4, LogSteps

-----------------------------------------------------------------------------
(***************************************************************************)
(* Mesh: an event gets the number after the last one, or none.             *)
(***************************************************************************)
LEMMA HeadSeqIs ==
  ASSUME NEW t, NEW a,
         \A d, e \in t.log : d.id = e.id => d = e,
         \A e \in t.log : e.id # "none" /\ e.seq \in Nat,
         t.head[a] # "none" => \E e \in t.log : e.id = t.head[a]
  PROVE  /\ HeadSeqOf(t, a) \in Nat
         /\ t.head[a] = "none" => HeadSeqOf(t, a) = 0
         /\ \A e \in t.log : e.id = t.head[a] => HeadSeqOf(t, a) = e.seq
<1>1. CASE t.head[a] = "none"
  BY <1>1 DEF HeadSeqOf
<1>2. CASE t.head[a] # "none"
  <2>1. PICK d \in t.log : d.id = t.head[a]
    BY <1>2
  <2>2. \A e \in t.log : e.id = t.head[a] => e = d
    BY <2>1
  <2>3. (CHOOSE e \in t.log : e.id = t.head[a]) = d
    BY <2>1, <2>2
  <2> QED
    BY <1>2, <2>1, <2>2, <2>3 DEF HeadSeqOf
<1> QED
  BY <1>1, <1>2

LEMMA LikeTables ==
  ASSUME NEW t, NEW s, t.log = s.log, t.head = s.head
  PROVE  /\ Numbered(t) <=> Numbered(s)
         /\ \A a : HeadSeqOf(t, a) = HeadSeqOf(s, a) /\ LastSeq(t, a) = LastSeq(s, a)
                   /\ LogOf(t, a) = LogOf(s, a)
BY DEF Numbered, HeadSeqOf, LastSeq, LogOf

LEMMA Primed ==
  /\ Numbered(working)' <=> Numbered(working')
  /\ Numbered(disk)' <=> Numbered(disk')
  /\ \A a : HeadSeqOf(working, a)' = HeadSeqOf(working', a) /\ LastSeq(working, a)' = LastSeq(working', a)
  /\ \A a : HeadSeqOf(disk, a)' = HeadSeqOf(disk', a) /\ LastSeq(disk, a)' = LastSeq(disk', a)
BY DEF Numbered, HeadSeqOf, LastSeq, LogOf

LEMMA Counted ==
  ASSUME TypeInv, EventsInv, NEW t \in {working, disk}, NEW a \in StoreActors
  PROVE  /\ HeadSeqOf(t, a) \in Nat /\ LastSeq(t, a) \in Nat /\ IsFiniteSet(LogOf(t, a))
         /\ t.head[a] = "none" => HeadSeqOf(t, a) = 0
         /\ t.head[a] # "none" => \E e \in LogOf(t, a) : e.id = t.head[a]
         /\ \A e \in t.log : e.id = t.head[a] => HeadSeqOf(t, a) = e.seq
<1>1. /\ \A d, e \in t.log : d.id = e.id => d = e
      /\ \A e \in t.log : e.id # "none" /\ e.seq \in Nat
      /\ t.head[a] # "none" => \E e \in t.log : e.id = t.head[a] /\ e.actor = a
  BY EventFacts DEF EventsInv, HeadsFit
<1>2. IsFiniteSet(LogOf(t, a))
  BY FS_Subset DEF TypeInv, TablesType, LogOf
<1> QED
  BY <1>1, <1>2, HeadSeqIs, FS_CardinalityType DEF LastSeq, LogOf

\* In Mesh the id of an event tells whose it is and its number.
LEMMA IdsTell ==
  ASSUME TypeInv, Mesh, NumbersInv, NEW e \in working.log, NEW q \in Asks, q.op = "append"
  PROVE  e.id = q.id <=> e.actor = q.actor /\ e.seq = q.seq
<1>1. /\ storeRun \in StoreTraffic /\ storeRun.store = "mesh"
      /\ e.by \in storeRun.asks /\ e.by.op = "append" /\ q \in storeRun.asks
      /\ e.id = e.by.id /\ e.actor = e.by.actor /\ e.seq = e.by.seq
  BY EventFacts DEF TypeInv, Mesh, NumbersInv, Asks
<1> DEFINE p == e.by
<1>2. p.id = q.id <=> p.actor = q.actor /\ p.seq = q.seq
  BY <1>1, StoresAssumption
<1> QED
  BY <1>1, <1>2

LEMMA NextNumber ==
  ASSUME TypeInv, EventsInv, Mesh, NumbersInv, LeadInv, NEW r \in Asks, LoneStep(r), Insert(r)
  PROVE  /\ HeadSeqOf(working, r.actor) = LastSeq(working, r.actor)
         /\ r.seq = LastSeq(working, r.actor) + 1
         /\ \A q \in Appends({r.actor}) : ~Leading(q)
<1> DEFINE a == r.actor
<1>1. /\ a \in StoreActors /\ r.op = "append" /\ HeadRead(r)
      /\ \A d \in working.log : d.id # r.id
  BY RequestsFit DEF LoneStep, Insert
<1>2. HeadSeqOf(working, a) \in Nat /\ LastSeq(working, a) \in Nat
  BY <1>1, Counted
<1>3. r.seq \in 1 .. HeadSeqOf(working, a) + 1
  BY <1>1 DEF NumbersInv
<1>4. HeadSeqOf(working, a) <= LastSeq(working, a)
  <2>1. HeadSeqOf(working, a) \in {LastSeq(working, a), LastSeq(working, a) - 1}
    BY <1>1 DEF LeadInv
  <2> QED
    BY <1>2, <2>1
<1>5. r.seq \notin 1 .. LastSeq(working, a)
  <2>1. SUFFICES ASSUME r.seq \in 1 .. LastSeq(working, a)
                 PROVE  FALSE
    OBVIOUS
  <2>2. {e.seq : e \in LogOf(working, a)} = 1 .. LastSeq(working, a)
    BY <1>1 DEF NumbersInv, Numbered
  <2>3. PICK e \in LogOf(working, a) : e.seq = r.seq
    BY <2>1, <2>2
  <2>4. e \in working.log /\ e.actor = a
    BY <2>3 DEF LogOf
  <2> QED
    BY <1>1, <2>3, <2>4, IdsTell
<1>6. HeadSeqOf(working, a) = LastSeq(working, a) /\ r.seq = LastSeq(working, a) + 1
  BY <1>2, <1>3, <1>4, <1>5
<1>7. \A q \in Appends({a}) : ~Leading(q)
  BY <1>1, <1>2, <1>6 DEF LeadInv
<1> QED
  BY <1>6, <1>7

LEMMA NewHead ==
  ASSUME TypeInv, EventsInv, Mesh, NumbersInv, LeadInv, NEW r \in Asks, LoneStep(r), Lead(r)
  PROVE  /\ \E e \in working.log : e.by = r /\ e.id = r.id /\ e.seq = LastSeq(working, r.actor)
         /\ HeadSeqOf(working, r.actor) = LastSeq(working, r.actor) - 1
         /\ \A q \in Appends({r.actor}) : Leading(q) => q = r
<1>1. r.actor \in StoreActors /\ r \in Appends({r.actor}) /\ Leading(r) /\ IsWritten(r) /\ r.op = "append"
  BY RequestsFit DEF LoneStep, Lead, Appends
<1>2. /\ r.seq = LastSeq(working, r.actor)
      /\ HeadSeqOf(working, r.actor) = LastSeq(working, r.actor) - 1
      /\ \A q \in Appends({r.actor}) : Leading(q) => q.seq = LastSeq(working, r.actor)
  BY <1>1 DEF LeadInv
<1>3. PICK e \in working.log : e.by = r
  BY <1>1 DEF EventsInv
<1>4. e.id = r.id /\ e.seq = r.seq /\ e.actor = r.actor
  BY <1>3, EventFacts DEF NumbersInv
<1>5. ASSUME NEW q \in Appends({r.actor}), Leading(q)
      PROVE  q = r
  <2>1. q.seq = r.seq /\ q.actor = r.actor /\ q.op = "append" /\ q \in Asks
    BY <1>2, <1>5 DEF Appends
  <2>2. IsWritten(q)
    BY <1>5 DEF Leading, IsWritten
  <2>3. PICK d \in working.log : d.by = q
    BY <2>1, <2>2 DEF EventsInv
  <2>4. d.id = q.id
    BY <2>3, EventFacts
  <2>5. e.id = q.id
    BY <1>4, <2>1, IdsTell
  <2> QED
    BY <1>3, <2>3, <2>4, <2>5 DEF EventsInv
<1> QED
  BY <1>2, <1>3, <1>4, <1>5

\* The number of an actor's head, and the last number, after a step of r
LEMMA Numbers ==
  ASSUME TypeInv, TypeInv', EventsInv, EventsInv', Mesh, NumbersInv, LeadInv,
         NEW r \in Asks, LoneStep(r), Insert(r) \/ Lead(r), NEW a \in StoreActors
  PROVE  /\ LastSeq(working, a)' =
              IF Insert(r) /\ a = r.actor THEN LastSeq(working, a) + 1 ELSE LastSeq(working, a)
         /\ HeadSeqOf(working, a)' =
              IF ~Insert(r) /\ a = r.actor THEN LastSeq(working, a) ELSE HeadSeqOf(working, a)
         /\ LogOf(working, a) \subseteq LogOf(working, a)'
<1>1. /\ \A d, e \in working'.log : d.id = e.id => d = e
      /\ \A e \in working'.log : e.id # "none" /\ e.seq \in Nat
  <2>1. \A e \in working'.log : e.by \in Appenders' /\ e.seq \in Nat /\ e = LoggedAs(e.by, e.seq)
    BY DEF TypeInv, TablesType
  <2>2. Appenders' = Appenders /\ \A q \in Appenders : q.id # "none"
    BY RequestsFit DEF Appenders, LoneStep, SameRun
  <2>3. \A e \in working'.log : e.id = e.by.id
    BY <2>1 DEF LoggedAs
  <2> QED
    BY <2>1, <2>2, <2>3 DEF EventsInv
<1>2. working'.head[a] # "none" => \E e \in working'.log : e.id = working'.head[a]
  BY DEF EventsInv, HeadsFit
<1>3. /\ HeadSeqOf(working', a) \in Nat
      /\ working'.head[a] = "none" => HeadSeqOf(working', a) = 0
      /\ \A e \in working'.log : e.id = working'.head[a] => HeadSeqOf(working', a) = e.seq
  BY <1>1, <1>2, HeadSeqIs
<1>4. HeadSeqOf(working, a)' = HeadSeqOf(working', a)
  BY DEF HeadSeqOf
<1>5. /\ working.head[a] = "none" => HeadSeqOf(working, a) = 0
      /\ working.head[a] # "none" =>
           \E e \in working.log : e.id = working.head[a] /\ HeadSeqOf(working, a) = e.seq
      /\ IsFiniteSet(LogOf(working, a)) /\ LastSeq(working, a) \in Nat
  <2>1. /\ working.head[a] # "none" => \E e \in LogOf(working, a) : e.id = working.head[a]
        /\ \A e \in working.log : e.id = working.head[a] => HeadSeqOf(working, a) = e.seq
    BY Counted
  <2> QED
    BY <2>1, Counted DEF LogOf
<1>6. CASE Insert(r)
  <2> DEFINE n == IF Mesh THEN r.seq ELSE job[r].read
             e == LoggedAs(r, n)
  <2>1. /\ working'.log = working.log \cup {e} /\ working'.head = working.head
        /\ e.actor = r.actor /\ e.id = r.id /\ \A d \in working.log : d.id # r.id
    BY <1>6, Insertion
  <2> HIDE DEF e
  <2>2. HeadSeqOf(working', a) = HeadSeqOf(working, a)
    BY <1>3, <1>5, <2>1
  <2>3. CASE a = r.actor
    <3>1. LogOf(working, a)' = LogOf(working, a) \cup {e} /\ e \notin LogOf(working, a)
      BY <2>1, <2>3 DEF LogOf
    <3>2. Cardinality(LogOf(working, a) \cup {e}) = Cardinality(LogOf(working, a)) + 1
      BY <1>5, <3>1, FS_AddElement
    <3> QED
      BY <1>4, <1>6, <2>2, <2>3, <3>1, <3>2 DEF LastSeq
  <2>4. CASE a # r.actor
    <3>1. LogOf(working, a)' = LogOf(working, a)
      BY <2>1, <2>4 DEF LogOf
    <3> QED
      BY <1>4, <1>6, <2>2, <2>4, <3>1 DEF LastSeq
  <2> QED
    BY <2>3, <2>4
<1>7. CASE Lead(r) /\ ~Insert(r)
  <2>1. /\ working'.log = working.log /\ working'.head[r.actor] = r.id
        /\ \A b \in StoreActors : b # r.actor => working'.head[b] = working.head[b]
    BY <1>7, Tipping
  <2>2. LogOf(working, a)' = LogOf(working, a)
    BY <2>1 DEF LogOf
  <2>3. CASE a = r.actor
    <3>1. \E e \in working.log : e.id = r.id /\ e.seq = LastSeq(working, r.actor)
      BY <1>7, NewHead
    <3>2. HeadSeqOf(working', a) = LastSeq(working, a)
      BY <1>3, <2>1, <2>3, <3>1
    <3> QED
      BY <1>4, <1>7, <2>2, <2>3, <3>2 DEF LastSeq
  <2>4. CASE a # r.actor
    <3>1. HeadSeqOf(working', a) = HeadSeqOf(working, a)
      BY <1>3, <1>5, <2>1, <2>4
    <3> QED
      BY <1>4, <1>7, <2>2, <2>4, <3>1 DEF LastSeq
  <2> QED
    BY <2>3, <2>4
<1> QED
  BY <1>6, <1>7

LEMMA NumbersStep ==
  ASSUME TypeInv, TypeInv', MeetInv, EventsInv, EventsInv', NumbersInv, LeadInv,
         [StoresNext]_storeVars
  PROVE  NumbersInv'
<1>0. SameRun
  BY LogSteps DEF CalmStep, Halting, LoneStep
<1>1. CASE ~Mesh
  BY <1>0, <1>1 DEF SameRun, NumbersInv
<1>2. CASE Mesh /\ CalmStep
  <2>1. /\ Asks' = Asks /\ working'.log = working.log /\ working'.head = working.head
        /\ disk' = disk \/ (working' = working /\ disk' = working)
        /\ \A q \in Asks : HeadRead(q)' <=> HeadRead(q)
    BY <1>2 DEF CalmStep, SameRun, KeepsLogs, Still
  <2>2. \A a : /\ HeadSeqOf(working', a) = HeadSeqOf(working, a)
               /\ LogOf(working', a) = LogOf(working, a)
    BY <2>1, LikeTables
  <2>3. \A a : /\ HeadSeqOf(working, a)' = HeadSeqOf(working, a)
               /\ LogOf(working, a)' = LogOf(working, a)
    BY <2>2 DEF HeadSeqOf, LogOf
  <2>4. Numbered(working)' /\ Numbered(disk)'
    <3>1. Numbered(working') /\ Numbered(disk')
      BY <1>2, <2>1, LikeTables DEF NumbersInv
    <3> QED
      BY <3>1 DEF Numbered, LogOf, LastSeq
  <2> QED
    BY <1>2, <2>1, <2>3, <2>4 DEF NumbersInv
<1>3. CASE Mesh /\ Halting
  <2>1. /\ Asks' = Asks /\ working' = disk /\ disk' = disk /\ \A q \in Asks : ~HeadRead(q)'
    BY <1>3 DEF Halting, SameRun
  <2>2. Numbered(working)' /\ Numbered(disk)'
    BY <1>3, <2>1, Primed DEF NumbersInv
  <2> QED
    BY <1>3, <2>1, <2>2 DEF NumbersInv, EventsInv
<1>4. ASSUME Mesh, NEW r \in Asks, LoneStep(r), Kinds(r)
      PROVE  NumbersInv'
  <2>1. /\ Asks' = Asks /\ r.op = "append" /\ r.actor \in StoreActors
        /\ \A q \in Asks \ {r} : Mesh => (HeadRead(q)' <=> HeadRead(q))
    BY <1>4, RequestsFit DEF LoneStep, SameRun, Still
  <2>2. /\ Numbered(working) /\ Numbered(disk)
        /\ \A e \in working.log : e.seq = e.by.seq
    BY <1>4 DEF NumbersInv
  <2>3. CASE IdleStep(r) \/ Close(r)
    <3>1. /\ working' = working /\ (disk' = disk \/ disk' = working) /\ ~HeadRead(r)'
      BY <2>3 DEF IdleStep, Close
    <3>2. Numbered(working)' /\ Numbered(disk)'
      BY <2>2, <3>1, Primed
    <3>3. \A a : HeadSeqOf(working, a)' = HeadSeqOf(working, a) /\ LogOf(working, a)' = LogOf(working, a)
      BY <3>1 DEF HeadSeqOf, LogOf
    <3> QED
      BY <1>4, <2>1, <2>2, <3>1, <3>2, <3>3 DEF NumbersInv
  <2>4. CASE Check(r)
    <3>1. /\ working' = working /\ disk' = disk /\ r.prev = working.head[r.actor]
          /\ r.seq = HeadSeq(r.actor) + 1
      BY <1>4, <2>4 DEF Check
    <3>2. HeadSeq(r.actor) = HeadSeqOf(working, r.actor)
      BY DEF HeadSeq, HeadSeqOf
    <3>3. Numbered(working)' /\ Numbered(disk)'
      BY <2>2, <3>1 DEF Numbered, LogOf, LastSeq
    <3>4. \A a : HeadSeqOf(working, a)' = HeadSeqOf(working, a) /\ LogOf(working, a)' = LogOf(working, a)
      BY <3>1 DEF HeadSeqOf, LogOf
    <3>5. /\ HeadSeqOf(working, r.actor) \in Nat /\ LastSeq(working, r.actor) \in Nat
          /\ working.head[r.actor] = "none" => HeadSeqOf(working, r.actor) = 0
          /\ working.head[r.actor] # "none" =>
               \E e \in LogOf(working, r.actor) : /\ e.id = working.head[r.actor]
                                                  /\ HeadSeqOf(working, r.actor) = e.seq
      <4>1. /\ working.head[r.actor] # "none" =>
                 \E e \in LogOf(working, r.actor) : e.id = working.head[r.actor]
            /\ \A e \in working.log : e.id = working.head[r.actor] =>
                 HeadSeqOf(working, r.actor) = e.seq
        BY <2>1, Counted
      <4> QED
        BY <2>1, <4>1, Counted DEF LogOf
    <3>6. \A e \in LogOf(working, r.actor) : e.seq \in 1 .. LastSeq(working, r.actor)
      BY <2>1, <2>2 DEF Numbered
    <3>7. /\ r.seq \in 1 .. HeadSeqOf(working, r.actor) + 1
          /\ IF r.seq = 1 THEN r.prev = "none"
             ELSE \E d \in LogOf(working, r.actor) : d.seq = r.seq - 1 /\ r.prev = d.id
      <4>1. CASE working.head[r.actor] = "none"
        BY <3>1, <3>2, <3>5, <4>1
      <4>2. CASE working.head[r.actor] # "none"
        <5>1. PICK e \in LogOf(working, r.actor) :
                e.id = working.head[r.actor] /\ HeadSeqOf(working, r.actor) = e.seq
          BY <3>5, <4>2
        <5>2. e.seq \in Nat /\ e.seq >= 1
          BY <3>5, <3>6
        <5>3. r.seq = e.seq + 1 /\ r.seq # 1 /\ r.seq - 1 = e.seq /\ r.seq \in 1 .. e.seq + 1
          BY <3>1, <3>2, <5>1, <5>2
        <5> QED
          BY <3>1, <5>1, <5>3
      <4> QED
        BY <4>1, <4>2
    <3> QED
      BY <1>4, <2>1, <2>2, <3>1, <3>3, <3>4, <3>7 DEF NumbersInv
  <2>5. CASE Insert(r)
    <3> DEFINE n == IF Mesh THEN r.seq ELSE job[r].read
               e == LoggedAs(r, n)
               a == r.actor
    <3>1. /\ working'.log = working.log \cup {e} /\ working'.head = working.head /\ disk' = disk
          /\ e.actor = a /\ e.id = r.id /\ e.prev = r.prev /\ e.seq = r.seq /\ e.by = r
      BY <1>4, <2>5, Insertion
    <3> HIDE DEF e
    <3>2. HeadRead(r) /\ ~HeadRead(r)'
      BY <2>5 DEF Insert
    <3>3. r.seq = LastSeq(working, a) + 1 /\ LastSeq(working, a) \in Nat
      BY <1>4, <2>1, <2>5, NextNumber, Counted
    <3>4. \A b \in StoreActors :
            /\ LastSeq(working, b)' = IF b = a THEN LastSeq(working, b) + 1 ELSE LastSeq(working, b)
            /\ HeadSeqOf(working, b)' = HeadSeqOf(working, b)
            /\ LogOf(working, b)' = IF b = a THEN LogOf(working, b) \cup {e} ELSE LogOf(working, b)
      <4>1. \A b \in StoreActors :
              LogOf(working, b)' = IF b = a THEN LogOf(working, b) \cup {e} ELSE LogOf(working, b)
        BY <3>1 DEF LogOf
      <4> QED
        BY <1>4, <2>5, <4>1, Numbers
    <3>5. IF e.seq = 1 THEN e.prev = "none"
          ELSE \E d \in LogOf(working, a) : d.seq = e.seq - 1 /\ e.prev = d.id
      BY <1>4, <3>1, <3>2 DEF NumbersInv
    <3>6. ASSUME NEW b \in StoreActors
          PROVE  /\ {d.seq : d \in LogOf(working, b)'} = 1 .. LastSeq(working, b)'
                 /\ \A d \in LogOf(working, b)' :
                      IF d.seq = 1 THEN d.prev = "none"
                      ELSE \E c \in LogOf(working, b)' : c.seq = d.seq - 1 /\ d.prev = c.id
      <4>1. /\ {d.seq : d \in LogOf(working, b)} = 1 .. LastSeq(working, b)
            /\ \A d \in LogOf(working, b) :
                 IF d.seq = 1 THEN d.prev = "none"
                 ELSE \E c \in LogOf(working, b) : c.seq = d.seq - 1 /\ d.prev = c.id
        BY <2>2 DEF Numbered
      <4>2. CASE b # a
        BY <3>4, <4>1, <4>2
      <4>3. CASE b = a
        <5>1. 1 .. (LastSeq(working, a) + 1) = (1 .. LastSeq(working, a)) \cup {LastSeq(working, a) + 1}
          BY <3>3
        <5>2. {d.seq : d \in LogOf(working, a) \cup {e}} = {d.seq : d \in LogOf(working, a)} \cup {e.seq}
          OBVIOUS
        <5>3. {d.seq : d \in LogOf(working, b)'} = 1 .. LastSeq(working, b)'
          BY <3>1, <3>3, <3>4, <4>1, <4>3, <5>1, <5>2
        <5> QED
          BY <3>4, <3>5, <4>1, <4>3, <5>3
      <4> QED
        BY <4>2, <4>3
    <3>7. Numbered(working)' /\ Numbered(disk)'
      <4>1. Numbered(disk)'
        BY <2>2, <3>1 DEF Numbered, LogOf, LastSeq
      <4>2. Numbered(working)'
        BY <3>6 DEF Numbered
      <4> QED
        BY <4>1, <4>2
    <3>8. ASSUME NEW q \in Asks, HeadRead(q)'
          PROVE  /\ q.seq \in 1 .. (HeadSeqOf(working, q.actor)' + 1)
                 /\ IF q.seq = 1 THEN q.prev = "none"
                    ELSE \E d \in LogOf(working, q.actor)' : d.seq = q.seq - 1 /\ q.prev = d.id
      <4>1. q # r /\ HeadRead(q) /\ q.actor \in StoreActors
        BY <1>4, <2>1, <3>2, <3>8, RequestsFit DEF HeadRead
      <4> QED
        BY <1>4, <3>4, <4>1 DEF NumbersInv
    <3>9. \A d \in working'.log : d.seq = d.by.seq
      BY <2>2, <3>1
    <3> QED
      BY <2>1, <3>7, <3>8, <3>9 DEF NumbersInv
  <2>6. CASE Lead(r)
    <3>1. working'.log = working.log /\ disk' = disk /\ ~HeadRead(r)' /\ ~Insert(r)
      BY <1>4, <2>6, Tipping DEF Lead, Insert
    <3>2. \A b : LogOf(working, b)' = LogOf(working, b)
      BY <3>1 DEF LogOf
    <3>3. Numbered(working)' /\ Numbered(disk)'
      <4>2. \A a : LogOf(working', a) = LogOf(working, a)
        BY <3>1 DEF LogOf
      <4>3. \A a : LastSeq(working', a) = LastSeq(working, a)
        BY <4>2 DEF LastSeq
      <4>1. Numbered(working')
        BY <2>2, <4>2, <4>3 DEF Numbered
      <4> QED
        BY <2>2, <3>1, <4>1, Primed
    <3>4. \A b \in StoreActors : /\ HeadSeqOf(working, b)' \in Nat /\ HeadSeqOf(working, b) \in Nat
                                 /\ HeadSeqOf(working, b) <= HeadSeqOf(working, b)'
      <4>1. \A b \in StoreActors :
              HeadSeqOf(working, b)' = IF b = r.actor THEN LastSeq(working, b) ELSE HeadSeqOf(working, b)
        BY <1>4, <2>6, <3>1, Numbers
      <4>2. HeadSeqOf(working, r.actor) = LastSeq(working, r.actor) - 1
        BY <1>4, <2>6, NewHead
      <4>3. \A b \in StoreActors : HeadSeqOf(working, b) \in Nat /\ LastSeq(working, b) \in Nat
        BY Counted
      <4> QED
        BY <4>1, <4>2, <4>3
    <3>5. ASSUME NEW q \in Asks, HeadRead(q)'
          PROVE  /\ q.seq \in 1 .. (HeadSeqOf(working, q.actor)' + 1)
                 /\ IF q.seq = 1 THEN q.prev = "none"
                    ELSE \E d \in LogOf(working, q.actor)' : d.seq = q.seq - 1 /\ q.prev = d.id
      <4>1. q # r /\ HeadRead(q) /\ q.actor \in StoreActors
        BY <1>4, <2>1, <3>1, <3>5, RequestsFit DEF HeadRead
      <4>2. /\ q.seq \in 1 .. (HeadSeqOf(working, q.actor) + 1)
            /\ IF q.seq = 1 THEN q.prev = "none"
               ELSE \E d \in LogOf(working, q.actor) : d.seq = q.seq - 1 /\ q.prev = d.id
        BY <1>4, <4>1 DEF NumbersInv
      <4>3. q.seq \in 1 .. (HeadSeqOf(working, q.actor)' + 1)
        BY <3>4, <4>1, <4>2
      <4> QED
        BY <3>2, <4>2, <4>3
    <3> QED
      BY <2>1, <2>2, <3>1, <3>3, <3>5 DEF NumbersInv
  <2>7. ~Count(r) /\ ~Save(r)
    BY <1>4 DEF Count, Save
  <2> QED
    BY <1>4, <2>3, <2>4, <2>5, <2>6, <2>7 DEF Kinds
<1> QED
  BY <1>1, <1>2, <1>3, <1>4, LogSteps

LEMMA LeadStep ==
  ASSUME TypeInv, TypeInv', MeetInv, EventsInv, EventsInv', NumbersInv, LeadInv,
         [StoresNext]_storeVars
  PROVE  LeadInv'
<1>0. SameRun /\ \A q \in Asks : /\ Leading(q) => InWrite(q) /\ q \in Running
                                 /\ InWrite(q) => q \in Running
  BY LogSteps DEF CalmStep, Halting, LoneStep, Leading, InWrite
<1>a. Asks' = Asks /\ \A a : Appends({a})' = Appends({a}) /\ Appends({a}) \subseteq Asks
                              /\ \A q \in Appends({a}) : q.op = "append"
  BY <1>0 DEF SameRun, Appends
<1>1. CASE ~Mesh
  BY <1>0, <1>1 DEF SameRun, LeadInv
<1>2. CASE Mesh /\ CalmStep
  <2>1. /\ working'.log = working.log /\ working'.head = working.head
        /\ disk' = disk \/ (working' = working /\ disk' = working)
        /\ \A q \in Asks : /\ (Leading(q)' <=> Leading(q)) /\ (InWrite(q)' <=> InWrite(q))
                           /\ (q.op = "append" => (Lost(q)' <=> Lost(q)))
    BY <1>2 DEF CalmStep, KeepsLogs, Still
  <2>2. \A a : /\ HeadSeqOf(working', a) = HeadSeqOf(working, a)
               /\ LastSeq(working', a) = LastSeq(working, a)
    BY <2>1, LikeTables
  <2>3. \A a : /\ HeadSeqOf(working, a)' = HeadSeqOf(working, a)
               /\ LastSeq(working, a)' = LastSeq(working, a)
    BY <2>2 DEF HeadSeqOf, LastSeq, LogOf
  <2>4. \A a : \/ HeadSeqOf(disk, a)' = HeadSeqOf(disk, a) /\ LastSeq(disk, a)' = LastSeq(disk, a)
               \/ HeadSeqOf(disk, a)' = HeadSeqOf(working, a) /\ LastSeq(disk, a)' = LastSeq(working, a)
    BY <2>1, Primed
  <2> QED
    BY <1>0, <1>a, <1>2, <2>1, <2>3, <2>4 DEF LeadInv
<1>3. CASE Mesh /\ Halting
  <2>1. /\ working' = disk /\ disk' = disk
        /\ \A q \in Asks : ~Leading(q)' /\ (Lost(q)' <=> Lost(q) \/ q \in Running)
    BY <1>3 DEF Halting
  <2>2. \A a : /\ HeadSeqOf(working, a)' = HeadSeqOf(disk, a) /\ LastSeq(working, a)' = LastSeq(disk, a)
               /\ HeadSeqOf(disk, a)' = HeadSeqOf(disk, a) /\ LastSeq(disk, a)' = LastSeq(disk, a)
    BY <2>1 DEF HeadSeqOf, LastSeq, LogOf
  <2> QED
    BY <1>0, <1>a, <1>3, <2>1, <2>2 DEF LeadInv
<1>4. ASSUME Mesh, NEW r \in Asks, LoneStep(r), Kinds(r)
      PROVE  LeadInv'
  <2>1. /\ r.op = "append" /\ r.actor \in StoreActors /\ ~Lost(r) /\ ~Lost(r)'
        /\ \A q \in Asks \ {r} : /\ (Leading(q)' <=> Leading(q)) /\ (InWrite(q)' <=> InWrite(q))
                                 /\ (q.op = "append" => (Lost(q)' <=> Lost(q)))
    BY <1>4, RequestsFit DEF LoneStep, Still
  <2>2. \A a \in StoreActors :
          /\ HeadSeqOf(working, a) \in Nat /\ LastSeq(working, a) \in Nat
          /\ HeadSeqOf(disk, a) \in Nat /\ LastSeq(disk, a) \in Nat
    BY Counted
  <2>3. CASE IdleStep(r) \/ Check(r) \/ Close(r)
    <3>1. /\ working' = working /\ (disk' = disk \/ disk' = working)
          /\ ~Leading(r) /\ ~Leading(r)' /\ (disk' # working => disk' = disk /\ ~InWrite(r))
      BY <2>3 DEF IdleStep, Check, Close, Waits, IsWritten, InWrite, Leading
    <3>2. \A a : /\ HeadSeqOf(working, a)' = HeadSeqOf(working, a)
                 /\ LastSeq(working, a)' = LastSeq(working, a)
      BY <3>1 DEF HeadSeqOf, LastSeq, LogOf
    <3>3. ASSUME NEW a \in StoreActors
          PROVE  /\ \/ HeadSeqOf(working, a)' = LastSeq(working, a)'
                    \/ /\ HeadSeqOf(working, a)' = LastSeq(working, a)' - 1
                       /\ \E q \in Appends({a}) : Leading(q)' \/ Lost(q)'
                 /\ \A q \in Appends({a}) : Leading(q)' =>
                      q.seq = LastSeq(working, a)' /\ HeadSeqOf(working, a)' = LastSeq(working, a)' - 1
      BY <1>a, <1>4, <2>1, <3>1, <3>2 DEF LeadInv
    <3>4. ASSUME NEW a \in StoreActors
          PROVE  \/ HeadSeqOf(disk, a)' = LastSeq(disk, a)'
                 \/ /\ HeadSeqOf(disk, a)' = LastSeq(disk, a)' - 1
                    /\ \E q \in Appends({a}) : InWrite(q)' \/ Lost(q)'
      <4>1. CASE disk' = working
        <5>1. HeadSeqOf(disk, a)' = HeadSeqOf(working, a) /\ LastSeq(disk, a)' = LastSeq(working, a)
          BY <4>1, Primed
        <5>2. \/ HeadSeqOf(working, a) = LastSeq(working, a)
              \/ /\ HeadSeqOf(working, a) = LastSeq(working, a) - 1
                 /\ \E q \in Appends({a}) : Leading(q) \/ Lost(q)
          BY <1>4 DEF LeadInv
        <5>3. ASSUME NEW q \in Appends({a}), Leading(q) \/ Lost(q)
              PROVE  InWrite(q)' \/ Lost(q)'
          BY <1>0, <1>a, <2>1, <3>1, <5>3
        <5>4. CASE HeadSeqOf(working, a) = LastSeq(working, a)
          BY <5>1, <5>4
        <5>5. CASE \E q \in Appends({a}) : Leading(q) \/ Lost(q)
          BY <5>1, <5>2, <5>3, <5>5
        <5> QED
          BY <5>2, <5>4, <5>5
      <4>2. CASE disk' # working
        <5>1. HeadSeqOf(disk, a)' = HeadSeqOf(disk, a) /\ LastSeq(disk, a)' = LastSeq(disk, a)
          BY <3>1, <4>2, Primed
        <5>2. \/ HeadSeqOf(disk, a) = LastSeq(disk, a)
              \/ /\ HeadSeqOf(disk, a) = LastSeq(disk, a) - 1
                 /\ \E q \in Appends({a}) : InWrite(q) \/ Lost(q)
          BY <1>4 DEF LeadInv
        <5>3. ASSUME NEW q \in Appends({a}), InWrite(q) \/ Lost(q)
              PROVE  InWrite(q)' \/ Lost(q)'
          BY <1>a, <2>1, <3>1, <5>3, <4>2
        <5>4. CASE HeadSeqOf(disk, a) = LastSeq(disk, a)
          BY <5>1, <5>4
        <5>5. CASE \E q \in Appends({a}) : InWrite(q) \/ Lost(q)
          BY <5>1, <5>2, <5>3, <5>5
        <5> QED
          BY <5>2, <5>4, <5>5
      <4> QED
        BY <4>1, <4>2
    <3> QED
      BY <1>a, <3>3, <3>4 DEF LeadInv
  <2>4. CASE Insert(r)
    <3>1. /\ disk' = disk /\ ~InWrite(r) /\ Leading(r)'
      BY <2>4 DEF Insert
    <3>2. /\ HeadSeqOf(working, r.actor) = LastSeq(working, r.actor)
          /\ r.seq = LastSeq(working, r.actor) + 1
          /\ \A q \in Appends({r.actor}) : ~Leading(q)
      BY <1>4, <2>4, NextNumber
    <3>3. \A a \in StoreActors :
            /\ LastSeq(working, a)' = IF a = r.actor THEN LastSeq(working, a) + 1 ELSE LastSeq(working, a)
            /\ HeadSeqOf(working, a)' = HeadSeqOf(working, a)
      BY <1>4, <2>4, Numbers
    <3>4. \A a : HeadSeqOf(disk, a)' = HeadSeqOf(disk, a) /\ LastSeq(disk, a)' = LastSeq(disk, a)
      BY <3>1 DEF HeadSeqOf, LastSeq, LogOf
    <3>5. r \in Appends({r.actor}) /\ \A a : a # r.actor => r \notin Appends({a})
      BY <2>1 DEF Appends
    <3>6. ASSUME NEW a \in StoreActors
          PROVE  \/ HeadSeqOf(disk, a)' = LastSeq(disk, a)'
                 \/ /\ HeadSeqOf(disk, a)' = LastSeq(disk, a)' - 1
                    /\ \E q \in Appends({a}) : InWrite(q)' \/ Lost(q)'
      <4>1. \/ HeadSeqOf(disk, a) = LastSeq(disk, a)
            \/ /\ HeadSeqOf(disk, a) = LastSeq(disk, a) - 1
               /\ \E q \in Appends({a}) : InWrite(q) \/ Lost(q)
        BY <1>4 DEF LeadInv
      <4> QED
        BY <1>a, <2>1, <3>1, <3>4, <4>1
    <3>7. ASSUME NEW a \in StoreActors
          PROVE  /\ \/ HeadSeqOf(working, a)' = LastSeq(working, a)'
                    \/ /\ HeadSeqOf(working, a)' = LastSeq(working, a)' - 1
                       /\ \E q \in Appends({a}) : Leading(q)' \/ Lost(q)'
                 /\ \A q \in Appends({a}) : Leading(q)' =>
                      q.seq = LastSeq(working, a)' /\ HeadSeqOf(working, a)' = LastSeq(working, a)' - 1
      <4>1. CASE a = r.actor
        <5>1. HeadSeqOf(working, a)' = LastSeq(working, a)' - 1 /\ r.seq = LastSeq(working, a)'
          BY <2>2, <3>2, <3>3, <4>1
        <5> QED
          BY <1>a, <2>1, <3>1, <3>2, <3>5, <4>1, <5>1
      <4>2. CASE a # r.actor
        BY <1>a, <1>4, <2>1, <3>3, <3>5, <4>2 DEF LeadInv
      <4> QED
        BY <4>1, <4>2
    <3> QED
      BY <1>a, <3>6, <3>7 DEF LeadInv
  <2>5. CASE Lead(r)
    <3>1. disk' = disk /\ InWrite(r)' /\ ~Leading(r)' /\ ~Insert(r)
      BY <2>5 DEF Lead, Insert
    <3>2. \A q \in Appends({r.actor}) : Leading(q) => q = r
      BY <1>4, <2>5, NewHead
    <3>3. \A a \in StoreActors :
            /\ LastSeq(working, a)' = LastSeq(working, a)
            /\ HeadSeqOf(working, a)' =
                 IF a = r.actor THEN LastSeq(working, a) ELSE HeadSeqOf(working, a)
      BY <1>4, <2>5, <3>1, Numbers
    <3>4. \A a : HeadSeqOf(disk, a)' = HeadSeqOf(disk, a) /\ LastSeq(disk, a)' = LastSeq(disk, a)
      BY <3>1 DEF HeadSeqOf, LastSeq, LogOf
    <3>5. \A a : a # r.actor => r \notin Appends({a})
      BY <2>1 DEF Appends
    <3>6. ASSUME NEW a \in StoreActors
          PROVE  \/ HeadSeqOf(disk, a)' = LastSeq(disk, a)'
                 \/ /\ HeadSeqOf(disk, a)' = LastSeq(disk, a)' - 1
                    /\ \E q \in Appends({a}) : InWrite(q)' \/ Lost(q)'
      <4>1. \/ HeadSeqOf(disk, a) = LastSeq(disk, a)
            \/ /\ HeadSeqOf(disk, a) = LastSeq(disk, a) - 1
               /\ \E q \in Appends({a}) : InWrite(q) \/ Lost(q)
        BY <1>4 DEF LeadInv
      <4> QED
        BY <1>a, <2>1, <3>1, <3>4, <4>1
    <3>7. ASSUME NEW a \in StoreActors
          PROVE  /\ \/ HeadSeqOf(working, a)' = LastSeq(working, a)'
                    \/ /\ HeadSeqOf(working, a)' = LastSeq(working, a)' - 1
                       /\ \E q \in Appends({a}) : Leading(q)' \/ Lost(q)'
                 /\ \A q \in Appends({a}) : Leading(q)' =>
                      q.seq = LastSeq(working, a)' /\ HeadSeqOf(working, a)' = LastSeq(working, a)' - 1
      <4>1. CASE a = r.actor
        BY <1>a, <2>1, <3>1, <3>2, <3>3, <4>1
      <4>2. CASE a # r.actor
        BY <1>a, <1>4, <2>1, <3>3, <3>5, <4>2 DEF LeadInv
      <4> QED
        BY <4>1, <4>2
    <3> QED
      BY <1>a, <3>6, <3>7 DEF LeadInv
  <2>6. ~Count(r) /\ ~Save(r)
    BY <1>4 DEF Count, Save
  <2> QED
    BY <1>4, <2>3, <2>4, <2>5, <2>6 DEF Kinds
<1> QED
  BY <1>1, <1>2, <1>3, <1>4, LogSteps

-----------------------------------------------------------------------------
(***************************************************************************)
(* Rows and channels: what is written is saved, or nobody was told.        *)
(***************************************************************************)
Same(q) ==
  /\ job'[q].todo = job[q].todo /\ job'[q].answer = job[q].answer
  /\ job'[q].read = job[q].read /\ job[q].met \subseteq job'[q].met

Starts(q) ==
  /\ job[q].answer = "none" /\ job[q].met = {}
  /\ job'[q].answer = "running" /\ job'[q].read = << >> /\ job'[q].todo = Script(q)

OpenStep == working' = working /\ disk' = disk /\ \A q \in Asks : Same(q) \/ Starts(q)

Cut ==
  /\ working' = disk /\ disk' = disk
  /\ \A q \in Asks : /\ job'[q].met = job[q].met /\ job'[q].read = job[q].read
                     /\ q \in Running => job'[q].answer = "lost"
                     /\ q \notin Running => job'[q].answer = job[q].answer
                     /\ q \notin Running'

LEMMA Courses ==
  ASSUME TypeInv, MeetInv, [StoresNext]_storeVars
  PROVE  SameRun /\ (OpenStep \/ Cut \/ \E r \in Asks : Step(r))
<1>0. SameRun
  BY LogSteps DEF CalmStep, Halting, LoneStep
<1>1. CASE UNCHANGED storeVars
  BY <1>0, <1>1 DEF storeVars, OpenStep, Same
<1>2. ASSUME NEW r \in Asks, JobBegins(r)
      PROVE  OpenStep
  <2>1. /\ job[r].answer = "none" /\ working' = working /\ disk' = disk
        /\ job' = [q \in Asks |->
             IF q = r THEN [todo |-> Script(r), read |-> << >>, answer |-> "running", met |-> Running]
             ELSE IF q \in Running THEN [job[q] EXCEPT !.met = @ \cup {r}] ELSE job[q]]
    BY <1>2 DEF JobBegins, BeginJob
  <2>2. Starts(r)
    BY <2>1 DEF Starts, MeetInv
  <2>3. ASSUME NEW q \in Asks, q # r
        PROVE  Same(q)
    <3>1. DOMAIN job[q] = {"todo", "read", "answer", "met"}
      BY DEF TypeInv, JobType
    <3>2. job'[q] = IF q \in Running THEN [job[q] EXCEPT !.met = @ \cup {r}] ELSE job[q]
      BY <2>1, <2>3
    <3> QED
      BY <3>1, <3>2 DEF Same
  <2> QED
    BY <2>1, <2>2, <2>3 DEF OpenStep
<1>3. CASE StoreCrash
  <2>1. /\ working' = disk /\ disk' = disk
        /\ job' = [q \in Asks |-> IF q \in Running
                      THEN [job[q] EXCEPT !.todo = << >>, !.answer = "lost"] ELSE job[q]]
    BY <1>3 DEF StoreCrash
  <2>2. ASSUME NEW q \in Asks
        PROVE  /\ job'[q].met = job[q].met /\ job'[q].read = job[q].read
               /\ q \in Running => job'[q].answer = "lost"
               /\ q \notin Running => job'[q].answer = job[q].answer
               /\ q \notin Running'
    <3>1. DOMAIN job[q] = {"todo", "read", "answer", "met"}
      BY DEF TypeInv, JobType
    <3>2. job'[q] = IF q \in Running THEN [job[q] EXCEPT !.todo = << >>, !.answer = "lost"] ELSE job[q]
      BY <2>1
    <3> QED
      BY <3>1, <3>2 DEF Running
  <2>3. working' = disk /\ disk' = disk
    BY <2>1
  <2> QED
    BY <1>0, <2>2, <2>3 DEF Cut
<1>4. ASSUME NEW r \in Running,
             PlainStep(r) \/ Commit(r) \/ FeedStep(r) \/ ViewStep(r) \/ PlanStep(r)
      PROVE  r \in Asks /\ Step(r)
  BY <1>4 DEF Step, Running
<1> QED
  BY <1>0, <1>1, <1>2, <1>3, <1>4, StepsOf

LEMMA OnlySame ==
  ASSUME TypeInv, NEW r \in Asks, OnlyJob(r)
  PROVE  \A q \in Asks : q # r => Same(q)
BY DEF OnlyJob, Same

LEMMA SameStays ==
  ASSUME TypeInv, SameRun, NEW q \in Asks, Same(q)
  PROVE  /\ q \in Running' <=> q \in Running
         /\ Left(q)' = Left(q)
         /\ Allowed(q)' <=> Allowed(q)
         /\ Put(q)' <=> Put(q)
         /\ Lost(q)' <=> Lost(q)
<1>1. (q \in Running' <=> q \in Running) /\ Left(q)' = Left(q)
  BY DEF Same, SameRun, Running, Left
<1> QED
  BY <1>1 DEF Same, SameRun, Allowed, Put, Lost

PutDone(q) == q.op = "put" /\ job[q].answer = "ok"

\* Rows as they are, and puts that have got no further but to find their version new,
\* or to save what they wrote
LEMMA RowsFrame ==
  ASSUME TypeInv, RowInv, SameRun,
         working'.rows = working.rows, disk'.rows \in {disk.rows, working.rows},
         \A q \in Asks :
           /\ job[q].met \subseteq job'[q].met
           /\ Put(q)' => Put(q)
           /\ PutDone(q)' => Put(q) /\ (PutDone(q) \/ disk'.rows = working.rows)
           /\ Allowed(q)' => Allowed(q) \/ q.version > working.rows[q.object].version
  PROVE  RowInv'
<1>0. /\ Asks' = Asks
      /\ \A o \in StoreObjects : working.rows[o].version \in Nat
      /\ \A q \in Asks : q.op = "put" => q.object \in StoreObjects /\ q.version \in Nat
      /\ \A q \in Asks : Allowed(q) \/ Put(q) \/ Allowed(q)' \/ PutDone(q) => q.op = "put"
  BY RequestsFit DEF SameRun, TypeInv, TablesType, RowSet, Allowed, Put, PutDone
<1>1. \A q \in Asks : /\ Outdone(q) => Outdone(q)'
                      /\ Bears(working, q) => Bears(working, q)'
                      /\ Bears(disk, q) /\ disk'.rows = disk.rows => Bears(disk, q)'
                      /\ Bears(working, q) /\ disk'.rows = working.rows => Bears(disk, q)'
  BY DEF Outdone, Bears
<1>2. ASSUME NEW r \in Asks
      PROVE  /\ Allowed(r)' => r.version > 0
             /\ Put(r)' => Bears(working, r)' /\ working'.rows[r.object].version > 0
             /\ PutDone(r)' => Bears(disk, r)' /\ disk'.rows[r.object].version > 0
  <2>1. Allowed(r)' => r.version > 0
    BY <1>0 DEF RowInv
  <2>2. Put(r)' => Bears(working, r)' /\ working'.rows[r.object].version > 0
    BY <1>1 DEF RowInv
  <2>3. PutDone(r)' => Bears(disk, r)' /\ disk'.rows[r.object].version > 0
    <3>1. PutDone(r) => Bears(disk, r) /\ disk.rows[r.object].version > 0
      BY DEF RowInv, PutDone
    <3>2. Put(r) => Bears(working, r) /\ working.rows[r.object].version > 0
      BY DEF RowInv
    <3> QED
      BY <1>1, <3>1, <3>2
  <2> QED
    BY <2>1, <2>2, <2>3
<1>3. ASSUME NEW r \in Asks, NEW q \in Asks, Put(r)', Allowed(q)', q.object = r.object
      PROVE  q.version > r.version \/ q \in job'[r].met \/ Outdone(r)'
  <2>1. CASE Allowed(q)
    BY <1>1, <1>3, <2>1 DEF RowInv
  <2>2. CASE q.version > working.rows[q.object].version
    <3>1. Put(r) /\ Bears(working, r) /\ r.op = "put" /\ q.op = "put"
      BY <1>0, <1>3 DEF RowInv
    <3>2. Outdone(r) \/ working.rows[q.object].version >= r.version
      BY <1>3, <3>1 DEF Bears
    <3>3. q.version \in Nat /\ r.version \in Nat /\ working.rows[q.object].version \in Nat
      BY <1>0, <3>1
    <3> QED
      BY <1>1, <2>2, <3>2, <3>3
  <2> QED
    BY <1>3, <2>1, <2>2
<1> QED
  BY <1>0, <1>2, <1>3 DEF RowInv, PutDone

LEMMA RowsStep ==
  ASSUME TypeInv, MeetInv, RowInv, [StoresNext]_storeVars
  PROVE  RowInv'
<1> DEFINE k == IF Mesh THEN 2 ELSE 4
<1>0. SameRun /\ (OpenStep \/ Cut \/ \E r \in Asks : Step(r))
  BY Courses
<1>a. \A q \in Asks : PutDone(q) => Put(q)
  BY DEF PutDone, Put
<1>1. CASE OpenStep
  <2>1. ASSUME NEW q \in Asks
        PROVE  /\ job[q].met \subseteq job'[q].met
               /\ Put(q)' => Put(q)
               /\ PutDone(q)' => PutDone(q)
               /\ Allowed(q)' => Allowed(q)
    <3>1. CASE Same(q)
      BY <1>0, <3>1, SameStays DEF Same, PutDone
    <3>2. CASE Starts(q)
      <4>1. q.op = "put" => Left(q)' \in (IF Mesh THEN {3} ELSE {5, 6})
        BY <3>2, ScriptBegins DEF Starts, Left
      <4>2. job'[q].answer = "running" /\ job[q].met = {} /\ (Mesh' <=> Mesh)
        BY <1>0, <3>2 DEF Starts, SameRun
      <4>3. ~Put(q)' /\ ~Allowed(q)' /\ ~PutDone(q)'
        BY <4>1, <4>2 DEF Put, Allowed, PutDone
      <4> QED
        BY <4>2, <4>3
    <3> QED
      BY <1>1, <3>1, <3>2 DEF OpenStep
  <2>2. working'.rows = working.rows /\ disk'.rows = disk.rows
    BY <1>1 DEF OpenStep
  <2> QED
    BY <1>0, <1>a, <2>1, <2>2, RowsFrame
<1>2. CASE Cut
  <2>1. /\ Asks' = Asks /\ working' = disk /\ disk' = disk
        /\ \A q \in Asks : /\ ~Allowed(q)' /\ (Put(q)' => PutDone(q)) /\ (PutDone(q)' => PutDone(q))
                           /\ job'[q].met = job[q].met
    BY <1>0, <1>2 DEF Cut, SameRun, Allowed, Put, PutDone
  <2>2. \A q \in Asks : Bears(disk, q) => Bears(working, q)' /\ Bears(disk, q)'
    BY <2>1 DEF Bears, Outdone
  <2>3. \A q \in Asks : PutDone(q) => Bears(disk, q) /\ disk.rows[q.object].version > 0
    BY DEF RowInv, PutDone
  <2> QED
    BY <2>1, <2>2, <2>3 DEF RowInv, PutDone
<1>3. ASSUME NEW r \in Asks, Step(r), r.op # "put"
      PROVE  RowInv'
  <2>0. DOMAIN working = Fields
    BY DEF TypeInv, TablesType
  <2>1. OnlyJob(r) /\ working'.rows = working.rows /\ disk'.rows \in {disk.rows, working.rows}
    <3>1. CASE r.op = "append"
      BY <1>3, <2>0, <3>1, AppendsDo DEF AppendEffect, Halts, Fields
    <3>2. CASE r.op = "channel"
      BY <1>3, <2>0, <3>2, ChannelsDo DEF ChannelEffect, Halts, Fields
    <3>3. CASE r.op \notin {"append", "put", "channel"}
      BY <1>3, <3>3, OthersDo DEF Keeps
    <3> QED
      BY <1>3, <3>1, <3>2, <3>3
  <2>2. ASSUME NEW q \in Asks
        PROVE  /\ job[q].met \subseteq job'[q].met
               /\ Put(q)' => Put(q)
               /\ PutDone(q)' => PutDone(q)
               /\ Allowed(q)' => Allowed(q)
    <3>1. CASE q = r
      BY <1>3, <2>1, <3>1 DEF OnlyJob, Put, PutDone, Allowed
    <3>2. CASE q # r
      BY <1>0, <2>1, <3>2, OnlySame, SameStays DEF Same, PutDone
    <3> QED
      BY <3>1, <3>2
  <2> QED
    BY <1>0, <1>a, <2>1, <2>2, RowsFrame
<1>4. ASSUME NEW r \in Asks, Step(r), r.op = "put"
      PROVE  RowInv'
  <2>0. /\ DOMAIN working = Fields /\ working.rows \in [StoreObjects -> RowSet]
        /\ r.object \in StoreObjects /\ r.version \in Nat /\ r \in Running
        /\ Left(r) \in Nat \ {0} /\ job[r].answer = "running"
    BY <1>4, RequestsFit, RunningAsks DEF TypeInv, TablesType, Step
  <2>1. PutEffect(r) /\ OnlyJob(r)
    BY <1>4, PutsDo
  <2>2. /\ Asks' = Asks /\ (Mesh' <=> Mesh) /\ job'[r].met = job[r].met
        /\ \A q \in Asks : q # r => Same(q)
    BY <1>0, <2>1, OnlySame DEF OnlyJob, SameRun
  <2>3. \A q \in Asks : q # r => /\ job[q].met \subseteq job'[q].met
                                 /\ Put(q)' <=> Put(q)
                                 /\ PutDone(q)' <=> PutDone(q)
                                 /\ Allowed(q)' <=> Allowed(q)
    BY <1>0, <2>2, SameStays DEF Same, PutDone
  <2>4. ASSUME Advances(r)
        PROVE  /\ Left(r)' = Left(r) - 1
               /\ Put(r)' <=> Left(r) <= k
               /\ PutDone(r)' <=> Left(r) = 1
               /\ Allowed(r)' <=> Left(r) = k + 1
    <3>1. /\ job'[r].answer = (IF Left(r) = 1 THEN "ok" ELSE "running")
          /\ Left(r)' = Left(r) - 1 /\ (r \in Running' <=> Left(r) # 1)
      BY <2>2, <2>4 DEF Advances, Running
    <3>2. (Left(r) - 1 < k <=> Left(r) <= k) /\ (Left(r) - 1 = k <=> Left(r) = k + 1) /\ 1 <= k
          /\ 1 # k + 1
      BY <2>0
    <3>3. Put(r)' <=> Left(r) <= k
      BY <1>4, <2>2, <3>1, <3>2 DEF Put
    <3>4. PutDone(r)' <=> Left(r) = 1
      BY <1>4, <3>1 DEF PutDone
    <3>5. Allowed(r)' <=> Left(r) = k + 1
      BY <1>4, <2>2, <3>1, <3>2 DEF Allowed
    <3> QED
      BY <3>1, <3>3, <3>4, <3>5
  <2>5. Put(r) <=> Left(r) < k
    BY <1>4, <2>0 DEF Put
  <2>6. CASE Halts(r)
    <3>1. ~Put(r)' /\ ~PutDone(r)' /\ ~Allowed(r)' /\ working' = working /\ disk' = disk
      BY <2>6 DEF Halts, Put, PutDone, Allowed, Running
    <3>2. \A q \in Asks :
           /\ job[q].met \subseteq job'[q].met
           /\ Put(q)' => Put(q)
           /\ PutDone(q)' => PutDone(q)
           /\ Allowed(q)' => Allowed(q)
      BY <2>2, <2>3, <3>1
    <3> QED
      BY <1>0, <1>a, <3>1, <3>2, RowsFrame
  <2>7. CASE /\ Advances(r) /\ Left(r) > k /\ working' = working /\ disk' = disk
             /\ (~Mesh /\ Left(r) > 5) \/ r.version > working.rows[r.object].version
    <3>1. /\ ~Put(r)' /\ ~PutDone(r)'
          /\ Allowed(r)' => r.version > working.rows[r.object].version
      BY <2>0, <2>4, <2>7
    <3>2. \A q \in Asks :
           /\ job[q].met \subseteq job'[q].met
           /\ Put(q)' => Put(q)
           /\ PutDone(q)' => PutDone(q)
           /\ Allowed(q)' => Allowed(q) \/ q.version > working.rows[q.object].version
      BY <2>2, <2>3, <3>1
    <3> QED
      BY <1>0, <1>a, <2>7, <3>2, RowsFrame
  <2>8. CASE /\ Advances(r) /\ Left(r) < k /\ working'.rows = working.rows
             /\ disk'.rows = working.rows \/ (disk' = disk /\ Left(r) # 1)
    <3>1. /\ Put(r) /\ ~Allowed(r)'
          /\ PutDone(r)' => disk'.rows = working.rows
      BY <2>0, <2>4, <2>5, <2>8
    <3>2. \A q \in Asks :
           /\ job[q].met \subseteq job'[q].met
           /\ Put(q)' => Put(q)
           /\ PutDone(q)' => Put(q) /\ (PutDone(q) \/ disk'.rows = working.rows)
           /\ Allowed(q)' => Allowed(q)
      BY <1>a, <2>2, <2>3, <3>1
    <3> QED
      BY <1>0, <2>8, <3>2, RowsFrame
  <2>9. CASE /\ Advances(r) /\ Left(r) = k /\ disk' = disk
             /\ working' = [working EXCEPT !.rows[r.object] =
                              [version |-> r.version, sources |-> r.sources]]
    <3>1. Put(r)' /\ ~PutDone(r)' /\ ~Allowed(r)' /\ Allowed(r)
      BY <1>4, <2>0, <2>4, <2>9 DEF Allowed
    <3>2. /\ working'.rows[r.object].version = r.version
          /\ \A o \in StoreObjects : o # r.object => working'.rows[o] = working.rows[o]
      BY <2>0, <2>9 DEF Fields
    <3>3. /\ \A q \in Asks : q.op = "put" => q.object \in StoreObjects /\ q.version \in Nat
          /\ \A q \in Asks : Allowed(q) \/ Put(q) \/ PutDone(q) => q.op = "put"
          /\ \A q \in Asks : Outdone(q) => Outdone(q)'
      BY <2>2, <2>3, RequestsFit DEF Allowed, Put, PutDone, Outdone
    <3>4. ASSUME NEW q \in Asks, Put(q)'
          PROVE  Bears(working, q)' /\ working'.rows[q.object].version > 0
      <4>1. r.version > 0
        BY <3>1 DEF RowInv
      <4>2. CASE q = r
        BY <2>0, <3>2, <4>1, <4>2 DEF Bears
      <4>3. CASE q # r /\ q.object = r.object
        <5>1. Put(q) /\ q.op = "put" /\ q.version \in Nat
          BY <2>3, <3>3, <3>4, <4>3
        <5>2. r.version > q.version \/ r \in job[q].met \/ Outdone(q)
          BY <3>1, <4>3, <5>1 DEF RowInv
        <5>3. r.version >= q.version \/ Outdone(q)'
          <6>1. r \in job[q].met /\ r.version < q.version => Outdone(q)
            BY <1>4, <4>3 DEF Outdone
          <6> QED
            BY <2>0, <3>3, <5>1, <5>2, <6>1
        <5> QED
          BY <3>2, <4>1, <4>3, <5>3 DEF Bears
      <4>4. CASE q # r /\ q.object # r.object
        <5>1. Put(q) /\ q.object \in StoreObjects
          BY <2>3, <3>3, <3>4, <4>4
        <5>2. Bears(working, q) /\ working.rows[q.object].version > 0
          BY <5>1 DEF RowInv
        <5> QED
          BY <3>2, <3>3, <4>4, <5>1, <5>2 DEF Bears
      <4> QED
        BY <4>2, <4>3, <4>4
    <3>5. ASSUME NEW p \in Asks, NEW q \in Asks, Put(p)', Allowed(q)', q.object = p.object
          PROVE  q.version > p.version \/ q \in job'[p].met \/ Outdone(p)'
      <4>1. q # r /\ Allowed(q)
        BY <2>3, <3>1, <3>5
      <4>2. CASE p = r
        BY <2>0, <2>2, <4>1, <4>2 DEF MeetInv, Allowed
      <4>3. CASE p # r
        BY <2>3, <3>3, <3>5, <4>1, <4>3 DEF RowInv
      <4> QED
        BY <4>2, <4>3
    <3>6. ASSUME NEW q \in Asks, PutDone(q)'
          PROVE  Bears(disk, q)' /\ disk'.rows[q.object].version > 0
      <4>1. PutDone(q)
        BY <2>3, <3>1, <3>6
      <4>2. Bears(disk, q) /\ disk.rows[q.object].version > 0
        BY <4>1 DEF RowInv, PutDone
      <4> QED
        BY <2>9, <3>3, <4>2 DEF Bears
    <3>7. \A q \in Asks : Allowed(q)' => q.version > 0
      BY <2>3, <3>1 DEF RowInv
    <3> QED
      BY <2>2, <3>4, <3>5, <3>6, <3>7 DEF RowInv, PutDone
  <2>10. \/ Halts(r)
         \/ /\ Advances(r) /\ Left(r) > k /\ working' = working /\ disk' = disk
            /\ (~Mesh /\ Left(r) > 5) \/ r.version > working.rows[r.object].version
         \/ /\ Advances(r) /\ Left(r) < k /\ working'.rows = working.rows
            /\ disk'.rows = working.rows \/ (disk' = disk /\ Left(r) # 1)
         \/ /\ Advances(r) /\ Left(r) = k /\ disk' = disk
            /\ working' = [working EXCEPT !.rows[r.object] =
                             [version |-> r.version, sources |-> r.sources]]
    <3>1. (~Mesh /\ Left(r) > 5 => Left(r) > k) /\ (~Mesh => 2 < k /\ 3 < k) /\ 1 < k /\ 2 # 1
      BY <2>0
    <3>2. working' = [working EXCEPT !.seq = @ + 1] => working'.rows = working.rows
      BY <2>0 DEF Fields
    <3> QED
      BY <2>1, <3>1, <3>2 DEF PutEffect
  <2> QED
    BY <2>6, <2>7, <2>8, <2>9, <2>10
<1> QED
  BY <1>0, <1>1, <1>2, <1>3, <1>4

LEMMA OwnersFrame ==
  ASSUME OwnersInv, Asks' = Asks,
         \A q \in Asks : q.op = "channel" =>
           /\ q \in Running' => Left(q)' <= 3 /\ (Left(q)' = 1 => Owns(working, q)')
           /\ Coming(q) => Coming(q)' \/ (Owns(working, q)' /\ Owns(disk, q)'),
         working.members \subseteq working'.members,
         \A c \in working'.channels : c \in working.channels \/
           \E q \in Asks : q.op = "channel" /\ q.object = c /\ Coming(q)',
         disk' = disk \/ disk' = working'
  PROVE  OwnersInv'
<1>1. \A q \in Asks : Owns(working, q) => Owns(working, q)'
  BY DEF Owns
<1>2. \A q \in Asks : Owns(disk, q) /\ disk' = disk => Owns(disk, q)'
  BY DEF Owns
<1>3. ASSUME NEW c \in working'.channels
      PROVE  Owned(working, c)'
  <2>1. CASE \E q \in Asks : q.op = "channel" /\ q.object = c /\ Coming(q)'
    BY <2>1 DEF Owned
  <2>2. CASE c \in working.channels
    <3>1. PICK q \in Asks : q.op = "channel" /\ q.object = c /\ (Owns(working, q) \/ Coming(q))
      BY <2>2 DEF OwnersInv, Owned
    <3>2. Owns(working, q)' \/ Coming(q)'
      BY <1>1, <3>1
    <3> QED
      BY <3>1, <3>2 DEF Owned
  <2> QED
    BY <1>3, <2>1, <2>2
<1>4. ASSUME NEW c \in disk'.channels
      PROVE  Owned(disk, c)'
  <2>1. CASE disk' = disk
    <3>1. PICK q \in Asks : q.op = "channel" /\ q.object = c /\ (Owns(disk, q) \/ Coming(q))
      BY <1>4, <2>1 DEF OwnersInv, Owned
    <3>2. Owns(disk, q)' \/ Coming(q)'
      BY <1>2, <2>1, <3>1
    <3> QED
      BY <3>1, <3>2 DEF Owned
  <2>2. CASE disk' = working'
    <3>1. Owned(working, c)'
      BY <1>3, <1>4, <2>2
    <3> QED
      BY <2>2, <3>1 DEF Owned, Owns
  <2> QED
    BY <2>1, <2>2
<1> QED
  BY <1>3, <1>4 DEF OwnersInv

LEMMA OwnersStep ==
  ASSUME TypeInv, MeetInv, OwnersInv, [StoresNext]_storeVars
  PROVE  OwnersInv'
<1>0. SameRun /\ (OpenStep \/ Cut \/ \E r \in Asks : Step(r)) /\ Asks' = Asks
  BY Courses DEF SameRun
<1>1. CASE OpenStep
  <2>0. working' = working /\ disk' = disk
    BY <1>1 DEF OpenStep
  <2>1. ASSUME NEW q \in Asks, q.op = "channel"
        PROVE  /\ q \in Running' => Left(q)' <= 3 /\ (Left(q)' = 1 => Owns(working, q)')
               /\ Coming(q) => Coming(q)'
    <3>1. CASE Same(q)
      BY <1>0, <2>0, <2>1, <3>1, SameStays DEF OwnersInv, Owns, Coming
    <3>2. CASE Starts(q)
      <4>1. Left(q)' = 3
        BY <2>1, <3>2, ScriptBegins DEF Starts, Left
      <4> QED
        BY <3>2, <4>1 DEF Starts, Running, Coming, Lost
    <3> QED
      BY <1>1, <3>1, <3>2 DEF OpenStep
  <2> QED
    BY <1>0, <2>0, <2>1, OwnersFrame
<1>2. CASE Cut
  <2>1. /\ working' = disk /\ disk' = disk
        /\ \A q \in Asks : q \notin Running' /\ (Coming(q) => Coming(q)')
    BY <1>2 DEF Cut, Lost, Coming
  <2>2. ASSUME NEW c \in disk.channels
        PROVE  Owned(working, c)' /\ Owned(disk, c)'
    <3>1. PICK q \in Asks : q.op = "channel" /\ q.object = c /\ (Owns(disk, q) \/ Coming(q))
      BY <2>2 DEF OwnersInv, Owned
    <3>2. (Owns(working, q)' /\ Owns(disk, q)') \/ Coming(q)'
      BY <2>1, <3>1 DEF Owns
    <3> QED
      BY <1>0, <3>1, <3>2 DEF Owned
  <2> QED
    BY <1>0, <2>1, <2>2 DEF OwnersInv
<1>3. ASSUME NEW r \in Asks, Step(r), r.op # "channel"
      PROVE  OwnersInv'
  <2>0. DOMAIN working = Fields
    BY DEF TypeInv, TablesType
  <2>1. /\ OnlyJob(r) /\ working'.channels = working.channels /\ working'.members = working.members
        /\ disk' = disk \/ disk' = working'
    <3>1. CASE r.op = "append"
      BY <1>3, <2>0, <3>1, AppendsDo DEF AppendEffect, Halts, Fields
    <3>2. CASE r.op = "put"
      BY <1>3, <2>0, <3>2, PutsDo DEF PutEffect, Halts, Fields
    <3>3. CASE r.op \notin {"append", "put", "channel"}
      BY <1>3, <3>3, OthersDo DEF Keeps
    <3> QED
      BY <1>3, <3>1, <3>2, <3>3
  <2>2. ASSUME NEW q \in Asks, q.op = "channel"
        PROVE  /\ q \in Running' => Left(q)' <= 3 /\ (Left(q)' = 1 => Owns(working, q)')
               /\ Coming(q) => Coming(q)'
    <3>1. /\ q \in Running' <=> q \in Running
          /\ Left(q)' = Left(q) /\ (Lost(q)' <=> Lost(q))
      BY <1>0, <1>3, <2>1, <2>2, OnlySame, SameStays
    <3> QED
      BY <2>1, <2>2, <3>1 DEF OwnersInv, Owns, Coming
  <2> QED
    BY <1>0, <2>1, <2>2, OwnersFrame
<1>4. ASSUME NEW r \in Asks, Step(r), r.op = "channel"
      PROVE  OwnersInv'
  <2>0. DOMAIN working = Fields /\ r \in Running /\ Left(r) \in Nat \ {0} /\ Left(r) <= 3
        /\ ~Lost(r) /\ (Left(r) = 1 => Owns(working, r))
    BY <1>4, RunningAsks DEF TypeInv, TablesType, Step, OwnersInv, Lost
  <2>1. ChannelEffect(r) /\ OnlyJob(r)
    BY <1>4, ChannelsDo
  <2>2. \A q \in Asks : q # r => /\ q \in Running' <=> q \in Running
                                 /\ Left(q)' = Left(q)
                                 /\ Coming(q)' <=> Coming(q)
    BY <1>0, <2>1, OnlySame, SameStays DEF Coming
  <2>3. /\ working.members \subseteq working'.members
        /\ disk' = disk \/ disk' = working'
        /\ Left(r) <= 2 => working'.channels = working.channels
        /\ working'.channels \subseteq working.channels \cup {r.object}
    BY <2>0, <2>1 DEF ChannelEffect, Halts, Fields
  <2>4. CASE Halts(r) /\ Left(r) > 2
    <3>1. r \notin Running' /\ working' = working /\ ~Coming(r)
      BY <2>0, <2>4 DEF Halts, Running, Coming
    <3>2. ASSUME NEW q \in Asks, q.op = "channel"
          PROVE  /\ q \in Running' => Left(q)' <= 3 /\ (Left(q)' = 1 => Owns(working, q)')
                 /\ Coming(q) => Coming(q)'
      BY <2>2, <3>1, <3>2 DEF OwnersInv, Owns
    <3> QED
      BY <1>0, <2>3, <3>1, <3>2, OwnersFrame
  <2>5. CASE Advances(r)
    <3>1. /\ Left(r)' = Left(r) - 1 /\ (r \in Running' <=> Left(r) # 1)
      BY <1>0, <2>5 DEF Advances, Running
    <3>2. /\ Left(r) = 3 => Coming(r)'
          /\ Left(r) = 2 => Coming(r)' /\ Owns(working, r)'
          /\ Left(r) = 1 => Owns(working, r)' /\ Owns(disk, r)'
      <4>1. CASE Left(r) = 3
        BY <3>1, <4>1 DEF Coming
      <4>2. CASE Left(r) = 2
        <5>1. working' = [working EXCEPT !.members = @ \cup {<<r.object, r.actor>>}]
          BY <2>1, <4>2 DEF ChannelEffect
        <5> QED
          BY <2>0, <3>1, <4>2, <5>1 DEF Coming, Owns, Fields
      <4>3. CASE Left(r) = 1
        <5>1. working' = working /\ disk' = working
          BY <2>1, <4>3 DEF ChannelEffect
        <5> QED
          BY <2>0, <4>3, <5>1 DEF Owns
      <4> QED
        BY <4>1, <4>2, <4>3
    <3>3. Left(r) \in {1, 2, 3}
      BY <2>0
    <3>4. ASSUME NEW q \in Asks, q.op = "channel"
          PROVE  /\ q \in Running' => Left(q)' <= 3 /\ (Left(q)' = 1 => Owns(working, q)')
                 /\ Coming(q) => Coming(q)' \/ (Owns(working, q)' /\ Owns(disk, q)')
      <4>1. CASE q = r
        BY <3>1, <3>2, <3>3, <4>1
      <4>2. CASE q # r
        BY <2>2, <2>3, <3>4, <4>2 DEF OwnersInv, Owns
      <4> QED
        BY <4>1, <4>2
    <3>5. \A c \in working'.channels : c \in working.channels \/
            \E q \in Asks : q.op = "channel" /\ q.object = c /\ Coming(q)'
      BY <1>4, <2>3, <3>2, <3>3
    <3> QED
      BY <1>0, <2>3, <3>4, <3>5, OwnersFrame
  <2> QED
    BY <2>1, <2>4, <2>5 DEF ChannelEffect
<1> QED
  BY <1>0, <1>1, <1>2, <1>3, <1>4

-----------------------------------------------------------------------------
(***************************************************************************)
(* What writes leave behind.                                               *)
(***************************************************************************)
LEMMA StartsEmpty ==
  ASSUME StoreInit
  PROVE  /\ storeRun \in StoreTraffic /\ working = disk
         /\ working.log = {} /\ working.head = [a \in StoreActors |-> "none"]
         /\ working.channels = {} /\ working.members = {} /\ working.cache = {}
         /\ \A r \in Asks : /\ job[r].answer = "none" /\ job[r].met = {}
                            /\ job[r].read = << >> /\ job[r].todo = << >>
         /\ Running = {}
<1>1. /\ working = [Empty EXCEPT !.actors = storeRun.known,
               !.seq = Cardinality(storeRun.known) + Cardinality(DOMAIN storeRun.put),
               !.rows = [o \in StoreObjects |-> IF o \in DOMAIN storeRun.put
                 THEN [version |-> 1, sources |-> storeRun.put[o]] ELSE NoRow]]
      /\ storeRun \in StoreTraffic /\ disk = working
      /\ job = [r \in Asks |-> [todo |-> << >>, read |-> << >>, answer |-> "none", met |-> {}]]
  BY DEF StoreInit
<1>2. /\ working.log = {} /\ working.head = [a \in StoreActors |-> "none"]
      /\ working.channels = {} /\ working.members = {} /\ working.cache = {}
  BY <1>1 DEF Empty
<1>3. \A r \in Asks : /\ job[r].answer = "none" /\ job[r].met = {}
                      /\ job[r].read = << >> /\ job[r].todo = << >>
  BY <1>1
<1>4. Running = {}
  BY <1>3 DEF Running
<1> QED
  BY <1>1, <1>2, <1>3, <1>4

LEMMA WriteInit ==
  ASSUME StoreInit
  PROVE  WriteInv
<1>0. TypeInv
  BY InitType
<1>1. /\ working = disk /\ working.log = {} /\ working.head = [a \in StoreActors |-> "none"]
      /\ working.channels = {} /\ Running = {}
      /\ \A r \in Asks : job[r].answer = "none" /\ job[r].met = {}
  BY StartsEmpty
<1>2. \A r \in Asks : /\ ~IsWritten(r) /\ ~Acked(r) /\ ~Leading(r) /\ ~InWrite(r) /\ ~HeadRead(r)
                      /\ ~Given(r) /\ ~Lost(r) /\ ~Allowed(r) /\ ~Put(r)
  BY <1>1 DEF IsWritten, Acked, Leading, InWrite, HeadRead, Given, Lost, Allowed, Put
<1>3. MeetInv
  BY <1>1 DEF MeetInv
<1>4. EventsInv
  BY <1>1, <1>2 DEF EventsInv, HeadsFit
<1>5. SavedInv
  BY <1>1 DEF SavedInv, LogOf
<1>6. CountsInv /\ ChainInv /\ TipsInv /\ ForksInv
  BY <1>1, <1>2 DEF CountsInv, UpToSeq, ChainInv, Chained, TipsInv, ForksInv
<1>7. \A t \in {working, disk} : \A a \in StoreActors :
        LogOf(t, a) = {} /\ LastSeq(t, a) = 0 /\ HeadSeqOf(t, a) = 0
  BY <1>1, FS_EmptySet DEF LogOf, LastSeq, HeadSeqOf
<1>8. Numbered(working) /\ Numbered(disk)
  <2>1. 1 .. 0 = {}
    OBVIOUS
  <2> QED
    BY <1>7, <2>1 DEF Numbered
<1>9. NumbersInv /\ LeadInv
  <2>1. NumbersInv
    BY <1>1, <1>2, <1>8 DEF NumbersInv
  <2>2. \A a \in StoreActors : \A q \in Appends({a}) : ~Leading(q)
    BY <1>2 DEF Appends
  <2>3. LeadInv
    BY <1>7, <2>2 DEF LeadInv
  <2> QED
    BY <2>1, <2>3
<1>10. RowInv
  BY <1>1, <1>2 DEF RowInv
<1>11. OwnersInv
  BY <1>1 DEF OwnersInv
<1> QED
  BY <1>0, <1>3, <1>4, <1>5, <1>6, <1>9, <1>10, <1>11 DEF WriteInv

LEMMA WriteStep ==
  ASSUME WriteInv, [StoresNext]_storeVars
  PROVE  WriteInv'
<1>1. TypeInv' /\ MeetInv'
  BY TypeStep, MetStep DEF WriteInv
<1>2. EventsInv'
  BY <1>1, EventsStep DEF WriteInv
<1>3. SavedInv' /\ CountsInv' /\ ChainInv' /\ TipsInv' /\ ForksInv'
  BY <1>1, SavedStep, CountsStep, ChainStep, TipsStep, ForksStep DEF WriteInv
<1>4. NumbersInv' /\ LeadInv'
  BY <1>1, <1>2, NumbersStep, LeadStep DEF WriteInv
<1>5. RowInv' /\ OwnersInv'
  BY RowsStep, OwnersStep DEF WriteInv
<1> QED
  BY <1>1, <1>2, <1>3, <1>4, <1>5 DEF WriteInv

LEMMA WritesHold ==
  ASSUME WriteInv
  PROVE  WritesLast
<1>0. TypeInv /\ EventsInv /\ CountsInv /\ NumbersInv /\ RowInv
  BY DEF WriteInv
<1>1. ASSUME NEW r \in Asks, job[r].answer = "ok", r.op = "append", NEW t \in {working, disk}
      PROVE  r.id \in {e.id : e \in t.log}
  <2>1. Acked(r) /\ IsWritten(r)
    BY <1>1 DEF Acked, IsWritten
  <2>2. PICK e \in t.log : e.by = r
    BY <1>0, <1>1, <2>1 DEF EventsInv
  <2>3. e.id = r.id
    BY <1>0, <1>1, <2>2, EventFacts
  <2> QED
    BY <2>3
<1>2. ASSUME NEW r \in Asks, job[r].answer = "ok", r.op = "put"
      PROVE  disk.rows[r.object].version > 0
  BY <1>0, <1>2 DEF RowInv
<1>3. ASSUME NEW d \in working.log, NEW e \in working.log, d.seq = e.seq,
             storeRun.store = "mesh" => d.actor = e.actor
      PROVE  d = e
  <2>1. CASE Mesh
    <3>1. e.by \in Asks /\ e.by.op = "append" /\ e.by.id = e.id /\ e.by.actor = e.actor
          /\ e.by.seq = e.seq
      BY <1>0, <2>1, EventFacts DEF NumbersInv
    <3> DEFINE q == e.by
    <3>2. d.id = q.id <=> d.actor = q.actor /\ d.seq = q.seq
      BY <1>0, <2>1, <3>1, IdsTell
    <3>3. d.id = e.id
      BY <1>3, <2>1, <3>1, <3>2 DEF Mesh
    <3> QED
      BY <1>0, <3>3 DEF EventsInv
  <2>2. CASE ~Mesh
    BY <1>0, <1>3, <2>2 DEF CountsInv
  <2> QED
    BY <2>1, <2>2
<1> QED
  BY <1>1, <1>2, <1>3 DEF WritesLast

LEMMA VersionsHold ==
  ASSUME WriteInv
  PROVE  VersionsRise
BY DEF WriteInv, RowInv, Bears, Outdone, VersionsRise

LEMMA ChainsHold ==
  ASSUME WriteInv, Relay
  PROVE  LogsAreChains
<1>0. TypeInv /\ ChainInv /\ ForksInv
  BY DEF WriteInv
<1>1. ASSUME NEW t \in {working, disk}, NEW e \in t.log, e.prev # "none"
      PROVE  \E d \in t.log : d.id = e.prev /\ d.actor = e.actor /\ d.seq < e.seq
  <2>1. Chained(t)
    BY <1>0, <1>1 DEF ChainInv
  <2> QED
    BY <1>1, <2>1 DEF Chained
<1>2. ASSUME NEW d \in working.log, NEW e \in working.log,
             d # e, d.actor = e.actor, d.prev = e.prev
      PROVE  e.by \in job[d.by].met \/ "lost" \in {job[d.by].answer, job[e.by].answer}
  <2>1. d.by \in Asks /\ e.by \in Asks
    BY <1>0, EventFacts
  <2> DEFINE p == d.by
             q == e.by
  <2>2. q \in job[p].met \/ Lost(p) \/ Lost(q)
    BY <1>0, <1>2, <2>1 DEF ForksInv
  <2> QED
    BY <2>2 DEF Lost
<1> QED
  BY <1>1, <1>2 DEF LogsAreChains

LEMMA ChannelsHold ==
  ASSUME WriteInv
  PROVE  ChannelsAreOwned
<1>1. ASSUME NEW c \in disk.channels
      PROVE  \E r \in Asks : /\ r.op = "channel" /\ r.object = c
                             /\ <<c, r.actor>> \in disk.members \/ job[r].answer \in {"running", "lost"}
  <2>1. PICK r \in Asks : r.op = "channel" /\ r.object = c /\ (Owns(disk, r) \/ Coming(r))
    BY <1>1 DEF WriteInv, OwnersInv, Owned
  <2> QED
    BY <2>1 DEF Owns, Coming, Lost, Running
<1> QED
  BY <1>1 DEF ChannelsAreOwned

LEMMA NumbersHold ==
  ASSUME WriteInv, Mesh
  PROVE  LogsValidate /\ HeadsLead
<1>0. TypeInv /\ EventsInv /\ LeadInv /\ Numbered(working) /\ Numbered(disk)
  BY DEF WriteInv, NumbersInv
<1>1. LogsValidate
  <2>1. ASSUME NEW t \in {working, disk}, NEW a \in StoreActors
        PROVE  LET log == {e \in t.log : e.actor = a}
               IN  /\ {e.seq : e \in log} = 1 .. Cardinality(log)
                   /\ \A e \in log :
                        IF e.seq = 1 THEN e.prev = "none"
                                     ELSE \E d \in log : d.seq = e.seq - 1 /\ e.prev = d.id
    <3>1. Numbered(t)
      BY <1>0
    <3> QED
      BY <3>1 DEF Numbered, LogOf, LastSeq
  <2> QED
    BY <2>1 DEF LogsValidate
<1>2. ASSUME NEW a \in StoreActors,
             \A q \in Appends({a}) : job[q].answer \notin {"running", "lost"}
      PROVE  HeadSeq(a) = Cardinality(EventsBy({a}))
  <2>1. EventsBy({a}) = LogOf(working, a) /\ HeadSeq(a) = HeadSeqOf(working, a)
    BY DEF EventsBy, LogOf, HeadSeq, HeadSeqOf
  <2>2. \A q \in Appends({a}) : ~Leading(q) /\ ~Lost(q)
    BY <1>2 DEF Leading, Lost, Running
  <2>3. HeadSeqOf(working, a) = LastSeq(working, a)
    BY <1>0, <2>2 DEF LeadInv
  <2> QED
    BY <2>1, <2>3 DEF LastSeq
<1> QED
  BY <1>1, <1>2 DEF HeadsLead

-----------------------------------------------------------------------------
(***************************************************************************)
(* What was read.  A reading of some logs stands: what it has of them is   *)
(* saved, and while a head it saw is the head, what is new in that log is  *)
(* of an append that is under way or was cut off.                          *)
(***************************************************************************)
Stands(rd) ==
  /\ \A i \in rd.ids : \E e \in disk.log : e.id = i /\ \E h \in rd.heads : h[1] = e.actor
  /\ \A h \in rd.heads : h[2] \in rd.ids \cup {"none"}
  /\ \A q \in Asks : \A e \in working.log :
       e.by = q /\ e.id \in rd.ids => Acked(q) \/ Lost(q)
  /\ \A h \in rd.heads : working.head[h[1]] = h[2] =>
       \A q \in Asks : \A e \in LogOf(working, h[1]) :
         e.by = q /\ e.id \notin rd.ids => Leading(q) \/ Lost(q)
  /\ \A h \in rd.heads : disk.head[h[1]] = h[2] =>
       \A q \in Asks : \A e \in LogOf(disk, h[1]) :
         e.by = q /\ e.id \notin rd.ids => InWrite(q) \/ Lost(q)

ActorsIn(rd) == {h[1] : h \in rd.heads}

\* No append to the logs of as has overlapped r.
FreeOf(r, as) == \A q \in Asks : q.op = "append" /\ q.actor \in as => q \notin job[r].met

\* The logs r has read; the head of the last comes next.
Seen(r, rd) ==
  ActorsIn(rd) \cup (IF job[r].todo[1][1] = "tip" THEN {job[r].todo[1][2]} ELSE {})

Current(as, rd) ==
  /\ rd.ids = {e.id : e \in {d \in working.log : d.actor \in as}}
  /\ \A h \in rd.heads : working.head[h[1]] = h[2]

FreshOf(r, rd) == \A as \in {Seen(r, rd)} : FreeOf(r, as) => Current(as, rd)

Stays(r, rd) == \A as \in {ActorsIn(rd)} : FreeOf(r, as) => Stands(rd)

\* Of feeds of logs, of Mesh's views, and of views of logs, the one that r is at
FeedInv ==
  Relay => \A r \in Asks : r.op = "reduce" /\ Opened(r) =>
    \A rd \in {job[r].read} : OverActors(rd.sources) =>
      /\ r \in Running => /\ \A n \in 1 .. Left(r) : job[r].todo[n][1] \in {"fetch", "tip"}
                          /\ FreshOf(r, rd)
      /\ job[r].answer = "ok" => Stays(r, rd)

Planned(r, rd) == [heads |-> {h \in rd.heads : h[1] \notin r.without}, ids |-> rd.ids]

PlanInv ==
  Mesh => \A r \in Asks : r.op = "execute" /\ Opened(r) =>
    \A rd \in {job[r].read} :
      /\ r \in Running => /\ \A n \in 1 .. Left(r) : job[r].todo[n][1] = "batch" <=> n = Left(r)
                          /\ rd.of = Seen(r, rd) /\ FreshOf(r, rd)
      /\ job[r].answer = "ok" => /\ rd.of = ActorsIn(rd)
                                 /\ FreeOf(r, rd.of) => \A s \in {Planned(r, rd)} : Stands(s)

View == storeRun.store = "view"

InCollect(r) == r \in Running /\ job[r].todo[1][1] \notin {"commit", "return"}

\* No append to the logs of as has overlapped any execution.
AllFree(as) == \A q \in Asks : q.op = "execute" => FreeOf(q, as)

\* An execution of a view of logs comes across no view, and winds up once it commits.
Winding(r) ==
  /\ \A n \in 1 .. Left(r) : job[r].todo[n][1] # "view"
  /\ \A m, n \in 1 .. Left(r) :
       m < n /\ job[r].todo[m][1] \in {"commit", "return"} =>
         job[r].todo[n][1] \in {"commit", "return"}

Trusted(f) == \A as \in {ActorsIn(f)} : AllFree(as) /\ OneByOne(f.view) => Stands(f)

Nested(read) == \A n \in 2 .. Len(read) : ~OverActors(read[n].sources)

ViewInv ==
  View => \A r \in Asks : r.op = "execute" /\ Opened(r) =>
    /\ Nested(job[r].read)
    /\ \A f \in {job[r].read[1]} : OverActors(f.sources) =>
         /\ r \in Running => Winding(r)
         /\ InCollect(r) => FreshOf(r, f)
         /\ ~InCollect(r) => Trusted(f)

CacheInv ==
  View => \A t \in {working, disk} : \A r \in Asks : \A c \in t.cache :
    c.by = r => r.op = "execute" /\ (OverActors(c.sources) => Stays(r, c))

\* What is there of a view by some version has one definition.
Defines(t, v, x) ==
  /\ x.version <= t.rows[v].version
  /\ x.version = t.rows[v].version => x.sources = t.rows[v].sources

SameRow(v, x, y) == x.view = v /\ y.view = v /\ x.version = y.version => x.sources = y.sources

FramesOf(r) == {job[r].read[n] : n \in 1 .. Len(job[r].read)}

Executing == {r \in Running : r.op = "execute"}

Copies == working.cache \cup UNION {FramesOf(r) : r \in Executing}

VersInv ==
  View => \A v \in StoreObjects : OneByOne(v) =>
    /\ \A q \in Asks : Allowed(q) /\ q.object = v => q.version > working.rows[v].version
    /\ \A x \in Copies : x.view = v => Defines(working, v, x)
    /\ \A x, y \in Copies : SameRow(v, x, y)
    /\ \A x \in disk.cache : x.view = v => Defines(disk, v, x)
    /\ \A x, y \in disk.cache : SameRow(v, x, y)

ReadInv == WriteInv /\ FeedInv /\ PlanInv /\ ViewInv /\ CacheInv /\ VersInv

LEMMA StandsStep ==
  ASSUME TypeInv, TypeInv', MeetInv, EventsInv, [StoresNext]_storeVars,
         NEW rd, \A h \in rd.heads : h[1] \in StoreActors, Stands(rd)
  PROVE  Stands(rd)'
<1>0. /\ \A t \in {working, disk} : \A e \in t.log :
           e.by \in Asks /\ e.by.op = "append" /\ e.id = e.by.id /\ e.actor = e.by.actor
      /\ \A q \in Asks : Leading(q) => InWrite(q)
  BY EventFacts DEF Leading, InWrite
<1>1. CASE CalmStep
  <2>1. /\ Asks' = Asks /\ working'.log = working.log /\ working'.head = working.head
        /\ disk' = disk \/ (working' = working /\ disk' = working)
        /\ \A q \in Asks : /\ (Leading(q)' <=> Leading(q)) /\ (InWrite(q)' <=> InWrite(q))
                           /\ Acked(q)' <=> Acked(q)
                           /\ q.op = "append" => (Lost(q)' <=> Lost(q))
    BY <1>1 DEF CalmStep, SameRun, KeepsLogs, Still
  <2>2. disk.log \subseteq working.log
    BY DEF EventsInv
  <2>3. CASE disk' = disk
    BY <1>0, <2>1, <2>3 DEF Stands, LogOf
  <2>4. CASE working' = working /\ disk' = working
    BY <1>0, <2>1, <2>2, <2>4 DEF Stands, LogOf
  <2> QED
    BY <2>1, <2>3, <2>4
<1>2. CASE Halting
  <2>1. /\ Asks' = Asks /\ working' = disk /\ disk' = disk
        /\ \A q \in Asks : /\ Acked(q)' <=> Acked(q)
                           /\ Lost(q)' <=> Lost(q) \/ q \in Running
    BY <1>2 DEF Halting, SameRun
  <2>2. disk.log \subseteq working.log /\ \A q \in Asks : InWrite(q) => q \in Running
    BY DEF EventsInv, InWrite
  <2> QED
    BY <1>0, <2>1, <2>2 DEF Stands, LogOf
<1>3. ASSUME NEW r \in Asks, LoneStep(r), Kinds(r)
      PROVE  Stands(rd)'
  <2>1. /\ Asks' = Asks /\ ~Lost(r) /\ ~Lost(r)' /\ ~Acked(r) /\ r.op = "append"
        /\ \A q \in Asks \ {r} : /\ (Leading(q)' <=> Leading(q)) /\ (InWrite(q)' <=> InWrite(q))
                                 /\ Acked(q)' <=> Acked(q)
                                 /\ q.op = "append" => (Lost(q)' <=> Lost(q))
    BY <1>3 DEF LoneStep, SameRun, Still
  <2>2. /\ disk.log \subseteq working.log
        /\ \A t \in {working, disk} : \A e \in t.log : e.by = r => IsWritten(r)
        /\ IsWritten(r) => \E e \in working.log : e.by = r
    BY <1>0, <2>1 DEF EventsInv
  <2>3. \A e \in working.log : e.by = r => e.id \notin rd.ids
    BY <2>1 DEF Stands
  <2>4. CASE IdleStep(r) \/ Check(r) \/ Count(r) \/ Save(r)
    <3>1. /\ working'.log = working.log /\ working'.head = working.head
          /\ disk' = disk \/ (working' = working /\ disk' = working)
          /\ ~IsWritten(r)
      BY <1>3, <2>4, CountStep DEF IdleStep, Check, Count, Save
    <3>2. CASE disk' = disk
      BY <1>0, <2>1, <2>2, <3>1, <3>2 DEF Stands, LogOf
    <3>3. CASE working' = working /\ disk' = working
      BY <1>0, <2>1, <2>2, <3>1, <3>3 DEF Stands, LogOf
    <3> QED
      BY <3>1, <3>2, <3>3
  <2>5. CASE Insert(r)
    <3> DEFINE n == IF Mesh THEN r.seq ELSE job[r].read
               e == LoggedAs(r, n)
    <3>1. /\ working'.log = working.log \cup {e} /\ working'.head = working.head /\ disk' = disk
          /\ e.id = r.id /\ e.by = r /\ \A d \in working.log : d.id # r.id
      BY <1>3, <2>5, Insertion
    <3> HIDE DEF e
    <3>2. Leading(r)' /\ ~IsWritten(r)
      BY <2>5 DEF Insert
    <3>3. e.id \notin rd.ids
      BY <2>2, <3>1 DEF Stands
    <3> QED
      BY <1>0, <2>1, <2>2, <3>1, <3>2, <3>3 DEF Stands, LogOf
  <2>6. CASE Lead(r)
    <3>1. /\ working'.log = working.log /\ disk' = disk /\ r.actor \in StoreActors
          /\ working'.head[r.actor] = r.id /\ r.id # "none"
          /\ \A a \in StoreActors : a # r.actor => working'.head[a] = working.head[a]
      BY <1>3, <2>6, Tipping
    <3>2. IsWritten(r) /\ InWrite(r)'
      BY <2>6 DEF Lead
    <3>3. r.id \notin rd.ids
      <4>1. PICK e \in working.log : e.by = r
        BY <2>2, <3>2
      <4> QED
        BY <1>0, <2>3, <4>1
    <3>4. \A h \in rd.heads : h[1] = r.actor => working'.head[h[1]] # h[2]
      BY <3>1, <3>3 DEF Stands
    <3> QED
      BY <1>0, <2>1, <2>2, <2>3, <3>1, <3>2, <3>4 DEF Stands, LogOf
  <2>7. CASE Close(r)
    <3>1. IsWritten(r) /\ ~Leading(r) /\ working' = working /\ disk' = working
      BY <2>7 DEF Close
    <3> QED
      BY <1>0, <2>1, <2>2, <2>3, <3>1 DEF Stands, LogOf
  <2> QED
    BY <1>3, <2>4, <2>5, <2>6, <2>7 DEF Kinds
<1> QED
  BY <1>1, <1>2, <1>3, LogSteps

\* A reading that is current, of logs no append is writing, stands; and what stands is,
\* where the heads are still those, all there is.
LEMMA CurrentStands ==
  ASSUME TypeInv, EventsInv, SavedInv, NEW rd,
         \A h \in rd.heads : h[1] \in StoreActors, Current(ActorsIn(rd), rd),
         \A q \in Asks : q.op = "append" /\ q.actor \in ActorsIn(rd) => q \notin Running
  PROVE  Stands(rd)
<1>1. /\ rd.ids = {e.id : e \in {d \in working.log : d.actor \in ActorsIn(rd)}}
      /\ \A h \in rd.heads : working.head[h[1]] = h[2]
      /\ ActorsIn(rd) \subseteq StoreActors
  BY DEF Current, ActorsIn
<1>2. \A a \in ActorsIn(rd) :
        working.head[a] = disk.head[a] /\ LogOf(working, a) = LogOf(disk, a)
  <2>1. \A a \in ActorsIn(rd) : \A q \in Appends({a}) : ~InWrite(q)
    BY DEF Appends, InWrite
  <2> QED
    BY <1>1, <2>1 DEF SavedInv
<1>3. \A e \in working.log : /\ e.by \in Asks /\ e.by.op = "append" /\ e.actor = e.by.actor
                             /\ IsWritten(e.by) \/ Lost(e.by)
  BY EventFacts DEF EventsInv
<1>4. \A e \in working.log : e.actor \in ActorsIn(rd) => Acked(e.by) \/ Lost(e.by)
  BY <1>3 DEF IsWritten, Acked
<1>5. \A i \in rd.ids : \E e \in working.log : e.id = i /\ e.actor \in ActorsIn(rd)
  BY <1>1
<1>6. \A e \in working.log : e.actor \in ActorsIn(rd) => e.id \in rd.ids
  BY <1>1
<1>7. \A i \in rd.ids : \E e \in disk.log : e.id = i /\ \E h \in rd.heads : h[1] = e.actor
  BY <1>2, <1>5 DEF LogOf, ActorsIn
<1>8. \A h \in rd.heads : h[2] \in rd.ids \cup {"none"}
  <2>1. \A h \in rd.heads : h[2] # "none" =>
          \E e \in working.log : e.id = h[2] /\ e.actor = h[1] /\ h[1] \in ActorsIn(rd)
    BY <1>1 DEF EventsInv, HeadsFit, ActorsIn
  <2> QED
    BY <2>1, <1>6
<1>9. \A q \in Asks : \A e \in working.log : e.by = q /\ e.id \in rd.ids => Acked(q) \/ Lost(q)
  <2>1. \A e \in working.log : e.id \in rd.ids => e.actor \in ActorsIn(rd)
    BY <1>5 DEF EventsInv
  <2> QED
    BY <2>1, <1>4
<1>10. \A h \in rd.heads : /\ \A e \in LogOf(working, h[1]) : e.id \in rd.ids
                           /\ \A e \in LogOf(disk, h[1]) : e.id \in rd.ids
  <2>1. \A h \in rd.heads : h[1] \in ActorsIn(rd)
    BY DEF ActorsIn
  <2> QED
    BY <2>1, <1>2, <1>6 DEF LogOf
<1> QED
  BY <1>7, <1>8, <1>9, <1>10 DEF Stands

LEMMA StandsTells ==
  ASSUME TypeInv, EventsInv, NEW rd, Stands(rd),
         \A h \in rd.heads : working.head[h[1]] = h[2],
         \A q \in Appends(ActorsIn(rd)) : job[q].answer \notin {"running", "lost"}
  PROVE  rd.ids = {e.id : e \in EventsBy(ActorsIn(rd))}
<1>1. \A e \in working.log : e.actor \in ActorsIn(rd) => ~Leading(e.by) /\ ~Lost(e.by) /\ e.by \in Asks
  BY EventFacts DEF Appends, Leading, Lost, Running
<1>2. \A e \in working.log : e.actor \in ActorsIn(rd) => e.id \in rd.ids
  <2>1. ASSUME NEW e \in working.log, e.actor \in ActorsIn(rd)
        PROVE  e.id \in rd.ids
    <3>1. PICK h \in rd.heads : h[1] = e.actor
      BY <2>1 DEF ActorsIn
    <3>2. e \in LogOf(working, h[1]) /\ e.by \in Asks /\ ~Leading(e.by) /\ ~Lost(e.by)
      BY <1>1, <2>1, <3>1 DEF LogOf
    <3> QED
      BY <3>2 DEF Stands
  <2> QED
    BY <2>1
<1>3. \A i \in rd.ids : \E e \in working.log : e.id = i /\ e.actor \in ActorsIn(rd)
  BY DEF Stands, EventsInv, ActorsIn
<1> QED
  BY <1>2, <1>3 DEF EventsBy

\* To who reads, in a step: it takes one, begins, is cut off, or is as it was.
LEMMA ReaderCourses ==
  ASSUME TypeInv, TypeInv', MeetInv, [StoresNext]_storeVars, NEW r \in Asks
  PROVE  Step(r) \/ Starts(r) \/ (r \in Running /\ Lost(r)') \/ Same(r)
<1>0. SameRun /\ (OpenStep \/ Cut \/ \E q \in Asks : Step(q))
  BY Courses
<1>1. CASE OpenStep
  BY <1>1 DEF OpenStep
<1>2. CASE Cut
  <2>1. CASE r \in Running
    BY <1>2, <2>1 DEF Cut, Lost
  <2>2. CASE r \notin Running
    <3>1. /\ job'[r].met = job[r].met /\ job'[r].read = job[r].read
          /\ job'[r].answer = job[r].answer /\ job[r].answer # "running"
      BY <1>2, <2>2 DEF Cut, Running
    <3>2. job[r].todo = << >> /\ job'[r].todo = << >>
      BY <1>0, <3>1 DEF TypeInv, JobType, SameRun
    <3> QED
      BY <3>1, <3>2 DEF Same
  <2> QED
    BY <2>1, <2>2
<1>3. ASSUME NEW q \in Asks, Step(q), q # r
      PROVE  Same(r)
  <2>1. OnlyJob(q)
    BY <1>3, AppendsDo, PutsDo, ChannelsDo, OthersDo
  <2> QED
    BY <1>3, <2>1, OnlySame
<1> QED
  BY <1>0, <1>1, <1>2, <1>3

\* What is free after a step was free before it.
LEMMA FreeBefore ==
  ASSUME TypeInv, MeetInv, [StoresNext]_storeVars
  PROVE  /\ \A q \in Asks : job[q].met \subseteq job'[q].met
         /\ \A r \in Asks : \A as : FreeOf(r, as)' => FreeOf(r, as)
         /\ \A as : AllFree(as)' => AllFree(as)
         /\ \A v : OneByOne(v)' => OneByOne(v)
<1>1. Asks' = Asks /\ \A q \in Asks : job[q].met \subseteq job'[q].met
  <2>1. CASE CalmStep
    BY <2>1 DEF CalmStep, SameRun, Still
  <2>2. CASE Halting
    BY <2>2 DEF Halting, SameRun
  <2>3. ASSUME NEW r \in Asks, LoneStep(r)
        PROVE  Asks' = Asks /\ \A q \in Asks : job[q].met \subseteq job'[q].met
    BY <2>3 DEF LoneStep, SameRun, Still
  <2> QED
    BY <2>1, <2>2, <2>3, LogSteps
<1>2. \A r \in Asks : \A as : FreeOf(r, as)' => FreeOf(r, as)
  BY <1>1 DEF FreeOf
<1>3. \A as : AllFree(as)' => AllFree(as)
  BY <1>1, <1>2 DEF AllFree
<1>4. \A v : OneByOne(v)' => OneByOne(v)
  BY <1>1 DEF OneByOne
<1> QED
  BY <1>1, <1>2, <1>3, <1>4

\* A log that no append writes while one reads is as it was.
LEMMA ReadersSee ==
  ASSUME TypeInv, MeetInv, [StoresNext]_storeVars,
         NEW r \in Running, r.op # "append", r \in Running', NEW a \in StoreActors, FreeOf(r, {a})
  PROVE  LogOf(working, a)' = LogOf(working, a) /\ working'.head[a] = working.head[a]
<1>1. CASE CalmStep
  BY <1>1 DEF CalmStep, KeepsLogs, LogOf
<1>2. ~Halting
  BY DEF Halting, Lost, Running
<1>3. ASSUME NEW q \in Asks, LoneStep(q), Kinds(q)
      PROVE  LogOf(working, a)' = LogOf(working, a) /\ working'.head[a] = working.head[a]
  <2>1. q.op = "append" /\ q.actor # a
    <3>1. q \in Running /\ q.op = "append" /\ q # r /\ r \in Asks
      BY <1>3 DEF LoneStep, Running
    <3>2. q \in job[r].met
      BY <1>3, <3>1 DEF MeetInv
    <3> QED
      BY <1>3, <3>1, <3>2 DEF FreeOf
  <2>2. CASE IdleStep(q) \/ Check(q) \/ Count(q) \/ Save(q) \/ Close(q)
    BY <1>3, <2>2, CountStep DEF IdleStep, Check, Count, Save, Close, LogOf
  <2>3. CASE Insert(q)
    <3> DEFINE n == IF Mesh THEN q.seq ELSE job[q].read
               e == LoggedAs(q, n)
    <3>1. working'.log = working.log \cup {e} /\ working'.head = working.head /\ e.actor = q.actor
      BY <1>3, <2>3, Insertion
    <3> HIDE DEF e
    <3> QED
      BY <2>1, <3>1 DEF LogOf
  <2>4. CASE Lead(q)
    BY <1>3, <2>1, <2>4, Tipping DEF LogOf
  <2> QED
    BY <1>3, <2>2, <2>3, <2>4 DEF Kinds
<1> QED
  BY <1>1, <1>2, <1>3, LogSteps

LEMMA CurrentAlike ==
  ASSUME NEW as, as \subseteq StoreActors, NEW rd, \A h \in rd.heads : h[1] \in as, Current(as, rd),
         \A a \in as : LogOf(working, a)' = LogOf(working, a) /\ working'.head[a] = working.head[a]
  PROVE  Current(as, rd)'
<1>1. {d \in working'.log : d.actor \in as} = {d \in working.log : d.actor \in as}
  BY DEF LogOf
<1> QED
  BY <1>1 DEF Current

LEMMA FreshSame ==
  ASSUME TypeInv, MeetInv, [StoresNext]_storeVars,
         NEW r \in Running, r.op # "append", Same(r), NEW rd,
         \A h \in rd.heads : h[1] \in StoreActors, FreshOf(r, rd)
  PROVE  FreshOf(r, rd)'
<1>1. r \in Asks /\ Asks' = Asks /\ r \in Running'
  BY Courses, SameStays, RunningAsks DEF SameRun
<1>2. /\ Seen(r, rd) \subseteq StoreActors /\ Seen(r, rd)' = Seen(r, rd)
      /\ \A h \in rd.heads : h[1] \in Seen(r, rd)
  BY ArgumentFits DEF Seen, ActorsIn, Same, OverActorsNames
<1>3. ASSUME NEW as, as = Seen(r, rd), FreeOf(r, as)'
      PROVE  Current(as, rd)'
  <2>1. FreeOf(r, as)
    BY <1>1, <1>3, FreeBefore
  <2>2. \A a \in as : FreeOf(r, {a})
    BY <2>1 DEF FreeOf
  <2>3. \A a \in as : LogOf(working, a)' = LogOf(working, a) /\ working'.head[a] = working.head[a]
    BY <1>1, <1>2, <1>3, <2>2, ReadersSee
  <2>4. Current(as, rd)
    BY <1>3, <2>1 DEF FreshOf
  <2>5. as \subseteq StoreActors /\ \A h \in rd.heads : h[1] \in as
    BY <1>2, <1>3
  <2> QED
    BY <2>3, <2>4, <2>5, CurrentAlike
<1> QED
  BY <1>2, <1>3 DEF FreshOf

LEMMA StaysStep ==
  ASSUME TypeInv, TypeInv', MeetInv, EventsInv, [StoresNext]_storeVars, NEW r \in Asks, NEW rd,
         \A h \in rd.heads : h[1] \in StoreActors, Stays(r, rd)
  PROVE  Stays(r, rd)'
BY FreeBefore, StandsStep DEF Stays, ActorsIn

\* What a step of a reader leaves: it has read the logs of as, and nothing since.
LEMMA Going ==
  ASSUME TypeInv, TypeInv', MeetInv, EventsInv, SavedInv, [StoresNext]_storeVars,
         NEW r \in Running, Step(r), r.op \notin {"append", "put", "channel"},
         NEW as, as \subseteq StoreActors, NEW rd, \A h \in rd.heads : h[1] \in as,
         FreeOf(r, as) => Current(as, rd)
  PROVE  /\ Seen(r, rd)' = as => FreshOf(r, rd)'
         /\ ActorsIn(rd) = as => Stays(r, rd)'
<1>1. r \in Asks /\ working'.log = working.log /\ working'.head = working.head
  BY RunningAsks, OthersDo DEF Keeps
<1>2. FreeOf(r, as)' => FreeOf(r, as)
  BY <1>1, FreeBefore
<1>3. FreeOf(r, as) => Current(as, rd)'
  BY <1>1 DEF Current
<1>4. Seen(r, rd)' = as => FreshOf(r, rd)'
  BY <1>2, <1>3 DEF FreshOf
<1>5. ASSUME ActorsIn(rd) = as
      PROVE  Stays(r, rd)'
  <2>1. ASSUME FreeOf(r, as)'
        PROVE  Stands(rd)'
    <3>1. FreeOf(r, as) /\ Current(ActorsIn(rd), rd) /\ \A h \in rd.heads : h[1] \in StoreActors
      BY <1>2, <1>5, <2>1
    <3>2. \A q \in Asks : q.op = "append" /\ q.actor \in ActorsIn(rd) => q \notin Running
      BY <1>1, <1>5, <3>1 DEF FreeOf, MeetInv
    <3>3. Stands(rd)
      BY <3>1, <3>2, CurrentStands
    <3> QED
      BY <3>1, <3>3, StandsStep
  <2>2. ActorsIn(rd)' = as
    BY <1>5 DEF ActorsIn
  <2> QED
    BY <2>1, <2>2 DEF Stays
<1> QED
  BY <1>4, <1>5

\* The ways to go on: some logs and heads more, or the same
LEMMA Fetched ==
  ASSUME NEW as, NEW rd, Current(as, rd), NEW a, NEW sd, sd.heads = rd.heads,
         sd.ids = rd.ids \cup {e.id : e \in EventsBy({a})}
  PROVE  Current(as \cup {a}, sd)
<1>1. {d \in working.log : d.actor \in as \cup {a}} =
        {d \in working.log : d.actor \in as} \cup EventsBy({a})
  BY DEF EventsBy
<1>2. {e.id : e \in {d \in working.log : d.actor \in as \cup {a}}} =
        {e.id : e \in {d \in working.log : d.actor \in as}} \cup {e.id : e \in EventsBy({a})}
  BY <1>1
<1> QED
  BY <1>2 DEF Current

LEMMA Tipped ==
  ASSUME NEW rd, NEW a, NEW sd, sd.heads = rd.heads \cup {<<a, working.head[a]>>}
  PROVE  ActorsIn(sd) = ActorsIn(rd) \cup {a}
<1> DEFINE new == <<a, working.head[a]>>
<1>1. new[1] = a
  OBVIOUS
<1> HIDE DEF new
<1>2. sd.heads = rd.heads \cup {new}
  BY DEF new
<1> QED
  BY <1>1, <1>2 DEF ActorsIn

LEMMA TippedToo ==
  ASSUME NEW as, NEW rd, NEW a, NEW sd, sd.ids = rd.ids,
         sd.heads = rd.heads \cup {<<a, working.head[a]>>}, Current(as, rd)
  PROVE  Current(as, sd)
<1> DEFINE new == <<a, working.head[a]>>
<1>1. working.head[new[1]] = new[2]
  OBVIOUS
<1> HIDE DEF new
<1>2. sd.heads = rd.heads \cup {new}
  BY DEF new
<1> QED
  BY <1>1, <1>2 DEF Current

LEMMA NothingRead ==
  ASSUME NEW rd, rd.heads = {}, rd.ids = {}
  PROVE  ActorsIn(rd) = {} /\ Current({}, rd)
BY DEF Current, ActorsIn

\* What was read before, for one that runs
LEMMA FreshTells ==
  ASSUME TypeInv, NEW r \in Running, NEW rd, FreshOf(r, rd)
  PROVE  /\ job[r].todo[1][1] = "tip" =>
              (FreeOf(r, ActorsIn(rd) \cup {Argument(r)}) => Current(ActorsIn(rd) \cup {Argument(r)}, rd))
         /\ job[r].todo[1][1] # "tip" => (FreeOf(r, ActorsIn(rd)) => Current(ActorsIn(rd), rd))
BY ArgumentFits DEF FreshOf, Seen, OverActorsNames

\* Where no tip comes next
LEMMA NoTip ==
  ASSUME TypeInv, NEW r \in Running, NEW rd
  PROVE  /\ job'[r].todo = Tail(job[r].todo) /\ job'[r].todo # << >> =>
              job'[r].todo[1][1] # "tip"
         /\ job'[r].todo[1][1] # "tip" => Seen(r, rd)' = ActorsIn(rd)
         /\ \A a : job'[r].todo[1] = <<"tip", a>> => Seen(r, rd)' = ActorsIn(rd) \cup {a}
<1>1. ASSUME job'[r].todo = Tail(job[r].todo), job'[r].todo # << >>
      PROVE  job'[r].todo[1][1] # "tip"
  <2>1. Len(Tail(job[r].todo)) \in Nat /\ Tail(job[r].todo) \in Seq(Statement)
        /\ \A n \in 1 .. Len(Tail(job[r].todo)) : Tail(job[r].todo)[n][1] # "tip"
    BY TailFits, LenProperties DEF TodoType
  <2>2. 1 \in 1 .. Len(Tail(job[r].todo))
    BY <1>1, <2>1, EmptySeq
  <2> QED
    BY <1>1, <2>1, <2>2
<1> QED
  BY <1>1 DEF Seen, ActorsIn

\* A statement in place of the first
LEMMA Onward ==
  ASSUME TypeInv, NEW r \in Running, NEW s \in Statement
  PROVE  LET t == <<s>> \o Tail(job[r].todo)
         IN  /\ Len(t) = Left(r) /\ t[1] = s /\ t # << >>
             /\ \A n \in 2 .. Left(r) : t[n] = job[r].todo[n]
<1> DEFINE t == <<s>> \o Tail(job[r].todo)
<1>1. Tail(job[r].todo) \in Seq(Statement) /\ Len(Tail(job[r].todo)) = Left(r) - 1
      /\ Left(r) \in Nat \ {0}
      /\ \A n \in 1 .. Left(r) - 1 : Tail(job[r].todo)[n] = job[r].todo[n + 1]
  BY RunningAsks, TailFits DEF TodoType
<1>2. /\ Len(t) = Len(Tail(job[r].todo)) + 1 /\ t[1] = s /\ t # << >>
      /\ \A n \in 2 .. Len(t) : t[n] = Tail(job[r].todo)[n - 1]
  BY <1>1, OnTop
<1>3. \A n \in 2 .. Left(r) : n - 1 \in 1 .. Left(r) - 1 /\ n - 1 + 1 = n
  BY <1>1
<1> HIDE DEF t
<1>4. Len(t) = Left(r) /\ \A n \in 2 .. Left(r) : t[n] = job[r].todo[n]
  BY <1>1, <1>2, <1>3
<1> QED
  BY <1>2, <1>4 DEF t

LEMMA Rest ==
  ASSUME TypeInv, NEW r \in Running
  PROVE  /\ Len(Tail(job[r].todo)) = Left(r) - 1 /\ Left(r) \in Nat \ {0}
         /\ \A n \in 1 .. Left(r) - 1 : Tail(job[r].todo)[n] = job[r].todo[n + 1]
         /\ Tail(job[r].todo) = << >> <=> Left(r) = 1
<1>1. Tail(job[r].todo) \in Seq(Statement) /\ Len(Tail(job[r].todo)) = Left(r) - 1
      /\ Left(r) \in Nat \ {0}
      /\ \A n \in 1 .. Left(r) - 1 : Tail(job[r].todo)[n] = job[r].todo[n + 1]
  BY RunningAsks, TailFits DEF TodoType
<1>2. Tail(job[r].todo) = << >> <=> Len(Tail(job[r].todo)) = 0
  BY <1>1, EmptySeq
<1>3. Left(r) - 1 = 0 <=> Left(r) = 1
  BY <1>1
<1> QED
  BY <1>1, <1>2, <1>3, Zenon

\* A feed of logs: a statement of a reduction's own
LEMMA FeedGoes ==
  ASSUME WriteInv, TypeInv', FeedInv, Relay, [StoresNext]_storeVars,
         NEW r \in Running, r.op = "reduce", Step(r), Opened(r)',
         NEW sd, sd = job'[r].read, OverActors(sd.sources)
  PROVE  /\ r \in Running' => /\ (\A n \in 1 .. Left(r) : job[r].todo[n][1] \in {"fetch", "tip"})'
                              /\ FreshOf(r, sd)'
         /\ job'[r].answer = "ok" => Stays(r, sd)'
<1>0. /\ r \in Asks /\ job[r].todo[1] = Head(job[r].todo) /\ Placed(r, job[r].todo[1][1], Left(r))
      /\ TypeInv /\ MeetInv /\ EventsInv /\ SavedInv /\ r \in Asks'
  BY RunningAsks, StandsAt, OthersDo DEF WriteInv, OnlyJob
<1>1. FeedStep(r)
  <2>1. ~PlainStep(r) /\ ~Commit(r)
    BY <1>0 DEF PlainStep, NextSeq, Commit, ReadVersion, Replace, InsertEvent, MoveHead,
         PutIdentity, FindIdentity, ReadHead, OpenChannel, OwnerJoins,
         CreateObject, CheckChain, InsertNumbered, At, Placed
  <2>2. ~ViewStep(r) /\ ~PlanStep(r)
    BY DEF ViewStep, PlanStep, Mesh, Relay
  <2> QED
    BY <2>1, <2>2 DEF Step
<1>2. sd.heads \in Heads
  <2>1. Heads' = Heads
    BY Courses, <1>0 DEF SameRun, Heads, KnownIds, Appenders
  <2>2. job'[r].read \in Feeds'
    BY <1>0 DEF TypeInv, JobType, ReadType
  <2> QED
    BY <2>1, <2>2 DEF Feeds
<1>3. (\A h \in sd.heads : h[1] \in ActorsIn(sd)) /\ ActorsIn(sd) \subseteq StoreActors
  BY <1>2 DEF ActorsIn, Heads
<1>4. ASSUME NEW as, as \subseteq StoreActors, ActorsIn(sd) \subseteq as,
             FreeOf(r, as) => Current(as, sd)
      PROVE  /\ Seen(r, sd)' = as => FreshOf(r, sd)'
             /\ ActorsIn(sd) = as => Stays(r, sd)'
  BY <1>0, <1>3, <1>4, Going
<1>b. Opened(r) => job[r].read \in Feeds
  BY <1>0, ReadsAreGood DEF GoodRead
<1> DEFINE rd == job[r].read
           todo == job[r].todo
<1>5. ASSUME Opened(r), OverActors(rd.sources)
      PROVE  (\A n \in 1 .. Left(r) : todo[n][1] \in {"fetch", "tip"}) /\ FreshOf(r, rd) /\ rd \in Feeds
  BY <1>0, <1>5 DEF FeedInv, TypeInv, JobType, ReadType
<1>6. ASSUME NEW t, job'[r].todo = t, Goes(r, t, sd)
      PROVE  r \in Running' <=> t # << >>
  BY <1>0, <1>6, GoesOnly DEF Running
<1>7. CASE Reduce(r)
  <2> DEFINE row == working.rows[Argument(r)]
             f == [n \in DOMAIN row.sources |->
                     IF row.sources[n] \in StoreActors THEN <<"fetch", row.sources[n]>>
                                                       ELSE <<"define", row.sources[n]>>]
             new == [version |-> row.version, sources |-> row.sources, heads |-> {}, ids |-> {}]
  <2>1. At(r, "reduce") /\ (Goes(r, f, new) \/ Ends(r, "refused"))
    BY <1>7 DEF Reduce
  <2>2. ~Ends(r, "refused")
    BY <1>0, EndsOnly DEF Opened, Reading, Running
  <2>3. job'[r].todo = f /\ sd = new
    BY <1>0, <2>1, <2>2, GoesOnly
  <2>4. Argument(r) \in StoreObjects
    BY <1>0, <2>1, ArgumentFits DEF At, OverObjectsNames
  <2>5. /\ Len(row.sources) \in Nat /\ DOMAIN f = 1 .. Len(row.sources)
        /\ \A n \in 1 .. Len(row.sources) : f[n][1] = "fetch"
    BY <1>0, <2>3, <2>4, RowsFit DEF OverActors
  <2>6. Len(f) = Len(row.sources) /\ (f # << >> => 1 \in 1 .. Len(row.sources))
    <3>1. f \in [1 .. Len(row.sources) -> {f[n] : n \in 1 .. Len(row.sources)}]
      BY <2>5
    <3> HIDE DEF f
    <3>2. f \in Seq({f[n] : n \in 1 .. Len(row.sources)}) /\ Len(f) = Len(row.sources)
      BY <2>5, <3>1, FunctionIsSeq
    <3> QED
      BY <2>5, <3>2, EmptySeq
  <2>7. ActorsIn(sd) = {} /\ Current({}, sd)
    BY <2>3, NothingRead
  <2> HIDE DEF f, new
  <2>8. (\A n \in 1 .. Left(r) : job[r].todo[n][1] \in {"fetch", "tip"})'
    BY <2>3, <2>5, <2>6 DEF Left
  <2>9. r \in Running' => Seen(r, sd)' = {}
    <3>1. r \in Running' => job'[r].todo[1][1] # "tip"
      BY <1>0, <1>6, <2>1, <2>2, <2>3, <2>5, <2>6
    <3> QED
      BY <1>0, <2>7, <3>1, NoTip
  <2> QED
    BY <1>4, <2>7, <2>8, <2>9
<1>8. CASE Define(r)
  <2>1. At(r, "define") /\ \E t : Goes(r, t, rd)
    BY <1>8 DEF Define
  <2>2. Opened(r) /\ sd = rd /\ Left(r) \in Nat \ {0}
    BY <1>0, <2>1, GoesOnly, RunningAsks DEF Opened, Reading, At
  <2> QED
    BY <1>0, <1>5, <2>1, <2>2 DEF At
<1>9. CASE FetchLog(r)
  <2> DEFINE a == Argument(r)
             tip == IF At(r, "fetch") THEN "tip" ELSE "peek"
             got == {e.id : e \in EventsBy({a})}
             t == <<<<tip, a>>>> \o Tail(todo)
  <2>1. /\ At(r, "fetch") \/ At(r, "gather")
        /\ Goes(r, t, [rd EXCEPT !.ids = @ \cup got])
    BY <1>9 DEF FetchLog
  <2>2. Opened(r) /\ rd \in Feeds /\ Left(r) \in Nat \ {0}
    <3>1. Opened(r) /\ Left(r) \in Nat \ {0}
      BY <1>0, <2>1, RunningAsks DEF Opened, Reading, At
    <3> QED
      BY <3>1, <1>b
  <2> DEFINE new == [rd EXCEPT !.ids = @ \cup got]
  <2>a. Goes(r, t, new)
    BY <2>1
  <2> HIDE DEF t, new
  <2>b. job'[r].todo = t /\ sd = new
    BY <1>0, <2>a, GoesOnly
  <2> USE DEF t, new
  <2>3. job'[r].todo = t /\ sd = [rd EXCEPT !.ids = @ \cup got]
    BY <2>b
  <2>4. sd.sources = rd.sources /\ sd.heads = rd.heads /\ sd.ids = rd.ids \cup got
    BY <2>2, <2>3 DEF Feeds
  <2>5. /\ \A n \in 1 .. Left(r) : todo[n][1] \in {"fetch", "tip"}
        /\ FreshOf(r, rd) /\ At(r, "fetch") /\ tip = "tip" /\ a \in StoreActors
    <3>1. (\A n \in 1 .. Left(r) : todo[n][1] \in {"fetch", "tip"}) /\ FreshOf(r, rd)
      BY <1>5, <2>2, <2>4
    <3>2. At(r, "fetch")
      BY <1>0, <2>1, <2>2, <3>1 DEF At
    <3> QED
      BY <1>0, <3>1, <3>2, ArgumentFits DEF At, OverActorsNames
  <2>6. ActorsIn(sd) = ActorsIn(rd)
    BY <2>4 DEF ActorsIn
  <2>7. FreeOf(r, ActorsIn(sd) \cup {a}) => Current(ActorsIn(sd) \cup {a}, sd)
    <3>1. FreeOf(r, ActorsIn(sd) \cup {a}) => FreeOf(r, ActorsIn(sd))
      BY DEF FreeOf
    <3>2. todo[1][1] # "tip"
      BY <1>0, <2>5 DEF At
    <3> QED
      BY <1>0, <2>4, <2>5, <2>6, <3>1, <3>2, FreshTells, Fetched
  <2>8. /\ Len(t) = Left(r) /\ t[1] = <<"tip", a>> /\ t # << >>
        /\ \A n \in 2 .. Left(r) : t[n] = todo[n]
    <3>1. <<tip, a>> \in Statement
      BY <2>5 DEF Statement, OverActorsNames
    <3>2. /\ Len(t) = Left(r) /\ t[1] = <<tip, a>> /\ t # << >>
          /\ \A n \in 2 .. Left(r) : t[n] = todo[n]
      BY <1>0, <3>1, Onward
    <3> HIDE DEF t
    <3> QED
      BY <2>5, <3>2
  <2> HIDE DEF t
  <2>9. (\A n \in 1 .. Left(r) : job[r].todo[n][1] \in {"fetch", "tip"})'
    <3>1. \A n \in 1 .. Left(r) : n = 1 \/ n \in 2 .. Left(r)
      BY <2>2
    <3> QED
      BY <2>3, <2>5, <2>8, <3>1 DEF Left
  <2>10. Seen(r, sd)' = ActorsIn(sd) \cup {a}
    BY <1>0, <2>3, <2>8, NoTip
  <2>11. job'[r].answer # "ok"
    BY <1>0, <2>1, <2>8, GoesOnly
  <2> QED
    BY <1>3, <1>4, <2>5, <2>7, <2>9, <2>10, <2>11
<1>10. CASE FetchHead(r)
  <2>1. /\ At(r, "tip") \/ At(r, "peek")
        /\ \E x : Goes(r, Tail(todo), [rd EXCEPT !.heads = x]) \/ Goes(r, Tail(todo), rd)
    BY <1>10 DEF FetchHead, ReadsOn
  <2>2. Opened(r) /\ rd \in Feeds /\ Left(r) \in Nat \ {0}
    <3>1. Opened(r) /\ Left(r) \in Nat \ {0}
      BY <1>0, <2>1, RunningAsks DEF Opened, Reading, At
    <3> QED
      BY <3>1, <1>b
  <2>3. job'[r].todo = Tail(todo) /\ sd.sources = rd.sources
    BY <1>0, <2>1, <2>2, GoesOnly DEF Feeds
  <2>4. /\ \A n \in 1 .. Left(r) : todo[n][1] \in {"fetch", "tip"}
        /\ FreshOf(r, rd) /\ At(r, "tip") /\ ~At(r, "peek")
    <3>1. (\A n \in 1 .. Left(r) : todo[n][1] \in {"fetch", "tip"}) /\ FreshOf(r, rd)
      BY <1>5, <2>2, <2>3
    <3> QED
      BY <1>0, <2>1, <2>2, <3>1 DEF At
  <2> DEFINE a == Argument(r)
  <2>5. ReadsOn(r, [rd EXCEPT !.heads = @ \cup {<<a, working.head[a]>>}])
    BY <1>10, <2>4 DEF FetchHead
  <2>6. Goes(r, Tail(todo), [rd EXCEPT !.heads = @ \cup {<<a, working.head[a]>>}])
    BY <2>5 DEF ReadsOn
  <2>7. sd = [rd EXCEPT !.heads = @ \cup {<<a, working.head[a]>>}]
    BY <1>0, <2>6, GoesOnly
  <2>8. sd.ids = rd.ids /\ sd.heads = rd.heads \cup {<<a, working.head[a]>>}
    BY <2>2, <2>7 DEF Feeds
  <2>9. ActorsIn(sd) = ActorsIn(rd) \cup {a} /\ (FreeOf(r, ActorsIn(sd)) => Current(ActorsIn(sd), sd))
    <3>1. todo[1][1] = "tip"
      BY <1>0, <2>4 DEF At
    <3>2. FreeOf(r, ActorsIn(rd) \cup {a}) => Current(ActorsIn(rd) \cup {a}, rd)
      BY <1>0, <2>4, <3>1, FreshTells
    <3> QED
      <4>1. Current(ActorsIn(rd) \cup {a}, rd) => Current(ActorsIn(rd) \cup {a}, sd)
        BY <2>8, TippedToo
      <4>2. ActorsIn(sd) = ActorsIn(rd) \cup {a}
        <5> HIDE DEF a, rd
        <5> QED
          BY <2>8, Tipped
      <4> QED
        BY <3>2, <4>1, <4>2
  <2>10. (\A n \in 1 .. Left(r) : job[r].todo[n][1] \in {"fetch", "tip"})'
    <3>1. Len(Tail(todo)) = Left(r) - 1 /\ \A n \in 1 .. Left(r) - 1 : Tail(todo)[n] = todo[n + 1]
      BY <1>0, Rest
    <3>2. \A n \in 1 .. Left(r) - 1 : n + 1 \in 1 .. Left(r)
      BY <2>2
    <3> QED
      BY <2>3, <2>4, <3>1, <3>2 DEF Left
  <2>11. r \in Running' => Seen(r, sd)' = ActorsIn(sd)
    BY <1>0, <1>6, <2>3, <2>6, <2>7, NoTip
  <2> QED
    BY <1>3, <1>4, <2>9, <2>10, <2>11
<1> QED
  BY <1>1, <1>7, <1>8, <1>9, <1>10 DEF FeedStep

LEMMA FeedInvStep ==
  ASSUME WriteInv, TypeInv', FeedInv, [StoresNext]_storeVars
  PROVE  FeedInv'
<1>0. /\ TypeInv /\ MeetInv /\ EventsInv /\ SameRun /\ Asks' = Asks
  BY Courses DEF WriteInv, SameRun
<1> SUFFICES ASSUME Relay, NEW r \in Asks, r.op = "reduce", Opened(r)',
                    NEW sd, sd = job'[r].read, OverActors(sd.sources)
             PROVE  /\ r \in Running' =>
                         /\ (\A n \in 1 .. Left(r) : job[r].todo[n][1] \in {"fetch", "tip"})'
                         /\ FreshOf(r, sd)'
                    /\ job'[r].answer = "ok" => Stays(r, sd)'
  BY <1>0 DEF FeedInv, SameRun
<1>1. CASE Step(r)
  BY <1>1, FeedGoes DEF Step
<1>2. ~Starts(r)
  <2>1. ASSUME Starts(r)
        PROVE  FALSE
    <3>1. job'[r].answer = "running" /\ job'[r].todo[1][1] \in {"reduce", "execute", "plan"}
      BY <1>0, <2>1, ScriptBegins DEF Starts
    <3> QED
      BY <3>1 DEF Opened, Reading
  <2> QED
    BY <2>1
<1>3. ~Lost(r)'
  BY DEF Opened, Reading, Running, Lost
<1>4. CASE Same(r)
  <2>1. (r \in Running' <=> r \in Running) /\ Left(r)' = Left(r) /\ (Opened(r)' <=> Opened(r))
    BY <1>0, <1>4, SameStays DEF Same, Opened, Reading
  <2>2. sd = job[r].read /\ Opened(r) /\ \A h \in sd.heads : h[1] \in StoreActors
    <3>1. sd = job[r].read /\ Opened(r)
      BY <1>4, <2>1 DEF Same
    <3>2. sd \in Feeds
      BY <1>0, <3>1, ReadsAreGood DEF GoodRead
    <3> QED
      BY <3>1, <3>2 DEF Feeds, Heads
  <2>3. /\ r \in Running => /\ \A n \in 1 .. Left(r) : job[r].todo[n][1] \in {"fetch", "tip"}
                            /\ FreshOf(r, sd)
        /\ job[r].answer = "ok" => Stays(r, sd)
    BY <2>2 DEF FeedInv
  <2>4. CASE r \in Running
    <3>1. FreshOf(r, sd)'
      BY <1>0, <1>4, <2>2, <2>3, <2>4, FreshSame
    <3>2. job'[r].answer # "ok"
      BY <2>1, <2>4 DEF Running
    <3> QED
      BY <1>4, <2>1, <2>3, <2>4, <3>1, <3>2 DEF Same
  <2>5. CASE r \notin Running
    BY <1>0, <1>4, <2>1, <2>2, <2>3, <2>5, StaysStep DEF Same
  <2> QED
    BY <2>4, <2>5
<1> QED
  BY <1>0, <1>1, <1>2, <1>3, <1>4, ReaderCourses

\* What a reduction answered, while the heads it named stay
LEMMA ReductionsHold ==
  ASSUME WriteInv, FeedInv, Relay
  PROVE  ReductionsAgree
<1> SUFFICES ASSUME NEW r \in Asks, r.op = "reduce", job[r].answer = "ok",
                    NEW read, read = job[r].read, NEW as, as = {h[1] : h \in read.heads},
                    \A n \in DOMAIN read.sources : read.sources[n] \in StoreActors,
                    \A h \in read.heads : working.head[h[1]] = h[2],
                    Undisturbed(r, as)
             PROVE  read.ids = {e.id : e \in EventsBy(as)}
  BY DEF ReductionsAgree
<1>1. Opened(r) /\ OverActors(read.sources) /\ as = ActorsIn(read) /\ FreeOf(r, as)
  BY DEF Opened, OverActors, ActorsIn, FreeOf, Undisturbed, Appends
<1>2. Stands(read)
  BY <1>1 DEF FeedInv, Stays
<1>3. \A q \in Appends(ActorsIn(read)) : job[q].answer \notin {"running", "lost"}
  BY <1>1 DEF Undisturbed
<1> QED
  BY <1>1, <1>2, <1>3, StandsTells DEF WriteInv

\* A view of Mesh: a statement of an execution's own
Batched(r) == \A n \in 1 .. Left(r) : job[r].todo[n][1] = "batch" <=> n = Left(r)

LEMMA PlanGoes ==
  ASSUME WriteInv, TypeInv', PlanInv, Mesh, [StoresNext]_storeVars,
         NEW r \in Running, r.op = "execute", Step(r), Opened(r)',
         NEW sd, sd = job'[r].read
  PROVE  /\ r \in Running' => Batched(r)' /\ sd.of = Seen(r, sd)' /\ FreshOf(r, sd)'
         /\ job'[r].answer = "ok" =>
              /\ sd.of = ActorsIn(sd)
              /\ \A s \in {Planned(r, sd)} : FreeOf(r, sd.of)' => Stands(s)'
<1>0. /\ r \in Asks /\ job[r].todo[1] = Head(job[r].todo) /\ Placed(r, job[r].todo[1][1], Left(r))
      /\ TypeInv /\ MeetInv /\ EventsInv /\ SavedInv /\ r \in Asks'
  BY RunningAsks, StandsAt, OthersDo DEF WriteInv, OnlyJob
<1>1. PlanStep(r)
  <2>1. ~PlainStep(r) /\ ~Commit(r)
    BY <1>0 DEF PlainStep, NextSeq, Commit, ReadVersion, Replace, InsertEvent, MoveHead,
         PutIdentity, FindIdentity, ReadHead, OpenChannel, OwnerJoins,
         CreateObject, CheckChain, InsertNumbered, At, Placed
  <2>2. ~FeedStep(r) /\ ~ViewStep(r)
    BY DEF ViewStep, FeedStep, Mesh
  <2> QED
    BY <2>1, <2>2 DEF Step
<1>2. sd.heads \in Heads
  <2>1. Heads' = Heads
    BY Courses, <1>0 DEF SameRun, Heads, KnownIds, Appenders
  <2>2. job'[r].read \in PlanSet'
    BY Courses, <1>0 DEF SameRun, TypeInv, JobType, ReadType
  <2> QED
    BY <2>1, <2>2 DEF PlanSet
<1>3. (\A h \in sd.heads : h[1] \in ActorsIn(sd)) /\ ActorsIn(sd) \subseteq StoreActors
  BY <1>2 DEF ActorsIn, Heads
<1>4. ASSUME NEW as, as \subseteq StoreActors, ActorsIn(sd) \subseteq as,
             FreeOf(r, as) => Current(as, sd), Seen(r, sd)' = as
      PROVE  FreshOf(r, sd)'
  BY <1>0, <1>3, <1>4, Going
<1>b. Opened(r) => job[r].read \in PlanSet
  BY <1>0, ReadsAreGood DEF GoodRead
<1> DEFINE rd == job[r].read
           todo == job[r].todo
<1>5. ASSUME Opened(r)
      PROVE  Batched(r) /\ rd.of = Seen(r, rd) /\ FreshOf(r, rd)
  BY <1>0, <1>5 DEF PlanInv, Batched
<1>6. ASSUME NEW t, NEW x, Goes(r, t, x)
      PROVE  /\ job'[r].todo = t /\ sd = x
             /\ r \in Running' <=> t # << >>
             /\ job'[r].answer = "ok" <=> t = << >>
  BY <1>0, <1>6, GoesOnly DEF Running
<1>7. CASE Plan(r)
  <2> DEFINE row == working.rows[r.object]
             f == [n \in DOMAIN row.sources |->
                     IF row.sources[n] \in StoreActors THEN <<"fetch", row.sources[n]>>
                                                       ELSE <<"follows", row.sources[n][2]>>]
             new == [heads |-> {}, ids |-> {}, of |-> {}]
             last == Statements(<<"batch">>)
             t == f \o last
  <2>1. At(r, "plan") /\ (Goes(r, t, new) \/ Ends(r, "refused"))
    BY <1>7 DEF Plan
  <2>2. ~Ends(r, "refused")
    BY <1>0, EndsOnly DEF Opened, Reading, Running
  <2>3. job'[r].todo = t /\ sd = new /\ (job'[r].answer = "ok" => t = << >>)
    BY <1>6, <2>1, <2>2
  <2>4. r.object \in StoreObjects
    BY <1>0, RequestsFit
  <2>5. /\ Len(row.sources) \in Nat
        /\ f \in [1 .. Len(row.sources) -> Statement]
        /\ \A n \in 1 .. Len(row.sources) : f[n][1] \in {"fetch", "follows"}
    BY <1>0, <2>4, RowsFit DEF SourcesIn, Statement, OverActorsNames, Mesh
  <2>6. f \in Seq(Statement) /\ Len(f) = Len(row.sources)
    BY <2>5, FunctionIsSeq
  <2>7. last \in Seq(Statement) /\ Len(last) = 1 /\ last[1][1] = "batch"
    <3>1. last = << <<"batch", "none">> >>
      BY DEF Statements
    <3>2. <<"batch", "none">> \in Statement
      BY DEF Statement, PlainNames
    <3> HIDE DEF last
    <3> QED
      BY <3>1, <3>2
  <2> DEFINE k == Len(row.sources)
  <2> HIDE DEF f, last
  <2>8. Len(t) = k + 1 /\ t # << >>
        /\ \A n \in 1 .. k + 1 : t[n] = IF n <= k THEN f[n] ELSE last[n - k]
    <3>1. /\ t \in Seq(Statement) /\ Len(t) = Len(f) + Len(last)
          /\ \A n \in 1 .. Len(f) + Len(last) : t[n] = IF n <= Len(f) THEN f[n] ELSE last[n - Len(f)]
      BY <2>6, <2>7, ConcatProperties
    <3> HIDE DEF t
    <3>2. Len(f) = k /\ Len(last) = 1 /\ k \in Nat
      BY <2>5, <2>6, <2>7
    <3> HIDE DEF k
    <3>3. Len(t) # 0
      BY <3>1, <3>2
    <3> QED
      BY <3>1, <3>2, <3>3, EmptySeq
  <2> HIDE DEF t, new, k
  <2>9. k \in Nat /\ \A n \in 1 .. k : f[n][1] \in {"fetch", "follows"}
    BY <2>5 DEF k
  <2>10. \A n \in 1 .. k + 1 : /\ t[n][1] = "batch" <=> n = k + 1
                               /\ t[n][1] \in {"fetch", "follows", "batch"}
    <3>1. ASSUME NEW n \in 1 .. k + 1
          PROVE  n \in 1 .. k \/ (n = k + 1 /\ ~(n <= k) /\ n - k = 1)
      BY <2>9
    <3>2. \A n \in 1 .. k : n <= k /\ n \in 1 .. k + 1 /\ n # k + 1
      BY <2>9
    <3> QED
      BY <2>7, <2>8, <2>9, <3>1, <3>2
  <2>11. Batched(r)'
    BY <2>3, <2>8, <2>10 DEF Batched, Left
  <2>12. ActorsIn(sd) = {} /\ Current({}, sd) /\ sd.of = {}
    BY <2>3, NothingRead DEF new
  <2>13. Seen(r, sd)' = {}
    <3>1. 1 \in 1 .. k + 1
      BY <2>9
    <3>2. job'[r].todo[1][1] # "tip"
      BY <2>3, <2>10, <3>1
    <3> QED
      BY <1>0, <2>12, <3>2, NoTip
  <2>14. FreshOf(r, sd)'
    BY <1>4, <2>12, <2>13
  <2> QED
    BY <2>3, <2>8, <2>11, <2>12, <2>13, <2>14
<1>8. CASE FetchFollows(r)
  <2> DEFINE all == FetchAll(FollowedBy(Argument(r)))
             t == all \o Tail(todo)
             k == Len(all)
  <2>1. At(r, "follows") /\ Goes(r, t, rd)
    BY <1>8 DEF FetchFollows
  <2>2. Opened(r) /\ todo[1][1] = "follows"
    BY <1>0, <2>1 DEF Opened, Reading, At
  <2>3. job'[r].todo = t /\ sd = rd /\ (job'[r].answer = "ok" => t = << >>)
    BY <1>6, <2>1
  <2>4. FollowedBy(Argument(r)) \subseteq StoreActors
    BY <1>0 DEF FollowedBy, TypeInv, TablesType
  <2>5. /\ all \in Seq({"fetch"} \X StoreActors) /\ k \in Nat
        /\ \A n \in 1 .. k : all[n][1] = "fetch"
    <3>1. /\ Cardinality(FollowedBy(Argument(r))) \in Nat
          /\ all \in [1 .. Cardinality(FollowedBy(Argument(r))) -> {"fetch"} \X StoreActors]
      BY <2>4, FetchAllType
    <3> HIDE DEF all
    <3>2. all \in Seq({"fetch"} \X StoreActors) /\ Len(all) = Cardinality(FollowedBy(Argument(r)))
      BY <3>1, FunctionIsSeq
    <3> QED
      BY <3>1, <3>2
  <2> HIDE DEF all
  <2>6. all \in Seq(Statement)
    BY <2>5, SeqMonotonic DEF Statement, OverActorsNames
  <2>7. /\ Tail(todo) \in Seq(Statement) /\ Len(Tail(todo)) = Left(r) - 1 /\ Left(r) \in Nat \ {0}
        /\ \A n \in 1 .. Left(r) - 1 : Tail(todo)[n] = todo[n + 1] /\ todo[n + 1][1] # "tip"
    BY <1>0, TailFits, RunningAsks DEF TodoType
  <2>8. Left(r) > 1
    <3>1. Batched(r) /\ 1 \in 1 .. Left(r)
      BY <1>5, <2>2, <2>7
    <3>2. Left(r) # 1
      BY <2>2, <3>1 DEF Batched
    <3> QED
      BY <2>7, <3>2
  <2>9. /\ Len(t) = k + (Left(r) - 1) /\ t \in Seq(Statement)
        /\ \A n \in 1 .. k + (Left(r) - 1) : t[n] = IF n <= k THEN all[n] ELSE Tail(todo)[n - k]
    BY <2>6, <2>7, ConcatProperties
  <2> HIDE DEF t, k
  <2>10. \A n \in 1 .. k + (Left(r) - 1) : /\ t[n][1] = "batch" <=> n = k + (Left(r) - 1)
                                           /\ t[n][1] # "tip"
    <3>1. ASSUME NEW n \in 1 .. k + (Left(r) - 1)
          PROVE  \/ n \in 1 .. k /\ n <= k /\ n # k + (Left(r) - 1)
                 \/ /\ ~(n <= k) /\ n - k \in 1 .. Left(r) - 1 /\ n - k + 1 \in 1 .. Left(r)
                    /\ n = k + (Left(r) - 1) <=> n - k + 1 = Left(r)
      BY <2>5, <2>7, <2>8
    <3>2. Batched(r)
      BY <1>5, <2>2
    <3>3. ASSUME NEW n \in 1 .. k + (Left(r) - 1), n <= k, n \in 1 .. k
          PROVE  t[n][1] = "fetch"
      BY <2>5, <2>9, <3>3
    <3>4. ASSUME NEW n \in 1 .. k + (Left(r) - 1), ~(n <= k), n - k \in 1 .. Left(r) - 1
          PROVE  t[n] = todo[n - k + 1] /\ t[n][1] # "tip"
      BY <2>7, <2>9, <3>4
    <3> QED
      BY <3>1, <3>2, <3>3, <3>4 DEF Batched
  <2>11. Batched(r)'
    BY <2>3, <2>9, <2>10 DEF Batched, Left
  <2>12. Len(t) # 0 /\ 1 \in 1 .. k + (Left(r) - 1)
    BY <2>5, <2>7, <2>8, <2>9 DEF k
  <2>13. t # << >> /\ job'[r].todo[1][1] # "tip"
    BY <2>3, <2>9, <2>10, <2>12, EmptySeq
  <2>14. Seen(r, sd)' = ActorsIn(sd)
    BY <1>0, <2>13, NoTip
  <2>15. Seen(r, rd) = ActorsIn(rd) /\ (FreeOf(r, ActorsIn(rd)) => Current(ActorsIn(rd), rd))
    BY <1>0, <1>5, <2>2, FreshTells DEF Seen
  <2>16. FreshOf(r, sd)' /\ sd.of = ActorsIn(sd)
    BY <1>3, <1>4, <1>5, <2>2, <2>3, <2>14, <2>15
  <2> QED
    BY <2>3, <2>11, <2>13, <2>14, <2>16
<1>9. CASE FetchActor(r)
  <2> DEFINE a == Argument(r)
             got == {e.id : e \in EventsBy({a})}
             t == <<<<"tip", a>>>> \o Tail(todo)
             new == [rd EXCEPT !.ids = @ \cup got, !.of = @ \cup {a}]
  <2>1. At(r, "fetch") /\ Goes(r, t, new)
    BY <1>9 DEF FetchActor
  <2>2. Opened(r) /\ todo[1][1] = "fetch"
    BY <1>0, <2>1 DEF Opened, Reading, At
  <2>3. job'[r].todo = t /\ sd = new /\ (job'[r].answer = "ok" => t = << >>)
    BY <1>6, <2>1
  <2>4. sd.heads = rd.heads /\ sd.ids = rd.ids \cup got /\ sd.of = rd.of \cup {a}
    BY <1>b, <2>2, <2>3 DEF PlanSet
  <2> HIDE DEF new
  <2>5. Batched(r) /\ rd.of = Seen(r, rd) /\ FreshOf(r, rd) /\ a \in StoreActors
    BY <1>0, <1>5, <2>2, ArgumentFits DEF OverActorsNames
  <2>6. ActorsIn(sd) = ActorsIn(rd) /\ Seen(r, rd) = ActorsIn(rd)
    BY <2>2, <2>4 DEF ActorsIn, Seen
  <2>7. FreeOf(r, ActorsIn(sd) \cup {a}) => Current(ActorsIn(sd) \cup {a}, sd)
    <3>1. FreeOf(r, ActorsIn(sd) \cup {a}) => FreeOf(r, ActorsIn(sd))
      BY DEF FreeOf
    <3>2. FreeOf(r, ActorsIn(rd)) => Current(ActorsIn(rd), rd)
      BY <1>0, <2>2, <2>5, FreshTells
    <3> QED
      BY <2>4, <2>6, <3>1, <3>2, Fetched
  <2>8. /\ Len(t) = Left(r) /\ t[1] = <<"tip", a>> /\ t # << >>
        /\ \A n \in 2 .. Left(r) : t[n] = todo[n]
    <3>1. <<"tip", a>> \in Statement
      BY <2>5 DEF Statement, OverActorsNames
    <3> QED
      BY <1>0, <3>1, Onward
  <2> HIDE DEF t
  <2>9. Batched(r)'
    <3>1. Left(r) \in Nat \ {0}
      BY <1>0, Rest
    <3>2. \A n \in 1 .. Left(r) : n = 1 \/ n \in 2 .. Left(r)
      BY <3>1
    <3>3. 1 \in 1 .. Left(r) /\ 1 # Left(r)
      BY <2>2, <2>5, <3>1 DEF Batched
    <3>4. \A n \in 1 .. Left(r) : t[n][1] = "batch" <=> n = Left(r)
      BY <2>5, <2>8, <3>2, <3>3 DEF Batched
    <3> QED
      BY <2>3, <2>8, <3>4 DEF Batched, Left
  <2>10. Seen(r, sd)' = ActorsIn(sd) \cup {a}
    BY <1>0, <2>3, <2>8, NoTip
  <2>11. FreshOf(r, sd)' /\ sd.of = Seen(r, sd)'
    BY <1>3, <1>4, <2>4, <2>5, <2>6, <2>7, <2>10
  <2> QED
    BY <2>3, <2>8, <2>9, <2>11
<1>10. CASE FetchActorHead(r)
  <2> DEFINE a == Argument(r)
             new == [rd EXCEPT !.heads = @ \cup {<<a, working.head[a]>>}]
  <2>1. At(r, "tip") /\ Goes(r, Tail(todo), new)
    BY <1>10 DEF FetchActorHead, ReadsOn
  <2>2. Opened(r) /\ todo[1][1] = "tip"
    BY <1>0, <2>1 DEF Opened, Reading, At
  <2>3. job'[r].todo = Tail(todo) /\ sd = new /\ (job'[r].answer = "ok" => Tail(todo) = << >>)
    BY <1>6, <2>1
  <2>4. sd.ids = rd.ids /\ sd.heads = rd.heads \cup {<<a, working.head[a]>>} /\ sd.of = rd.of
    BY <1>b, <2>2, <2>3 DEF PlanSet
  <2>5. Batched(r) /\ rd.of = Seen(r, rd) /\ FreshOf(r, rd)
    BY <1>5, <2>2
  <2>6. FreeOf(r, ActorsIn(rd) \cup {a}) => Current(ActorsIn(rd) \cup {a}, rd)
    BY <1>0, <2>2, <2>5, FreshTells
  <2> HIDE DEF new
  <2>7. Current(ActorsIn(rd) \cup {a}, rd) => Current(ActorsIn(rd) \cup {a}, sd)
    BY <2>4, TippedToo
  <2>8. ActorsIn(sd) = ActorsIn(rd) \cup {a}
    <3> HIDE DEF a, rd
    <3> QED
      BY <2>4, Tipped
  <2>9. sd.of = ActorsIn(sd)
    BY <1>0, <2>2, <2>4, <2>5, <2>8 DEF Seen, Argument
  <2>10. /\ Len(Tail(todo)) = Left(r) - 1 /\ Left(r) \in Nat \ {0}
         /\ \A n \in 1 .. Left(r) - 1 : Tail(todo)[n] = todo[n + 1]
         /\ Tail(todo) = << >> <=> Left(r) = 1
    BY <1>0, Rest
  <2>11. Left(r) # 1
    <3>1. 1 \in 1 .. Left(r)
      BY <2>10
    <3> QED
      BY <2>2, <2>5, <3>1 DEF Batched
  <2>12. Batched(r)'
    <3>1. \A n \in 1 .. Left(r) - 1 : n + 1 \in 1 .. Left(r) /\ (n = Left(r) - 1 <=> n + 1 = Left(r))
      BY <2>10
    <3>2. \A n \in 1 .. Left(r) - 1 : Tail(todo)[n][1] = "batch" <=> n = Left(r) - 1
      BY <2>5, <2>10, <3>1 DEF Batched
    <3> QED
      BY <2>3, <2>10, <3>2 DEF Batched, Left
  <2>13. Seen(r, sd)' = ActorsIn(sd)
    BY <1>0, <2>3, <2>10, <2>11, NoTip
  <2>14. FreshOf(r, sd)'
    BY <1>3, <1>4, <2>6, <2>7, <2>8, <2>13
  <2> QED
    BY <2>3, <2>9, <2>10, <2>11, <2>12, <2>13, <2>14
<1>11. CASE FetchBatch(r)
  <2> DEFINE kept == {d \in working.log : d.id \in rd.ids /\ d.actor \notin r.without}
             new == [rd EXCEPT !.ids = {e.id : e \in kept}]
  <2>1. At(r, "batch") /\ Goes(r, Tail(todo), new)
    BY <1>11 DEF FetchBatch, ReadsOn
  <2>2. Opened(r) /\ todo[1][1] = "batch"
    BY <1>0, <2>1 DEF Opened, Reading, At
  <2>3. job'[r].todo = Tail(todo) /\ sd = new /\ (r \in Running' <=> Tail(todo) # << >>)
    BY <1>6, <2>1
  <2>4. sd.heads = rd.heads /\ sd.ids = {e.id : e \in kept} /\ sd.of = rd.of
    BY <1>b, <2>2, <2>3 DEF PlanSet
  <2> HIDE DEF new
  <2>5. Batched(r) /\ rd.of = ActorsIn(rd) /\ (FreeOf(r, ActorsIn(rd)) => Current(ActorsIn(rd), rd))
    BY <1>0, <1>5, <2>2, FreshTells DEF Seen
  <2>6. r \notin Running'
    <3>1. Left(r) \in Nat \ {0} /\ (Tail(todo) = << >> <=> Left(r) = 1)
      BY <1>0, Rest
    <3>2. 1 \in 1 .. Left(r)
      BY <3>1
    <3> QED
      BY <2>2, <2>3, <2>5, <3>1, <3>2 DEF Batched
  <2>7. ActorsIn(sd) = ActorsIn(rd)
    BY <2>4 DEF ActorsIn
  <2>8. ASSUME NEW s, s = Planned(r, sd), FreeOf(r, sd.of)'
        PROVE  Stands(s)'
    <3>1. s.heads = {h \in sd.heads : h[1] \notin r.without} /\ s.ids = sd.ids
      BY <2>8 DEF Planned
    <3> DEFINE as == ActorsIn(s)
    <3>2. as = sd.of \ r.without /\ as \subseteq StoreActors /\ \A h \in s.heads : h[1] \in as
      BY <1>3, <2>4, <2>5, <2>7, <3>1 DEF ActorsIn
    <3>3. FreeOf(r, ActorsIn(rd)) /\ FreeOf(r, as)
      <4>1. FreeOf(r, sd.of)
        BY <1>0, <2>8, FreeBefore
      <4> QED
        BY <2>4, <2>5, <3>2, <4>1 DEF FreeOf
    <3>4. rd.ids = {e.id : e \in {d \in working.log : d.actor \in sd.of}}
          /\ \A h \in rd.heads : working.head[h[1]] = h[2]
      BY <2>4, <2>5, <3>3 DEF Current
    <3>5. kept = {d \in working.log : d.actor \in as}
      <4>1. \A d \in working.log : d.id \in rd.ids <=> d.actor \in sd.of
        BY <1>0, <3>4 DEF EventsInv
      <4> QED
        BY <3>2, <4>1
    <3> HIDE DEF as, kept
    <3>6. Current(as, s)
      BY <2>4, <3>1, <3>4, <3>5 DEF Current
    <3>7. \A h \in s.heads : h[1] \in as
      BY <3>2
    <3>8. Stays(r, s)'
      <4>1. as = ActorsIn(s)
        BY DEF as
      <4> QED
        BY <1>0, <3>2, <3>6, <3>7, <4>1, Going
    <3>9. FreeOf(r, ActorsIn(s))'
      <4>1. ActorsIn(s)' = ActorsIn(s) /\ ActorsIn(s) \subseteq sd.of
        BY <3>2 DEF as, ActorsIn
      <4> QED
        BY <2>8, <4>1 DEF FreeOf
    <3> QED
      BY <3>8, <3>9 DEF Stays
  <2> QED
    BY <2>4, <2>5, <2>6, <2>7, <2>8
<1> QED
  BY <1>1, <1>7, <1>8, <1>9, <1>10, <1>11 DEF PlanStep

LEMMA PlanInvStep ==
  ASSUME WriteInv, TypeInv', PlanInv, [StoresNext]_storeVars
  PROVE  PlanInv'
<1>0. /\ TypeInv /\ MeetInv /\ EventsInv /\ SameRun /\ Asks' = Asks
  BY Courses DEF WriteInv, SameRun
<1> SUFFICES ASSUME Mesh, NEW r \in Asks, r.op = "execute", Opened(r)',
                    NEW sd, sd = job'[r].read
             PROVE  /\ r \in Running' => Batched(r)' /\ sd.of = Seen(r, sd)' /\ FreshOf(r, sd)'
                    /\ job'[r].answer = "ok" =>
                         /\ sd.of = ActorsIn(sd)
                         /\ \A s \in {Planned(r, sd)} : FreeOf(r, sd.of)' => Stands(s)'
  <2>1. \A q, rd : Planned(q, rd)' = Planned(q, rd) /\ ActorsIn(rd)' = ActorsIn(rd)
    BY DEF Planned, ActorsIn
  <2> QED
    BY <1>0, <2>1 DEF PlanInv, SameRun, Batched
<1>1. CASE Step(r)
  BY <1>1, PlanGoes DEF Step
<1>2. ~Starts(r)
  <2>1. ASSUME Starts(r)
        PROVE  FALSE
    <3>1. job'[r].answer = "running" /\ job'[r].todo[1][1] \in {"reduce", "execute", "plan"}
      BY <1>0, <2>1, ScriptBegins DEF Starts
    <3> QED
      BY <3>1 DEF Opened, Reading
  <2> QED
    BY <2>1
<1>3. ~Lost(r)'
  BY DEF Opened, Reading, Running, Lost
<1>4. CASE Same(r)
  <2>1. (r \in Running' <=> r \in Running) /\ Left(r)' = Left(r) /\ (Opened(r)' <=> Opened(r))
    BY <1>0, <1>4, SameStays DEF Same, Opened, Reading
  <2>2. sd = job[r].read /\ Opened(r) /\ \A h \in sd.heads : h[1] \in StoreActors
    <3>1. sd = job[r].read /\ Opened(r)
      BY <1>4, <2>1 DEF Same
    <3>2. sd \in PlanSet
      BY <1>0, <3>1, ReadsAreGood DEF GoodRead
    <3> QED
      BY <3>1, <3>2 DEF PlanSet, Heads
  <2>3. /\ r \in Running => Batched(r) /\ sd.of = Seen(r, sd) /\ FreshOf(r, sd)
        /\ job[r].answer = "ok" => /\ sd.of = ActorsIn(sd)
                                   /\ FreeOf(r, sd.of) => \A s \in {Planned(r, sd)} : Stands(s)
    BY <2>2 DEF PlanInv, Batched
  <2>4. CASE r \in Running
    <3>1. FreshOf(r, sd)'
      BY <1>0, <1>4, <2>2, <2>3, <2>4, FreshSame
    <3>2. job'[r].answer # "ok"
      BY <2>1, <2>4 DEF Running
    <3>3. Seen(r, sd)' = Seen(r, sd)
      BY <1>4 DEF Same, Seen, ActorsIn
    <3>4. Batched(r)'
      BY <1>4, <2>1, <2>3, <2>4 DEF Same, Batched, Left
    <3> QED
      BY <2>3, <2>4, <3>1, <3>2, <3>3, <3>4
  <2>5. CASE r \notin Running
    <3>1. ASSUME job'[r].answer = "ok", NEW s, s = Planned(r, sd), FreeOf(r, sd.of)'
          PROVE  Stands(s)'
      <4>1. FreeOf(r, sd.of)
        BY <1>0, <3>1, FreeBefore
      <4>2. Stands(s) /\ \A h \in s.heads : h[1] \in StoreActors
        BY <1>4, <2>2, <2>3, <3>1, <4>1 DEF Same, Planned
      <4> QED
        BY <1>0, <4>2, StandsStep
    <3> QED
      BY <1>4, <2>1, <2>3, <2>5, <3>1 DEF Same
  <2> QED
    BY <2>4, <2>5
<1> QED
  BY <1>0, <1>1, <1>2, <1>3, <1>4, ReaderCourses

\* What a view of Mesh answered, while the heads it read stay
LEMMA PlansHold ==
  ASSUME WriteInv, PlanInv, Mesh
  PROVE  MeshViewsAgree
<1> SUFFICES ASSUME NEW r \in Asks, r.op = "execute", job[r].answer = "ok",
                    NEW read, read = job[r].read,
                    Undisturbed(r, read.of), \A h \in read.heads : working.head[h[1]] = h[2]
             PROVE  read.ids = {e.id : e \in EventsBy(read.of \ r.without)}
  BY DEF MeshViewsAgree
<1>1. Opened(r) /\ FreeOf(r, read.of)
  BY DEF Opened, FreeOf, Undisturbed, Appends
<1>2. read.of = ActorsIn(read) /\ \A s \in {Planned(r, read)} : Stands(s)
  BY <1>1 DEF PlanInv
<1>3. PICK s : s = Planned(r, read)
  OBVIOUS
<1>4. s.ids = read.ids /\ s.heads = {h \in read.heads : h[1] \notin r.without}
  BY <1>3 DEF Planned
<1>5. ActorsIn(s) = read.of \ r.without
  BY <1>2, <1>4 DEF ActorsIn
<1>6. Stands(s) /\ \A h \in s.heads : working.head[h[1]] = h[2]
  BY <1>2, <1>3, <1>4
<1>7. \A q \in Appends(ActorsIn(s)) : job[q].answer \notin {"running", "lost"}
  BY <1>5 DEF Undisturbed, Appends
<1> QED
  BY <1>4, <1>5, <1>6, <1>7, StandsTells DEF WriteInv

\* A view of the v2 store: where an execution is, and what a statement of it leaves
LEMMA InView ==
  ASSUME TypeInv, View, NEW r \in Running, r.op = "execute", ~At(r, "execute")
  PROVE  /\ Opened(r) /\ job[r].read \in Seq(Frames) /\ job[r].read # << >>
         /\ StackType(r, job[r].read) /\ Len(job[r].read) \in Nat \ {0}
         /\ Inner(r) \in Frames /\ Inner(r) = job[r].read[1] /\ Outer(r) = Tail(job[r].read)
<1>0. /\ r \in Asks /\ job[r].todo[1] = Head(job[r].todo) /\ Fits(r, 1, Left(r), job[r].todo[1][1])
      /\ ~Mesh
  BY RunningAsks DEF View, Mesh
<1>1. Opened(r)
  BY <1>0 DEF Opened, Reading, At, Fits
<1>2. job[r].read \in Seq(Frames) /\ job[r].read # << >> /\ StackType(r, job[r].read)
  BY <1>0, <1>1, ReadsAreGood DEF GoodRead
<1> QED
  BY <1>1, <1>2, TopOff DEF Inner, Outer

LEMMA TopAgain ==
  ASSUME NEW read \in Seq(Frames), read # << >>, NEW f \in Frames
  PROVE  LET more == <<f>> \o Tail(read)
         IN  more[1] = f /\ (Nested(read) => Nested(more))
<1> DEFINE more == <<f>> \o Tail(read)
<1>1. /\ Len(more) = Len(read) /\ more[1] = f /\ Len(read) \in Nat \ {0}
      /\ \A n \in 2 .. Len(more) : more[n] = Tail(read)[n - 1] /\ Tail(read)[n - 1] = read[n]
  BY TopOff, OnTop
<1> HIDE DEF more
<1>2. Nested(read) => Nested(more)
  BY <1>1 DEF Nested
<1> QED
  BY <1>1, <1>2 DEF more

LEMMA WindingOn ==
  ASSUME TypeInv, NEW r \in Running, Winding(r)
  PROVE  /\ job'[r].todo = Tail(job[r].todo) => Winding(r)'
         /\ \A s \in Statement : (/\ s[1] \notin {"view", "commit", "return"}
                                  /\ job'[r].todo = <<s>> \o Tail(job[r].todo)) => Winding(r)'
<1> DEFINE todo == job[r].todo
<1>1. ASSUME job'[r].todo = Tail(todo)
      PROVE  Winding(r)'
  <2>1. Left(r)' = Left(r) - 1 /\ Left(r) \in Nat \ {0}
        /\ \A n \in 1 .. Left(r) - 1 : job'[r].todo[n] = todo[n + 1]
    BY <1>1, Rest DEF Left
  <2>2. \A n \in 1 .. Left(r) - 1 : n + 1 \in 1 .. Left(r)
    BY <2>1
  <2>3. \A m, n \in 1 .. Left(r) - 1 : m < n => m + 1 < n + 1
    BY <2>1
  <2> QED
    BY <2>1, <2>2, <2>3 DEF Winding
<1>2. ASSUME NEW s \in Statement, s[1] \notin {"view", "commit", "return"},
             job'[r].todo = <<s>> \o Tail(todo)
      PROVE  Winding(r)'
  <2>1. Left(r)' = Left(r) /\ job'[r].todo[1] = s
        /\ \A n \in 2 .. Left(r) : job'[r].todo[n] = todo[n]
    BY <1>2, Onward DEF Left
  <2>2. Left(r) \in Nat \ {0}
    BY Rest
  <2>3. \A n \in 1 .. Left(r) : n = 1 \/ n \in 2 .. Left(r)
    BY <2>2
  <2>4. \A m, n \in 1 .. Left(r) : m < n => n \in 2 .. Left(r)
    BY <2>2
  <2> QED
    BY <1>2, <2>1, <2>3, <2>4 DEF Winding
<1> QED
  BY <1>1, <1>2

LEMMA TrustedStep ==
  ASSUME TypeInv, TypeInv', MeetInv, EventsInv, [StoresNext]_storeVars, NEW f,
         \A h \in f.heads : h[1] \in StoreActors, Trusted(f)
  PROVE  Trusted(f)'
<1>1. ASSUME NEW as, as = ActorsIn(f), AllFree(as)', OneByOne(f.view)'
      PROVE  Stands(f)'
  <2>1. AllFree(as) /\ OneByOne(f.view)
    BY <1>1, FreeBefore
  <2> QED
    BY <1>1, <2>1, StandsStep DEF Trusted
<1>2. ActorsIn(f)' = ActorsIn(f)
  BY DEF ActorsIn
<1> QED
  BY <1>1, <1>2 DEF Trusted

LEMMA StaysTrusted ==
  ASSUME NEW r \in Asks', r.op = "execute", NEW f, Stays(r, f)'
  PROVE  Trusted(f)'
BY DEF Stays, Trusted, AllFree

\* With nothing to fetch next, it is current still, or stands from here.
LEMMA Passes ==
  ASSUME TypeInv, TypeInv', MeetInv, EventsInv, SavedInv, [StoresNext]_storeVars,
         NEW r \in Running, Step(r), r.op = "execute", job'[r].todo = Tail(job[r].todo),
         NEW g, g.heads \in Heads, FreeOf(r, ActorsIn(g)) => Current(ActorsIn(g), g)
  PROVE  /\ InCollect(r)' => FreshOf(r, g)'
         /\ Trusted(g)'
<1>1. PICK as : as = ActorsIn(g)
  OBVIOUS
<1>2. as \subseteq StoreActors /\ \A h \in g.heads : h[1] \in as
  BY <1>1 DEF ActorsIn, Heads
<1>3. (Seen(r, g)' = as => FreshOf(r, g)') /\ Stays(r, g)'
  BY <1>1, <1>2, Going
<1>4. Asks' = Asks /\ r \in Asks
  BY Courses, RunningAsks DEF SameRun
<1>5. InCollect(r)' => Seen(r, g)' = as
  <2>1. ASSUME InCollect(r)'
        PROVE  job'[r].todo # << >>
    BY <1>4, <2>1 DEF InCollect, Running, TypeInv, JobType
  <2> QED
    BY <1>1, <2>1, NoTip
<1> QED
  BY <1>3, <1>4, <1>5, StaysTrusted

\* What was kept for the boundary that one has collected stands for it too.
LEMMA HitStands ==
  ASSUME TypeInv, View, CacheInv, VersInv, NEW r \in Running, r.op = "execute",
         NEW f \in FramesOf(r), f.view \in StoreObjects, OverActors(f.sources),
         NEW c \in working.cache, Boundary(c) = Boundary(f),
         NEW g, g.heads = f.heads, g.ids = c.ids,
         AllFree(ActorsIn(g)), OneByOne(f.view)
  PROVE  Stands(g)
<1>1. c.view = f.view /\ c.version = f.version /\ c.heads = f.heads
  BY DEF Boundary
<1>2. c \in Copies /\ f \in Copies
  BY DEF Copies, Executing
<1>3. c.sources = f.sources
  BY <1>1, <1>2 DEF VersInv, SameRow
<1>4. c.by \in Asks
  BY DEF TypeInv, TablesType, Kept
<1>5. c.by.op = "execute" /\ Stays(c.by, c)
  BY <1>3, <1>4 DEF CacheInv
<1>6. ActorsIn(c) = ActorsIn(g)
  BY <1>1 DEF ActorsIn
<1>7. Stands(c)
  BY <1>4, <1>5, <1>6 DEF Stays, AllFree
<1> QED
  BY <1>1, <1>7 DEF Stands

\* A view over logs has logs to fetch, and winds up after that.
LEMMA ScriptWinds ==
  ASSUME NEW r, NEW k \in Nat, NEW f \in [1 .. k -> Statement], \A n \in 1 .. k : f[n][1] = "fetch",
         job'[r].todo = f \o Statements(<<"lookup", "store", "commit", "return">>)
  PROVE  Winding(r)' /\ job'[r].todo # << >> /\ job'[r].todo[1][1] \notin {"tip", "commit", "return"}
<1> DEFINE last == Statements(<<"lookup", "store", "commit", "return">>)
           t == f \o last
<1>1. last = << <<"lookup", "none">>, <<"store", "none">>, <<"commit", "none">>,
                <<"return", "none">> >>
  BY DEF Statements
<1>2. /\ <<"lookup", "none">> \in Statement /\ <<"store", "none">> \in Statement
      /\ <<"commit", "none">> \in Statement /\ <<"return", "none">> \in Statement
  BY DEF Statement, PlainNames
<1> HIDE DEF last
<1>3. /\ last \in Seq(Statement) /\ Len(last) = 4
      /\ last[1][1] = "lookup" /\ last[2][1] = "store"
      /\ last[3][1] = "commit" /\ last[4][1] = "return"
  BY <1>1, <1>2
<1>4. f \in Seq(Statement) /\ Len(f) = k
  BY FunctionIsSeq
<1>5. /\ Len(t) = k + 4
      /\ \A n \in 1 .. k + 4 : t[n] = IF n <= k THEN f[n] ELSE last[n - k]
  <2>1. /\ t \in Seq(Statement) /\ Len(t) = Len(f) + Len(last)
        /\ \A n \in 1 .. Len(f) + Len(last) : t[n] = IF n <= Len(f) THEN f[n] ELSE last[n - Len(f)]
    <3>1. \A x, y \in Seq(Statement) :
            /\ x \o y \in Seq(Statement) /\ Len(x \o y) = Len(x) + Len(y)
            /\ \A n \in 1 .. Len(x) + Len(y) :
                 (x \o y)[n] = IF n <= Len(x) THEN x[n] ELSE y[n - Len(x)]
      BY ConcatProperties
    <3> QED
      BY <1>3, <1>4, <3>1
  <2> HIDE DEF t
  <2> QED
    BY <1>3, <1>4, <2>1
<1>6. \A n \in 1 .. k + 4 : \/ n \in 1 .. k /\ n <= k
                            \/ ~(n <= k) /\ n = k + 1
                            \/ ~(n <= k) /\ n = k + 2
                            \/ ~(n <= k) /\ n = k + 3
                            \/ ~(n <= k) /\ n = k + 4
  OBVIOUS
<1>7. (k + 1) - k = 1 /\ (k + 2) - k = 2 /\ (k + 3) - k = 3 /\ (k + 4) - k = 4
  OBVIOUS
<1> HIDE DEF t
<1>8. \A n \in 1 .. k + 4 : /\ n <= k => t[n][1] = "fetch"
                            /\ n = k + 1 => t[n][1] = "lookup"
                            /\ n = k + 2 => t[n][1] = "store"
                            /\ n = k + 3 => t[n][1] = "commit"
                            /\ n = k + 4 => t[n][1] = "return"
  BY <1>3, <1>5, <1>6, <1>7
<1>9. \A m, n \in 1 .. k + 4 : m < n /\ (m = k + 3 \/ m = k + 4) => n = k + 4
  OBVIOUS
<1>10. \A n \in 1 .. k + 4 : /\ t[n][1] # "view"
                             /\ t[n][1] \in {"commit", "return"} => n = k + 3 \/ n = k + 4
  BY <1>6, <1>8
<1>11. \A m, n \in 1 .. k + 4 : m < n /\ t[m][1] \in {"commit", "return"} => t[n][1] = "return"
  BY <1>8, <1>9, <1>10
<1>12. Winding(r)'
  <2>1. job'[r].todo = t /\ Left(r)' = k + 4
    BY <1>5 DEF t, last, Left
  <2> QED
    BY <1>10, <1>11, <2>1 DEF Winding
<1>13. 1 \in 1 .. k + 4 /\ k + 4 # 0 /\ (1 <= k \/ 1 = k + 1)
  OBVIOUS
<1>14. t[1][1] \in {"fetch", "lookup"}
  BY <1>8, <1>13
<1>15. t # << >>
  BY <1>5, <1>13
<1> QED
  BY <1>12, <1>14, <1>15 DEF t, last

LEMMA ViewGoes ==
  ASSUME WriteInv, TypeInv', ViewInv, CacheInv, VersInv, View, [StoresNext]_storeVars,
         NEW r \in Running, r.op = "execute", Step(r), Opened(r)',
         NEW g, g = job'[r].read[1]
  PROVE  /\ Nested(job'[r].read)
         /\ OverActors(g.sources) =>
              /\ r \in Running' => Winding(r)'
              /\ InCollect(r)' => FreshOf(r, g)'
              /\ ~InCollect(r)' => Trusted(g)'
<1>0. /\ r \in Asks /\ job[r].todo[1] = Head(job[r].todo) /\ Placed(r, job[r].todo[1][1], Left(r))
      /\ Fits(r, 1, Left(r), job[r].todo[1][1])
      /\ TypeInv /\ MeetInv /\ EventsInv /\ SavedInv /\ r \in Asks' /\ ~Mesh /\ SameRun
  BY RunningAsks, StandsAt, OthersDo, Courses DEF WriteInv, OnlyJob, View, Mesh
<1>1. Commit(r) \/ OpenView(r) \/ FetchEvents(r) \/ FetchTip(r) \/ Lookup(r) \/ StoreResult(r)
      \/ ReturnView(r)
  <2>1. ~PlainStep(r)
    BY <1>0 DEF PlainStep, NextSeq, Commit, ReadVersion, Replace, InsertEvent, MoveHead,
         PutIdentity, FindIdentity, ReadHead, OpenChannel, OwnerJoins,
         CreateObject, CheckChain, InsertNumbered, At, Placed
  <2>2. ~FeedStep(r) /\ ~PlanStep(r)
    BY <1>0 DEF FeedStep, PlanStep, View
  <2> QED
    BY <2>1, <2>2 DEF Step, ViewStep
<1>2. job'[r].read \in Seq(Frames) /\ g \in Frames /\ g.heads \in Heads
  <2>1. Frames' = Frames /\ ~Mesh' /\ Opened(r)'
    BY <1>0 DEF SameRun, Frames, Heads, KnownIds, Appenders
  <2>2. job'[r].read \in Seq(Frames) /\ job'[r].read # << >>
    BY <1>0, <2>1, RequestsFit DEF TypeInv, JobType, ReadType, Opened, Reading, Running
  <2>3. g \in Frames
    BY <2>2, TopOff
  <2> QED
    BY <2>2, <2>3 DEF Frames
<1>3. \A h \in g.heads : h[1] \in StoreActors
  BY <1>2 DEF Heads
<1> DEFINE rd == job[r].read
           f == rd[1]
           todo == job[r].todo
<1>4. ASSUME ~At(r, "execute")
      PROVE  /\ Opened(r) /\ rd \in Seq(Frames) /\ rd # << >> /\ Len(rd) \in Nat \ {0}
             /\ f \in Frames /\ Inner(r) = f /\ Outer(r) = Tail(rd) /\ StackType(r, rd)
             /\ Nested(rd)
             /\ OverActors(f.sources) => /\ Winding(r)
                                         /\ InCollect(r) => FreshOf(r, f)
                                         /\ ~InCollect(r) => Trusted(f)
  <2>1. /\ Opened(r) /\ rd \in Seq(Frames) /\ rd # << >> /\ Len(rd) \in Nat \ {0}
        /\ f \in Frames /\ Inner(r) = f /\ Outer(r) = Tail(rd) /\ StackType(r, rd)
    BY <1>0, <1>4, InView
  <2> QED
    BY <1>0, <2>1 DEF ViewInv
<1>5. ASSUME NEW t, NEW x, Goes(r, t, x)
      PROVE  /\ job'[r].todo = t /\ job'[r].read = x
             /\ r \in Running' <=> t # << >>
             /\ job'[r].answer = "ok" <=> t = << >>
  BY <1>0, <1>5, GoesOnly DEF Running
<1>6. ASSUME ~At(r, "execute"), Winding(r), InCollect(r), FreshOf(r, f), OverActors(g.sources),
             job'[r].todo = Tail(todo), todo[1][1] # "tip", g.heads = f.heads, g.ids = f.ids
      PROVE  /\ r \in Running' => Winding(r)'
             /\ InCollect(r)' => FreshOf(r, g)'
             /\ ~InCollect(r)' => Trusted(g)'
  <2>1. Winding(r)'
    BY <1>0, <1>6, WindingOn
  <2>2. FreeOf(r, ActorsIn(g)) => Current(ActorsIn(g), g)
    <3>1. FreeOf(r, ActorsIn(f)) => Current(ActorsIn(f), f)
      BY <1>0, <1>6, FreshTells
    <3>2. ActorsIn(g) = ActorsIn(f)
      BY <1>6 DEF ActorsIn
    <3> QED
      BY <1>6, <3>1, <3>2 DEF Current
  <2> QED
    BY <1>0, <1>2, <1>6, <2>1, <2>2, Passes
<1>7. CASE Commit(r)
  <2>1. At(r, "commit") /\ Goes(r, Tail(todo), rd) /\ ~At(r, "execute")
    BY <1>7 DEF Commit, At
  <2>2. job'[r].todo = Tail(todo) /\ job'[r].read = rd /\ g = f
    BY <1>5, <2>1
  <2>3. todo[1][1] = "commit" /\ ~InCollect(r)
    BY <1>0, <2>1 DEF At, InCollect
  <2>4. ASSUME OverActors(g.sources)
        PROVE  Winding(r)' /\ Trusted(g)' /\ ~InCollect(r)'
    <3>1. Winding(r) /\ Trusted(g)
      BY <1>4, <2>1, <2>2, <2>3, <2>4
    <3>2. Winding(r)' /\ Trusted(g)'
      BY <1>0, <1>3, <2>2, <3>1, WindingOn, TrustedStep
    <3>3. ASSUME r \in Running'
          PROVE  job'[r].todo[1][1] \in {"commit", "return"}
      <4>1. Tail(todo) # << >>
        BY <1>5, <2>1, <3>3
      <4>2. Left(r) # 1 /\ Left(r) \in Nat \ {0} /\ Tail(todo)[1] = todo[1 + 1]
        BY <1>0, <4>1, Rest
      <4>3. 1 \in 1 .. Left(r) /\ 1 + 1 \in 1 .. Left(r) /\ 1 < 1 + 1
        BY <4>2
      <4> QED
        BY <2>2, <2>3, <3>1, <4>2, <4>3 DEF Winding
    <3> QED
      BY <3>2, <3>3 DEF InCollect
  <2> QED
    BY <1>4, <2>1, <2>2, <2>4
<1>8. CASE OpenView(r) /\ ExecuteView(r)
  <2> DEFINE o == Argument(r)
             row == working.rows[o]
             s == [n \in DOMAIN row.sources |->
                     IF row.sources[n] \in StoreActors THEN <<"fetch", row.sources[n]>>
                                                       ELSE <<"view", row.sources[n]>>]
             frame == [view |-> o, version |-> row.version, sources |-> row.sources,
                       heads |-> {}, ids |-> {}, rest |-> Tail(todo)]
             t == s \o Statements(<<"lookup", "store", "commit", "return">>)
             more == <<frame>> \o rd
  <2>1. /\ At(r, "execute") \/ At(r, "view")
        /\ Goes(r, t, more)
    BY <1>8 DEF OpenView, ExecuteView
  <2>2. o \in StoreObjects
    BY <1>0, <2>1, ArgumentFits DEF At, OverObjectsNames
  <2>3. job'[r].todo = t /\ job'[r].read = more
    BY <1>5, <2>1
  <2>4. rd \in Seq(Frames) /\ frame \in Frames /\ (At(r, "execute") => rd = << >>)
    <3>1. rd \in Seq(Frames)
      BY <1>0 DEF TypeInv, JobType, ReadType
    <3>2. Tail(todo) \in Seq(Statement)
      BY <1>0, TailFits DEF TodoType
    <3>3. frame \in Frames
      BY <2>2, <3>2, <1>0, RowsFit DEF Frames, Heads, View
    <3>4. At(r, "execute") => rd = << >>
      <4>1. At(r, "execute") => ~Opened(r) /\ job[r].answer = "running"
        BY <1>0, RunningAsks DEF At, Opened, Reading
      <4> QED
        BY <1>0, <4>1 DEF TypeInv, JobType, ReadType
    <3> QED
      BY <3>1, <3>3, <3>4
  <2> HIDE DEF t, frame
  <2>5. /\ Len(more) = Len(rd) + 1 /\ more[1] = frame /\ Len(rd) \in Nat
        /\ \A n \in 2 .. Len(more) : more[n] = rd[n - 1]
    BY <2>4, OnTop, LenProperties
  <2> HIDE DEF more
  <2>6. Nested(more)
    <3>1. CASE At(r, "execute")
      <4>1. Len(more) = 1
        BY <2>4, <2>5, <3>1, EmptySeq
      <4> QED
        BY <4>1 DEF Nested
    <3>2. CASE ~At(r, "execute")
      <4>1. todo[1][1] = "view"
        BY <1>0, <2>1, <3>2 DEF At
      <4>2. 1 \in 1 .. Left(r)
        BY <1>0, Rest
      <4>3. ~OverActors(f.sources)
        BY <1>4, <3>2, <4>1, <4>2 DEF Winding
      <4>4. \A n \in 2 .. Len(more) : n - 1 = 1 \/ n - 1 \in 2 .. Len(rd)
        BY <2>5
      <4> QED
        BY <1>4, <2>5, <3>2, <4>3, <4>4 DEF Nested
    <3> QED
      BY <3>1, <3>2
  <2>7. g = frame /\ g.sources = row.sources /\ g.heads = {} /\ g.ids = {}
    BY <2>3, <2>5 DEF frame
  <2>8. ASSUME OverActors(g.sources)
        PROVE  Winding(r)' /\ FreshOf(r, g)' /\ InCollect(r)'
    <3>1. s \in [1 .. Len(row.sources) -> Statement] /\ Len(row.sources) \in Nat
          /\ \A n \in 1 .. Len(row.sources) : s[n][1] = "fetch"
      BY <1>0, <2>2, <2>7, <2>8, RowsFit DEF OverActors, Statement, OverActorsNames
    <3> HIDE DEF s
    <3>2. /\ Winding(r)' /\ job'[r].todo # << >>
          /\ job'[r].todo[1][1] \notin {"tip", "commit", "return"}
      BY <2>3, <3>1, ScriptWinds DEF t
    <3>3. InCollect(r)'
      BY <1>5, <2>1, <2>3, <3>2 DEF InCollect
    <3>4. ActorsIn(g) = {} /\ Current({}, g)
      BY <2>7, NothingRead
    <3>5. Seen(r, g)' = {}
      BY <1>0, <3>2, <3>4, NoTip
    <3>6. FreshOf(r, g)'
      <4>1. FreeOf(r, {}) => Current({}, g)
        BY <3>4
      <4>2. \A h \in g.heads : h[1] \in {}
        BY <2>7
      <4> QED
        BY <1>0, <3>5, <4>1, <4>2, Going
    <3> QED
      BY <3>2, <3>3, <3>6
  <2> QED
    BY <2>3, <2>6, <2>8
<1>9. CASE OpenView(r) /\ ~ExecuteView(r)
  <2>1. ~(At(r, "execute") /\ Ends(r, "refused"))
    BY <1>0, EndsOnly DEF Opened, Reading, Running
  <2>2. ~At(r, "execute") /\ At(r, "view") /\ ReadsOn(r, rd)
    BY <1>9, <2>1 DEF OpenView
  <2>3. job'[r].read = rd /\ g = f
    BY <1>5, <2>2 DEF ReadsOn
  <2>4. ~OverActors(f.sources)
    <3>1. todo[1][1] = "view" /\ 1 \in 1 .. Left(r)
      BY <1>0, <2>2, Rest DEF At
    <3> QED
      BY <1>4, <2>2, <3>1 DEF Winding
  <2> QED
    BY <1>4, <2>2, <2>3, <2>4
<1>10. CASE FetchEvents(r)
  <2> DEFINE a == Argument(r)
             got == {e.id : e \in EventsBy({a})}
             t == <<<<"tip", a>>>> \o Tail(todo)
             top == [Inner(r) EXCEPT !.ids = @ \cup got]
  <2>1. At(r, "fetch") /\ Goes(r, t, <<top>> \o Outer(r))
    BY <1>10 DEF FetchEvents
  <2>2. ~At(r, "execute") /\ todo[1][1] = "fetch" /\ a \in StoreActors
    BY <1>0, <2>1, ArgumentFits DEF At, OverActorsNames
  <2>3. job'[r].todo = t /\ job'[r].read = <<top>> \o Tail(rd)
    BY <1>4, <1>5, <2>1, <2>2
  <2>4. top \in Frames /\ top.heads = f.heads /\ top.ids = f.ids \cup got /\ top.sources = f.sources
    BY <1>0, <1>4, <2>2, EventsFit DEF Frames
  <2> HIDE DEF top
  <2>5. g = top /\ Nested(job'[r].read)
    BY <1>4, <2>2, <2>3, <2>4, TopAgain
  <2>6. ASSUME OverActors(g.sources)
        PROVE  Winding(r)' /\ InCollect(r)' /\ FreshOf(r, g)'
    <3>1. Winding(r) /\ FreshOf(r, f)
      BY <1>4, <2>2, <2>4, <2>5, <2>6 DEF InCollect
    <3>2. <<"tip", a>> \in Statement
      BY <2>2 DEF Statement, OverActorsNames
    <3>3. Winding(r)'
      BY <1>0, <2>3, <3>1, <3>2, WindingOn
    <3>4. t[1] = <<"tip", a>> /\ t # << >>
      BY <1>0, <3>2, Onward
    <3> HIDE DEF t
    <3>5. InCollect(r)' /\ Seen(r, g)' = ActorsIn(g) \cup {a}
      <4>1. job'[r].todo[1] = <<"tip", a>> /\ r \in Running'
        BY <1>5, <2>1, <2>3, <3>4
      <4> QED
        BY <1>0, <4>1, NoTip DEF InCollect
    <3>6. ActorsIn(g) = ActorsIn(f)
      BY <2>4, <2>5 DEF ActorsIn
    <3>7. FreeOf(r, ActorsIn(g) \cup {a}) => Current(ActorsIn(g) \cup {a}, g)
      <4>1. FreeOf(r, ActorsIn(g) \cup {a}) => FreeOf(r, ActorsIn(g))
        BY DEF FreeOf
      <4>2. FreeOf(r, ActorsIn(f)) => Current(ActorsIn(f), f)
        BY <1>0, <2>2, <3>1, FreshTells
      <4> QED
        BY <2>4, <2>5, <3>6, <4>1, <4>2, Fetched
    <3>8. \A h \in g.heads : h[1] \in ActorsIn(g) \cup {a}
      BY DEF ActorsIn
    <3>9. ActorsIn(g) \cup {a} \subseteq StoreActors
      BY <1>3, <2>2 DEF ActorsIn
    <3>10. FreshOf(r, g)'
      BY <1>0, <3>5, <3>7, <3>8, <3>9, Going
    <3> QED
      BY <3>3, <3>5, <3>10
  <2> QED
    BY <2>5, <2>6
<1>11. CASE FetchTip(r)
  <2> DEFINE a == Argument(r)
             top == [Inner(r) EXCEPT !.heads = @ \cup {<<a, working.head[a]>>}]
  <2>1. At(r, "tip") /\ Goes(r, Tail(todo), <<top>> \o Outer(r))
    BY <1>11 DEF FetchTip, ReadsOn
  <2>2. ~At(r, "execute") /\ todo[1][1] = "tip" /\ a \in StoreActors
    BY <1>0, <2>1, ArgumentFits DEF At, OverActorsNames
  <2>3. job'[r].todo = Tail(todo) /\ job'[r].read = <<top>> \o Tail(rd)
    BY <1>4, <1>5, <2>1, <2>2
  <2>4. top \in Frames /\ top.ids = f.ids /\ top.sources = f.sources
        /\ top.heads = f.heads \cup {<<a, working.head[a]>>}
    BY <1>0, <1>4, <2>2, EventsFit DEF Frames, Heads
  <2> HIDE DEF top
  <2>5. g = top /\ Nested(job'[r].read)
    BY <1>4, <2>2, <2>3, <2>4, TopAgain
  <2>6. ASSUME OverActors(g.sources)
        PROVE  Winding(r)' /\ (InCollect(r)' => FreshOf(r, g)') /\ Trusted(g)'
    <3>1. Winding(r) /\ FreshOf(r, f)
      BY <1>4, <2>2, <2>4, <2>5, <2>6 DEF InCollect
    <3>2. Winding(r)'
      BY <1>0, <2>3, <3>1, WindingOn
    <3>3. g.ids = f.ids /\ g.heads = f.heads \cup {<<a, working.head[a]>>}
      BY <2>4, <2>5
    <3>4. FreeOf(r, ActorsIn(f) \cup {a}) => Current(ActorsIn(f) \cup {a}, f)
      BY <1>0, <2>2, <3>1, FreshTells
    <3>5. Current(ActorsIn(f) \cup {a}, f) => Current(ActorsIn(f) \cup {a}, g)
      BY <3>3, TippedToo
    <3>6. ActorsIn(g) = ActorsIn(f) \cup {a}
      <4> HIDE DEF a, f
      <4> QED
        BY <3>3, Tipped
    <3> QED
      BY <1>0, <1>2, <2>3, <3>2, <3>4, <3>5, <3>6, Passes
  <2> QED
    BY <2>5, <2>6
<1>12. CASE Lookup(r)
  <2>1. At(r, "lookup") /\ ~At(r, "execute") /\ todo[1][1] = "lookup"
    BY <1>0, <1>12 DEF Lookup, At
  <2>2. CASE ReadsOn(r, rd)
    <3>1. job'[r].todo = Tail(todo) /\ job'[r].read = rd /\ g = f
      BY <1>5, <2>2 DEF ReadsOn
    <3>2. InCollect(r)
      BY <2>1 DEF InCollect
    <3> QED
      BY <1>4, <1>6, <2>1, <3>1, <3>2
  <2>3. CASE ~ReadsOn(r, rd)
    <3> DEFINE last == Statements(<<"return">>)
    <3>1. PICK c \in working.cache :
            /\ Boundary(c) = Boundary(Inner(r))
            /\ Goes(r, last, <<[Inner(r) EXCEPT !.ids = c.ids]>> \o Outer(r))
      BY <1>12, <2>3 DEF Lookup
    <3> DEFINE top == [Inner(r) EXCEPT !.ids = c.ids]
    <3>2. c.ids \in SUBSET KnownIds
      BY <1>0 DEF TypeInv, TablesType, Kept
    <3>3. /\ top \in Frames /\ top.heads = f.heads /\ top.ids = c.ids
          /\ top.sources = f.sources /\ top.view = f.view
      BY <1>4, <2>1, <3>2 DEF Frames
    <3> HIDE DEF top
    <3>4. last = << <<"return", "none">> >> /\ <<"return", "none">> \in Statement
      BY DEF Statements, Statement, PlainNames
    <3> HIDE DEF last
    <3>5. last \in Seq(Statement) /\ Len(last) = 1 /\ last[1][1] = "return"
      BY <3>4
    <3>6. job'[r].todo = last /\ job'[r].read = <<top>> \o Tail(rd)
      BY <1>4, <1>5, <2>1, <3>1 DEF top
    <3>7. g = top /\ Nested(job'[r].read)
      BY <1>4, <2>1, <3>3, <3>6, TopAgain
    <3>8. Winding(r)' /\ ~InCollect(r)'
      <4>1. Left(r)' = 1 /\ job'[r].todo[1][1] = "return"
        BY <3>5, <3>6 DEF Left
      <4>2. \A n \in 1 .. 1 : n = 1
        OBVIOUS
      <4> QED
        BY <4>1, <4>2 DEF Winding, InCollect
    <3>9. ASSUME OverActors(g.sources)
          PROVE  Trusted(g)'
      <4>1. ASSUME NEW as, as = ActorsIn(g), AllFree(as), OneByOne(g.view)
            PROVE  Stands(g)
        <5>1. f \in FramesOf(r)
          <6>1. 1 \in 1 .. Len(rd)
            BY <1>4, <2>1
          <6> QED
            BY <6>1 DEF FramesOf
        <5>2. f.view \in StoreObjects /\ Boundary(c) = Boundary(f)
          BY <1>4, <2>1, <3>1 DEF Frames
        <5>3. /\ g.heads = f.heads /\ g.ids = c.ids /\ OverActors(f.sources)
              /\ AllFree(ActorsIn(g)) /\ OneByOne(f.view)
          BY <3>3, <3>7, <3>9, <4>1
        <5> QED
          BY <1>0, <5>1, <5>2, <5>3, HitStands
      <4>2. Trusted(g)
        BY <4>1 DEF Trusted
      <4> QED
        BY <1>0, <1>3, <4>2, TrustedStep
    <3> QED
      BY <3>7, <3>8, <3>9
  <2> QED
    BY <2>2, <2>3
<1>13. CASE StoreResult(r)
  <2>1. At(r, "store") /\ ~At(r, "execute") /\ Goes(r, Tail(todo), rd)
    BY <1>13 DEF StoreResult, At, Writes
  <2>2. job'[r].todo = Tail(todo) /\ job'[r].read = rd /\ g = f
    BY <1>5, <2>1
  <2>3. InCollect(r) /\ todo[1][1] # "tip"
    BY <1>0, <2>1 DEF InCollect, At
  <2> QED
    BY <1>4, <1>6, <2>1, <2>2, <2>3
<1>14. CASE ReturnView(r)
  <2>1. At(r, "return") /\ ~At(r, "execute") /\ todo[1][1] = "return"
    BY <1>0, <1>14 DEF ReturnView, At
  <2>2. CASE Outer(r) = << >>
    <3>1. Goes(r, f.rest, rd)
      BY <1>4, <1>14, <2>1, <2>2 DEF ReturnView
    <3>2. f.rest = << >>
      <4>1. Len(Tail(rd)) = Len(rd) - 1 /\ Len(Tail(rd)) = 0 /\ Len(rd) \in Nat
        BY <1>4, <2>1, <2>2, TopOff, EmptySeq
      <4>2. Len(rd) = 1
        BY <4>1
      <4> QED
        BY <1>4, <2>1, <4>2 DEF StackType
    <3>3. job'[r].read = rd /\ g = f /\ r \notin Running' /\ ~InCollect(r)'
      BY <1>5, <3>1, <3>2 DEF InCollect
    <3>4. OverActors(g.sources) => Trusted(g)'
      <4>1. ~InCollect(r)
        BY <2>1 DEF InCollect
      <4>2. OverActors(g.sources) => Trusted(g)
        BY <1>4, <2>1, <3>3, <4>1
      <4> QED
        BY <1>0, <1>3, <4>2, TrustedStep
    <3> QED
      BY <1>4, <2>1, <3>3, <3>4
  <2>3. CASE Outer(r) # << >>
    <3> DEFINE top == [Head(Outer(r)) EXCEPT !.ids = @ \cup Inner(r).ids]
    <3>1. Goes(r, f.rest, <<top>> \o Tail(Outer(r)))
      BY <1>4, <1>14, <2>1, <2>3 DEF ReturnView
    <3>2. /\ Tail(rd) \in Seq(Frames) /\ Tail(rd) # << >> /\ Outer(r) = Tail(rd)
          /\ Len(Tail(rd)) = Len(rd) - 1 /\ Len(rd) \in Nat /\ Len(rd) > 1
          /\ Head(Tail(rd)) = rd[2] /\ Head(Tail(rd)) \in Frames
          /\ \A n \in 1 .. Len(Tail(rd)) : Tail(rd)[n] = rd[n + 1]
      BY <1>4, <2>1, <2>3, TopOff
    <3>3. top \in Frames /\ top.sources = rd[2].sources
      BY <1>4, <2>1, <3>2 DEF Frames
    <3> HIDE DEF top
    <3>4. job'[r].read = <<top>> \o Tail(Tail(rd))
      BY <1>5, <3>1, <3>2
    <3>5. Nested(Tail(rd))
      <4>1. \A n \in 2 .. Len(Tail(rd)) : n \in 1 .. Len(Tail(rd)) /\ n + 1 \in 2 .. Len(rd)
        BY <3>2
      <4> QED
        BY <1>4, <2>1, <3>2, <4>1 DEF Nested
    <3>6. g = top /\ Nested(job'[r].read)
      BY <3>2, <3>3, <3>4, <3>5, TopAgain
    <3>7. ~OverActors(g.sources)
      <4>1. 2 \in 2 .. Len(rd)
        BY <3>2
      <4> QED
        BY <1>4, <2>1, <3>3, <3>6, <4>1 DEF Nested
    <3> QED
      BY <3>6, <3>7
  <2> QED
    BY <2>2, <2>3
<1> QED
  BY <1>1, <1>7, <1>8, <1>9, <1>10, <1>11, <1>12, <1>13, <1>14

LEMMA ViewInvStep ==
  ASSUME WriteInv, TypeInv', ViewInv, CacheInv, VersInv, [StoresNext]_storeVars
  PROVE  ViewInv'
<1>0. /\ TypeInv /\ MeetInv /\ EventsInv /\ SameRun /\ Asks' = Asks /\ (View' <=> View)
  BY Courses DEF WriteInv, SameRun, View
<1> SUFFICES ASSUME View, NEW r \in Asks, r.op = "execute", Opened(r)',
                    NEW g, g = job'[r].read[1]
             PROVE  /\ Nested(job'[r].read)
                    /\ OverActors(g.sources) =>
                         /\ r \in Running' => Winding(r)'
                         /\ InCollect(r)' => FreshOf(r, g)'
                         /\ ~InCollect(r)' => Trusted(g)'
  <2>1. ASSUME NEW read
        PROVE  Nested(read)' <=> Nested(read)
    BY DEF Nested, OverActors
  <2>2. ASSUME NEW s
        PROVE  OverActors(s)' <=> OverActors(s)
    BY DEF OverActors
  <2> QED
    BY <1>0, <2>1, <2>2 DEF ViewInv
<1>1. CASE Step(r)
  BY <1>1, ViewGoes DEF Step
<1>2. ~Starts(r)
  <2>1. ASSUME Starts(r)
        PROVE  FALSE
    <3>1. job'[r].answer = "running" /\ job'[r].todo[1][1] \in {"reduce", "execute", "plan"}
      BY <1>0, <2>1, ScriptBegins DEF Starts
    <3> QED
      BY <3>1 DEF Opened, Reading
  <2> QED
    BY <2>1
<1>3. ~Lost(r)'
  BY DEF Opened, Reading, Running, Lost
<1>4. CASE Same(r)
  <2>1. (r \in Running' <=> r \in Running) /\ Left(r)' = Left(r) /\ (Opened(r)' <=> Opened(r))
        /\ (InCollect(r)' <=> InCollect(r))
    BY <1>0, <1>4, SameStays DEF Same, Opened, Reading, InCollect
  <2>2. /\ job'[r].read = job[r].read /\ g = job[r].read[1] /\ Opened(r)
        /\ \A h \in g.heads : h[1] \in StoreActors
    <3>1. job'[r].read = job[r].read /\ g = job[r].read[1] /\ Opened(r) /\ ~Mesh
      BY <1>4, <2>1 DEF Same, View, Mesh
    <3>2. g \in Frames
      BY <1>0, <3>1, ReadsAreGood, TopOff DEF GoodRead
    <3> QED
      BY <3>1, <3>2 DEF Frames, Heads
  <2>3. /\ Nested(job[r].read)
        /\ OverActors(g.sources) => /\ r \in Running => Winding(r)
                                    /\ InCollect(r) => FreshOf(r, g)
                                    /\ ~InCollect(r) => Trusted(g)
    BY <2>2 DEF ViewInv
  <2>4. r \in Running /\ Winding(r) => Winding(r)'
    BY <1>4, <2>1 DEF Same, Winding
  <2>5. InCollect(r) /\ FreshOf(r, g) => FreshOf(r, g)'
    BY <1>0, <1>4, <2>2, FreshSame DEF InCollect
  <2>6. Trusted(g) => Trusted(g)'
    BY <1>0, <2>2, TrustedStep
  <2> QED
    BY <2>1, <2>2, <2>3, <2>4, <2>5, <2>6
<1> QED
  BY <1>0, <1>1, <1>2, <1>3, <1>4, ReaderCourses

\* Which statement writes where
LEMMA TablesGo ==
  ASSUME TypeInv, NEW r \in Running, Step(r)
  PROVE  /\ working'.cache = working.cache \/ (View /\ StoreResult(r))
         /\ disk' = disk \/ (working' = working /\ disk' = working)
         /\ r.op # "put" => working'.rows = working.rows
<1>0. /\ job[r].todo[1] = Head(job[r].todo) /\ Placed(r, job[r].todo[1][1], Left(r))
      /\ DOMAIN working = Fields
  BY RunningAsks, StandsAt DEF TypeInv, TablesType
<1>1. CASE ReadVersion(r) \/ FindIdentity(r) \/ ReadHead(r) \/ CheckChain(r)
  BY <1>1 DEF ReadVersion, FindIdentity, ReadHead, CheckChain, ReadsOn, Ends
<1>2. CASE Replace(r)
  <2>1. r.op = "put"
    BY <1>0, <1>2 DEF Replace, At, Placed
  <2> QED
    BY <1>0, <1>2, <2>1 DEF Replace, Writes, Fields
<1>3. CASE NextSeq(r) \/ InsertEvent(r) \/ MoveHead(r) \/ InsertNumbered(r)
  <2>1. disk' = disk /\ (working' = working \/ \E x : working' \in {[working EXCEPT !.seq = x],
                                          [working EXCEPT !.log = x], [working EXCEPT !.head = x]})
    BY <1>0, <1>3 DEF NextSeq, InsertEvent, MoveHead, InsertNumbered, Writes, Ends, Fields
  <2> QED
    BY <1>0, <2>1 DEF Fields
<1>4. CASE PutIdentity(r) \/ OpenChannel(r) \/ OwnerJoins(r) \/ CreateObject(r)
  <2>1. disk' = disk /\ (working' = working \/ \E x : working' \in {[working EXCEPT !.actors = x],
               [working EXCEPT !.channels = x], [working EXCEPT !.members = x], [working EXCEPT !.objects = x]})
    BY <1>0, <1>4 DEF PutIdentity, OpenChannel, OwnerJoins, CreateObject, Writes, Ends, Fields
  <2> QED
    BY <1>0, <2>1 DEF Fields
<1>5. CASE Commit(r)
  BY <1>5 DEF Commit
<1>6. CASE FeedStep(r)
  BY <1>6 DEF FeedStep, Reduce, Define, FetchLog, FetchHead, ReadsOn, Ends
<1>7. CASE PlanStep(r)
  BY <1>7 DEF PlanStep, Plan, FetchFollows, FetchActor, FetchActorHead, FetchBatch, ReadsOn, Ends
<1>8. CASE ViewStep(r) /\ ~StoreResult(r)
  BY <1>8 DEF ViewStep, OpenView, ExecuteView, FetchEvents, FetchTip, Lookup, ReturnView, ReadsOn, Ends
<1>9. CASE ViewStep(r) /\ StoreResult(r)
  BY <1>0, <1>9 DEF ViewStep, View, StoreResult, Writes, Fields
<1> QED
  BY <1>1, <1>2, <1>3, <1>4, <1>5, <1>6, <1>7, <1>8, <1>9 DEF Step, PlainStep

\* What is kept of a result: its view, its version, its definition, its boundary
LEMMA ResultKept ==
  ASSUME TypeInv, View, NEW r \in Running, StoreResult(r), NEW c \in working'.cache
  PROVE  /\ r.op = "execute" /\ ~At(r, "execute") /\ job[r].todo[1][1] = "store"
         /\ disk' = disk
         /\ \/ c \in working.cache
            \/ /\ c.by = r /\ c.view = job[r].read[1].view /\ c.version = job[r].read[1].version
               /\ c.sources = job[r].read[1].sources /\ c.heads = job[r].read[1].heads
               /\ c.ids = job[r].read[1].ids
<1>0. /\ job[r].todo[1] = Head(job[r].todo) /\ Placed(r, job[r].todo[1][1], Left(r))
      /\ DOMAIN working = Fields
  BY RunningAsks, StandsAt DEF TypeInv, TablesType
<1>1. At(r, "store") /\ ~At(r, "execute") /\ job[r].todo[1][1] = "store"
  BY <1>0 DEF StoreResult, At
<1>2. r.op = "execute"
  BY <1>0, <1>1 DEF Placed
<1>3. Inner(r) = job[r].read[1]
  BY <1>1, <1>2, InView
<1> DEFINE new == [view |-> Inner(r).view, version |-> Inner(r).version,
                   sources |-> Inner(r).sources, heads |-> Inner(r).heads,
                   ids |-> Inner(r).ids, by |-> r]
<1>4. working'.cache = {d \in working.cache : Boundary(d) # Boundary(Inner(r))} \cup {new}
  BY <1>0 DEF StoreResult, Writes, Fields
<1>5. disk' = disk
  BY DEF StoreResult, Writes
<1>6. c \in working.cache \/ c = new
  BY <1>4
<1> QED
  BY <1>1, <1>2, <1>3, <1>5, <1>6

LEMMA CacheInvStep ==
  ASSUME WriteInv, TypeInv', ViewInv, CacheInv, [StoresNext]_storeVars
  PROVE  CacheInv'
<1>0. /\ TypeInv /\ MeetInv /\ EventsInv /\ SavedInv /\ SameRun /\ Asks' = Asks /\ (View' <=> View)
      /\ OpenStep \/ Cut \/ \E q \in Asks : Step(q)
  BY Courses DEF WriteInv, SameRun, View
<1> SUFFICES ASSUME View, NEW c, c \in working'.cache \/ c \in disk'.cache,
                    NEW r \in Asks, c.by = r
             PROVE  r.op = "execute" /\ (OverActors(c.sources) => Stays(r, c)')
  BY <1>0 DEF CacheInv
<1>1. ASSUME c \in working.cache \/ c \in disk.cache
      PROVE  r.op = "execute" /\ (OverActors(c.sources) => Stays(r, c)')
  <2>1. r.op = "execute" /\ (OverActors(c.sources) => Stays(r, c))
    BY <1>1 DEF CacheInv
  <2>2. \A h \in c.heads : h[1] \in StoreActors
    BY <1>0, <1>1 DEF TypeInv, TablesType, Kept, Heads
  <2> QED
    BY <1>0, <2>1, <2>2, StaysStep
<1>2. CASE OpenStep \/ Cut
  BY <1>1, <1>2 DEF OpenStep, Cut
<1>3. ASSUME NEW q \in Asks, Step(q)
      PROVE  r.op = "execute" /\ (OverActors(c.sources) => Stays(r, c)')
  <2>0. q \in Running
    BY <1>3 DEF Step
  <2>1. CASE working'.cache = working.cache
    <3>1. disk' = disk \/ disk' = working
      BY <1>0, <1>3, <2>0, TablesGo
    <3> QED
      BY <1>1, <2>1, <3>1
  <2>2. CASE StoreResult(q)
    <3> DEFINE f == job[q].read[1]
    <3>1. CASE c \in working.cache \/ c \in disk.cache
      BY <1>1, <3>1
    <3>2. CASE c \notin working.cache /\ c \notin disk.cache
      <4>1. c \in working'.cache
        <5>1. disk' = disk
          BY <2>2 DEF StoreResult, Writes
        <5> QED
          BY <3>2, <5>1
      <4>2. /\ q.op = "execute" /\ ~At(q, "execute") /\ job[q].todo[1][1] = "store" /\ r = q
            /\ c.sources = f.sources /\ c.heads = f.heads /\ c.ids = f.ids
        BY <1>0, <2>0, <2>2, <3>2, <4>1, ResultKept
      <4>3. Opened(q) /\ f \in Frames
        BY <1>0, <2>0, <4>2, InView
      <4>4. ASSUME OverActors(c.sources)
            PROVE  Stays(q, c)'
        <5>1. FreshOf(q, f)
          BY <2>0, <4>2, <4>3, <4>4 DEF ViewInv, InCollect
        <5>2. FreeOf(q, ActorsIn(f)) => Current(ActorsIn(f), f)
          BY <1>0, <2>0, <4>2, <5>1, FreshTells
        <5>3. PICK as : as = ActorsIn(c)
          OBVIOUS
        <5>4. as = ActorsIn(f) /\ as \subseteq StoreActors /\ \A h \in c.heads : h[1] \in as
          BY <4>2, <4>3, <5>3 DEF ActorsIn, Frames, Heads
        <5>5. FreeOf(q, as) => Current(as, c)
          BY <4>2, <5>2, <5>4 DEF Current
        <5> QED
          BY <1>0, <1>3, <2>0, <4>2, <5>3, <5>4, <5>5, Going
      <4> QED
        BY <4>2, <4>4
    <3> QED
      BY <3>1, <3>2
  <2> QED
    BY <1>0, <1>3, <2>0, <2>1, <2>2, TablesGo
<1> QED
  BY <1>0, <1>2, <1>3

\* Of a view, a version and its definition
Like(x, y) == x.view = y.view /\ x.version = y.version /\ x.sources = y.sources

\* A copy of what the row is now
FromRow(x) ==
  x.view \in StoreObjects /\ x.version = working.rows[x.view].version
                          /\ x.sources = working.rows[x.view].sources

Copied(x) == (\E y \in Copies : Like(x, y)) \/ FromRow(x)

\* The views that an execution is in the middle of after a statement of its own
LEMMA FramesStep ==
  ASSUME TypeInv, View, NEW r \in Running, r.op = "execute", Step(r), r \in Running',
         NEW x \in FramesOf(r)'
  PROVE  (\E y \in FramesOf(r) : Like(x, y)) \/ FromRow(x)
<1>0. /\ r \in Asks /\ job[r].todo[1] = Head(job[r].todo) /\ Placed(r, job[r].todo[1][1], Left(r))
      /\ ~Mesh /\ job[r].read \in Seq(Frames)
  BY RunningAsks, StandsAt DEF View, Mesh, TypeInv, JobType, ReadType
<1> DEFINE rd == job[r].read
           f == rd[1]
           new == job'[r].read
<1>1. \E n \in 1 .. Len(new) : x = new[n]
  BY DEF FramesOf
<1>2. ASSUME NEW todo, NEW read, Goes(r, todo, read)
      PROVE  new = read
  BY <1>0, <1>2, GoesOnly
<1>3. ASSUME ~At(r, "execute")
      PROVE  /\ rd # << >> /\ Len(rd) \in Nat \ {0} /\ f \in Frames
             /\ Inner(r) = f /\ Outer(r) = Tail(rd)
  BY <1>0, <1>3, InView
<1>4. ASSUME NEW read \in Seq(Frames), read # << >>, NEW top \in Frames, Like(top, read[1]),
             new = <<top>> \o Tail(read)
      PROVE  \E n \in 1 .. Len(read) : Like(x, read[n])
  <2>1. /\ Len(new) = Len(read) /\ new[1] = top /\ Len(read) \in Nat \ {0}
        /\ \A n \in 2 .. Len(new) : new[n] = Tail(read)[n - 1] /\ Tail(read)[n - 1] = read[n]
    BY <1>4, TopOff, OnTop
  <2>2. PICK n \in 1 .. Len(read) : x = new[n]
    BY <1>1, <2>1
  <2>3. CASE n = 1
    BY <1>4, <2>1, <2>2, <2>3
  <2>4. CASE n \in 2 .. Len(new)
    BY <2>1, <2>2, <2>4 DEF Like
  <2> QED
    BY <2>1, <2>2, <2>3, <2>4
<1>5. ASSUME \E n \in 1 .. Len(rd) : Like(x, rd[n])
      PROVE  \E y \in FramesOf(r) : Like(x, y)
  BY <1>5 DEF FramesOf
<1>6. CASE new = rd
  BY <1>1, <1>6 DEF FramesOf, Like
<1>7. CASE OpenView(r) /\ ExecuteView(r)
  <2> DEFINE o == Argument(r)
             row == working.rows[o]
             frame == [view |-> o, version |-> row.version, sources |-> row.sources,
                       heads |-> {}, ids |-> {}, rest |-> Tail(job[r].todo)]
  <2>1. /\ At(r, "execute") \/ At(r, "view")
        /\ \E t : Goes(r, t, <<frame>> \o rd)
    BY <1>7 DEF OpenView, ExecuteView
  <2>2. o \in StoreObjects
    BY <1>0, <2>1, ArgumentFits DEF At, OverObjectsNames
  <2>3. frame \in Frames
    <3>1. Tail(job[r].todo) \in Seq(Statement)
      BY TailFits DEF TodoType
    <3> QED
      BY <2>2, <3>1, RowsFit DEF Frames, Heads, View
  <2>4. new = <<frame>> \o rd
    BY <1>2, <2>1
  <2>5. FromRow(frame)
    BY <2>2 DEF FromRow
  <2> HIDE DEF frame
  <2>6. /\ Len(new) = Len(rd) + 1 /\ new[1] = frame /\ Len(rd) \in Nat
        /\ \A n \in 2 .. Len(new) : new[n] = rd[n - 1]
    BY <1>0, <2>3, <2>4, OnTop, LenProperties
  <2>7. PICK n \in 1 .. Len(new) : x = new[n]
    BY <1>1
  <2>8. CASE n = 1
    BY <2>5, <2>6, <2>7, <2>8
  <2>9. CASE n \in 2 .. Len(new)
    <3>1. n - 1 \in 1 .. Len(rd) /\ x = rd[n - 1]
      BY <2>6, <2>7, <2>9
    <3> QED
      BY <1>5, <3>1 DEF Like
  <2> QED
    BY <2>6, <2>7, <2>8, <2>9
<1>8. CASE OpenView(r) /\ ~ExecuteView(r)
  <2>1. Ends(r, "refused") \/ Goes(r, Tail(job[r].todo), rd)
    BY <1>8 DEF OpenView, ReadsOn
  <2>2. ~Ends(r, "refused")
    BY <1>0, EndsOnly DEF Running
  <2> QED
    BY <1>2, <1>6, <2>1, <2>2
<1>9. CASE FetchEvents(r)
  <2> DEFINE top == [Inner(r) EXCEPT !.ids = @ \cup {e.id : e \in EventsBy({Argument(r)})}]
  <2>1. At(r, "fetch") /\ \E t : Goes(r, t, <<top>> \o Outer(r))
    BY <1>9 DEF FetchEvents
  <2>2. ~At(r, "execute") /\ Argument(r) \in StoreActors
    BY <1>0, <2>1, ArgumentFits DEF At, OverActorsNames
  <2>3. top \in Frames /\ Like(top, f)
    BY <1>3, <2>2, EventsFit DEF Frames, Like
  <2> HIDE DEF top
  <2> QED
    BY <1>0, <1>2, <1>3, <1>4, <1>5, <2>1, <2>2, <2>3
<1>10. CASE FetchTip(r)
  <2> DEFINE top == [Inner(r) EXCEPT !.heads = @ \cup {<<Argument(r), working.head[Argument(r)]>>}]
  <2>1. At(r, "tip") /\ \E t : Goes(r, t, <<top>> \o Outer(r))
    BY <1>10 DEF FetchTip, ReadsOn
  <2>2. ~At(r, "execute") /\ Argument(r) \in StoreActors
    BY <1>0, <2>1, ArgumentFits DEF At, OverActorsNames
  <2>3. top \in Frames /\ Like(top, f)
    BY <1>3, <2>2, EventsFit DEF Frames, Like, Heads
  <2> HIDE DEF top
  <2> QED
    BY <1>0, <1>2, <1>3, <1>4, <1>5, <2>1, <2>2, <2>3
<1>11. CASE Lookup(r)
  <2>1. ~At(r, "execute")
    BY <1>11 DEF Lookup, At
  <2>2. CASE ReadsOn(r, rd)
    BY <1>2, <1>6, <2>2 DEF ReadsOn
  <2>3. CASE ~ReadsOn(r, rd)
    <3>1. PICK c \in working.cache :
            \E t : Goes(r, t, <<[Inner(r) EXCEPT !.ids = c.ids]>> \o Outer(r))
      BY <1>11, <2>3 DEF Lookup
    <3> DEFINE top == [Inner(r) EXCEPT !.ids = c.ids]
    <3>2. c.ids \in SUBSET KnownIds
      BY DEF TypeInv, TablesType, Kept
    <3>3. top \in Frames /\ Like(top, f)
      BY <1>3, <2>1, <3>2 DEF Frames, Like
    <3>4. \E t : Goes(r, t, <<top>> \o Outer(r))
      BY <3>1
    <3> HIDE DEF top
    <3> QED
      BY <1>0, <1>2, <1>3, <1>4, <1>5, <2>1, <3>3, <3>4
  <2> QED
    BY <2>2, <2>3
<1>12. CASE ReturnView(r)
  <2>1. ~At(r, "execute")
    BY <1>12 DEF ReturnView, At
  <2>2. CASE Outer(r) = << >>
    <3>1. \E t : Goes(r, t, rd)
      BY <1>12, <2>2 DEF ReturnView
    <3> QED
      BY <1>2, <1>6, <3>1
  <2>3. CASE Outer(r) # << >>
    <3> DEFINE top == [Head(Outer(r)) EXCEPT !.ids = @ \cup Inner(r).ids]
    <3>1. \E t : Goes(r, t, <<top>> \o Tail(Outer(r)))
      BY <1>12, <2>3 DEF ReturnView
    <3>2. /\ Tail(rd) \in Seq(Frames) /\ Tail(rd) # << >> /\ Outer(r) = Tail(rd)
          /\ Len(Tail(rd)) = Len(rd) - 1 /\ Len(rd) \in Nat
          /\ \A n \in 1 .. Len(Tail(rd)) : Tail(rd)[n] = rd[n + 1]
      BY <1>0, <1>3, <2>1, <2>3, TopOff
    <3>3. Head(Tail(rd)) \in Frames /\ Head(Tail(rd)) = Tail(rd)[1]
      BY <3>2, TopOff
    <3>4. top \in Frames /\ Like(top, Tail(rd)[1])
      BY <1>3, <2>1, <3>2, <3>3 DEF Frames, Like
    <3> HIDE DEF top
    <3>5. \E n \in 1 .. Len(Tail(rd)) : Like(x, Tail(rd)[n])
      BY <1>2, <1>4, <3>1, <3>2, <3>4
    <3>6. \A n \in 1 .. Len(Tail(rd)) : n + 1 \in 1 .. Len(rd)
      BY <3>2
    <3> QED
      BY <1>5, <3>2, <3>5, <3>6
  <2> QED
    BY <2>2, <2>3
<1>13. CASE Commit(r) \/ StoreResult(r)
  <2>1. \E t : Goes(r, t, rd)
    BY <1>13 DEF Commit, StoreResult, Writes
  <2> QED
    BY <1>2, <1>6, <2>1
<1>14. ~PlainStep(r)
  BY <1>0 DEF PlainStep, NextSeq, Commit, ReadVersion, Replace, InsertEvent, MoveHead,
       PutIdentity, FindIdentity, ReadHead, OpenChannel, OwnerJoins,
       CreateObject, CheckChain, InsertNumbered, At, Placed
<1>15. ~FeedStep(r) /\ ~PlanStep(r)
  BY <1>0 DEF FeedStep, PlanStep, View
<1> QED
  BY <1>7, <1>8, <1>9, <1>10, <1>11, <1>12, <1>13, <1>14, <1>15 DEF Step, ViewStep

\* What copies there are was there, or is of a row.
LEMMA CopiesStep ==
  ASSUME TypeInv, View, MeetInv, [StoresNext]_storeVars, ~Cut, NEW x \in Copies'
  PROVE  Copied(x)
<1>0. SameRun /\ (OpenStep \/ \E r \in Asks : Step(r))
  BY Courses
<1>1. ASSUME NEW q \in Executing', Same(q), x \in FramesOf(q)'
      PROVE  Copied(x)
  <2>1. q \in Executing /\ FramesOf(q)' = FramesOf(q)
    BY <1>0, <1>1, SameStays DEF Executing, FramesOf, Same, SameRun, Running
  <2>2. x \in Copies
    BY <1>1, <2>1 DEF Copies
  <2> QED
    BY <2>2 DEF Copied, Like
<1>2. x \in working.cache => Copied(x)
  BY DEF Copied, Copies, Like
<1>3. CASE OpenStep
  <2>1. ASSUME NEW q \in Executing', x \in FramesOf(q)'
        PROVE  Copied(x)
    <3>1. q \in Asks
      BY <1>0 DEF Executing, Running, SameRun
    <3>2. ~Starts(q)
      <4>1. Starts(q) => Len(job'[q].read) = 0
        BY EmptySeq DEF Starts
      <4> QED
        BY <2>1, <4>1 DEF FramesOf
    <3> QED
      BY <1>1, <1>3, <2>1, <3>1, <3>2 DEF OpenStep
  <2>2. working' = working
    BY <1>3 DEF OpenStep
  <2> QED
    BY <1>2, <2>1, <2>2 DEF Copies
<1>4. ASSUME NEW r \in Asks, Step(r)
      PROVE  Copied(x)
  <2>0. r \in Running /\ \A q \in Asks : q # r => Same(q)
    <3>1. OnlyJob(r)
      BY <1>4, AppendsDo, PutsDo, ChannelsDo, OthersDo
    <3> QED
      BY <1>4, <3>1, OnlySame DEF Step
  <2>1. CASE x \in working'.cache
    <3>1. CASE working'.cache = working.cache
      BY <1>2, <2>1, <3>1
    <3>2. CASE StoreResult(r) /\ x \notin working.cache
      <4> DEFINE f == job[r].read[1]
      <4>1. /\ r.op = "execute" /\ ~At(r, "execute")
            /\ x.view = f.view /\ x.version = f.version /\ x.sources = f.sources
        BY <2>0, <2>1, <3>2, ResultKept
      <4>2. 1 \in 1 .. Len(job[r].read)
        BY <2>0, <4>1, InView
      <4>3. f \in Copies
        BY <2>0, <4>1, <4>2 DEF Copies, Executing, FramesOf
      <4> QED
        BY <4>1, <4>3 DEF Copied, Like
    <3> QED
      BY <1>2, <1>4, <2>0, <3>1, <3>2, TablesGo
  <2>2. ASSUME NEW q \in Executing', x \in FramesOf(q)'
        PROVE  Copied(x)
    <3>1. q \in Asks /\ q \in Running' /\ q.op = "execute"
      BY <1>0, <2>2 DEF Executing, Running, SameRun
    <3>2. CASE q = r
      <4>1. (\E y \in FramesOf(r) : Like(x, y)) \/ FromRow(x)
        BY <1>4, <2>0, <2>2, <3>1, <3>2, FramesStep
      <4>2. FramesOf(r) \subseteq Copies
        BY <2>0, <3>1, <3>2 DEF Copies, Executing
      <4> QED
        BY <4>1, <4>2 DEF Copied
    <3> QED
      BY <1>1, <2>0, <2>2, <3>1, <3>2
  <2> QED
    BY <2>1, <2>2 DEF Copies
<1> QED
  BY <1>0, <1>3, <1>4

\* What is copied from there or from a row has its definition too.
LEMMA CopiedTrue ==
  ASSUME TypeInv, View, VersInv, NEW v \in StoreObjects, OneByOne(v),
         NEW x, Copied(x), x.view = v
  PROVE  x.version \in Nat /\ Defines(working, v, x) /\ \A y : Copied(y) => SameRow(v, x, y)
<1>1. /\ \A y \in Copies : y.view = v => Defines(working, v, y)
      /\ \A y, z \in Copies : SameRow(v, y, z)
  BY DEF VersInv
<1>2. \A y \in Copies : y.version \in Nat
  <2>1. \A y \in working.cache : y.version \in Nat
    BY DEF TypeInv, TablesType, Kept
  <2>2. ASSUME NEW r \in Executing, NEW y \in FramesOf(r)
        PROVE  y.version \in Nat
    <3>1. r \in Asks /\ r.op = "execute" /\ ~Mesh
      BY DEF Executing, Running, View, Mesh
    <3>2. job[r].read \in Seq(Frames)
      BY <3>1 DEF TypeInv, JobType, ReadType
    <3>3. y \in Frames
      BY <3>2, ElementOfSeq DEF FramesOf
    <3> QED
      BY <3>3 DEF Frames
  <2> QED
    BY <2>1, <2>2 DEF Copies
<1>3. working.rows[v].version \in Nat
  BY RowsFit
<1>4. ASSUME NEW y, Copied(y), y.view = v
      PROVE  y.version \in Nat /\ Defines(working, v, y)
  <2>1. CASE FromRow(y)
    BY <1>3, <1>4, <2>1 DEF FromRow, Defines
  <2>2. CASE \E z \in Copies : Like(y, z)
    BY <1>1, <1>2, <1>4, <2>2 DEF Like, Defines
  <2> QED
    BY <1>4, <2>1, <2>2 DEF Copied
<1>5. ASSUME NEW y, Copied(y), y.view = v, x.version = y.version
      PROVE  x.sources = y.sources
  <2>1. CASE FromRow(x) \/ FromRow(y)
    BY <1>4, <1>5, <2>1 DEF FromRow, Defines
  <2>2. CASE (\E z \in Copies : Like(x, z)) /\ (\E z \in Copies : Like(y, z))
    <3>1. PICK w \in Copies : Like(x, w)
      BY <2>2
    <3>2. PICK z \in Copies : Like(y, z)
      BY <2>2
    <3>3. SameRow(v, w, z)
      BY <1>1
    <3> QED
      BY <1>5, <3>1, <3>2, <3>3 DEF Like, SameRow
  <2> QED
    BY <1>5, <2>1, <2>2 DEF Copied
<1> QED
  BY <1>4, <1>5 DEF SameRow

\* Rows as they are, and puts that have got no further but to find their version new
LEMMA VersFrame ==
  ASSUME TypeInv, View, VersInv, SameRun, NEW v \in StoreObjects, OneByOne(v),
         working'.rows = working.rows,
         disk' = disk \/ (working' = working /\ disk' = working),
         \A x \in Copies' : Copied(x),
         \A q \in Asks : Allowed(q)' => Allowed(q) \/ q.version > working.rows[q.object].version
  PROVE  /\ \A q \in Asks : Allowed(q)' /\ q.object = v => q.version > working'.rows[v].version
         /\ \A x \in Copies' : x.view = v => Defines(working, v, x)'
         /\ \A x, y \in Copies' : SameRow(v, x, y)
         /\ \A x \in disk'.cache : x.view = v => Defines(disk, v, x)'
         /\ \A x, y \in disk'.cache : SameRow(v, x, y)
<1>1. \A q \in Asks : Allowed(q)' /\ q.object = v => q.version > working'.rows[v].version
  BY DEF VersInv
<1>2. ASSUME NEW x \in Copies', x.view = v
      PROVE  Defines(working, v, x)'
  BY <1>2, CopiedTrue DEF Defines
<1>3. ASSUME NEW x \in Copies', NEW y \in Copies'
      PROVE  SameRow(v, x, y)
  BY <1>3, CopiedTrue DEF SameRow
<1>4. CASE disk' = disk
  BY <1>1, <1>2, <1>3, <1>4 DEF VersInv, Defines
<1>5. CASE disk' = working
  <2>1. \A x \in working.cache : x \in Copies
    BY DEF Copies
  <2>2. \A x \in disk'.cache : x.view = v => Defines(disk, v, x)'
    BY <1>5, <2>1 DEF VersInv, Defines
  <2>3. \A x, y \in disk'.cache : SameRow(v, x, y)
    BY <1>5, <2>1 DEF VersInv
  <2> QED
    BY <1>1, <1>2, <1>3, <2>2, <2>3
<1> QED
  BY <1>4, <1>5

LEMMA VersInvStep ==
  ASSUME WriteInv, TypeInv', VersInv, [StoresNext]_storeVars
  PROVE  VersInv'
<1>0. /\ TypeInv /\ MeetInv
      /\ SameRun /\ (OpenStep \/ Cut \/ \E r \in Asks : Step(r))
  BY Courses DEF WriteInv
<1> SUFFICES ASSUME View, NEW v \in StoreObjects, OneByOne(v)'
             PROVE  /\ \A q \in Asks : Allowed(q)' /\ q.object = v => q.version > working'.rows[v].version
                    /\ \A x \in Copies' : x.view = v => Defines(working, v, x)'
                    /\ \A x, y \in Copies' : SameRow(v, x, y)
                    /\ \A x \in disk'.cache : x.view = v => Defines(disk, v, x)'
                    /\ \A x, y \in disk'.cache : SameRow(v, x, y)
  <2>1. (View' <=> View) /\ Asks' = Asks
    BY <1>0 DEF View, SameRun
  <2>2. \A w, x, y : SameRow(w, x, y)' <=> SameRow(w, x, y)
    BY DEF SameRow
  <2> QED
    BY <2>1, <2>2 DEF VersInv
<1>1. OneByOne(v) /\ ~Mesh /\ (Mesh' <=> Mesh)
  BY <1>0, FreeBefore DEF View, Mesh, SameRun
<1>2. CASE Cut
  <2>1. /\ working' = disk /\ disk' = disk /\ \A q \in Asks : ~Allowed(q)'
    BY <1>0, <1>2 DEF Cut, Allowed
  <2>2. Copies' = disk.cache
    <3>1. Executing' = {}
      BY <1>0, <1>2 DEF Cut, Executing, Running, SameRun
    <3> QED
      BY <2>1, <3>1 DEF Copies
  <2>3. /\ \A x \in disk.cache : x.view = v => Defines(disk, v, x)
        /\ \A x, y \in disk.cache : SameRow(v, x, y)
    BY <1>1 DEF VersInv
  <2> QED
    BY <2>1, <2>2, <2>3 DEF Defines
<1>3. \A x \in Copies' : Cut \/ Copied(x)
  BY <1>0, CopiesStep
<1>4. CASE OpenStep /\ ~Cut
  <2>1. ASSUME NEW q \in Asks
        PROVE  Allowed(q)' => Allowed(q)
    <3>1. CASE Same(q)
      BY <1>0, <3>1, SameStays
    <3>2. CASE Starts(q)
      <4>1. q.op = "put" => Left(q)' \in {5, 6}
        BY <1>0, <1>1, <3>2, ScriptBegins DEF Starts, Left
      <4> QED
        BY <1>1, <4>1 DEF Allowed
    <3> QED
      BY <1>4, <3>1, <3>2 DEF OpenStep
  <2>2. working'.rows = working.rows /\ disk' = disk
    BY <1>4 DEF OpenStep
  <2> QED
    BY <1>0, <1>1, <1>3, <1>4, <2>1, <2>2, VersFrame
<1>5. ASSUME NEW r \in Asks, Step(r), ~Cut
      PROVE  /\ r \in Running /\ Left(r) \in Nat \ {0} /\ OnlyJob(r)
             /\ \A q \in Asks : q # r => (Allowed(q)' <=> Allowed(q))
  <2>1. OnlyJob(r)
    BY <1>0, <1>5, AppendsDo, PutsDo, ChannelsDo, OthersDo
  <2>2. r \in Running /\ Left(r) \in Nat \ {0}
    BY <1>0, <1>5, RunningAsks DEF Step
  <2> QED
    BY <1>0, <2>1, <2>2, OnlySame, SameStays
<1>6. ASSUME NEW r \in Asks, Step(r), ~Cut, r.op # "put"
      PROVE  /\ working'.rows = working.rows
             /\ disk' = disk \/ (working' = working /\ disk' = working)
             /\ \A q \in Asks : Allowed(q)' => Allowed(q)
  BY <1>0, <1>5, <1>6, TablesGo DEF Allowed
<1>7. ASSUME NEW r \in Asks, Step(r), ~Cut, r.op = "put",
             ~(/\ Allowed(r) /\ disk' = disk /\ ~Allowed(r)'
               /\ working' = [working EXCEPT !.rows[r.object] =
                                [version |-> r.version, sources |-> r.sources]])
      PROVE  /\ working'.rows = working.rows
             /\ disk' = disk \/ (working' = working /\ disk' = working)
             /\ Allowed(r)' => r.version > working.rows[r.object].version
  <2>1. PutEffect(r) /\ DOMAIN working = Fields /\ r \in Running /\ Left(r) \in Nat \ {0}
    BY <1>0, <1>5, <1>7, PutsDo DEF TypeInv, TablesType
  <2>2. Advances(r) => (Allowed(r)' => Left(r) = 5)
    <3>1. Advances(r) /\ Left(r)' = 4 => Left(r) = 5
      BY <2>1 DEF Advances
    <3> QED
      BY <1>1, <3>1 DEF Allowed
  <2>3. Halts(r) => ~Allowed(r)'
    BY DEF Halts, Allowed, Running
  <2>4. Allowed(r) <=> Left(r) = 4
    BY <1>1, <1>7, <2>1 DEF Allowed
  <2>5. working' = [working EXCEPT !.seq = @ + 1] => working'.rows = working.rows
    BY <2>1 DEF Fields
  <2>6. CASE Halts(r)
    BY <2>3, <2>6 DEF Halts
  <2>7. CASE Advances(r) /\ Left(r) # 4
    BY <1>1, <2>1, <2>2, <2>5, <2>7 DEF PutEffect, Halts, Advances
  <2>8. CASE Advances(r) /\ Left(r) = 4
    BY <1>1, <1>7, <2>1, <2>2, <2>4, <2>8 DEF PutEffect, Halts, Advances
  <2> QED
    BY <2>1, <2>6, <2>7, <2>8 DEF PutEffect
<1>8. ASSUME NEW r \in Asks, Step(r), ~Cut, r.op = "put",
             Allowed(r), disk' = disk, ~Allowed(r)',
             working' = [working EXCEPT !.rows[r.object] =
                           [version |-> r.version, sources |-> r.sources]]
      PROVE  /\ \A q \in Asks : Allowed(q)' /\ q.object = v => q.version > working'.rows[v].version
             /\ \A x \in Copies' : x.view = v => Defines(working, v, x)'
             /\ \A x, y \in Copies' : SameRow(v, x, y)
             /\ \A x \in disk'.cache : x.view = v => Defines(disk, v, x)'
             /\ \A x, y \in disk'.cache : SameRow(v, x, y)
  <2>1. /\ r.object \in StoreObjects /\ r.version \in Nat /\ working.rows[v].version \in Nat
        /\ working.rows \in [StoreObjects -> RowSet] /\ DOMAIN working = Fields
    BY <1>0, <1>8, RequestsFit, RowsFit DEF TypeInv, TablesType
  <2>2. /\ working'.rows[r.object].version = r.version
        /\ v # r.object => working'.rows[v] = working.rows[v]
    BY <1>8, <2>1 DEF Fields
  <2>3. \A x, y \in Copies' : SameRow(v, x, y)
    BY <1>0, <1>1, <1>3, <1>8, CopiedTrue DEF SameRow
  <2>4. r.object = v => r.version > working.rows[v].version
    BY <1>1, <1>8 DEF VersInv
  <2>5. ASSUME NEW x \in Copies', x.view = v
        PROVE  Defines(working, v, x)'
    <3>1. x.version \in Nat /\ Defines(working, v, x)
      BY <1>0, <1>1, <1>3, <1>8, <2>5, CopiedTrue
    <3>2. CASE v # r.object
      BY <2>2, <3>1, <3>2 DEF Defines
    <3>3. CASE v = r.object
      <4>1. x.version < r.version
        BY <2>1, <2>4, <3>1, <3>3 DEF Defines
      <4>2. working'.rows[v].version = r.version
        BY <2>2, <3>3
      <4>3. x.version <= working'.rows[v].version /\ x.version # working'.rows[v].version
        BY <2>1, <3>1, <4>1, <4>2
      <4> QED
        BY <4>3 DEF Defines
    <3> QED
      BY <3>2, <3>3
  <2>6. ASSUME NEW q \in Asks, Allowed(q)', q.object = v
        PROVE  q.version > working'.rows[v].version
    <3>1. q # r /\ Allowed(q)
      BY <1>5, <1>8, <2>6
    <3>2. v # r.object
      <4>1. q \in job[r].met
        BY <1>0, <1>8, <3>1 DEF MeetInv, Allowed
      <4> QED
        BY <1>1, <1>8, <2>6, <3>1, <4>1 DEF OneByOne, Allowed
    <3> QED
      BY <1>1, <2>2, <2>6, <3>1, <3>2 DEF VersInv
  <2>7. /\ \A x \in disk'.cache : x.view = v => Defines(disk, v, x)'
        /\ \A x, y \in disk'.cache : SameRow(v, x, y)
    BY <1>1, <1>8 DEF VersInv, Defines
  <2> QED
    BY <2>3, <2>5, <2>6, <2>7
<1>9. ASSUME NEW r \in Asks, Step(r), ~Cut, r.op # "put"
      PROVE  /\ \A q \in Asks : Allowed(q)' /\ q.object = v => q.version > working'.rows[v].version
             /\ \A x \in Copies' : x.view = v => Defines(working, v, x)'
             /\ \A x, y \in Copies' : SameRow(v, x, y)
             /\ \A x \in disk'.cache : x.view = v => Defines(disk, v, x)'
             /\ \A x, y \in disk'.cache : SameRow(v, x, y)
  BY <1>0, <1>1, <1>3, <1>6, <1>9, VersFrame
<1>10. ASSUME NEW r \in Asks, Step(r), ~Cut, r.op = "put",
             ~(/\ Allowed(r) /\ disk' = disk /\ ~Allowed(r)'
               /\ working' = [working EXCEPT !.rows[r.object] =
                                [version |-> r.version, sources |-> r.sources]])
      PROVE  /\ \A q \in Asks : Allowed(q)' /\ q.object = v => q.version > working'.rows[v].version
             /\ \A x \in Copies' : x.view = v => Defines(working, v, x)'
             /\ \A x, y \in Copies' : SameRow(v, x, y)
             /\ \A x \in disk'.cache : x.view = v => Defines(disk, v, x)'
             /\ \A x, y \in disk'.cache : SameRow(v, x, y)
  <2>1. \A q \in Asks : Allowed(q)' => Allowed(q) \/ q.version > working.rows[q.object].version
    BY <1>5, <1>7, <1>10
  <2> QED
    BY <1>0, <1>1, <1>3, <1>7, <1>10, <2>1, VersFrame
<1> QED
  BY <1>0, <1>2, <1>4, <1>8, <1>9, <1>10

\* What a view answered or kept, while the heads it read stay
LEMMA ExecutionsHold ==
  ASSUME WriteInv, ViewInv, View
  PROVE  ExecutionsAgree
<1> SUFFICES ASSUME NEW r \in Asks, r.op = "execute", job[r].answer = "ok",
                    NEW read, read = Inner(r), NEW as, as = {h[1] : h \in read.heads},
                    OverActors(read.sources), OneByOne(read.view),
                    \A h \in read.heads : working.head[h[1]] = h[2],
                    \A q \in Asks : q.op = "execute" => Undisturbed(q, as)
             PROVE  read.ids = {e.id : e \in EventsBy(as)}
  BY DEF ExecutionsAgree
<1>1. Opened(r) /\ ~Mesh /\ TypeInv /\ EventsInv
  BY DEF Opened, View, Mesh, WriteInv
<1>2. job[r].read \in Seq(Frames) /\ job[r].read # << >>
  BY <1>1, ReadsAreGood DEF GoodRead
<1>3. read = job[r].read[1]
  BY <1>2, TopOff DEF Inner
<1>4. ~InCollect(r) /\ as = ActorsIn(read) /\ AllFree(as)
  BY DEF InCollect, Running, ActorsIn, AllFree, FreeOf, Undisturbed, Appends
<1>5. Stands(read)
  BY <1>1, <1>3, <1>4 DEF ViewInv, Trusted
<1>6. \A q \in Appends(ActorsIn(read)) : job[q].answer \notin {"running", "lost"}
  BY <1>4 DEF Undisturbed
<1> QED
  BY <1>1, <1>4, <1>5, <1>6, StandsTells

LEMMA CacheHolds ==
  ASSUME WriteInv, CacheInv, VersInv, View
  PROVE  CacheIsTrue
<1> SUFFICES ASSUME NEW c \in working.cache, NEW as, as = {h[1] : h \in c.heads},
                    OverActors(c.sources), OneByOne(c.view),
                    working.rows[c.view].version = c.version,
                    \A h \in c.heads : working.head[h[1]] = h[2],
                    Undisturbed(c.by, as)
             PROVE  /\ c.ids = {e.id : e \in EventsBy(as)}
                    /\ c.sources = working.rows[c.view].sources
  BY DEF CacheIsTrue
<1>1. TypeInv /\ EventsInv /\ c.by \in Asks /\ c.view \in StoreObjects
  BY DEF WriteInv, TypeInv, TablesType, Kept
<1>2. as = ActorsIn(c) /\ FreeOf(c.by, as)
  BY DEF ActorsIn, FreeOf, Undisturbed, Appends
<1>3. Stays(c.by, c)
  BY <1>1 DEF CacheInv
<1>4. Stands(c)
  BY <1>2, <1>3 DEF Stays
<1>5. \A q \in Appends(ActorsIn(c)) : job[q].answer \notin {"running", "lost"}
  BY <1>2 DEF Undisturbed
<1>6. Defines(working, c.view, c)
  BY <1>1 DEF VersInv, Copies
<1> QED
  BY <1>1, <1>2, <1>4, <1>5, <1>6, StandsTells DEF Defines

-----------------------------------------------------------------------------
(***************************************************************************)
(* The stores.                                                             *)
(***************************************************************************)
LEMMA ReadInit ==
  ASSUME StoreInit
  PROVE  ReadInv
<1>1. WriteInv
  BY WriteInit
<1>2. /\ working = disk /\ working.cache = {} /\ Running = {}
      /\ \A r \in Asks : job[r].answer = "none"
  BY StartsEmpty
<1>3. (\A r \in Asks : ~Opened(r)) /\ Copies = {} /\ \A q \in Asks : ~Allowed(q)
  BY <1>2 DEF Opened, Reading, Copies, Executing, Allowed
<1>4. FeedInv /\ PlanInv /\ ViewInv
  BY <1>3 DEF FeedInv, PlanInv, ViewInv
<1>5. CacheInv /\ VersInv
  BY <1>2, <1>3 DEF CacheInv, VersInv
<1> QED
  BY <1>1, <1>4, <1>5 DEF ReadInv

LEMMA ReadStep ==
  ASSUME ReadInv, [StoresNext]_storeVars
  PROVE  ReadInv'
<1>1. WriteInv' /\ TypeInv'
  BY WriteStep DEF ReadInv, WriteInv
<1>2. FeedInv' /\ PlanInv'
  BY <1>1, FeedInvStep, PlanInvStep DEF ReadInv
<1>3. ViewInv' /\ CacheInv' /\ VersInv'
  BY <1>1, ViewInvStep, CacheInvStep, VersInvStep DEF ReadInv
<1> QED
  BY <1>1, <1>2, <1>3 DEF ReadInv

\* A write that was acknowledged is saved, logs are chains whose numbers tell their
\* events apart, a version is undone by nothing but a put it overlapped, and what a
\* reduction or a view answered or kept is what the logs hold while their heads
\* stay, for requests of any number and a crash at any statement.
THEOREM StoresSurvive == StoresSpec => []StoresSurviveOverlap
<1>1. ReadInv => StoresSurviveOverlap
  <2> SUFFICES ASSUME ReadInv
               PROVE  StoresSurviveOverlap
    OBVIOUS
  <2>1. WriteInv /\ FeedInv /\ PlanInv /\ ViewInv /\ CacheInv /\ VersInv
    BY DEF ReadInv
  <2>2. WritesLast /\ VersionsRise
    BY <2>1, WritesHold, VersionsHold
  <2>3. RelayStoreHolds
    BY <2>1, ChainsHold, ReductionsHold, ChannelsHold DEF RelayStoreHolds, Relay
  <2>4. ViewStoreHolds
    BY <2>1, ExecutionsHold, CacheHolds DEF ViewStoreHolds, View
  <2>5. MeshStoreHolds
    BY <2>1, NumbersHold, PlansHold DEF MeshStoreHolds, Mesh
  <2> QED
    BY <2>2, <2>3, <2>4, <2>5 DEF StoresSurviveOverlap
<1>2. StoreInit => ReadInv
  BY ReadInit
<1>3. ReadInv /\ [StoresNext]_storeVars => ReadInv'
  BY ReadStep
<1> QED
  BY <1>1, <1>2, <1>3, PTL DEF StoresSpec

\* What the type of a store says of heads, which TypeInv does not: a head is the
\* last event of its log, or there is none.
LEMMA WriteTyped ==
  ASSUME WriteInv
  PROVE  StoreTypeOK
<1>0. TypeInv /\ HeadsFit(working) /\ HeadsFit(disk)
  BY DEF WriteInv, EventsInv
<1>1. DOMAIN Empty = Fields
  BY DEF Empty, Fields
<1>2. ASSUME NEW t, TablesType(t), HeadsFit(t)
      PROVE  /\ DOMAIN t = DOMAIN Empty
             /\ \A a \in StoreActors : t.head[a] \in {"none"} \cup {e.id : e \in t.log}
             /\ t.seq \in Nat
  <2>1. DOMAIN t = Fields /\ t.seq \in Nat
    BY <1>2 DEF TablesType
  <2>2. ASSUME NEW a \in StoreActors
        PROVE  t.head[a] \in {"none"} \cup {e.id : e \in t.log}
    BY <1>2 DEF HeadsFit
  <2> QED
    BY <1>1, <2>1, <2>2
<1>3. \A t \in {working, disk} :
        /\ DOMAIN t = DOMAIN Empty
        /\ \A a \in StoreActors : t.head[a] \in {"none"} \cup {e.id : e \in t.log}
        /\ t.seq \in Nat
  BY <1>0, <1>2 DEF TypeInv
<1>4. \A r \in Asks :
        /\ job[r].answer \in {"none", "running", "ok", "refused", "raised", "lost"}
        /\ job[r].answer = "running" <=> job[r].todo # << >>
        /\ job[r].met \subseteq Asks \ {r}
  BY <1>0 DEF TypeInv, JobType
<1> QED
  BY <1>0, <1>3, <1>4 DEF TypeInv, StoreTypeOK

\* The store, its tables and its requests are always in a state of their types: in
\* particular no head of a log, in the tables or on disk, is without its event.
THEOREM StoresWellTyped == StoresSpec => []StoreTypeOK
<1>1. StoreInit => WriteInv
  BY WriteInit
<1>2. WriteInv /\ [StoresNext]_storeVars => WriteInv'
  BY WriteStep
<1>3. WriteInv => StoreTypeOK
  BY WriteTyped
<1> QED
  BY <1>1, <1>2, <1>3, PTL DEF StoresSpec
=============================================================================
