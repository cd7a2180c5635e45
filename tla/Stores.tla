------------------------------- MODULE Stores -------------------------------
(***************************************************************************)
(* The three stores of the repository, each with the engine that reads     *)
(* it, over the requests of StoreJobs: those of the legacy implementations *)
(* relay_v1.4.1 and relay_v2, and that of the Mesh library.                *)
(***************************************************************************)
EXTENDS StoreJobs

\* The sources of a feed or a view: actors and others, or actors and their follows
SourcesIn(store) ==
  IF store = "mesh" THEN StoreActors \cup ({"follows"} \X StoreActors)
                    ELSE StoreActors \cup StoreObjects

OpsOf(store) ==
  CASE store = "relay" -> {"identity", "append", "put", "channel", "reduce"}
    [] store = "view"  -> {"append", "put", "execute"}
    [] store = "mesh"  -> {"create", "append", "put", "execute"}

\* Requests are well formed; in Mesh an event's id is a hash of its actor and number.
ASSUME StoresAssumption ==
  /\ IsFiniteSet(StoreActors) /\ IsFiniteSet(StoreObjects) /\ MaxStoreCrashes \in Nat
  /\ \A t \in StoreTraffic :
       /\ t.store \in {"relay", "view", "mesh"}
       /\ t.known \subseteq StoreActors
       /\ DOMAIN t.put \subseteq StoreObjects
       /\ \A o \in DOMAIN t.put : t.put[o] \in Seq(SourcesIn(t.store))
       /\ \A r \in t.asks :
            /\ r.op \in OpsOf(t.store)
            /\ r.op = "append" => r.actor \in StoreActors /\ r.id # "none"
            /\ r.op = "put" => /\ r.object \in StoreObjects /\ r.version \in Nat
                               /\ r.sources \in Seq(SourcesIn(t.store))
                               /\ r.feed \in BOOLEAN
            /\ r.op \in {"reduce", "execute"} => r.object \in StoreObjects
            /\ r.op = "create" /\ r.object.kind = "follow" => r.object.to \in StoreActors
       /\ t.store = "mesh" =>
            \A q, r \in {s \in t.asks : s.op = "append"} :
              r.seq \in Nat /\ (q.id = r.id <=> q.actor = r.actor /\ q.seq = r.seq)

-----------------------------------------------------------------------------
(***************************************************************************)
(* The Relay v1.4.1 implementation (implementations/legacy/relay_v1.4.1):  *)
(* HTTP handlers over a store whose logs are chains, channels with their   *)
(* owner as first member, and the engine that reduces a feed.              *)
(*                                                                         *)
(* What a reduction takes from each log is far below its limit, and the    *)
(* order it is put in is that of its events: a result is a set here.       *)
(***************************************************************************)
RelayScript(r) ==
  CASE r.op = "identity" -> Statements(<<"name", "commit", "count", "commit">>)
    [] r.op = "append"   -> Statements(<<"identity", "head", "count", "commit",
                                         "insert", "lead", "commit">>)
    [] r.op = "put" /\ ~r.feed -> Statements(<<"identity", "version", "replace", "commit",
                                               "count", "commit">>)
    [] r.op = "put" /\ r.feed  -> Statements(<<"version", "replace", "commit", "count",
                                               "commit">>)
    [] r.op = "channel"  -> Statements(<<"open", "own", "commit">>)
    [] r.op = "reduce"   -> <<<<"reduce", r.object>>>>

PutIdentity(r) ==
  /\ At(r, "name")
  /\ Writes(r, [working EXCEPT !.actors = @ \cup {r.actor}], job[r].read)

\* _append_log, _put_state: whose signature is it?
FindIdentity(r) ==
  /\ At(r, "identity")
  /\ IF r.actor \in working.actors THEN ReadsOn(r, job[r].read) ELSE Ends(r, "refused")

\* Mistake: only a head that is there is compared.
ReadHeadIfAny(r) ==
  /\ At(r, "head")
  /\ IF r.prev \in {working.head[r.actor], "none"} THEN ReadsOn(r, job[r].read)
                                                   ELSE Ends(r, "refused")

\* append_log: prev has to be the head.
ReadHead(r) ==
  /\ At(r, "head")
  /\ IF r.prev = working.head[r.actor] THEN ReadsOn(r, job[r].read) ELSE Ends(r, "refused")

\* create_channel: the id is the hash of the genesis, and one that is there raises.
OpenChannel(r) ==
  /\ At(r, "open")
  /\ IF r.object \in working.channels THEN Ends(r, "raised")
     ELSE Writes(r, [working EXCEPT !.channels = @ \cup {r.object}], job[r].read)

OwnerJoins(r) ==
  /\ At(r, "own")
  /\ Writes(r, [working EXCEPT !.members = @ \cup {<<r.object, r.actor>>}], job[r].read)

\* _execute_feed, and reduce of the feed that was asked for
Reduce(r) ==
  LET row == working.rows[Argument(r)]
      visit(s) == IF s \in StoreActors THEN <<"fetch", s>> ELSE <<"define", s>>
  IN  /\ At(r, "reduce")
      /\ IF row = NoRow THEN Ends(r, "refused")
         ELSE /\ Goes(r, [n \in DOMAIN row.sources |-> visit(row.sources[n])],
                      [version |-> row.version, sources |-> row.sources,
                       heads |-> {}, ids |-> {}])
              /\ UNCHANGED <<working, disk>>

\* reduce, for a source that is a feed: its sources come next, if it is there.
Define(r) ==
  LET sources == working.rows[Argument(r)].sources
      visit(s) == IF s \in StoreActors THEN <<"gather", s>> ELSE <<"define", s>>
  IN  /\ At(r, "define")
      /\ Goes(r, [n \in DOMAIN sources |-> visit(sources[n])] \o Tail(job[r].todo),
              job[r].read)
      /\ UNCHANGED <<working, disk>>

\* get_log of a source, and get_log_head next
FetchLog(r) ==
  /\ At(r, "fetch") \/ At(r, "gather")
  /\ LET tip == IF At(r, "fetch") THEN "tip" ELSE "peek"
         got == {e.id : e \in EventsBy({Argument(r)})}
     IN  Goes(r, <<<<tip, Argument(r)>>>> \o Tail(job[r].todo),
              [job[r].read EXCEPT !.ids = @ \cup got])
  /\ UNCHANGED <<working, disk>>

\* The head of a source goes into the boundary, that of a nested feed's source
\* into the boundary of the nested result, which is not kept.
FetchHead(r) ==
  \/ At(r, "tip") /\ ReadsOn(r, [job[r].read EXCEPT !.heads = @ \cup
                                  {<<Argument(r), working.head[Argument(r)]>>}])
  \/ At(r, "peek") /\ ReadsOn(r, job[r].read)

RelayStoreNext ==
  /\ storeRun.store = "relay"
  /\ \/ \E r \in Asks : \/ BeginJob(r, RelayScript(r))
                        \/ StoreStep(r)
                        \/ PutIdentity(r) \/ FindIdentity(r) \/ ReadHead(r)
                        \/ OpenChannel(r) \/ OwnerJoins(r)
                        \/ Reduce(r) \/ Define(r) \/ FetchLog(r) \/ FetchHead(r)
     \/ StoreCrash

-----------------------------------------------------------------------------
\* A log is a chain: an event follows one that is there and is older, on disk as
\* for the connection; and a log forks only where two appends overlapped, or one
\* was cut off after another's commit had saved its event without its head.
LogsAreChains ==
  /\ \A t \in {working, disk} : \A e \in t.log :
       e.prev # "none" =>
         \E d \in t.log : d.id = e.prev /\ d.actor = e.actor /\ d.seq < e.seq
  /\ \A d, e \in working.log :
       d # e /\ d.actor = e.actor /\ d.prev = e.prev =>
         \/ e.by \in job[d.by].met
         \/ "lost" \in {job[d.by].answer, job[e.by].answer}

\* Where the heads of a feed's sources are what a reduction named, the sources hold
\* what it answered, if no append was under way: its two reads of a log are one.
ReductionsAgree ==
  \A r \in Asks : (r.op = "reduce" /\ job[r].answer = "ok") =>
    LET read == job[r].read
        as == {h[1] : h \in read.heads}
    IN  (/\ \A n \in DOMAIN read.sources : read.sources[n] \in StoreActors
         /\ \A h \in read.heads : working.head[h[1]] = h[2]
         /\ Undisturbed(r, as))
        => read.ids = {e.id : e \in EventsBy(as)}

\* A channel on disk has its owner for a member, unless its creation was cut off
\* after another's commit: then it never gets one, for to create it again raises.
ChannelsAreOwned ==
  \A c \in disk.channels : \E r \in Asks :
    /\ r.op = "channel" /\ r.object = c
    /\ <<c, r.actor>> \in disk.members \/ job[r].answer \in {"running", "lost"}

RelayStoreHolds ==
  storeRun.store = "relay" => LogsAreChains /\ ReductionsAgree /\ ChannelsAreOwned

-----------------------------------------------------------------------------
(***************************************************************************)
(* The Relay v2 implementation (implementations/legacy/relay_v2): a store  *)
(* of events that need not follow one another, and an engine that executes *)
(* views and keeps each result under its boundary, which is the view, its  *)
(* version and the heads of its sources.                                   *)
(*                                                                         *)
(* Here too a result is a set; its hash sorts the ids.                     *)
(***************************************************************************)
ViewScript(r) ==
  CASE r.op = "append"  -> Statements(<<"count", "commit", "insert", "lead", "commit">>)
    [] r.op = "put"     -> Statements(<<"version", "replace", "commit", "count", "commit">>)
    [] r.op = "execute" -> <<<<"execute", r.object>>>>

\* The views r is in the middle of executing, innermost first, each with what it
\* has collected and what is left to do for whoever executes it
Inner(r) == Head(job[r].read)
Outer(r) == Tail(job[r].read)

\* execute: its sources come next, then the cache is asked, and if it has nothing
\* the result is stored.  What a nested view has got is fetched by its caller.
ExecuteView(r) ==
  LET v   == Argument(r)
      row == working.rows[v]
      visit(s) == IF s \in StoreActors THEN <<"fetch", s>> ELSE <<"view", s>>
      frame == [view |-> v, version |-> row.version, sources |-> row.sources,
                heads |-> {}, ids |-> {}, rest |-> Tail(job[r].todo)]
  IN  /\ row # NoRow
      /\ Goes(r, [n \in DOMAIN row.sources |-> visit(row.sources[n])]
                   \o Statements(<<"lookup", "store", "commit", "return">>),
              <<frame>> \o job[r].read)
      /\ UNCHANGED <<working, disk>>

\* The view that was asked for, and one that is a source
OpenView(r) ==
  /\ At(r, "execute") \/ At(r, "view")
  /\ \/ ExecuteView(r)
     \/ /\ working.rows[Argument(r)] = NoRow
        /\ IF At(r, "execute") THEN Ends(r, "refused") ELSE ReadsOn(r, job[r].read)

\* get_events of a source, and get_event_head next
FetchEvents(r) ==
  /\ At(r, "fetch")
  /\ LET got == {e.id : e \in EventsBy({Argument(r)})}
     IN  Goes(r, <<<<"tip", Argument(r)>>>> \o Tail(job[r].todo),
              <<[Inner(r) EXCEPT !.ids = @ \cup got]>> \o Outer(r))
  /\ UNCHANGED <<working, disk>>

FetchTip(r) ==
  /\ At(r, "tip")
  /\ LET head == <<Argument(r), working.head[Argument(r)]>>
     IN  ReadsOn(r, <<[Inner(r) EXCEPT !.heads = @ \cup {head}]>> \o Outer(r))

\* Mistake: the heads are left out.
BoundaryWithoutHeads(row) == <<row.view, row.version>>

\* _compute_boundary_hash
Boundary(row) == <<row.view, row.version, row.heads>>

\* get_cached_view: what is kept for the boundary is the answer.
Lookup(r) ==
  LET kept == {c \in working.cache : Boundary(c) = Boundary(Inner(r))}
  IN  /\ At(r, "lookup")
      /\ IF kept = {} THEN ReadsOn(r, job[r].read)
         ELSE \E c \in kept :
                /\ Goes(r, Statements(<<"return">>), <<[Inner(r) EXCEPT !.ids = c.ids]>> \o Outer(r))
                /\ UNCHANGED <<working, disk>>

\* cache_view_result
StoreResult(r) ==
  /\ At(r, "store")
  /\ Writes(r, [working EXCEPT !.cache =
                  {c \in @ : Boundary(c) # Boundary(Inner(r))}
                    \cup {[view |-> Inner(r).view, version |-> Inner(r).version,
                           sources |-> Inner(r).sources, heads |-> Inner(r).heads,
                           ids |-> Inner(r).ids, by |-> r]}],
            job[r].read)

ReturnView(r) ==
  /\ At(r, "return")
  /\ Goes(r, Inner(r).rest,
          IF Outer(r) = << >> THEN job[r].read
          ELSE <<[Head(Outer(r)) EXCEPT !.ids = @ \cup Inner(r).ids]>> \o Tail(Outer(r)))
  /\ UNCHANGED <<working, disk>>

ViewStoreNext ==
  /\ storeRun.store = "view"
  /\ \/ \E r \in Asks : \/ BeginJob(r, ViewScript(r))
                        \/ StoreStep(r)
                        \/ OpenView(r) \/ FetchEvents(r) \/ FetchTip(r)
                        \/ Lookup(r) \/ StoreResult(r) \/ ReturnView(r)
     \/ StoreCrash

-----------------------------------------------------------------------------
OverActors(sources) == \A n \in DOMAIN sources : sources[n] \in StoreActors

\* No two puts of view v overlapped, which may give one version two definitions.
OneByOne(v) ==
  \A q \in Asks : (q.op = "put" /\ q.object = v) =>
    \A p \in job[q].met : p.op = "put" => p.object # v

\* Same boundary, same definition, same result: what is kept for a boundary that
\* holds now is what an execution would get now, for a view over logs, if no append
\* to them overlapped the execution that kept it.  (Of a view over views the
\* boundary says nothing, so that its result is kept past its time.)
CacheIsTrue ==
  \A c \in working.cache :
    LET as == {h[1] : h \in c.heads}
    IN  (/\ OverActors(c.sources) /\ OneByOne(c.view)
         /\ working.rows[c.view].version = c.version
         /\ \A h \in c.heads : working.head[h[1]] = h[2]
         /\ Undisturbed(c.by, as))
        => /\ c.ids = {e.id : e \in EventsBy(as)}
           /\ c.sources = working.rows[c.view].sources

\* What an execution that nothing overlapped answered, from the cache or not, is
\* all its sources held when it ended, or an append has moved a head since.
ExecutionsAgree ==
  \A r \in Asks : (r.op = "execute" /\ job[r].answer = "ok") =>
    LET read == Inner(r)
        as == {h[1] : h \in read.heads}
    IN  (/\ OverActors(read.sources) /\ OneByOne(read.view)
         /\ \A h \in read.heads : working.head[h[1]] = h[2]
         /\ \A q \in Asks : q.op = "execute" => Undisturbed(q, as))
        => read.ids = {e.id : e \in EventsBy(as)}

ViewStoreHolds == storeRun.store = "view" => CacheIsTrue /\ ExecutionsAgree

-----------------------------------------------------------------------------
(***************************************************************************)
(* The Mesh library (implementations/mesh): a store of entities, contents  *)
(* and links, whose logs number the events of an actor, and an engine that *)
(* executes views over the logs of actors or of those an actor follows.    *)
(*                                                                         *)
(* The id of an event is a hash of its actor and its number.  Results of   *)
(* views are kept in memory, but without a time to expire at, for which    *)
(* none is ever taken from there.  Below its limit, a result is a set.     *)
(***************************************************************************)
MeshScript(r) ==
  CASE r.op = "create"  -> Statements(<<"create", "commit">>)
    [] r.op = "append"  -> Statements(<<"chain", "number", "lead", "commit">>)
    [] r.op = "put"     -> Statements(<<"version", "replace", "commit">>)
    [] r.op = "execute" -> <<<<"plan", r.object>>>>

\* create_entity, create_content, create_link: an id that is there already raises.
CreateObject(r) ==
  /\ At(r, "create")
  /\ IF r.object.id \in {o.id : o \in working.objects} THEN Ends(r, "raised")
     ELSE Writes(r, [working EXCEPT !.objects = @ \cup {r.object}], job[r].read)

HeadSeq(a) ==
  IF working.head[a] = "none" THEN 0
  ELSE (CHOOSE e \in working.log : e.id = working.head[a]).seq

\* Mistake: the number is taken as it comes.
CheckPrev(r) ==
  /\ At(r, "chain")
  /\ IF r.prev = working.head[r.actor] THEN ReadsOn(r, r.seq) ELSE Ends(r, "refused")

\* append_log: prev is the head, and seq follows its seq.
CheckChain(r) ==
  /\ At(r, "chain")
  /\ IF r.prev = working.head[r.actor] /\ r.seq = HeadSeq(r.actor) + 1
       THEN ReadsOn(r, r.seq) ELSE Ends(r, "refused")

InsertNumbered(r) ==
  /\ At(r, "number")
  /\ IF r.id \in {e.id : e \in working.log} THEN Ends(r, "raised")
     ELSE Writes(r, [working EXCEPT !.log = @ \cup {[id |-> r.id, actor |-> r.actor,
                       prev |-> r.prev, seq |-> r.seq, by |-> r]}], job[r].read)

\* get_following: a link that is dead does not undo one that is not.
FollowedBy(a) ==
  {o.to : o \in {l \in working.objects : l.kind = "follow" /\ l.from = a /\ ~l.dead}}

FetchAll(as) ==
  LET order == CHOOSE s \in [1 .. Cardinality(as) -> as] :
                 \A a \in as : \E n \in DOMAIN s : s[n] = a
  IN  [n \in 1 .. Cardinality(as) |-> <<"fetch", order[n]>>]

\* execute: the definition is given, and with it the sources, logs or the follows
\* of an actor, and whose events are left out.
Plan(r) ==
  LET row == working.rows[r.object]
      visit(s) == IF s \in StoreActors THEN <<"fetch", s>> ELSE <<"follows", s[2]>>
  IN  /\ At(r, "plan")
      /\ IF row = NoRow THEN Ends(r, "refused")
         ELSE /\ Goes(r, [n \in DOMAIN row.sources |-> visit(row.sources[n])]
                            \o Statements(<<"batch">>),
                      [heads |-> {}, ids |-> {}, of |-> {}])
              /\ UNCHANGED <<working, disk>>

FetchFollows(r) ==
  /\ At(r, "follows")
  /\ Goes(r, FetchAll(FollowedBy(Argument(r))) \o Tail(job[r].todo), job[r].read)
  /\ UNCHANGED <<working, disk>>

\* get_events_by_actor, and get_log_head next
FetchActor(r) ==
  /\ At(r, "fetch")
  /\ LET got == {e.id : e \in EventsBy({Argument(r)})}
     IN  Goes(r, <<<<"tip", Argument(r)>>>> \o Tail(job[r].todo),
              [job[r].read EXCEPT !.ids = @ \cup got, !.of = @ \cup {Argument(r)}])
  /\ UNCHANGED <<working, disk>>

FetchActorHead(r) ==
  /\ At(r, "tip")
  /\ LET head == <<Argument(r), working.head[Argument(r)]>>
     IN  ReadsOn(r, [job[r].read EXCEPT !.heads = @ \cup {head}])

\* get_events_batch, of the filter and of the reducer
FetchBatch(r) ==
  /\ At(r, "batch")
  /\ LET kept == {d \in working.log : d.id \in job[r].read.ids /\ d.actor \notin r.without}
     IN  ReadsOn(r, [job[r].read EXCEPT !.ids = {e.id : e \in kept}])

MeshStoreNext ==
  /\ storeRun.store = "mesh"
  /\ \/ \E r \in Asks : \/ BeginJob(r, MeshScript(r))
                        \/ StoreStep(r)
                        \/ CreateObject(r) \/ CheckChain(r) \/ InsertNumbered(r)
                        \/ Plan(r) \/ FetchFollows(r) \/ FetchActor(r)
                        \/ FetchActorHead(r) \/ FetchBatch(r)
     \/ StoreCrash

-----------------------------------------------------------------------------
\* validate_log_chain holds of every log, on disk too: appends that overlap after
\* the same head cannot both be there, for they have one id.
LogsValidate ==
  \A t \in {working, disk} : \A a \in StoreActors :
    LET log == {e \in t.log : e.actor = a}
    IN  /\ {e.seq : e \in log} = 1 .. Cardinality(log)
        /\ \A e \in log :
             IF e.seq = 1 THEN e.prev = "none"
                          ELSE \E d \in log : d.seq = e.seq - 1 /\ e.prev = d.id

\* The head is the last event, but where an append is under way or was cut off; then
\* the actor is refused for good: its next event has the id of the last.
HeadsLead ==
  \A a \in StoreActors :
    (\A q \in Appends({a}) : job[q].answer \notin {"running", "lost"})
    => HeadSeq(a) = Cardinality(EventsBy({a}))

\* What a view that no append overlapped answered is, for as long as the heads it
\* read stay, what those it took events of have in their logs.
MeshViewsAgree ==
  \A r \in Asks : (r.op = "execute" /\ job[r].answer = "ok") =>
    LET read == job[r].read
    IN  (Undisturbed(r, read.of) /\ \A h \in read.heads : working.head[h[1]] = h[2])
        => read.ids = {e.id : e \in EventsBy(read.of \ r.without)}

MeshStoreHolds ==
  storeRun.store = "mesh" => LogsValidate /\ HeadsLead /\ MeshViewsAgree

-----------------------------------------------------------------------------
(***************************************************************************)
(* One of them.                                                            *)
(***************************************************************************)
StoresNext == RelayStoreNext \/ ViewStoreNext \/ MeshStoreNext

StoresSpec == StoreInit /\ [][StoresNext]_storeVars

\* Requests that overlap, and a crash among them, leave a store what it promises.
StoresSurviveOverlap ==
  WritesLast /\ VersionsRise /\ RelayStoreHolds /\ ViewStoreHolds /\ MeshStoreHolds
=============================================================================
