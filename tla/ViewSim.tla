-------------------------------- MODULE ViewSim --------------------------------
(***************************************************************************)
(* The Relay v2 simulator (simulators/legacy/relay_v2): actors append      *)
(* events, attest, define views and subscribe to them; a reducer executes  *)
(* a view over a boundary, which says how far the log of each source       *)
(* counts, and recomputes what another claims to have got.                 *)
(*                                                                         *)
(* The ids of events are random, so equal timestamps come in any order.    *)
(***************************************************************************)
EXTENDS Naturals, Sequences, SequencesExt, FiniteSets

CONSTANTS
  Actors2,       \* the actors
  EventIds,      \* a set of numbers, the ids that may be drawn
  Views,         \* view ids
  ViewScenarios, \* which acts have a rate above zero, and which ids may be
                 \* drawn, one for each behaviour
  PerLog,        \* the most get_actor_log returns (100)
  MaxViewTicks   \* bound: ticks

\* Ids are numbers, and no actor is a view.
ASSUME ViewSimAssumption ==
  /\ EventIds \subseteq Nat
  /\ Actors2 \cap Views = {}
  /\ PerLog \in Nat /\ MaxViewTicks \in Nat \ {0}

VARIABLES
  doing,       \* what is done in this behaviour
  viewTick,    \* current_time, in ticks
  settled,     \* is every actor through with the tick?
  byActor,     \* _events_by_actor: the ids of an actor, as appended
  stamp,       \* stamp[e]: timestamp of event e, 0 before it is made
  following2,  \* whom an actor remembers to follow
  follows,     \* the follow.add events, <<actor, target, id>>
  viewDefs,    \* viewDefs[v], NoView before it is put
  subscribed,  \* the views an actor remembers to be subscribed to
  attested,    \* attestations <<actor, type, target>>
  viewClaims   \* history: what executions answered

viewSimVars == <<doing, viewTick, settled, byActor, stamp, following2, follows,
                 viewDefs, subscribed, attested, viewClaims>>

NoView == [version |-> 0, sources |-> {}, reduce |-> "none"]
Orders == {"chronological", "reverse_chronological", "engagement"}

ViewSimTypeOK ==
  /\ doing \in ViewScenarios
  /\ viewTick \in 1 .. MaxViewTicks
  /\ settled \in BOOLEAN
  /\ byActor \in [Actors2 -> Seq(EventIds)]
  /\ stamp \in [EventIds -> 0 .. MaxViewTicks]
  /\ following2 \in [Actors2 -> SUBSET Actors2]
  /\ follows \subseteq Actors2 \X Actors2 \X EventIds
  /\ \A v \in Views : viewDefs[v] = NoView \/ viewDefs[v].reduce \in Orders
  /\ subscribed \in [Actors2 -> SUBSET Views]

ViewSimInit ==
  /\ doing \in ViewScenarios
  /\ viewTick = 1
  /\ settled = FALSE
  /\ byActor = [a \in Actors2 |-> << >>]
  /\ stamp = [e \in EventIds |-> 0]
  /\ following2 = [a \in Actors2 |-> {}]
  /\ follows = {}
  /\ viewDefs = [v \in Views |-> NoView]
  /\ subscribed = [a \in Actors2 |-> {}]
  /\ attested = {}
  /\ viewClaims = {}

-----------------------------------------------------------------------------
Made == {e \in EventIds : stamp[e] > 0}

\* append_event: nothing is checked.
AppendEvent(a, e) ==
  /\ e \in doing.ids \ Made
  /\ byActor' = [byActor EXCEPT ![a] = Append(@, e)]
  /\ stamp' = [stamp EXCEPT ![e] = viewTick]

Acts(what) == /\ what \in doing.acts
              /\ ~settled
              /\ UNCHANGED <<doing, viewTick, settled, viewClaims>>

\* _do_post, _do_reaction, _do_action_request: reactions are events here, and
\* not the attestations an engagement counts.
PostEvent(a, e) ==
  /\ Acts("post")
  /\ AppendEvent(a, e)
  /\ UNCHANGED <<following2, follows, viewDefs, subscribed, attested>>

FollowEvent(a, b, e) ==
  /\ Acts("follow")
  /\ b # a /\ b \notin following2[a]
  /\ AppendEvent(a, e)
  /\ following2' = [following2 EXCEPT ![a] = @ \cup {b}]
  /\ follows' = follows \cup {<<a, b, e>>}
  /\ UNCHANGED <<viewDefs, subscribed, attested>>

\* _do_attestation, of a moderator or an indexer
Attest(a, e, type) ==
  /\ Acts("attest")
  /\ e \in Made
  /\ attested' = attested \cup {<<a, type, e>>}
  /\ UNCHANGED <<byActor, stamp, following2, follows, viewDefs, subscribed>>

\* put_view_definition keeps what comes last; the ids of views are new.
CreateView(v, sources, reduce) ==
  /\ Acts("view")
  /\ viewDefs[v] = NoView
  /\ viewDefs' = [viewDefs EXCEPT ![v] =
                    [version |-> 1, sources |-> sources, reduce |-> reduce]]
  /\ UNCHANGED <<byActor, stamp, following2, follows, subscribed, attested>>

SubscribeView(a, v) ==
  /\ Acts("subscribe")
  /\ viewDefs[v] # NoView /\ v \notin subscribed[a]
  /\ subscribed' = [subscribed EXCEPT ![a] = @ \cup {v}]
  /\ attested' = attested \cup {<<a, "subscribed", v>>}
  /\ UNCHANGED <<byActor, stamp, following2, follows, viewDefs>>

\* The actors are through; views are executed before time goes on.
Settle ==
  /\ ~settled
  /\ settled' = TRUE
  /\ UNCHANGED <<doing, viewTick, byActor, stamp, following2, follows, viewDefs,
                 subscribed, attested, viewClaims>>

NextTick2 ==
  /\ settled
  /\ viewTick < MaxViewTicks
  /\ viewTick' = viewTick + 1
  /\ settled' = FALSE
  /\ UNCHANGED <<doing, byActor, stamp, following2, follows, viewDefs,
                 subscribed, attested, viewClaims>>

-----------------------------------------------------------------------------
Engagement(e) == Cardinality({t \in attested : t[2] = "reaction" /\ t[3] = e})

\* An event, by what it is sorted by
EntryOf(e) == [id |-> e, at |-> stamp[e], engaged |-> Engagement(e)]

Before(d, e)   == d.at < e.at \/ (d.at = e.at /\ d.id < e.id)
After(d, e)    == Before(e, d)
Engaging(d, e) == \/ d.engaged > e.engaged
                  \/ d.engaged = e.engaged /\ Before(d, e)

\* get_actor_log: sorted by time and id, and then the first of them
EntriesOf(a) == {EntryOf(e) : e \in ToSet(byActor[a])}
ActorLog(a)  == {e \in EntriesOf(a) : Cardinality({d \in EntriesOf(a) : Before(d, e)}) < PerLog}

\* Mistake: the end of the range is not looked at.
InRangeOpen(a, range) == ActorLog(a)

\* What of a's log is in its range: up to a time, or up to an event if it is there
InRange(a, range) ==
  IF range[1] = "to_ts"
    THEN {e \in ActorLog(a) : e.at <= range[2]}
    ELSE {e \in ActorLog(a) : \A d \in ActorLog(a) : d.id = range[2] => ~Before(d, e)}

\* What v collects, given what views collect: a source is an actor or another view,
\* executed over the same ranges.
Sources(collected, v, ranges) ==
  UNION {IF s \in Actors2 THEN InRange(s, ranges[s]) ELSE collected[s] :
         s \in viewDefs[v].sources}

Collected(ranges) ==
  LET collected[v \in Views] == Sources(collected, v, ranges)
  IN  collected

\* _apply_reducer
Reduce2(order, entries) ==
  LET sorted == CASE order = "reverse_chronological" -> SetToSortSeq(entries, After)
                  [] order = "engagement" -> SetToSortSeq(entries, Engaging)
                  [] OTHER -> SetToSortSeq(entries, Before)
  IN  [n \in DOMAIN sorted |-> sorted[n].id]

Execute(v, ranges) == Reduce2(viewDefs[v].reduce, Collected(ranges)[v])

\* _execute_views ends each range now; a client may name the head of each log.
RangesNow == [a \in Actors2 |-> <<"to_ts", viewTick>>]
RangesToHeads == [a \in Actors2 |-> <<"to_id", Last(byActor[a])>>]

ExecuteViews(v) ==
  /\ settled
  /\ viewDefs[v] # NoView
  /\ viewClaims = {}  \* bound: one execution in a behaviour
  /\ Made # {}
  /\ \E ranges \in {RangesNow} \cup
         (IF \E a \in Actors2 : byActor[a] = << >> THEN {} ELSE {RangesToHeads}) :
       viewClaims' = {[view |-> v, ranges |-> ranges,
                       items |-> Execute(v, ranges)]}
  /\ UNCHANGED <<doing, viewTick, settled, byActor, stamp, following2, follows,
                 viewDefs, subscribed, attested>>

ViewSimNext ==
  \/ \E a \in Actors2 :
       \/ \E e \in EventIds : \/ PostEvent(a, e)
                              \/ \E b \in Actors2 : FollowEvent(a, b, e)
                              \/ Attest(a, e, "indexed")
       \/ \E v \in Views : SubscribeView(a, v)
  \/ \E v \in Views, r \in Orders : CreateView(v, Actors2, r)
  \/ \E v, w \in Views : viewDefs[w] # NoView /\ CreateView(v, {w}, "engagement")
  \/ \E v \in Views : ExecuteViews(v)
  \/ Settle \/ NextTick2

-----------------------------------------------------------------------------
\* recompute_and_verify: what was executed over ranges that end computes to
\* the same for ever after, whatever is appended, attested and defined; the
\* range makes it so, since ids do not sort in the order of the log.
ViewsRecompute ==
  \A c \in viewClaims : Execute(c.view, c.ranges) = c.items

\* What an actor remembers is what its events and attestations say.
SubscribersRemember ==
  \A a \in Actors2 :
    /\ following2[a] = {f[2] : f \in {g \in follows : g[1] = a}}
    /\ subscribed[a] = {t[3] : t \in {u \in attested : u[1] = a /\
                                                       u[2] = "subscribed"}}
=============================================================================
