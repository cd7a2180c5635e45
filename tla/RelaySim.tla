------------------------------- MODULE RelaySim -------------------------------
(***************************************************************************)
(* The Relay v1.4.1 simulator (simulators/legacy/relay_v1.4.1): actors     *)
(* that post, follow, join channels, ask agents for actions and define     *)
(* feeds, over one in-memory store whose log is a chain per actor, with    *)
(* the reducer that computes a feed and the verifier of an action's three  *)
(* events.                                                                 *)
(*                                                                         *)
(* One tick is a turn of every actor, and what an actor does in a turn is  *)
(* drawn at random.  Event ids are drawn too; here they are numbers in the *)
(* order of creation, so that one order of equal timestamps is looked at.  *)
(***************************************************************************)
EXTENDS Naturals, Sequences, SequencesExt, FiniteSets

CONSTANTS
  SimUsers, SimAgents, SimOwners,  \* ActorType
  SimActions,    \* action ids
  SimFeeds,      \* object ids of feed definitions, 1 to n
  FeedLimit,     \* the limit a feed asks for (100)
  LogLimit,      \* how much of a log the reducer fetches (1000)
  SimScenarios,  \* which acts have a rate above zero, and the bound of the
                 \* events in all logs, one for each behaviour
  MaxTicks       \* bound: ticks

SimActors == SimUsers \cup SimAgents \cup SimOwners

\* There are finitely many actors, and feeds are numbered.
ASSUME RelaySimAssumption ==
  /\ IsFiniteSet(SimActors)
  /\ IsFiniteSet(SimFeeds) /\ SimFeeds = 1 .. Cardinality(SimFeeds)
  /\ MaxTicks \in Nat
  /\ \A s \in SimScenarios : s.events \in Nat

VARIABLES
  scenario,   \* what is done in this behaviour
  tick,       \* current_time, in ticks
  turns,      \* agents whose turn of this tick is over
  simLogs,    \* simLogs[a]: the log of a
  followed,   \* followed[a]: whom a remembers to follow
  joined,     \* joined[a]: the channels a remembers to be in
  requests,   \* requests[a]: the action requests agent a has not looked at
  members,    \* members[c]: the members of channel c, << >> if there is none
  feedDefs,   \* feedDefs[f]: version 0 if there is none
  feedClaims  \* history: what reductions answered

relaySimVars == <<scenario, tick, turns, simLogs, followed, joined, requests, members,
                  feedDefs, feedClaims>>

Chans == SimOwners \X {1}
NoDef == [version |-> 0, sources |-> {}, order |-> "chronological"]
EventsIn(log) == {log[n] : n \in DOMAIN log}
Logged == UNION {EventsIn(simLogs[a]) : a \in SimActors}
Head1(a) == IF simLogs[a] = << >> THEN 0 ELSE Last(simLogs[a]).id

RelaySimTypeOK ==
  /\ scenario \in SimScenarios
  /\ tick \in 0 .. MaxTicks
  /\ turns \subseteq SimAgents
  /\ \A a \in SimActors : \A e \in EventsIn(simLogs[a]) :
       e.by = a /\ e.id \in 1 .. scenario.events
  /\ followed \in [SimActors -> SUBSET SimActors]
  /\ joined \in [SimActors -> SUBSET Chans]
  /\ requests \in [SimAgents -> Seq(1 .. scenario.events)]
  /\ members \in [Chans -> SUBSET SimActors]
  /\ \A f \in SimFeeds : feedDefs[f].version \in Nat

RelaySimInit ==
  /\ scenario \in SimScenarios
  /\ tick = 0
  /\ turns = {}
  /\ simLogs = [a \in SimActors |-> << >>]
  /\ followed = [a \in SimActors |-> {}]
  /\ joined = [a \in SimActors |-> {}]
  /\ requests = [a \in SimAgents |-> << >>]
  /\ members = [c \in Chans |-> {}]
  /\ feedDefs = [f \in SimFeeds |-> NoDef]
  /\ feedClaims = {}

-----------------------------------------------------------------------------
\* An event a appends now, at t after the tick's time.
SimEvent(a, type, data, n, t) ==
  [id |-> Cardinality(Logged) + n, by |-> a, type |-> type, data |-> data,
   ts |-> 10 * tick + t]

\* append_log: the actors give the head as prev, so it is not refused.
AppendAll(a, events) ==
  /\ Cardinality(Logged) + Len(events) <= scenario.events
  /\ simLogs' = [simLogs EXCEPT ![a] = @ \o events]

\* The turn of an agent ends with the request it processes, which follows the
\* posts, follows and reactions of its turn.
Turn(a, act) == /\ act \in scenario.acts  \* _should_act
                /\ a \notin turns
                /\ UNCHANGED <<scenario, tick, feedClaims>>

\* _do_post and _do_reaction: nothing but an event
DoPost(a) ==
  /\ Turn(a, "post")
  /\ AppendAll(a, <<SimEvent(a, "post", << >>, 1, 0)>>)
  /\ UNCHANGED <<turns, followed, joined, requests, members, feedDefs>>

DoFollow(a, b) ==
  /\ Turn(a, "follow")
  /\ b # a /\ b \notin followed[a]
  /\ AppendAll(a, <<SimEvent(a, "follow.add", <<b>>, 1, 0)>>)
  /\ followed' = [followed EXCEPT ![a] = @ \cup {b}]
  /\ UNCHANGED <<turns, joined, requests, members, feedDefs>>

DoActionRequest(u, a, action) ==
  /\ Turn(u, "request")
  /\ u \in SimUsers
  /\ AppendAll(u, <<SimEvent(u, "action.request", <<action>>, 1, 0)>>)
  /\ requests' = [requests EXCEPT ![a] = Append(@, Cardinality(Logged) + 1)]
  /\ UNCHANGED <<turns, followed, joined, members, feedDefs>>

\* compute_commitment_hash
Commitment(request, action, params) == <<request, action, params>>

EventOf(id) == CHOOSE e \in Logged : e.id = id

\* _process_action_requests: the commit, what it made, and the result
ProcessActionRequest(a, params) ==
  LET id   == Head(requests[a])
      hash == Commitment(id, EventOf(id).data[1], params)
  IN  /\ Turn(a, "request")
      /\ requests[a] # << >>
      /\ AppendAll(a, <<SimEvent(a, "action.commit", <<id, hash, params>>, 1, 0),
                        SimEvent(a, "post", << >>, 2, 1),
                        SimEvent(a, "action.result", hash, 3, 2)>>)
      /\ requests' = [requests EXCEPT ![a] = Tail(@)]
      /\ turns' = turns \cup {a}
      /\ UNCHANGED <<followed, joined, members, feedDefs>>

\* Mistake: whatever comes last is kept.
PutFeedAny(f, def) ==
  /\ def.version > 0 /\ def # feedDefs[f]
  /\ feedDefs' = [feedDefs EXCEPT ![f] = def]
  /\ UNCHANGED <<scenario, tick, turns, simLogs, followed, joined, requests, members,
                 feedClaims>>

\* put_feed_definition: the version must increase.
PutFeed(f, def) ==
  /\ def.version > feedDefs[f].version
  /\ feedDefs' = [feedDefs EXCEPT ![f] = def]
  /\ UNCHANGED <<scenario, tick, turns, simLogs, followed, joined, requests, members,
                 feedClaims>>

\* What a curator puts, and later versions of it: logs of actors or, as the
\* store allows, another feed (feeds that name each other are not reduced).
FeedDefs(f) ==
  [version : {1, 2},
   sources : IF f = 1 THEN {SimUsers, SimUsers \cup SimAgents} ELSE {{f - 1}},
   order   : {"chronological", "reverse"}]

DoCreateFeed(f) ==
  "feed" \in scenario.acts /\ \E def \in FeedDefs(f) : PutFeed(f, def)

DoCreateChannel(a, c) ==
  /\ Turn(a, "channel")
  /\ a \in SimOwners /\ c[1] = a /\ members[c] = {}
  /\ members' = [members EXCEPT ![c] = {a}]
  /\ joined' = [joined EXCEPT ![a] = @ \cup {c}]
  /\ AppendAll(a, <<SimEvent(a, "membership.add", c, 1, 0)>>)
  /\ UNCHANGED <<turns, followed, requests, feedDefs>>

\* add_member tells whether it added, and only then the actor goes on.
DoJoinChannel(a, c) ==
  /\ Turn(a, "channel")
  /\ a \in SimUsers \cup SimOwners /\ members[c] # {} /\ c \notin joined[a]
  /\ a \notin members[c]
  /\ members' = [members EXCEPT ![c] = @ \cup {a}]
  /\ joined' = [joined EXCEPT ![a] = @ \cup {c}]
  /\ AppendAll(a, <<SimEvent(a, "membership.add", c, 1, 0)>>)
  /\ UNCHANGED <<turns, followed, requests, feedDefs>>

NextTick ==
  /\ tick < MaxTicks
  /\ tick' = tick + 1
  /\ turns' = {}
  /\ UNCHANGED <<scenario, simLogs, followed, joined, requests, members, feedDefs,
                 feedClaims>>

-----------------------------------------------------------------------------
Earlier(d, e) == d.ts < e.ts \/ (d.ts = e.ts /\ d.id < e.id)
Later(d, e)   == Earlier(e, d)

FirstOf(n, s) == SubSeq(s, 1, IF n < Len(s) THEN n ELSE Len(s))

\* FeedReducer.reduce: the ids of what its sources hold, sorted and cut
Answer(order, events) ==
  LET sorted == IF order = "reverse" THEN SetToSortSeq(events, Later)
                                     ELSE SetToSortSeq(events, Earlier)
      cut == FirstOf(FeedLimit, sorted)
  IN  [n \in DOMAIN cut |-> cut[n].id]

\* What a source holds: a log, or a feed, given what feeds reduce to
Held(reduced, s) ==
  IF s \in SimActors THEN EventsIn(FirstOf(LogLimit, simLogs[s]))
                     ELSE {EventOf(id) : id \in EventsIn(reduced[s])}

Reduction(reduced, f) ==
  Answer(feedDefs[f].order, UNION {Held(reduced, s) : s \in feedDefs[f].sources})

Reduced[f \in SimFeeds] == Reduction(Reduced, f)

\* The boundary names the heads of the logs among its own sources.
SourceHeads(f) == [a \in feedDefs[f].sources \cap SimActors |-> Head1(a)]

TestFeedReduction(f) ==
  /\ feedDefs[f].version > 0
  /\ feedClaims = {}  \* bound: one reduction in a behaviour
  /\ feedClaims' =
       {[feed |-> f, version |-> feedDefs[f].version, heads |-> SourceHeads(f),
         ids |-> Reduced[f]]}
  /\ UNCHANGED <<scenario, tick, turns, simLogs, followed, joined, requests, members,
                 feedDefs>>

RelaySimNext ==
  \/ \E a \in SimActors :
       \/ DoPost(a)
       \/ \E b \in SimActors : DoFollow(a, b)
       \/ \E c \in Chans : DoCreateChannel(a, c) \/ DoJoinChannel(a, c)
  \/ \E a \in SimAgents :
       \/ \E u \in SimUsers, x \in SimActions : DoActionRequest(u, a, x)
       \/ \E params \in {50, 100} : ProcessActionRequest(a, params)
  \/ \E f \in SimFeeds : DoCreateFeed(f) \/ TestFeedReduction(f)
  \/ NextTick

-----------------------------------------------------------------------------
\* recompute_and_verify: a feed over logs that has not been defined anew, and
\* whose boundary still names the heads, computes to what was claimed, so the
\* boundary is all a verifier has to hold still.
FeedsRecompute ==
  \A c \in feedClaims :
    (/\ feedDefs[c.feed].version = c.version
     /\ feedDefs[c.feed].sources \subseteq SimActors
     /\ SourceHeads(c.feed) = c.heads)
    => Reduced[c.feed] = c.ids

\* verify_action_chain
ActionValid(result) ==
  \E commit \in Logged :
    /\ commit.type = "action.commit" /\ commit.data[2] = result.data
    /\ \E request \in Logged :
         /\ request.id = commit.data[1]
         /\ request.type = "action.request"
         /\ result.data = Commitment(request.id, request.data[1], commit.data[3])

\* Every result an agent logs verifies, and its chain is in the order of its
\* timestamps although it is stamped ahead of the tick.
ActionsVerify ==
  /\ \A e \in Logged : e.type = "action.result" => ActionValid(e)
  /\ \A a \in SimActors : \A m, n \in DOMAIN simLogs[a] :
       m < n => simLogs[a][m].ts <= simLogs[a][n].ts

\* What an actor remembers is what its log and the store say of it.
ActorsRemember ==
  \A a \in SimActors :
    /\ followed[a] = {e.data[1] : e \in {d \in EventsIn(simLogs[a]) :
                                        d.type = "follow.add"}}
    /\ joined[a] = {c \in Chans : a \in members[c]}
    /\ joined[a] = {e.data : e \in {d \in EventsIn(simLogs[a]) :
                                      d.type = "membership.add"}}
=============================================================================
