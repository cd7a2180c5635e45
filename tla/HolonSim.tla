------------------------------- MODULE HolonSim -------------------------------
(***************************************************************************)
(* The Holon v4 simulator (simulators/legacy/holon_v4): agents post,       *)
(* react, follow with the help of suggestions, join groups, subscribe,     *)
(* define views and verify themselves, over one in-memory store; an engine *)
(* executes the views and recomputes what it answered.                     *)
(*                                                                         *)
(* What an agent does in a tick is drawn at random.  Ids are numbers in    *)
(* the order of creation, which is the order of every index.  Formulas     *)
(* that decay with age read the clock of the machine, so that nothing can  *)
(* be said of them; they are left out, as are scores nobody stores.        *)
(***************************************************************************)
EXTENDS Naturals, Sequences, SequencesExt, FiniteSets

CONSTANTS
  HolonUsers, HolonGroups,
  ParentOf,       \* ParentOf[g]: the parent of group g, g itself if none
  CreatedAs,      \* CreatedAs[g]: how many groups were created before g
  HolonScenarios, \* which acts of whom have a rate above zero, and the bounds
                  \* of the contents and the links, one for each behaviour
  Platforms,      \* what an agent verifies itself with (four of them)
  MaxDepth,       \* max_depth of get_descendants (5)
  HolonLimit,     \* limit of a view (50)
  MaxHolonTicks   \* bound: ticks

HolonEntities == HolonUsers \cup HolonGroups

\* A group is created under one that exists; where there is no group, there is none.
ASSUME HolonAssumption ==
  /\ IsFiniteSet(HolonGroups) /\ "none" \notin HolonGroups
  /\ ParentOf \in [HolonGroups -> HolonGroups]
  /\ CreatedAs \in [HolonGroups -> 0 .. Cardinality(HolonGroups) - 1]
  /\ \A g, h \in HolonGroups : CreatedAs[g] = CreatedAs[h] => g = h
  /\ \A g \in HolonGroups : ParentOf[g] # g => CreatedAs[ParentOf[g]] < CreatedAs[g]
  /\ \A s \in HolonScenarios : s.users \subseteq HolonUsers
  /\ MaxDepth \in Nat /\ HolonLimit \in Nat /\ MaxHolonTicks \in Nat \ {0}

VARIABLES
  holonDoing,  \* what is done in this behaviour
  holonTick,   \* current_time, in ticks
  through,     \* are the agents through with the tick?
  raised,      \* has the run ended with an exception?
  contents,    \* contents[n]: the content created as the n-th
  links,       \* links[n]: the link created as the n-th
  memo,        \* memo[u][what]: the list an agent keeps
  holonViews,  \* views, by id
  holonClaims  \* history: what executions answered

holonVars == <<holonDoing, holonTick, through, raised, contents, links, memo, holonViews,
               holonClaims>>

Lists == {"following", "joined", "creators", "views", "verified"}
NoGroup == "none"

\* The views set up at the start; an agent's has the id <<agent, number>>.
SystemViews ==
  [latest |-> [source |-> "all", recent |-> FALSE, rank |-> "created"],
   trending |-> [source |-> "all", recent |-> TRUE, rank |-> "score"]]
GroupViews ==
  [g \in HolonGroups |-> [source |-> "tree", of |-> g, recent |-> TRUE, rank |-> "score"]]

HolonTypeOK ==
  /\ holonDoing \in HolonScenarios
  /\ holonTick \in 1 .. MaxHolonTicks
  /\ through \in BOOLEAN /\ raised \in BOOLEAN
  /\ \A n \in DOMAIN contents :
       contents[n].by \in HolonUsers /\ contents[n].at \in 1 .. holonTick
  /\ \A n \in DOMAIN links : links[n].from \in HolonUsers
  /\ memo \in [HolonUsers -> [Lists -> Seq(HolonEntities \cup Platforms
                                             \cup (HolonUsers \X Nat))]]
  /\ DOMAIN holonViews \subseteq HolonUsers \X Nat

HolonInit ==
  /\ holonDoing \in HolonScenarios
  /\ holonTick = 1
  /\ through = FALSE /\ raised = FALSE
  /\ contents = << >>
  /\ links = << >>
  /\ memo = [u \in HolonUsers |-> [w \in Lists |-> << >>]]
  /\ holonViews = << >>
  /\ holonClaims = {}

-----------------------------------------------------------------------------
\* get_links_by_source: the live links of a kind
LinksFrom(u, kind) == {n \in DOMAIN links : links[n].kind = kind /\ links[n].from = u}

Following(u) == {links[n].to : n \in LinksFrom(u, "follow")}
Groups(u)    == {links[n].to : n \in LinksFrom(u, "member")}

\* Mistake: those followed already are suggested too.
FollowsOfFollowsAll(u) ==
  (UNION {Following(f) : f \in Following(u) \cap HolonUsers}) \ {u}

\* follows_of_follows
FollowsOfFollows(u) ==
  (UNION {Following(f) : f \in Following(u) \cap HolonUsers}) \ ({u} \cup Following(u))

\* suggested_contexts
SuggestedContexts(u) ==
  (UNION {Groups(f) : f \in Following(u) \cap HolonUsers}) \ Groups(u)

Does(what) == /\ what \in holonDoing.acts
              /\ ~through /\ ~raised
              /\ UNCHANGED <<holonDoing, holonTick, through, holonClaims>>

CreateLink(u, kind, to) ==
  /\ Len(links) < holonDoing.links
  /\ links' = Append(links, [kind |-> kind, from |-> u, to |-> to])

Remember(u, what, x) == memo' = [memo EXCEPT ![u][what] = Append(@, x)]

\* _do_post: in one of the agent's groups, if it has joined any
HolonPost(u, kind, ctx, reply) ==
  /\ Does("post")
  /\ Len(contents) < holonDoing.posts
  /\ ctx \in IF memo[u].joined = << >> THEN {NoGroup} ELSE ToSet(memo[u].joined)
  /\ reply \in 0 .. Len(contents)
  /\ contents' = Append(contents, [by |-> u, at |-> holonTick, kind |-> kind,
                                   ctx |-> ctx, reply |-> reply])
  /\ UNCHANGED <<raised, links, memo, holonViews>>

\* _do_react, _do_tip and _do_label: the last two count for no view.
HolonReact(u, n, kind) ==
  /\ Does("react")
  /\ CreateLink(u, kind, n)
  /\ UNCHANGED <<raised, contents, memo, holonViews>>

\* _do_follow and _do_search: a suggestion or, failing that, anyone not followed
HolonFollow(u, t) ==
  /\ Does("follow")
  /\ \/ t \in FollowsOfFollows(u)
     \/ t # u /\ t \notin ToSet(memo[u].following)
  /\ CreateLink(u, "follow", t)
  /\ Remember(u, "following", t)
  /\ UNCHANGED <<raised, contents, holonViews>>

HolonJoin(u, g) ==
  /\ Does("join")
  /\ HolonGroups \ ToSet(memo[u].joined) # {}
  /\ g \in SuggestedContexts(u) \/ g \notin ToSet(memo[u].joined)
  /\ CreateLink(u, "member", g)
  /\ Remember(u, "joined", g)
  /\ UNCHANGED <<raised, contents, holonViews>>

\* _do_subscribe, to a creator
HolonSubscribe(u, t) ==
  /\ Does("subscribe")
  /\ t # u /\ t \notin ToSet(memo[u].creators)
  /\ CreateLink(u, "creator", t)
  /\ Remember(u, "creators", t)
  /\ UNCHANGED <<raised, contents, holonViews>>

\* _do_create_view: over everything, or over one group without those below it;
\* an agent in no group asks for the group None, where there is nothing.
HolonCreateView(u) ==
  LET made == Cardinality({v \in DOMAIN holonViews : v[1] = u})
      of == IF memo[u].joined = << >> THEN {NoGroup} ELSE ToSet(memo[u].joined)
      defs == {[source |-> "all", recent |-> FALSE, rank |-> "score"]}
                \cup {[source |-> "group", of |-> g, recent |-> TRUE, rank |-> "score"] :
                      g \in of}
  IN  /\ Does("view")
      /\ made < 1  \* bound: one view an agent
      /\ \E def \in defs :
           holonViews' = [v \in DOMAIN holonViews \cup {<<u, made>>} |->
                            IF v = <<u, made>> THEN def ELSE holonViews[v]]
      /\ UNCHANGED <<raised, contents, links, memo>>

HolonSubscribeView(u, v) ==
  /\ Does("subscribe")
  /\ v \in DOMAIN holonViews /\ v \notin ToSet(memo[u].views)
  /\ CreateLink(u, "view", v)
  /\ Remember(u, "views", v)
  /\ UNCHANGED <<raised, contents, holonViews>>

\* _do_verify: one of the platforms not verified yet; when there is none the
\* choice raises, which ends the run.
HolonVerify(u, p) ==
  /\ Does("verify")
  /\ p \notin ToSet(memo[u].verified)
  /\ CreateLink(u, "verify", p)
  /\ Remember(u, "verified", p)
  /\ UNCHANGED <<raised, contents, holonViews>>

HolonVerifyRaises(u) ==
  /\ Does("verify")
  /\ Platforms \subseteq ToSet(memo[u].verified)
  /\ raised' = TRUE
  /\ UNCHANGED <<contents, links, memo, holonViews>>

\* The agents are through; views are executed before time goes on.
HolonThrough ==
  /\ ~through /\ ~raised
  /\ through' = TRUE
  /\ UNCHANGED <<holonDoing, holonTick, raised, contents, links, memo, holonViews,
                 holonClaims>>

HolonAdvance ==
  /\ through
  /\ holonTick < MaxHolonTicks
  /\ holonTick' = holonTick + 1
  /\ through' = FALSE
  /\ UNCHANGED <<holonDoing, raised, contents, links, memo, holonViews, holonClaims>>

-----------------------------------------------------------------------------
\* get_descendants, one generation after the other: where in its generation a group
\* is come to, first by its parent and then by its creation
Generations(top) ==
  LET gen[d \in 0 .. MaxDepth] ==
        IF d = 0 THEN [g \in {top} |-> 0]
        ELSE [g \in {h \in HolonGroups : ParentOf[h] # h /\ ParentOf[h] \in DOMAIN gen[d - 1]}
                |-> gen[d - 1][ParentOf[g]] * Cardinality(HolonGroups) + CreatedAs[g]]
  IN  gen

\* _get_source_content: where in a source the contents of a group are come to
Places(def, ctx) ==
  CASE def.source = "all" -> {<<0, 0>>}
    [] def.source = "group" -> IF ctx = def.of /\ ctx # NoGroup THEN {<<0, 0>>} ELSE {}
    [] def.source = "tree" ->
         LET gen == Generations(def.of)
         IN  {<<d, gen[d][ctx]>> : d \in {e \in 0 .. MaxDepth : ctx \in DOMAIN gen[e]}}

\* Mistake: as of now, and not of the boundary.
FreshNow(n, at) == contents[n].at + 1 > holonTick

\* created > boundary - 1 tick
Fresh(n, at) == contents[n].at + 1 > at

Score(n) ==
  2 * Cardinality({m \in DOMAIN links : links[m].kind = "react" /\ links[m].to = n})
    + Cardinality({m \in DOMAIN contents : contents[m].reply = n})

\* What is ranked of a view: posts, by a score or by time, as they are come to
Candidates(def, at) ==
  UNION {{[id |-> n, depth |-> p[1], place |-> p[2],
           key |-> IF def.rank = "score" THEN Score(n) ELSE contents[n].at] :
          p \in Places(def, contents[n].ctx)} :
         n \in {m \in DOMAIN contents :
                contents[m].kind = "post" /\ (def.recent => Fresh(m, at))}}

\* The sorts are stable: equals stay as they were come to.
Above(x, y) ==
  \/ x.key > y.key
  \/ x.key = y.key /\ x.depth < y.depth
  \/ x.key = y.key /\ x.depth = y.depth /\ x.place < y.place
  \/ x.key = y.key /\ x.depth = y.depth /\ x.place = y.place /\ x.id < y.id

\* The n-th has n - 1 above it.
Ranked(rows) ==
  [n \in 1 .. Cardinality(rows) |->
     CHOOSE x \in rows : Cardinality({y \in rows : Above(y, x)}) = n - 1]

\* The ids of the first of them
TopIds(rows) ==
  [n \in 1 .. (IF HolonLimit < Cardinality(rows) THEN HolonLimit ELSE Cardinality(rows)) |->
     Ranked(rows)[n].id]

\* ViewEngine.execute
ExecuteHolon(def, at) == TopIds(Candidates(def, at))

AllDefs == {SystemViews[v] : v \in DOMAIN SystemViews}
             \cup {GroupViews[g] : g \in HolonGroups}
             \cup {holonViews[v] : v \in DOMAIN holonViews}

ExecuteHolonView(def) ==
  /\ through
  /\ holonClaims = {}  \* bound: one execution in a behaviour
  /\ contents # << >>
  /\ holonClaims' = {[def |-> def, at |-> holonTick, ids |-> ExecuteHolon(def, holonTick),
                      contents |-> Len(contents), links |-> Len(links)]}
  /\ UNCHANGED <<holonDoing, holonTick, through, raised, contents, links, memo, holonViews>>

HolonNext ==
  \/ \E u \in holonDoing.users :
       \/ \E kind \in {"post", "article"}, g \in HolonGroups \cup {NoGroup},
             n \in 0 .. Len(contents) : HolonPost(u, kind, g, n)
       \/ \E n \in DOMAIN contents, kind \in {"react", "label"} : HolonReact(u, n, kind)
       \/ \E t \in HolonEntities : HolonFollow(u, t)
       \/ \E g \in HolonGroups : HolonJoin(u, g)
       \/ \E t \in HolonUsers : HolonSubscribe(u, t)
       \/ HolonCreateView(u)
       \/ \E v \in DOMAIN holonViews : HolonSubscribeView(u, v)
       \/ \E p \in Platforms : HolonVerify(u, p)
       \/ HolonVerifyRaises(u)
  \/ HolonThrough \/ HolonAdvance
  \/ \E def \in AllDefs : ExecuteHolonView(def)

-----------------------------------------------------------------------------
\* The ancestor of a group that is so many generations before it
Ancestor[d \in 0 .. MaxDepth] ==
  IF d = 0 THEN [g \in HolonGroups |-> g]
  ELSE [g \in HolonGroups |-> Ancestor[d - 1][ParentOf[g]]]

\* g is below top, by at most MaxDepth generations.
Under(g, top) == g \in HolonGroups /\ \E d \in 0 .. MaxDepth : Ancestor[d][g] = top

Concerns(def, n) ==
  CASE def.source = "all" -> TRUE
    [] def.source = "group" -> contents[n].ctx = def.of /\ def.of # NoGroup
    [] def.source = "tree" -> Under(contents[n].ctx, def.of)

\* What a view answered is about its groups, names nothing twice, and verifies
\* until something is posted there, or what it is about is reacted or replied
\* to: neither time nor what goes on elsewhere spoils it.
HolonViewsHold ==
  \A c \in holonClaims :
    /\ \A i, j \in DOMAIN c.ids : /\ Concerns(c.def, c.ids[i])
                                  /\ c.ids[i] = c.ids[j] => i = j
    /\ (/\ \A n \in c.contents + 1 .. Len(contents) :
             /\ ~Concerns(c.def, n)
             /\ contents[n].reply # 0 => ~Concerns(c.def, contents[n].reply)
        /\ \A n \in c.links + 1 .. Len(links) :
             links[n].kind = "react" => ~Concerns(c.def, links[n].to))
       => ExecuteHolon(c.def, c.at) = c.ids

\* A list has what the links of a kind are to, in the order the links were made.
Lines(list, u, kind) ==
  LET place(n) == Cardinality({m \in LinksFrom(u, kind) : m <= n})
  IN  /\ Len(list) = Cardinality(LinksFrom(u, kind))
      /\ \A n \in LinksFrom(u, kind) : list[place(n)] = links[n].to

\* What an agent keeps in its lists is what the store says of it, and it does
\* nothing twice, whichever way a target was suggested.
HolonsRemember ==
  \A u \in HolonUsers :
    /\ Lines(memo[u].following, u, "follow")
    /\ Lines(memo[u].joined, u, "member")
    /\ Lines(memo[u].creators, u, "creator")
    /\ Lines(memo[u].views, u, "view")
    /\ Lines(memo[u].verified, u, "verify")
    /\ \A w \in Lists : IsInjective(memo[u][w])
=============================================================================
