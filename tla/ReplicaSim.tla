------------------------------ MODULE ReplicaSim ------------------------------
(***************************************************************************)
(* The Holon v3 simulator (simulators/legacy/holon_v3): agents write       *)
(* objects to the store of a primary relay; in every tick the primary is   *)
(* copied to the other relays and clients copy from the relays they are    *)
(* connected to, while relays go down and packets are lost; views are      *)
(* executed at a store.                                                    *)
(*                                                                         *)
(* The agents hold the store of the primary in their hands: neither its    *)
(* being down nor a loss is in their way.  Objects are numbered in the     *)
(* order of creation and the copies are the same Python objects, so that a *)
(* store is the set of the numbers it has and the count of its writes.     *)
(***************************************************************************)
EXTENDS Naturals, Sequences, SequencesExt, FiniteSets

CONSTANTS
  RepUsers, RepGroups,
  Primary, Replicas,  \* the relays; the first added is the primary
  RepClients,
  ConnectedTo,        \* ConnectedTo[c]: the relays of client c
  SetupViews,         \* how many views were put at the start
  RepScenarios,       \* which acts have a rate above zero, and the bound of the
                      \* objects they make, one for each behaviour
  MaxRepTicks         \* bound: ticks

RepRelays == {Primary} \cup Replicas

\* The primary is one of its kind, and clients are no relays.
ASSUME ReplicaAssumption ==
  /\ IsFiniteSet(RepUsers)
  /\ Primary \notin Replicas
  /\ RepClients \cap RepRelays = {}
  /\ SetupViews \in Nat /\ MaxRepTicks \in Nat \ {0}
  /\ \A s \in RepScenarios : s.objects \in Nat

VARIABLES
  repDoing,   \* what is done in this behaviour
  repTick,    \* current_time, in ticks
  turn,       \* "agents", "network" or "views"
  objs,       \* objs[n]: the object made as the n-th
  follow3,    \* follow3[u]: whom agent u remembers to follow
  joined3,    \* joined3[u]: the groups it remembers to be in
  keyVersion, \* key_versions
  held,       \* held[s]: what store s has, of a relay or a client
  seq,        \* seq[r]: next_seq of relay r
  up,         \* relays that are online
  cursor      \* sync_cursors of a client, 0 if there is none

repVars == <<repDoing, repTick, turn, objs, follow3, joined3, keyVersion, held, seq, up,
             cursor>>

Setup == SetToSeq({[kind |-> "entity", by |-> u, to |-> 0, dead |-> FALSE, at |-> 0] :
                   u \in RepUsers})

RepTypeOK ==
  /\ repDoing \in RepScenarios
  /\ repTick \in 1 .. MaxRepTicks
  /\ turn \in {"agents", "network", "views"}
  /\ \A n \in DOMAIN objs : objs[n].by \in RepUsers /\ objs[n].at <= repTick
  /\ follow3 \in [RepUsers -> SUBSET (RepUsers \cup RepGroups)]
  /\ joined3 \in [RepUsers -> SUBSET RepGroups]
  /\ keyVersion \in [RepUsers -> Nat \ {0}]
  /\ held \in [RepRelays \cup RepClients -> SUBSET (DOMAIN objs)]
  /\ seq \in [RepRelays -> Nat]
  /\ up \subseteq RepRelays
  /\ cursor \in [RepClients -> [RepRelays -> Nat]]

RepInit ==
  /\ repDoing \in RepScenarios
  /\ repTick = 1
  /\ turn = "agents"
  /\ objs = Setup
  /\ follow3 = [u \in RepUsers |-> {}]
  /\ joined3 = [u \in RepUsers |-> {}]
  /\ keyVersion = [u \in RepUsers |-> 1]
  /\ held = [s \in RepRelays \cup RepClients |-> IF s = Primary THEN DOMAIN Setup ELSE {}]
  /\ seq = [r \in RepRelays |-> IF r = Primary THEN Len(Setup) + SetupViews ELSE 0]
  /\ up = RepRelays
  /\ cursor = [c \in RepClients |-> [r \in RepRelays |-> 0]]

-----------------------------------------------------------------------------
\* create_content and create_link at the primary
Make(made) ==
  /\ Len(objs) + Len(made) <= Len(Setup) + repDoing.objects
  /\ objs' = objs \o made
  /\ held' = [held EXCEPT ![Primary] = @ \cup (Len(objs) + 1 .. Len(objs) + Len(made))]
  /\ seq' = [seq EXCEPT ![Primary] = @ + Len(made)]

Link3(u, kind, to, dead) ==
  [kind |-> kind, by |-> u, to |-> to, dead |-> dead, at |-> repTick]

Acting(what) == /\ what \in repDoing.acts
                /\ turn = "agents"
                /\ UNCHANGED <<repDoing, repTick, turn, up, cursor>>

\* _do_post: in one of its groups, if any; context is what it is about
RepPost(u, g) ==
  /\ Acting("post")
  /\ g \in IF joined3[u] = {} THEN {"none"} ELSE joined3[u]
  /\ Make(<<Link3(u, "post", g, FALSE)>>)
  /\ UNCHANGED <<follow3, joined3, keyVersion>>

\* _do_react and _do_label
RepReact(u, n) ==
  /\ Acting("react")
  /\ objs[n].kind = "post"
  /\ Make(<<Link3(u, "react", n, FALSE)>>)
  /\ UNCHANGED <<follow3, joined3, keyVersion>>

\* _do_follow: it may first stop to follow another, by a link of its own that
\* is dead, which leaves the link that made it follow as it was.
RepFollow(u, t, left) ==
  /\ Acting("follow")
  /\ t # u /\ t \notin follow3[u] /\ left \subseteq follow3[u]
  /\ Make([n \in 1 .. Cardinality(left) |->
             Link3(u, "follow", CHOOSE x \in left : TRUE, TRUE)]
          \o <<Link3(u, "follow", t, FALSE)>>)
  /\ follow3' = [follow3 EXCEPT ![u] = (@ \ left) \cup {t}]
  /\ UNCHANGED <<joined3, keyVersion>>

\* _do_join_group, and the joining of _simulate_member_churn
RepJoin(u, g) ==
  /\ Acting("join")
  /\ g \notin joined3[u]
  /\ Make(<<Link3(u, "member", g, FALSE)>>)
  /\ joined3' = [joined3 EXCEPT ![u] = @ \cup {g}]
  /\ UNCHANGED <<follow3, keyVersion>>

RepLeave(u, g) ==
  /\ Acting("join")
  /\ g \in joined3[u]
  /\ Make(<<Link3(u, "member", g, TRUE)>>)
  /\ joined3' = [joined3 EXCEPT ![u] = @ \ {g}]
  /\ UNCHANGED <<follow3, keyVersion>>

\* _perform_key_rotations, of one user
RotateKey(u) ==
  /\ Acting("rotate")
  /\ Make(<<Link3(u, "rotation", keyVersion[u] + 1, FALSE)>>)
  /\ keyVersion' = [keyVersion EXCEPT ![u] = @ + 1]
  /\ UNCHANGED <<follow3, joined3>>

-----------------------------------------------------------------------------
\* Mistake: only what is past the cursor, as if it counted objects.
MissingAtPast(s, r, past) == {n \in held[r] : n > past} \ held[s]

\* What store s lacks of relay r: the cursor is not asked.
MissingAt(s, r, past) == held[r] \ held[s]

\* simulate_tick up to the relays: some go down or come up, and those online
\* that lose no packet copy the primary, which may itself be down.
ReplicateToRelays(online, copying) ==
  /\ turn = "agents"
  /\ copying \subseteq Replicas \cap online
  /\ up' = online
  /\ held' = [s \in DOMAIN held |-> IF s \in copying
                THEN held[s] \cup MissingAt(s, Primary, 0) ELSE held[s]]
  /\ seq' = [r \in RepRelays |-> IF r \in copying
               THEN seq[r] + Cardinality(MissingAt(r, Primary, 0)) ELSE seq[r]]
  /\ turn' = "network"
  /\ UNCHANGED <<repDoing, repTick, objs, follow3, joined3, keyVersion, cursor>>

\* sync_client of all that are due, from the relays that answer each
SyncClients(answering) ==
  /\ turn = "network"
  /\ held' = [s \in DOMAIN held |-> IF s \in RepClients
                THEN held[s] \cup UNION {MissingAt(s, r, cursor[s][r]) : r \in answering[s]}
                ELSE held[s]]
  /\ cursor' = [c \in RepClients |-> [r \in RepRelays |->
                  IF r \in answering[c] THEN seq[r] ELSE cursor[c][r]]]
  /\ turn' = "views"
  /\ UNCHANGED <<repDoing, repTick, objs, follow3, joined3, keyVersion, seq, up>>

RepAdvance ==
  /\ turn = "views"
  /\ repTick < MaxRepTicks
  /\ repTick' = repTick + 1
  /\ turn' = "agents"
  /\ UNCHANGED <<repDoing, objs, follow3, joined3, keyVersion, held, seq, up, cursor>>

RepNext ==
  \/ \E u \in RepUsers :
       \/ \E g \in RepGroups \cup {"none"} : RepPost(u, g)
       \/ \E n \in DOMAIN objs : RepReact(u, n)
       \/ \E t \in RepUsers \cup RepGroups :
            RepFollow(u, t, {}) \/ \E x \in follow3[u] : RepFollow(u, t, {x})
       \/ \E g \in RepGroups : RepJoin(u, g) \/ RepLeave(u, g)
       \/ RotateKey(u)
  \/ \E online \in SUBSET RepRelays, copying \in SUBSET Replicas :
       ReplicateToRelays(online, copying)
  \/ \E answering \in [RepClients -> SUBSET up] :
       /\ \A c \in RepClients : answering[c] \subseteq ConnectedTo[c]
       /\ SyncClients(answering)
  \/ RepAdvance

-----------------------------------------------------------------------------
\* The fresh posts of group g among the objects h of a store: most reactions first,
\* then newest, then by id, which leaves nothing to the order a store got them in.
ViewOf(h, g, at) ==
  LET posts == {n \in h : /\ objs[n].kind = "post" /\ objs[n].to = g
                          /\ objs[n].at + 1 > at}
      reacted(n) == Cardinality({m \in h : objs[m].kind = "react" /\ objs[m].to = n})
      first(m, n) == \/ reacted(m) > reacted(n)
                     \/ reacted(m) = reacted(n) /\ objs[m].at > objs[n].at
                     \/ reacted(m) = reacted(n) /\ objs[m].at = objs[n].at /\ m < n
  IN  SetToSortSeq(posts, first)

\* However packets are lost and relays go down: a copy has nothing the primary
\* has not, and never what a link is about without the link's target; a client
\* whose cursor is where a relay stands has all of that relay; and one that has
\* caught up with the primary sees the same in every view.
ReplicasFollow ==
  /\ \A s \in DOMAIN held :
       /\ held[s] \subseteq held[Primary]
       /\ \A n \in held[s] : objs[n].kind = "react" => objs[n].to \in held[s]
  /\ \A r \in Replicas : seq[r] = Cardinality(held[r])
  /\ \A c \in RepClients : \A r \in RepRelays :
       cursor[c][r] = seq[r] =>
         /\ held[r] \subseteq held[c]
         /\ r = Primary =>
              \A g \in RepGroups :
                ViewOf(held[c], g, repTick) = ViewOf(held[Primary], g, repTick)

\* Whom an agent means to follow, and the groups it means to be in, the store
\* has a live link for (and for some it has left), and the versions of its key
\* are without gaps.
AgentsAreOnRecord ==
  \A u \in RepUsers :
    LET live(kind) == {objs[n].to : n \in {m \in DOMAIN objs :
                         objs[m].kind = kind /\ objs[m].by = u /\ ~objs[m].dead}}
    IN  /\ follow3[u] \subseteq live("follow")
        /\ joined3[u] \subseteq live("member")
        /\ live("rotation") = 2 .. keyVersion[u]
=============================================================================
