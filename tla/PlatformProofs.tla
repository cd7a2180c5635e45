----------------------------- MODULE PlatformProofs -----------------------------
(***************************************************************************)
(* Theorems about the simulators of the earlier protocols, for any agents, *)
(* scenarios and ticks: what feeds and views claim of their sources can be *)
(* recomputed, and what agents and replicas remember is on record.         *)
(*                                                                         *)
(* Each simulator has an inductive invariant of its own.  Feeds, views and *)
(* generations of groups are recursive functions: that such a function has *)
(* the values its definition gives it is proved by looking at the least    *)
(* number where it would fail to have one (LeastOf).                       *)
(*                                                                         *)
(* At the end these results, those of the services and those of the stores *)
(* are put together, for the platform, of which one part runs at a time.   *)
(***************************************************************************)
EXTENDS Platform, ServicesProofs, StoreProofs, NaturalsInduction, WellFoundedInduction, TLAPS

\* The least of some numbers
LEMMA LeastOf ==
  ASSUME NEW T \in SUBSET Nat, T # {}
  PROVE  \E m \in T : \A k \in T : m <= k
<1> DEFINE R == OpToRel(<, Nat)
<1>1. IsWellFoundedOn(R, Nat)
  BY NatLessThanWellFounded
<1>2. \A k, l \in Nat : k < l => <<k, l>> \in R
  BY DEF OpToRel
<1> HIDE DEF R
<1>3. PICK m \in T : \A k \in T : <<k, m>> \notin R
  BY <1>1, WFMin
<1>4. ASSUME NEW k \in T PROVE m <= k
  <2>1. k \in Nat /\ m \in Nat /\ ~(k < m)
    BY <1>2, <1>3
  <2>2. QED  BY <2>1
<1>5. QED
  BY <1>4

-----------------------------------------------------------------------------
(***************************************************************************)
(* The replicas of Holon v3. What a store holds it holds with what its     *)
(* reactions are about, and a cursor that stands level with its relay has  *)
(* copied all of it.                                                       *)
(***************************************************************************)
\* What an object is about: nothing, a user, a group, another object or a version.
RepTargets == {0, "none"} \cup RepUsers \cup RepGroups \cup Nat

\* What objects there are
RepKinds == {"entity", "post", "react", "follow", "member", "rotation"}

RepObjects == [kind : RepKinds,
               by : RepUsers, to : RepTargets, dead : BOOLEAN, at : Nat]

\* The types
RepTyped ==
  /\ repDoing \in RepScenarios
  /\ repTick \in 1 .. MaxRepTicks
  /\ turn \in {"agents", "network", "views"}
  /\ objs \in Seq(RepObjects)
  /\ follow3 \in [RepUsers -> SUBSET (RepUsers \cup RepGroups)]
  /\ joined3 \in [RepUsers -> SUBSET RepGroups]
  /\ keyVersion \in [RepUsers -> Nat \ {0}]
  /\ held \in [RepRelays \cup RepClients -> SUBSET (DOMAIN objs)]
  /\ seq \in [RepRelays -> Nat]
  /\ up \subseteq RepRelays
  /\ cursor \in [RepClients -> [RepRelays -> Nat]]

\* The primary has every object and a reaction is younger than what it is about.
RepWhole ==
  /\ held[Primary] = DOMAIN objs
  /\ \A n \in DOMAIN objs : /\ objs[n].at <= repTick
                            /\ objs[n].kind = "react" => objs[n].to \in DOMAIN objs

\* What a store has it has with the targets of its reactions.
RepClosed ==
  \A s \in RepRelays \cup RepClients : \A n \in held[s] :
    objs[n].kind = "react" => objs[n].to \in held[s]

\* A cursor never overtakes its relay; where it stands level, all was copied.
RepCounted ==
  /\ \A r \in Replicas : seq[r] = Cardinality(held[r])
  /\ \A c \in RepClients : \A r \in RepRelays :
       /\ cursor[c][r] <= seq[r]
       /\ cursor[c][r] = seq[r] => held[r] \subseteq held[c]

\* What an agent remembers is in what it has links for.
Live(u, kind) ==
  {objs[n].to : n \in {m \in DOMAIN objs :
     objs[m].kind = kind /\ objs[m].by = u /\ ~objs[m].dead}}

\* What an agent remembers is in the links it has, whatever they are about.
OnRecord ==
  \A u \in RepUsers : /\ follow3[u] \subseteq Live(u, "follow")
                      /\ joined3[u] \subseteq Live(u, "member")
                      /\ Live(u, "rotation") = 2 .. keyVersion[u]

\* The inductive invariant of the replicas
RepInv == RepTyped /\ RepWhole /\ RepClosed /\ RepCounted /\ OnRecord

\* The store starts with an entity of every user.
LEMMA SetupTyped ==
  /\ Setup \in Seq(RepObjects)
  /\ \A n \in DOMAIN Setup : Setup[n].kind = "entity" /\ Setup[n].at = 0
<1> DEFINE Entity(u) == [kind |-> "entity", by |-> u, to |-> 0, dead |-> FALSE, at |-> 0]
           E == {Entity(u) : u \in RepUsers}
           f == [u \in RepUsers |-> Entity(u)]
<1>1. f \in Surjection(RepUsers, E)
  BY DEF Surjection
<1>2. IsFiniteSet(E)
  <2> HIDE DEF E, f
  <2> QED  BY <1>1, FS_Surjection, ReplicaAssumption DEF ReplicaAssumption
<1>3. Cardinality(E) \in Nat
  <2> HIDE DEF E
  <2> QED  BY <1>2, FS_CardinalityType
<1>4. SetToSeq(E) \in [1 .. Cardinality(E) -> E]
  <2> HIDE DEF E
  <2>1. PICK g \in Bijection(1 .. Cardinality(E), E) : TRUE
    BY <1>2, FS_CardinalityType DEF ExistsBijection
  <2>2. g \in [1 .. Cardinality(E) -> E] /\ IsInjective(g)
    BY <2>1 DEF Bijection, Injection
  <2>3. QED
    BY <2>2 DEF SetToSeq
<1>5. \A x \in E : x \in RepObjects /\ x.kind = "entity" /\ x.at = 0
  <2>1. \A u \in RepUsers : Entity(u) \in RepObjects /\ Entity(u).kind = "entity"
                             /\ Entity(u).at = 0
    BY DEF RepObjects, RepKinds, RepTargets
  <2>2. QED  BY <2>1
<1>6. Setup = SetToSeq(E)
  BY DEF Setup
<1>7. QED
  <2> HIDE DEF E
  <2> QED  BY <1>3, <1>4, <1>5, <1>6

\* The invariant says it as the property does.
LEMMA OnRecordSays == AgentsAreOnRecord <=> OnRecord
  BY DEF AgentsAreOnRecord, OnRecord, Live

\* The set-up satisfies the invariant.
LEMMA RepInitHolds == RepInit => RepInv
<1> SUFFICES ASSUME RepInit PROVE RepInv
  OBVIOUS
<1> USE DEF RepInit
<1>1. Primary \notin Replicas /\ RepClients \cap RepRelays = {} /\ Primary \in RepRelays
      /\ Replicas \subseteq RepRelays /\ SetupViews \in Nat
  BY ReplicaAssumption DEF ReplicaAssumption, RepRelays
<1>2. Len(Setup) \in Nat /\ DOMAIN Setup = 1 .. Len(Setup) /\ 1 \in 1 .. MaxRepTicks
  BY SetupTyped, ReplicaAssumption, LenProperties DEF ReplicaAssumption
<1>3. RepTyped
  BY <1>1, <1>2, SetupTyped DEF RepTyped
<1>4. RepWhole
  BY <1>1, <1>2, SetupTyped DEF RepWhole
<1>5. RepClosed
  BY <1>1, <1>2, SetupTyped DEF RepClosed
<1>6. RepCounted
  <2>1. \A r \in Replicas : seq[r] = Cardinality(held[r])
    BY <1>1, FS_EmptySet
  <2>2. ASSUME NEW c \in RepClients, NEW r \in RepRelays
        PROVE  cursor[c][r] <= seq[r] /\ (cursor[c][r] = seq[r] => held[r] \subseteq held[c])
    <3>1. CASE r = Primary
      BY <3>1, <1>1, <1>2
    <3>2. CASE r # Primary
      BY <3>2, <1>1, <1>2
    <3>3. QED  BY <3>1, <3>2
  <2>3. QED  BY <2>1, <2>2 DEF RepCounted
<1>7. OnRecord
  <2>1. \A u \in RepUsers, k \in {"follow", "member", "rotation"} : Live(u, k) = {}
    BY SetupTyped DEF Live
  <2>2. QED  BY <2>1 DEF OnRecord
<1>8. QED
  BY <1>3, <1>4, <1>5, <1>6, <1>7 DEF RepInv

\* Objects made at the primary leave the stores, the counts and the cursors in order.
LEMMA MakeKeeps ==
  ASSUME RepInv, NEW made \in Seq(RepObjects), Len(made) > 0, Make(made),
         \A n \in 1 .. Len(made) : /\ made[n].at <= repTick
                                   /\ made[n].kind = "react" => made[n].to \in DOMAIN objs,
         repTick' = repTick, cursor' = cursor
  PROVE  /\ objs' \in Seq(RepObjects)
         /\ held' \in [RepRelays \cup RepClients -> SUBSET (DOMAIN objs')]
         /\ seq' \in [RepRelays -> Nat]
         /\ RepWhole' /\ RepClosed' /\ RepCounted'
<1> DEFINE N == Len(objs)  M == Len(made)
<1>1. Primary \notin Replicas /\ RepClients \cap RepRelays = {} /\ Primary \in RepRelays
      /\ Replicas \subseteq RepRelays
  BY ReplicaAssumption DEF ReplicaAssumption, RepRelays
<1>2. /\ objs \in Seq(RepObjects) /\ held \in [RepRelays \cup RepClients -> SUBSET (DOMAIN objs)]
      /\ seq \in [RepRelays -> Nat] /\ cursor \in [RepClients -> [RepRelays -> Nat]]
      /\ repTick \in Nat
  BY DEF RepInv, RepTyped
<1>3. N \in Nat /\ M \in Nat /\ DOMAIN objs = 1 .. N
  BY <1>2, LenProperties
<1>4. objs' = objs \o made
  BY DEF Make
<1>5. /\ objs' \in Seq(RepObjects) /\ Len(objs') = N + M /\ DOMAIN objs' = 1 .. N + M
      /\ \A n \in 1 .. N : objs'[n] = objs[n]
      /\ \A n \in N + 1 .. N + M : objs'[n] = made[n - N] /\ n - N \in 1 .. M
  BY <1>2, <1>3, <1>4, ConcatProperties, LenProperties
<1>6. /\ held'[Primary] = 1 .. N + M
      /\ \A s \in RepRelays \cup RepClients : s # Primary => held'[s] = held[s]
      /\ held' \in [RepRelays \cup RepClients -> SUBSET (DOMAIN objs')]
  <2>1. held[Primary] = 1 .. N
    BY <1>3 DEF RepInv, RepWhole
  <2>2. (1 .. N) \cup (N + 1 .. N + M) = 1 .. N + M
    BY <1>3
  <2>3. held' = [held EXCEPT ![Primary] = (1 .. N) \cup (N + 1 .. N + M)]
    BY <2>1 DEF Make
  <2>4. \A s \in RepRelays \cup RepClients : held[s] \subseteq 1 .. N + M
    BY <1>2, <1>3
  <2>5. QED  BY <2>2, <2>3, <2>4, <1>1, <1>2, <1>5
<1>7. /\ seq' \in [RepRelays -> Nat] /\ seq'[Primary] = seq[Primary] + M
      /\ \A r \in RepRelays : r # Primary => seq'[r] = seq[r]
  BY <1>1, <1>2, <1>3 DEF Make
<1>8. RepWhole'
  <2>1. ASSUME NEW n \in DOMAIN objs'
        PROVE  objs'[n].at <= repTick /\ (objs'[n].kind = "react" => objs'[n].to \in DOMAIN objs')
    <3>1. CASE n \in 1 .. N
      BY <3>1, <1>3, <1>5 DEF RepInv, RepWhole
    <3>2. CASE n \in N + 1 .. N + M
      BY <3>2, <1>3, <1>5
    <3>3. QED  BY <3>1, <3>2, <1>3, <1>5
  <2>2. QED  BY <2>1, <1>5, <1>6 DEF RepWhole
<1>9. RepClosed'
  <2>1. ASSUME NEW s \in RepRelays \cup RepClients, NEW n \in held'[s],
               objs'[n].kind = "react"
        PROVE  objs'[n].to \in held'[s]
    <3>1. CASE s = Primary
      BY <2>1, <3>1, <1>5, <1>6, <1>8 DEF RepWhole
    <3>2. CASE s # Primary
      <4>1. n \in held[s] /\ held'[s] = held[s] /\ n \in 1 .. N
        BY <3>2, <1>2, <1>3, <1>6
      <4>2. QED  BY <2>1, <4>1, <1>5 DEF RepInv, RepClosed
    <3>3. QED  BY <3>1, <3>2
  <2>2. QED  BY <2>1 DEF RepClosed
<1>10. RepCounted'
  <2>1. \A r \in Replicas : seq'[r] = Cardinality(held'[r])
    BY <1>1, <1>6, <1>7 DEF RepInv, RepCounted
  <2>2. ASSUME NEW c \in RepClients, NEW r \in RepRelays
        PROVE  /\ cursor'[c][r] <= seq'[r]
               /\ cursor'[c][r] = seq'[r] => held'[r] \subseteq held'[c]
    <3>1. cursor[c][r] <= seq[r] /\ (cursor[c][r] = seq[r] => held[r] \subseteq held[c])
          /\ cursor[c][r] \in Nat /\ seq[r] \in Nat
      BY <1>2 DEF RepInv, RepCounted
    <3>2. held'[c] = held[c]
      BY <1>1, <1>6
    <3>3. CASE r = Primary
      BY <3>1, <3>3, <1>3, <1>7
    <3>4. CASE r # Primary
      BY <3>1, <3>2, <3>4, <1>6, <1>7
    <3>5. QED  BY <3>3, <3>4
  <2>3. QED  BY <2>1, <2>2 DEF RepCounted
<1>11. QED
  BY <1>5, <1>6, <1>7, <1>8, <1>9, <1>10

\* A link that is made is one more on record.
LEMMA LiveGrows ==
  ASSUME objs \in Seq(RepObjects), NEW o \in RepObjects, objs' = objs \o <<o>>,
         NEW u \in RepUsers, NEW k \in RepKinds
  PROVE  Live(u, k)' =
           IF o.kind = k /\ o.by = u /\ ~o.dead THEN Live(u, k) \cup {o.to} ELSE Live(u, k)
<1> DEFINE N == Len(objs)
           Is(p) == p.kind = k /\ p.by = u /\ ~p.dead
<1>1. N \in Nat /\ DOMAIN objs = 1 .. N
  BY LenProperties
<1>2. /\ DOMAIN objs' = 1 .. N + 1
      /\ \A n \in 1 .. N : objs'[n] = objs[n]
      /\ objs'[N + 1] = o
  BY <1>1, ConcatProperties, LenProperties
<1>3. \A x : x \in Live(u, k) <=> \E n \in 1 .. N : Is(objs[n]) /\ x = objs[n].to
  BY <1>1 DEF Live
<1>4. \A x : x \in Live(u, k)' <=> \E n \in 1 .. N + 1 : Is(objs'[n]) /\ x = objs'[n].to
  BY <1>2 DEF Live
<1>5. \A x : x \in Live(u, k)' <=> x \in Live(u, k) \/ (Is(o) /\ x = o.to)
  <2> HIDE DEF Is, N
  <2> QED  BY <1>1, <1>2, <1>3, <1>4
<1>6. QED
  BY <1>5

\* Making one link
LEMMA MakeOne ==
  ASSUME RepInv, NEW o \in RepObjects, Make(<<o>>), o.at <= repTick,
         o.kind = "react" => o.to \in DOMAIN objs,
         repTick' = repTick, cursor' = cursor
  PROVE  /\ objs' \in Seq(RepObjects)
         /\ held' \in [RepRelays \cup RepClients -> SUBSET (DOMAIN objs')]
         /\ seq' \in [RepRelays -> Nat]
         /\ RepWhole' /\ RepClosed' /\ RepCounted'
         /\ \A u \in RepUsers, k \in RepKinds : Live(u, k)' =
              IF o.kind = k /\ o.by = u /\ ~o.dead THEN Live(u, k) \cup {o.to} ELSE Live(u, k)
<1> DEFINE made == <<o>>
<1>1. made \in Seq(RepObjects) /\ Len(made) = 1 /\ made[1] = o /\ Len(made) > 0
  OBVIOUS
<1>2. objs \in Seq(RepObjects) /\ objs' = objs \o <<o>>
  BY DEF RepInv, RepTyped, Make
<1>3. ASSUME NEW u \in RepUsers, NEW k \in RepKinds
      PROVE  Live(u, k)' =
               IF o.kind = k /\ o.by = u /\ ~o.dead THEN Live(u, k) \cup {o.to} ELSE Live(u, k)
  BY <1>2, LiveGrows
<1>4. Make(made)
  OBVIOUS
<1> HIDE DEF made
<1>5. \A n \in 1 .. Len(made) : /\ made[n].at <= repTick
                                /\ made[n].kind = "react" => made[n].to \in DOMAIN objs
  BY <1>1
<1>6. /\ objs' \in Seq(RepObjects)
      /\ held' \in [RepRelays \cup RepClients -> SUBSET (DOMAIN objs')]
      /\ seq' \in [RepRelays -> Nat]
      /\ RepWhole' /\ RepClosed' /\ RepCounted'
  BY <1>1, <1>4, <1>5, MakeKeeps
<1>7. QED
  BY <1>3, <1>6

\* Links are objects of the store.
LEMMA LinksAreObjects ==
  ASSUME RepInv, NEW u \in RepUsers, NEW t \in RepTargets, NEW d \in BOOLEAN,
         NEW k \in RepKinds
  PROVE  /\ Link3(u, k, t, d) \in RepObjects
         /\ Link3(u, k, t, d).kind = k /\ Link3(u, k, t, d).by = u
         /\ Link3(u, k, t, d).to = t /\ Link3(u, k, t, d).dead = d
         /\ Link3(u, k, t, d).at <= repTick
<1>1. repTick \in Nat
  BY DEF RepInv, RepTyped
<1>2. QED
  BY <1>1 DEF Link3, RepObjects

\* So are posts, in a group or in none.
LEMMA PostsAreObjects ==
  ASSUME RepInv, NEW u \in RepUsers, NEW g \in RepGroups \cup {"none"}
  PROVE  /\ Link3(u, "post", g, FALSE) \in RepObjects
         /\ Link3(u, "post", g, FALSE).kind = "post"
         /\ Link3(u, "post", g, FALSE).at <= repTick
<1>1. repTick \in Nat
  BY DEF RepInv, RepTyped
<1>2. g \in RepTargets
  BY DEF RepTargets
<1>3. "post" \in RepKinds
  BY DEF RepKinds
<1>4. QED
  BY <1>1, <1>2, <1>3 DEF Link3, RepObjects

\* The agents' steps but the following
LEMMA RepActs ==
  ASSUME RepInv, NEW u \in RepUsers,
         \/ \E g \in RepGroups \cup {"none"} : RepPost(u, g)
         \/ \E n \in DOMAIN objs : RepReact(u, n)
         \/ \E g \in RepGroups : RepJoin(u, g) \/ RepLeave(u, g)
         \/ RotateKey(u)
  PROVE  RepInv'
<1>1. RepTyped /\ OnRecord
  BY DEF RepInv
<1>2. objs \in Seq(RepObjects) /\ DOMAIN objs \subseteq Nat
  BY <1>1, LenProperties DEF RepTyped
<1>3. CASE \E g \in RepGroups \cup {"none"} : RepPost(u, g)
  <2>1. PICK g \in RepGroups \cup {"none"} : RepPost(u, g)
    BY <1>3
  <2> DEFINE o == Link3(u, "post", g, FALSE)
  <2>2. o \in RepObjects /\ o.kind = "post" /\ o.at <= repTick
    BY PostsAreObjects
  <2>3. Make(<<o>>)
    BY <2>1 DEF RepPost
  <2>4. UNCHANGED <<repDoing, repTick, turn, up, cursor, follow3, joined3, keyVersion>>
    BY <2>1 DEF RepPost, Acting
  <2> HIDE DEF o
  <2>5. /\ objs' \in Seq(RepObjects)
        /\ held' \in [RepRelays \cup RepClients -> SUBSET (DOMAIN objs')]
        /\ seq' \in [RepRelays -> Nat]
        /\ RepWhole' /\ RepClosed' /\ RepCounted'
        /\ \A w \in RepUsers, k \in RepKinds : Live(w, k)' =
             IF o.kind = k /\ o.by = w /\ ~o.dead THEN Live(w, k) \cup {o.to} ELSE Live(w, k)
    BY <2>2, <2>3, <2>4, MakeOne
  <2>6. OnRecord'
    <3>1. {"follow", "member", "rotation"} \subseteq RepKinds
      BY DEF RepKinds
    <3>2. \A w \in RepUsers, k \in {"follow", "member", "rotation"} : Live(w, k)' = Live(w, k)
      BY <2>2, <2>5, <3>1
    <3>3. QED  BY <1>1, <2>4, <3>2 DEF OnRecord
  <2>7. QED  BY <1>1, <2>4, <2>5, <2>6 DEF RepInv, RepTyped
<1>4. CASE \E n \in DOMAIN objs : RepReact(u, n)
  <2>1. PICK n \in DOMAIN objs : RepReact(u, n)
    BY <1>4
  <2> DEFINE o == Link3(u, "react", n, FALSE)
  <2>2. o \in RepObjects /\ o.kind = "react" /\ o.to = n /\ o.at <= repTick
    <3>1. n \in RepTargets /\ FALSE \in BOOLEAN /\ "react" \in RepKinds
      BY <1>2 DEF RepTargets, RepKinds
    <3>2. repTick \in Nat
      BY <1>1 DEF RepTyped
    <3>3. QED  BY <3>1, <3>2 DEF Link3, RepObjects
  <2>3. Make(<<o>>)
    BY <2>1 DEF RepReact
  <2>4. UNCHANGED <<repDoing, repTick, turn, up, cursor, follow3, joined3, keyVersion>>
    BY <2>1 DEF RepReact, Acting
  <2> HIDE DEF o
  <2>5. /\ objs' \in Seq(RepObjects)
        /\ held' \in [RepRelays \cup RepClients -> SUBSET (DOMAIN objs')]
        /\ seq' \in [RepRelays -> Nat]
        /\ RepWhole' /\ RepClosed' /\ RepCounted'
        /\ \A w \in RepUsers, k \in RepKinds : Live(w, k)' =
             IF o.kind = k /\ o.by = w /\ ~o.dead THEN Live(w, k) \cup {o.to} ELSE Live(w, k)
    BY <2>2, <2>3, <2>4, MakeOne
  <2>6. OnRecord'
    <3>1. {"follow", "member", "rotation"} \subseteq RepKinds
      BY DEF RepKinds
    <3>2. \A w \in RepUsers, k \in {"follow", "member", "rotation"} : Live(w, k)' = Live(w, k)
      BY <2>2, <2>5, <3>1
    <3>3. QED  BY <1>1, <2>4, <3>2 DEF OnRecord
  <2>7. QED  BY <1>1, <2>4, <2>5, <2>6 DEF RepInv, RepTyped
<1>5. CASE \E g \in RepGroups : RepJoin(u, g) \/ RepLeave(u, g)
  <2>1. PICK g \in RepGroups : RepJoin(u, g) \/ RepLeave(u, g)
    BY <1>5
  <2>2. PICK d \in BOOLEAN :
          /\ Make(<<Link3(u, "member", g, d)>>)
          /\ joined3' = [joined3 EXCEPT ![u] = IF d THEN @ \ {g} ELSE @ \cup {g}]
          /\ UNCHANGED <<repDoing, repTick, turn, up, cursor, follow3, keyVersion>>
    <3>1. CASE RepJoin(u, g)
      <4>1. /\ Make(<<Link3(u, "member", g, FALSE)>>)
            /\ joined3' = [joined3 EXCEPT ![u] = IF FALSE THEN @ \ {g} ELSE @ \cup {g}]
            /\ UNCHANGED <<repDoing, repTick, turn, up, cursor, follow3, keyVersion>>
        BY <3>1 DEF RepJoin, Acting
      <4>2. QED  BY <4>1
    <3>2. CASE RepLeave(u, g)
      <4>1. /\ Make(<<Link3(u, "member", g, TRUE)>>)
            /\ joined3' = [joined3 EXCEPT ![u] = IF TRUE THEN @ \ {g} ELSE @ \cup {g}]
            /\ UNCHANGED <<repDoing, repTick, turn, up, cursor, follow3, keyVersion>>
        BY <3>2 DEF RepLeave, Acting
      <4>2. QED  BY <4>1
    <3>3. QED  BY <2>1, <3>1, <3>2
  <2> DEFINE o == Link3(u, "member", g, d)
  <2>3. /\ o \in RepObjects /\ o.kind = "member" /\ o.to = g /\ o.by = u /\ o.dead = d
        /\ o.at <= repTick
    <3>1. g \in RepTargets /\ "member" \in RepKinds
      BY DEF RepTargets, RepKinds
    <3>2. QED  BY <3>1, LinksAreObjects
  <2>4. Make(<<o>>)
    BY <2>2
  <2> HIDE DEF o
  <2>5. /\ objs' \in Seq(RepObjects)
        /\ held' \in [RepRelays \cup RepClients -> SUBSET (DOMAIN objs')]
        /\ seq' \in [RepRelays -> Nat]
        /\ RepWhole' /\ RepClosed' /\ RepCounted'
        /\ \A w \in RepUsers, k \in RepKinds : Live(w, k)' =
             IF o.kind = k /\ o.by = w /\ ~o.dead THEN Live(w, k) \cup {o.to} ELSE Live(w, k)
    BY <2>2, <2>3, <2>4, MakeOne
  <2>6. OnRecord'
    <3>1. \A w \in RepUsers, k \in {"follow", "rotation"} : Live(w, k)' = Live(w, k)
      BY <2>3, <2>5 DEF RepKinds
    <3>2. \A w \in RepUsers : Live(w, "member") \subseteq Live(w, "member")'
      BY <2>3, <2>5 DEF RepKinds
    <3>3. ~d => g \in Live(u, "member")'
      BY <2>3, <2>5 DEF RepKinds
    <3>4. joined3 \in [RepUsers -> SUBSET RepGroups]
      BY <1>1 DEF RepTyped
    <3>5. \A w \in RepUsers : joined3'[w] \subseteq Live(w, "member")'
      BY <1>1, <2>2, <3>2, <3>3, <3>4 DEF OnRecord
    <3>6. QED  BY <1>1, <2>2, <3>1, <3>5 DEF OnRecord
  <2>7. joined3' \in [RepUsers -> SUBSET RepGroups]
    BY <1>1, <2>2 DEF RepTyped
  <2>8. QED  BY <1>1, <2>2, <2>5, <2>6, <2>7 DEF RepInv, RepTyped
<1>6. CASE RotateKey(u)
  <2> DEFINE o == Link3(u, "rotation", keyVersion[u] + 1, FALSE)
  <2>1. keyVersion[u] \in Nat \ {0}
    BY <1>1 DEF RepTyped
  <2>2. /\ o \in RepObjects /\ o.kind = "rotation" /\ o.to = keyVersion[u] + 1 /\ o.by = u
        /\ ~o.dead /\ o.at <= repTick
    <3>1. keyVersion[u] + 1 \in RepTargets /\ FALSE \in BOOLEAN /\ "rotation" \in RepKinds
      BY <2>1 DEF RepTargets, RepKinds
    <3>2. repTick \in Nat
      BY <1>1 DEF RepTyped
    <3>3. QED  BY <3>1, <3>2 DEF Link3, RepObjects
  <2>3. Make(<<o>>)
    BY <1>6 DEF RotateKey
  <2>4. /\ UNCHANGED <<repDoing, repTick, turn, up, cursor, follow3, joined3>>
        /\ keyVersion' = [keyVersion EXCEPT ![u] = @ + 1]
    BY <1>6 DEF RotateKey, Acting
  <2> HIDE DEF o
  <2>5. /\ objs' \in Seq(RepObjects)
        /\ held' \in [RepRelays \cup RepClients -> SUBSET (DOMAIN objs')]
        /\ seq' \in [RepRelays -> Nat]
        /\ RepWhole' /\ RepClosed' /\ RepCounted'
        /\ \A w \in RepUsers, k \in RepKinds : Live(w, k)' =
             IF o.kind = k /\ o.by = w /\ ~o.dead THEN Live(w, k) \cup {o.to} ELSE Live(w, k)
    BY <2>2, <2>3, <2>4, MakeOne
  <2>6. OnRecord'
    <3>1. \A w \in RepUsers, k \in {"follow", "member"} : Live(w, k)' = Live(w, k)
      BY <2>2, <2>5 DEF RepKinds
    <3>2. \A w \in RepUsers \ {u} :
            Live(w, "rotation")' = Live(w, "rotation") /\ keyVersion'[w] = keyVersion[w]
      BY <1>1, <2>2, <2>4, <2>5 DEF RepKinds, RepTyped
    <3>3. /\ Live(u, "rotation")' = (2 .. keyVersion[u]) \cup {keyVersion[u] + 1}
          /\ keyVersion'[u] = keyVersion[u] + 1
      BY <1>1, <2>2, <2>4, <2>5 DEF RepKinds, RepTyped, OnRecord
    <3>4. (2 .. keyVersion[u]) \cup {keyVersion[u] + 1} = 2 .. keyVersion[u] + 1
      BY <2>1
    <3>5. \A w \in RepUsers : Live(w, "rotation")' = 2 .. keyVersion'[w]
      BY <1>1, <3>2, <3>3, <3>4 DEF OnRecord
    <3>6. QED  BY <1>1, <2>4, <3>1, <3>5 DEF OnRecord
  <2>7. keyVersion' \in [RepUsers -> Nat \ {0}]
    BY <1>1, <2>1, <2>4 DEF RepTyped
  <2>8. QED  BY <1>1, <2>4, <2>5, <2>6, <2>7 DEF RepInv, RepTyped
<1>9. QED
  BY <1>3, <1>4, <1>5, <1>6

\* Following, with or without leaving another
LEMMA RepFollows ==
  ASSUME RepInv, NEW u \in RepUsers, NEW t \in RepUsers \cup RepGroups, NEW left,
         left = {} \/ \E x \in follow3[u] : left = {x}, RepFollow(u, t, left)
  PROVE  RepInv'
<1> DEFINE gone == [n \in 1 .. Cardinality(left) |->
                      Link3(u, "follow", CHOOSE x \in left : TRUE, TRUE)]
           new  == Link3(u, "follow", t, FALSE)
           made == gone \o <<new>>
<1>1. RepTyped /\ OnRecord
  BY DEF RepInv
<1>2. repTick \in Nat /\ follow3[u] \in SUBSET (RepUsers \cup RepGroups)
  BY <1>1 DEF RepTyped
<1>3. new \in RepObjects /\ new.kind = "follow" /\ new.by = u /\ new.to = t /\ ~new.dead
      /\ new.at <= repTick
  BY <1>2 DEF Link3, RepObjects, RepKinds, RepTargets
<1>4. /\ gone \in Seq(RepObjects) /\ Len(gone) \in Nat
      /\ \A n \in 1 .. Len(gone) : /\ gone[n].kind = "follow" /\ gone[n].dead
                                   /\ gone[n].at <= repTick
  <2>1. CASE left = {}
    <3>1. Cardinality(left) = 0
      BY <2>1, FS_EmptySet
    <3>2. gone = << >>
      BY <3>1
    <3> HIDE DEF gone
    <3>3. QED  BY <3>2
  <2>2. CASE \E x \in follow3[u] : left = {x}
    <3>1. PICK x \in follow3[u] : left = {x}
      BY <2>2
    <3>2. Cardinality(left) = 1
      BY <3>1, FS_Singleton
    <3>3. (CHOOSE y \in left : TRUE) \in RepUsers \cup RepGroups
      BY <3>1, <1>2
    <3> DEFINE g == Link3(u, "follow", CHOOSE y \in left : TRUE, TRUE)
    <3>4. g \in RepObjects /\ g.kind = "follow" /\ g.dead /\ g.at <= repTick
      BY <1>2, <3>3 DEF Link3, RepObjects, RepKinds, RepTargets
    <3>5. gone = [n \in 1 .. 1 |-> g]
      BY <3>2
    <3> HIDE DEF g, gone
    <3>6. gone = <<g>>
      BY <3>5
    <3>7. QED  BY <3>4, <3>6
  <2>3. QED  BY <2>1, <2>2
<1>5. objs' = objs \o made /\ Make(made)
  BY DEF RepFollow, Make
<1>6. /\ UNCHANGED <<repDoing, repTick, turn, up, cursor, joined3, keyVersion>>
      /\ follow3' = [follow3 EXCEPT ![u] = (@ \ left) \cup {t}]
  BY DEF RepFollow, Acting
<1> HIDE DEF gone, new
<1>7. /\ made \in Seq(RepObjects) /\ Len(made) = Len(gone) + 1 /\ Len(made) > 0
      /\ \A n \in 1 .. Len(gone) : made[n] = gone[n]
      /\ made[Len(gone) + 1] = new
  <2>1. <<new>> \in Seq(RepObjects) /\ Len(<<new>>) = 1 /\ <<new>>[1] = new
    BY <1>3
  <2>2. QED  BY <2>1, <1>4, ConcatProperties
<1>8. \A n \in 1 .. Len(made) : /\ made[n].at <= repTick /\ made[n].kind = "follow"
                                /\ made[n].dead \/ (n = Len(gone) + 1 /\ made[n] = new)
  BY <1>3, <1>4, <1>7
<1> HIDE DEF made
<1>9. /\ objs' \in Seq(RepObjects)
      /\ held' \in [RepRelays \cup RepClients -> SUBSET (DOMAIN objs')]
      /\ seq' \in [RepRelays -> Nat]
      /\ RepWhole' /\ RepClosed' /\ RepCounted'
  BY <1>5, <1>6, <1>7, <1>8, MakeKeeps
<1>10. OnRecord'
  <2> DEFINE N == Len(objs)  M == Len(made)
  <2>1. objs \in Seq(RepObjects) /\ N \in Nat /\ DOMAIN objs = 1 .. N /\ M \in Nat
    BY <1>1, <1>4, <1>7, LenProperties DEF RepTyped
  <2>2. /\ DOMAIN objs' = 1 .. N + M
        /\ \A n \in 1 .. N : objs'[n] = objs[n]
        /\ \A m \in 1 .. M : objs'[N + m] = made[m] /\ N + m \in 1 .. N + M
        /\ \A n \in N + 1 .. N + M : objs'[n] = made[n - N] /\ n - N \in 1 .. M
    BY <2>1, <1>5, <1>7, ConcatProperties, LenProperties
  <2>3. \A w \in RepUsers, k \in {"follow", "member", "rotation"} :
          Live(w, k) \subseteq Live(w, k)'
    BY <2>1, <2>2 DEF Live
  <2>4. t \in Live(u, "follow")'
    <3>1. N + M \in DOMAIN objs' /\ objs'[N + M] = new
      BY <2>1, <2>2, <1>4, <1>7
    <3>2. QED  BY <3>1, <1>3 DEF Live
  <2>5. \A w \in RepUsers : Live(w, "rotation")' \subseteq Live(w, "rotation")
    <3>1. ASSUME NEW w \in RepUsers, NEW n \in DOMAIN objs', objs'[n].kind = "rotation"
          PROVE  n \in DOMAIN objs /\ objs'[n] = objs[n]
      <4>1. CASE n \in 1 .. N
        BY <4>1, <2>1, <2>2
      <4>2. CASE n \in N + 1 .. N + M
        BY <4>2, <3>1, <2>1, <2>2, <1>8
      <4>3. QED  BY <4>1, <4>2, <2>1, <2>2
    <3>2. QED  BY <3>1 DEF Live
  <2>6. \A w \in RepUsers : follow3'[w] \subseteq Live(w, "follow")'
    BY <1>1, <1>6, <2>3, <2>4 DEF OnRecord, RepTyped
  <2>7. QED  BY <1>1, <1>6, <2>3, <2>5, <2>6 DEF OnRecord
<1>11. follow3' \in [RepUsers -> SUBSET (RepUsers \cup RepGroups)]
  BY <1>1, <1>6 DEF RepTyped
<1>12. QED
  BY <1>1, <1>6, <1>9, <1>10, <1>11 DEF RepInv, RepTyped

\* The network: copies of the primary, and clients' copies of the relays
LEMMA RepCopies ==
  ASSUME RepInv, NEW online, NEW copying, online \subseteq RepRelays,
         ReplicateToRelays(online, copying)
  PROVE  RepInv'
<1>1. Primary \notin Replicas /\ RepClients \cap RepRelays = {} /\ Primary \in RepRelays
      /\ Replicas \subseteq RepRelays /\ RepRelays = {Primary} \cup Replicas
  BY ReplicaAssumption DEF ReplicaAssumption, RepRelays
<1>2. RepTyped /\ RepWhole /\ RepClosed /\ RepCounted /\ OnRecord
  BY DEF RepInv
<1>3. DOMAIN held = RepRelays \cup RepClients /\ copying \subseteq Replicas
  BY <1>2 DEF RepTyped, ReplicateToRelays
<1>4. \A s \in RepRelays \cup RepClients :
        held'[s] = IF s \in copying THEN held[Primary] ELSE held[s]
  BY <1>1, <1>2, <1>3 DEF ReplicateToRelays, MissingAt, RepTyped, RepWhole
<1>5. UNCHANGED <<repDoing, repTick, objs, follow3, joined3, keyVersion, cursor>>
  BY DEF ReplicateToRelays
<1>6. \A s \in RepRelays \cup RepClients : IsFiniteSet(held[s])
  <2>1. IsFiniteSet(DOMAIN objs)
    BY <1>2, LenProperties, FS_Interval DEF RepTyped
  <2>2. QED  BY <1>2, <2>1, FS_Subset DEF RepTyped
<1>7. \A r \in RepRelays : seq'[r] = IF r \in copying
                                      THEN seq[r] + Cardinality(held[Primary] \ held[r])
                                      ELSE seq[r]
  BY DEF ReplicateToRelays, MissingAt
<1>8. \A r \in copying : /\ Cardinality(held[Primary] \ held[r]) \in Nat
                         /\ Cardinality(held[Primary]) =
                              Cardinality(held[r]) + Cardinality(held[Primary] \ held[r])
                         /\ Cardinality(held[Primary] \ held[r]) = 0 =>
                              held[Primary] = held[r]
  <2>1. TAKE r \in copying
  <2>2. held[r] \subseteq held[Primary] /\ IsFiniteSet(held[Primary]) /\ IsFiniteSet(held[r])
    BY <1>1, <1>2, <1>3, <1>6 DEF RepTyped, RepWhole
  <2> DEFINE A == held[Primary]  B == held[r]
  <2>3. B \subseteq A /\ IsFiniteSet(A) /\ IsFiniteSet(B)
    BY <2>2
  <2> HIDE DEF A, B
  <2>4. IsFiniteSet(A \ B) /\ Cardinality(A \ B) \in Nat /\ Cardinality(A) \in Nat
        /\ Cardinality(B) \in Nat
    BY <2>3, FS_Difference, FS_CardinalityType
  <2>5. Cardinality(A \ B) = Cardinality(A) - Cardinality(A \cap B) /\ A \cap B = B
    BY <2>3, FS_Difference
  <2>6. Cardinality(A \ B) = 0 => A \ B = {}
    BY <2>4, FS_EmptySet
  <2>7. Cardinality(A) = Cardinality(B) + Cardinality(A \ B)
    BY <2>4, <2>5
  <2>8. Cardinality(A \ B) = 0 => A = B
    BY <2>3, <2>6
  <2>9. QED  BY <2>4, <2>7, <2>8 DEF A, B
<1>9. /\ held' \in [RepRelays \cup RepClients -> SUBSET (DOMAIN objs')]
      /\ seq' \in [RepRelays -> Nat] /\ up' \subseteq RepRelays /\ turn' = "network"
  <2>1. held' \in [RepRelays \cup RepClients -> SUBSET (DOMAIN objs')]
    BY <1>1, <1>2, <1>3, <1>4, <1>5 DEF RepTyped, ReplicateToRelays
  <2>2. seq' \in [RepRelays -> Nat]
    <3>1. \A r \in RepRelays : seq'[r] \in Nat
      <4>1. ASSUME NEW r \in RepRelays PROVE seq'[r] \in Nat
        <5>1. seq[r] \in Nat
          BY <1>2 DEF RepTyped
        <5>2. CASE r \in copying
          <6>1. Cardinality(held[Primary] \ held[r]) \in Nat
                /\ seq'[r] = seq[r] + Cardinality(held[Primary] \ held[r])
            BY <5>2, <1>7, <1>8
          <6>2. QED  BY <5>1, <6>1
        <5>3. CASE r \notin copying
          BY <5>1, <5>3, <1>7
        <5>4. QED  BY <5>2, <5>3
      <4>2. QED  BY <4>1
    <3>2. QED  BY <3>1 DEF ReplicateToRelays
  <2>3. QED  BY <2>1, <2>2 DEF ReplicateToRelays
<1>10. RepWhole'
  BY <1>1, <1>2, <1>3, <1>4, <1>5 DEF RepWhole
<1>11. RepClosed'
  BY <1>1, <1>2, <1>4, <1>5 DEF RepClosed
<1>12. RepCounted'
  <2>1. \A r \in Replicas : seq'[r] = Cardinality(held'[r])
    BY <1>1, <1>2, <1>4, <1>7, <1>8 DEF RepCounted, RepTyped
  <2>2. ASSUME NEW c \in RepClients, NEW r \in RepRelays
        PROVE  /\ cursor'[c][r] <= seq'[r]
               /\ cursor'[c][r] = seq'[r] => held'[r] \subseteq held'[c]
    <3>1. /\ cursor[c][r] <= seq[r] /\ (cursor[c][r] = seq[r] => held[r] \subseteq held[c])
          /\ cursor[c][r] \in Nat /\ seq[r] \in Nat
      BY <1>2 DEF RepTyped, RepCounted
    <3>2. held'[c] = held[c] /\ cursor' = cursor
      BY <1>1, <1>3, <1>4, <1>5
    <3>3. CASE r \in copying
      <4> DEFINE more == Cardinality(held[Primary] \ held[r])
      <4>1. more \in Nat /\ seq'[r] = seq[r] + more /\ held'[r] = held[Primary]
            /\ (more = 0 => held[Primary] = held[r])
        BY <3>3, <1>4, <1>7, <1>8
      <4> HIDE DEF more
      <4>2. QED  BY <3>1, <3>2, <4>1
    <3>4. CASE r \notin copying
      BY <3>1, <3>2, <3>4, <1>4, <1>7
    <3>5. QED  BY <3>3, <3>4
  <2>3. QED  BY <2>1, <2>2 DEF RepCounted
<1>13. OnRecord'
  BY <1>2, <1>5 DEF OnRecord, Live
<1>14. QED
  BY <1>2, <1>5, <1>9, <1>10, <1>11, <1>12, <1>13 DEF RepInv, RepTyped

\* A client takes what a relay has that it has not, and moves its cursor.
LEMMA RepSyncs ==
  ASSUME RepInv, NEW answering \in [RepClients -> SUBSET up],
         SyncClients(answering)
  PROVE  RepInv'
<1>1. Primary \notin Replicas /\ RepClients \cap RepRelays = {} /\ Primary \in RepRelays
      /\ Replicas \subseteq RepRelays
  BY ReplicaAssumption DEF ReplicaAssumption, RepRelays
<1>2. RepTyped /\ RepWhole /\ RepClosed /\ RepCounted /\ OnRecord
  BY DEF RepInv
<1>3. UNCHANGED <<repDoing, repTick, objs, follow3, joined3, keyVersion, seq, up>>
  BY DEF SyncClients
<1>4. \A c \in RepClients : answering[c] \subseteq RepRelays
  BY <1>2 DEF RepTyped
<1>5. /\ \A s \in RepRelays \cup RepClients : s \notin RepClients => held'[s] = held[s]
      /\ DOMAIN held' = RepRelays \cup RepClients
      /\ held' = [s \in DOMAIN held' |-> held'[s]]
      /\ \A c \in RepClients :
           held'[c] = held[c] \cup UNION {held[r] \ held[c] : r \in answering[c]}
  BY <1>2 DEF SyncClients, MissingAt, RepTyped
<1>6. \A c \in RepClients : \A n :
        n \in held'[c] <=> n \in held[c] \/ \E r \in answering[c] : n \in held[r]
  BY <1>5
<1>7. /\ cursor' \in [RepClients -> [RepRelays -> Nat]]
      /\ \A c \in RepClients : \A r \in RepRelays :
           cursor'[c][r] = IF r \in answering[c] THEN seq[r] ELSE cursor[c][r]
  BY <1>2 DEF SyncClients, RepTyped
<1>8. \A s \in RepRelays \cup RepClients : held'[s] \subseteq DOMAIN objs
  <2>1. ASSUME NEW s \in RepRelays \cup RepClients, NEW n \in held'[s]
        PROVE  n \in DOMAIN objs
    <3>1. CASE s \in RepClients
      BY <1>2, <1>4, <1>6, <2>1, <3>1 DEF RepTyped
    <3>2. CASE s \notin RepClients
      BY <1>2, <1>5, <2>1, <3>2 DEF RepTyped
    <3>3. QED  BY <3>1, <3>2
  <2>2. QED  BY <2>1
<1>9. held' \in [RepRelays \cup RepClients -> SUBSET (DOMAIN objs')]
  BY <1>3, <1>5, <1>8
<1>10. RepWhole'
  BY <1>1, <1>2, <1>3, <1>5 DEF RepWhole
<1>11. RepClosed'
  <2>1. ASSUME NEW s \in RepRelays \cup RepClients, NEW n \in held'[s],
               objs[n].kind = "react"
        PROVE  objs[n].to \in held'[s]
    <3>1. CASE s \in RepClients
      BY <1>2, <1>4, <1>6, <2>1, <3>1 DEF RepClosed
    <3>2. CASE s \notin RepClients
      BY <1>2, <1>5, <2>1, <3>2 DEF RepClosed
    <3>3. QED  BY <3>1, <3>2
  <2>2. QED  BY <2>1, <1>3 DEF RepClosed
<1>12. RepCounted'
  <2>1. \A r \in Replicas : seq'[r] = Cardinality(held'[r])
    BY <1>1, <1>2, <1>3, <1>5 DEF RepCounted
  <2>2. ASSUME NEW c \in RepClients, NEW r \in RepRelays
        PROVE  /\ cursor'[c][r] <= seq'[r]
               /\ cursor'[c][r] = seq'[r] => held'[r] \subseteq held'[c]
    <3>1. /\ cursor[c][r] <= seq[r] /\ (cursor[c][r] = seq[r] => held[r] \subseteq held[c])
          /\ cursor[c][r] \in Nat /\ seq[r] \in Nat /\ seq' = seq
      BY <1>2, <1>3 DEF RepTyped, RepCounted
    <3>2. held'[r] = held[r] /\ \A n \in held[c] : n \in held'[c]
      BY <1>1, <1>5, <1>6
    <3>3. r \in answering[c] => \A n \in held[r] : n \in held'[c]
      BY <1>6
    <3>4. QED  BY <1>7, <3>1, <3>2, <3>3
  <2>3. QED  BY <2>1, <2>2 DEF RepCounted
<1>13. OnRecord'
  BY <1>2, <1>3 DEF OnRecord, Live
<1>14. turn' = "views"
  BY DEF SyncClients
<1>15. QED
  BY <1>2, <1>3, <1>7, <1>9, <1>10, <1>11, <1>12, <1>13, <1>14 DEF RepInv, RepTyped

\* Every step of the simulator
LEMMA RepStep ==
  ASSUME RepInv, [RepNext]_repVars
  PROVE  RepInv'
<1>1. CASE RepNext
  <2>1. ASSUME NEW u \in RepUsers,
               \/ \E g \in RepGroups \cup {"none"} : RepPost(u, g)
               \/ \E n \in DOMAIN objs : RepReact(u, n)
               \/ \E g \in RepGroups : RepJoin(u, g) \/ RepLeave(u, g)
               \/ RotateKey(u)
        PROVE  RepInv'
    BY <2>1, RepActs
  <2>2. ASSUME NEW u \in RepUsers, NEW t \in RepUsers \cup RepGroups,
               RepFollow(u, t, {}) \/ \E x \in follow3[u] : RepFollow(u, t, {x})
        PROVE  RepInv'
    <3>1. PICK left : /\ left = {} \/ \E x \in follow3[u] : left = {x}
                      /\ RepFollow(u, t, left)
      BY <2>2
    <3>2. QED  BY <3>1, RepFollows
  <2>3. ASSUME NEW online \in SUBSET RepRelays, NEW copying \in SUBSET Replicas,
               ReplicateToRelays(online, copying)
        PROVE  RepInv'
    BY <2>3, RepCopies
  <2>4. ASSUME NEW answering \in [RepClients -> SUBSET up], SyncClients(answering)
        PROVE  RepInv'
    BY <2>4, RepSyncs
  <2>5. CASE RepAdvance
    <3>1. /\ repTick' = repTick + 1 /\ repTick < MaxRepTicks /\ turn' = "agents"
          /\ UNCHANGED <<repDoing, objs, follow3, joined3, keyVersion, held, seq, up, cursor>>
      BY <2>5 DEF RepAdvance
    <3>2. MaxRepTicks \in Nat
      BY ReplicaAssumption DEF ReplicaAssumption
    <3>3. RepTyped'
      BY <3>1, <3>2 DEF RepInv, RepTyped
    <3>4. RepWhole'
      <4>1. \A n \in DOMAIN objs : objs[n].at \in Nat
        <5>1. \A n \in DOMAIN objs : objs[n] \in RepObjects
          BY ElementOfSeq, LenProperties DEF RepInv, RepTyped
        <5>2. QED  BY <5>1 DEF RepObjects
      <4>2. repTick \in Nat
        BY DEF RepInv, RepTyped
      <4>3. QED  BY <3>1, <4>1, <4>2 DEF RepInv, RepWhole
    <3>5. RepClosed' /\ RepCounted' /\ OnRecord'
      BY <3>1 DEF RepInv, RepClosed, RepCounted, OnRecord, Live
    <3>6. QED  BY <3>3, <3>4, <3>5 DEF RepInv
  <2>6. QED
    BY <1>1, <2>1, <2>2, <2>3, <2>4, <2>5 DEF RepNext
<1>2. CASE UNCHANGED repVars
  BY <1>2 DEF repVars, RepInv, RepTyped, RepWhole, RepClosed, RepCounted, OnRecord, Live
<1>3. QED
  BY <1>1, <1>2

\* What the invariant says of the properties
LEMMA RepInvSays == RepInv => ReplicasFollow /\ AgentsAreOnRecord /\ RepTypeOK
<1> SUFFICES ASSUME RepInv PROVE ReplicasFollow /\ AgentsAreOnRecord /\ RepTypeOK
  OBVIOUS
<1>1. RepTyped /\ RepWhole /\ RepClosed /\ RepCounted
  BY DEF RepInv
<1>2. DOMAIN held = RepRelays \cup RepClients /\ Primary \in RepRelays
      /\ Replicas \subseteq RepRelays
  BY <1>1 DEF RepTyped, RepRelays
<1>3. \A s \in DOMAIN held : /\ held[s] \subseteq held[Primary]
                             /\ \A n \in held[s] : objs[n].kind = "react" => objs[n].to \in held[s]
  BY <1>1, <1>2 DEF RepTyped, RepWhole, RepClosed
<1>4. ASSUME NEW c \in RepClients, NEW r \in RepRelays, cursor[c][r] = seq[r]
      PROVE  /\ held[r] \subseteq held[c]
             /\ r = Primary => \A g \in RepGroups :
                  ViewOf(held[c], g, repTick) = ViewOf(held[Primary], g, repTick)
  <2>1. held[r] \subseteq held[c] /\ held[c] \subseteq held[Primary]
    BY <1>1, <1>2, <1>3, <1>4 DEF RepCounted
  <2>2. r = Primary => held[c] = held[Primary]
    BY <2>1
  <2>3. QED  BY <2>1, <2>2
<1>5. ReplicasFollow
  BY <1>1, <1>3, <1>4 DEF ReplicasFollow, RepCounted
<1>6. AgentsAreOnRecord
  BY OnRecordSays DEF RepInv
<1>7. RepTypeOK
  <2>1. \A n \in DOMAIN objs : objs[n].by \in RepUsers /\ objs[n].at <= repTick
    <3>1. \A n \in DOMAIN objs : objs[n] \in RepObjects
      BY <1>1, ElementOfSeq, LenProperties DEF RepTyped
    <3>2. \A n \in DOMAIN objs : objs[n].by \in RepUsers
      BY <3>1 DEF RepObjects
    <3>3. QED  BY <1>1, <3>2 DEF RepWhole
  <2>2. QED  BY <1>1, <2>1 DEF RepTyped, RepTypeOK
<1>8. QED
  BY <1>5, <1>6, <1>7

-----------------------------------------------------------------------------
(***************************************************************************)
(* The feeds of Relay v1.4.1. Events are numbered in the order they were   *)
(* made, a log is in the order of its timestamps, and a claim whose        *)
(* boundary names the heads of now is what the logs answer now.            *)
(***************************************************************************)
\* What an action is hashed from: its id, what it is and its salt
ActionHashes == Nat \X SimActions \X {50, 100}

\* What an event says: nothing, whom or what it is about, a channel, a hash or a
\* commitment.
SimData == {<< >>} \cup {<<x>> : x \in SimActors \cup SimActions} \cup Chans \cup ActionHashes
             \cup (Nat \X ActionHashes \X {50, 100})

\* What events there are
SimTypes == {"post", "follow.add", "membership.add", "action.request", "action.commit",
             "action.result"}

SimEvents == [id : Nat, by : SimActors, type : SimTypes, data : SimData, ts : Nat]

\* The types
SimTyped ==
  /\ scenario \in SimScenarios
  /\ tick \in 0 .. MaxTicks
  /\ turns \subseteq SimAgents
  /\ simLogs \in [SimActors -> Seq(SimEvents)]
  /\ followed \in [SimActors -> SUBSET SimActors]
  /\ joined \in [SimActors -> SUBSET Chans]
  /\ requests \in [SimAgents -> Seq(1 .. scenario.events)]
  /\ members \in [Chans -> SUBSET SimActors]
  /\ DOMAIN feedDefs = SimFeeds

\* The events of the logs are numbered in the order they were made.
Numbering ==
  /\ IsFiniteSet(Logged)
  /\ Cardinality(Logged) \in 0 .. scenario.events
  /\ \A e \in Logged : e.id \in 1 .. Cardinality(Logged)
  /\ \A d, e \in Logged : d.id = e.id => d = e
  /\ \A a \in SimActors : \A e \in EventsIn(simLogs[a]) : e.by = a

\* A log is in the order of its timestamps; who has had a turn is ahead by two at most.
Ordered ==
  \A a \in SimActors :
    /\ \A m, n \in DOMAIN simLogs[a] : m < n => simLogs[a][m].ts <= simLogs[a][n].ts
    /\ \A n \in DOMAIN simLogs[a] : /\ simLogs[a][n].ts <= 10 * tick + 2
                                    /\ a \notin turns => simLogs[a][n].ts <= 10 * tick

\* What waits for an agent was asked for, and what it answered it had committed to.
RequestsKept ==
  /\ \A a \in SimAgents : \A n \in DOMAIN requests[a] :
       \E e \in Logged : /\ e.id = requests[a][n] /\ e.type = "action.request"
                         /\ \E x \in SimActions : e.data = <<x>>
  /\ \A e \in Logged : e.type = "action.result" => ActionValid(e)

\* A feed is over logs, or over the one before it.
Founded ==
  \A f \in SimFeeds :
    /\ feedDefs[f].version \in Nat
    /\ feedDefs[f].sources \subseteq SimActors \/ (f > 1 /\ feedDefs[f].sources = {f - 1})

\* What a feed over logs answers
OverLogs(f) ==
  Answer(feedDefs[f].order,
         UNION {EventsIn(FirstOf(LogLimit, simLogs[s])) : s \in feedDefs[f].sources})

\* A boundary is behind the heads, and where it names them the answer stands.
Bounded ==
  \A c \in feedClaims :
    /\ c.feed \in SimFeeds /\ c.version <= feedDefs[c.feed].version /\ c.version \in Nat
    /\ (c.version = feedDefs[c.feed].version /\ feedDefs[c.feed].sources \subseteq SimActors)
       => /\ DOMAIN c.heads = feedDefs[c.feed].sources
          /\ \A a \in feedDefs[c.feed].sources : c.heads[a] \in Nat /\ c.heads[a] <= Head1(a)
          /\ (\A a \in feedDefs[c.feed].sources : Head1(a) = c.heads[a])
               => OverLogs(c.feed) = c.ids

\* What the log of an actor says of whom it follows and where it is a member
Whom(a)  == {e.data[1] : e \in {d \in EventsIn(simLogs[a]) : d.type = "follow.add"}}
Where(a) == {e.data : e \in {d \in EventsIn(simLogs[a]) : d.type = "membership.add"}}

\* What an actor remembers is what its log and the channels say.
Remembering ==
  \A a \in SimActors : /\ followed[a] = Whom(a)
                       /\ joined[a] = {c \in Chans : a \in members[c]}
                       /\ joined[a] = Where(a)

\* The inductive invariant of the feeds
RelaySimInv ==
  SimTyped /\ Numbering /\ Ordered /\ RequestsKept /\ Remembering /\ Founded /\ Bounded

-----------------------------------------------------------------------------
\* Feeds that are founded do reduce: the definition has a solution.
LEMMA ReducedIs ==
  ASSUME Founded
  PROVE  Reduced = [f \in SimFeeds |-> Reduction(Reduced, f)]
<1> DEFINE N == Cardinality(SimFeeds)
           Solves(g, n) == g = [f \in 1 .. n |-> Reduction(g, f)]
           T == {n \in Nat : n <= N /\ ~\E g : Solves(g, n)}
<1>1. N \in Nat /\ SimFeeds = 1 .. N
  BY RelaySimAssumption, FS_CardinalityType DEF RelaySimAssumption
<1>2. T = {}
  <2> SUFFICES ASSUME T # {} PROVE FALSE
    OBVIOUS
  <2>1. PICK m \in T : \A k \in T : m <= k
    BY LeastOf
  <2>2. m \in Nat /\ m <= N /\ ~\E g : Solves(g, m)
    BY <2>1
  <2>3. m # 0
    <3>1. SUFFICES ASSUME m = 0 PROVE FALSE
      OBVIOUS
    <3>2. Solves(<< >>, 0)
      OBVIOUS
    <3>3. QED  BY <2>2, <3>1, <3>2
  <2>4. PICK g : Solves(g, m - 1)
    <3>1. m - 1 \in Nat /\ m - 1 <= N /\ ~(m <= m - 1)
      BY <1>1, <2>2, <2>3
    <3>2. QED  BY <2>1, <3>1
  <2> DEFINE h == [f \in 1 .. m |-> IF f = m THEN Reduction(g, m) ELSE g[f]]
  <2>5. \A f \in 1 .. m : Reduction(h, f) = Reduction(g, f)
    <3>1. TAKE f \in 1 .. m
    <3>2. f \in SimFeeds /\ f \in Nat
      BY <1>1, <2>2, <3>1
    <3>3. ASSUME NEW s \in feedDefs[f].sources PROVE Held(h, s) = Held(g, s)
      <4>1. CASE s \in SimActors
        BY <4>1 DEF Held
      <4>2. CASE s \notin SimActors
        <5>1. f > 1 /\ s = f - 1
          BY <3>2, <3>3, <4>2 DEF Founded
        <5>2. s \in 1 .. m /\ s # m
          BY <5>1, <3>1, <3>2, <2>2
        <5>3. h[s] = g[s]
          BY <5>2
        <5>4. QED  BY <5>3 DEF Held
      <4>3. QED  BY <4>1, <4>2
    <3>4. {Held(h, s) : s \in feedDefs[f].sources} = {Held(g, s) : s \in feedDefs[f].sources}
      BY <3>3
    <3>5. QED  BY <3>4 DEF Reduction
  <2>6. h = [f \in 1 .. m |-> Reduction(h, f)]
    <3>1. \A f \in 1 .. m : h[f] = Reduction(g, f)
      <4>1. TAKE f \in 1 .. m
      <4>2. CASE f = m
        BY <4>2
      <4>3. CASE f # m
        <5>1. f \in 1 .. m - 1
          BY <4>3, <2>2
        <5>2. g[f] = Reduction(g, f)
          BY <2>4, <5>1
        <5>3. QED  BY <4>3, <5>2
      <4>4. QED  BY <4>2, <4>3
    <3>2. h = [f \in 1 .. m |-> h[f]]
      OBVIOUS
    <3> HIDE DEF h
    <3>3. QED  BY <2>5, <3>1, <3>2
  <2>7. QED  BY <2>2, <2>6
<1>3. \E g : Solves(g, N)
  BY <1>1, <1>2
<1>4. \E g : g = [f \in SimFeeds |-> Reduction(g, f)]
  BY <1>1, <1>3
<1>5. QED
  BY <1>4 DEF Reduced

\* What a feed over logs is reduced to needs no other feed.
LEMMA ReducedOverLogs ==
  ASSUME Founded, NEW f \in SimFeeds, feedDefs[f].sources \subseteq SimActors
  PROVE  Reduced[f] = OverLogs(f)
<1>1. Reduced[f] = Reduction(Reduced, f)
  BY ReducedIs
<1>2. \A s \in feedDefs[f].sources : Held(Reduced, s) = EventsIn(FirstOf(LogLimit, simLogs[s]))
  BY DEF Held
<1>3. {Held(Reduced, s) : s \in feedDefs[f].sources}
        = {EventsIn(FirstOf(LogLimit, simLogs[s])) : s \in feedDefs[f].sources}
  BY <1>2
<1>4. QED
  BY <1>1, <1>3 DEF Reduction, OverLogs

-----------------------------------------------------------------------------
\* What an actor appends when it appends events ev, numbered and stamped in order
AppendsTo(a, ev) ==
  /\ AppendAll(a, ev)
  /\ Len(ev) \in 1 .. 3
  /\ \A n \in 1 .. Len(ev) : /\ ev[n].id = Cardinality(Logged) + n /\ ev[n].by = a
                             /\ ev[n].ts = 10 * tick + (n - 1)
  /\ a \notin turns
  /\ turns \subseteq turns'
  /\ Len(ev) = 1 \/ a \in turns'
  /\ UNCHANGED <<scenario, tick, feedClaims>>

\* The events of the log appended to
LEMMA AppendedEvents ==
  ASSUME RelaySimInv, NEW a \in SimActors, NEW ev \in Seq(SimEvents), AppendsTo(a, ev)
  PROVE  /\ simLogs' \in [SimActors -> Seq(SimEvents)]
         /\ simLogs'[a] = simLogs[a] \o ev
         /\ \A b \in SimActors \ {a} : simLogs'[b] = simLogs[b]
         /\ EventsIn(simLogs'[a]) = EventsIn(simLogs[a]) \cup EventsIn(ev)
         /\ Logged' = Logged \cup EventsIn(ev)
         /\ EventsIn(ev) = {ev[n] : n \in 1 .. Len(ev)}
<1>1. simLogs \in [SimActors -> Seq(SimEvents)] /\ simLogs' = [simLogs EXCEPT ![a] = @ \o ev]
  BY DEF RelaySimInv, SimTyped, AppendsTo, AppendAll
<1>2. simLogs[a] \in Seq(SimEvents) /\ simLogs[a] \o ev \in Seq(SimEvents)
  BY <1>1, ConcatProperties
<1>3. /\ simLogs' \in [SimActors -> Seq(SimEvents)]
      /\ simLogs'[a] = simLogs[a] \o ev
      /\ \A b \in SimActors \ {a} : simLogs'[b] = simLogs[b]
  BY <1>1, <1>2
<1>4. EventsIn(simLogs'[a]) = EventsIn(simLogs[a]) \cup EventsIn(ev)
  <2> DEFINE s == simLogs[a]  N == Len(s)  M == Len(ev)  t == s \o ev
  <2>1. /\ N \in Nat /\ M \in Nat /\ DOMAIN s = 1 .. N /\ DOMAIN ev = 1 .. M
        /\ DOMAIN t = 1 .. N + M
        /\ \A n \in 1 .. N : t[n] = s[n]
        /\ \A n \in N + 1 .. N + M : t[n] = ev[n - N] /\ n - N \in 1 .. M
        /\ \A m \in 1 .. M : t[N + m] = ev[m] /\ N + m \in 1 .. N + M
    BY <1>2, ConcatProperties, LenProperties
  <2> HIDE DEF t, N, M, s
  <2>2. \A n \in 1 .. N + M : n \in 1 .. N \/ n \in N + 1 .. N + M
    BY <2>1
  <2>3. \A n \in 1 .. N : n \in 1 .. N + M
    BY <2>1
  <2>4. \A x : x \in EventsIn(t) <=> x \in EventsIn(s) \/ x \in EventsIn(ev)
    <3>1. \A x : x \in EventsIn(t) <=> \E n \in 1 .. N + M : x = t[n]
      BY <2>1 DEF EventsIn
    <3>2. \A x : x \in EventsIn(s) <=> \E n \in 1 .. N : x = s[n]
      BY <2>1 DEF EventsIn
    <3>3. \A x : x \in EventsIn(ev) <=> \E n \in 1 .. M : x = ev[n]
      BY <2>1 DEF EventsIn
    <3>4. QED  BY <2>1, <2>2, <2>3, <3>1, <3>2, <3>3
  <2>5. EventsIn(t) = EventsIn(s) \cup EventsIn(ev)
    BY <2>4
  <2>6. QED  BY <2>5, <1>3 DEF t, s
<1>5. Logged' = Logged \cup EventsIn(ev)
  <2>1. \A b \in SimActors : EventsIn(simLogs[b])' = EventsIn(simLogs'[b])
    OBVIOUS
  <2>2. Logged' = UNION {EventsIn(simLogs'[b]) : b \in SimActors}
    BY DEF Logged
  <2>3. \A b \in SimActors \ {a} : EventsIn(simLogs'[b]) = EventsIn(simLogs[b])
    BY <1>3
  <2>4. QED  BY <2>2, <2>3, <1>4 DEF Logged
<1>6. EventsIn(ev) = {ev[n] : n \in 1 .. Len(ev)}
  BY LenProperties DEF EventsIn
<1>7. QED
  BY <1>3, <1>4, <1>5, <1>6

\* The numbering goes on.
LEMMA AppendedNumbers ==
  ASSUME RelaySimInv, NEW a \in SimActors, NEW ev \in Seq(SimEvents), AppendsTo(a, ev)
  PROVE  Numbering' /\ Cardinality(Logged)' = Cardinality(Logged) + Len(ev)
<1> DEFINE L == Logged  C == Cardinality(L)  E == EventsIn(ev)  M == Len(ev)
<1>1. /\ IsFiniteSet(L) /\ C \in Nat
      /\ \A e \in L : e.id \in 1 .. C
      /\ \A d, e \in L : d.id = e.id => d = e
  BY FS_CardinalityType DEF RelaySimInv, Numbering
<1>2. E = {ev[n] : n \in 1 .. M} /\ Logged' = L \cup E /\ M \in 1 .. 3
      /\ EventsIn(simLogs'[a]) = EventsIn(simLogs[a]) \cup E
      /\ \A b \in SimActors \ {a} : simLogs'[b] = simLogs[b]
  BY AppendedEvents DEF AppendsTo
<1>3. \A n \in 1 .. M : ev[n].id = C + n /\ ev[n].by = a
  BY DEF AppendsTo
<1>4. \A m, n \in 1 .. M : ev[m] = ev[n] => m = n
  BY <1>1, <1>2, <1>3
<1>5. IsFiniteSet(E) /\ Cardinality(E) = M
  <2> DEFINE f == [n \in 1 .. M |-> ev[n]]
  <2>1. f \in Bijection(1 .. M, E)
    <3> HIDE DEF E
    <3>1. f \in [1 .. M -> E] /\ \A x \in E : \E n \in 1 .. M : f[n] = x
      BY <1>2
    <3>2. IsInjective(f)
      BY <1>4 DEF IsInjective
    <3>3. QED  BY <3>1, <3>2 DEF Bijection, Injection, Surjection
  <2>2. ExistsBijection(1 .. M, E)
    BY <2>1 DEF ExistsBijection
  <2>3. M \in Nat
    BY <1>2
  <2> HIDE DEF E, M
  <2>4. Cardinality(E) = M
    BY <2>2, <2>3, FS_CountingElements
  <2>5. QED  BY <2>2, <2>3, <2>4, FS_NatBijection
<1>6. \A e \in E : \E n \in 1 .. M : e = ev[n] /\ e.id = C + n /\ e.by = a
  BY <1>2, <1>3
<1> HIDE DEF E, L
<1>7. L \cap E = {}
  BY <1>1, <1>2, <1>6
<1>8. IsFiniteSet(L \cup E) /\ Cardinality(L \cup E) = C + M
  <2>1. Cardinality(L \cup E) = Cardinality(L) + Cardinality(E) - Cardinality({})
    BY <1>1, <1>5, <1>7, FS_Union
  <2>2. IsFiniteSet(L \cup E) /\ Cardinality({}) = 0
    BY <1>1, <1>5, FS_Union, FS_EmptySet
  <2>3. C \in Nat /\ M \in Nat /\ Cardinality(E) = M
    <3>1. M \in Nat
      BY LenProperties
    <3>2. QED  BY <3>1, <1>1, <1>5, Zenon
  <2>4. C + M - 0 = C + M
    BY <2>3
  <2>5. Cardinality(L \cup E) = C + M - 0
    BY <2>1, <2>2, <2>3
  <2>6. QED  BY <2>2, <2>4, <2>5
<1>9. IsFiniteSet(Logged') /\ Cardinality(Logged)' = C + M
  BY <1>2, <1>8
<1>10. C + M <= scenario.events /\ scenario' = scenario /\ C + M \in Nat
  BY <1>1, <1>2 DEF AppendsTo, AppendAll, L
<1>11. scenario.events \in Nat
  BY RelaySimAssumption DEF RelaySimAssumption, RelaySimInv, SimTyped
<1>12. \A e \in Logged' : e.id \in 1 .. C + M
  BY <1>1, <1>2, <1>6
<1>13. \A d, e \in Logged' : d.id = e.id => d = e
  <2> SUFFICES ASSUME NEW d \in Logged', NEW e \in Logged', d.id = e.id PROVE d = e
    OBVIOUS
  <2>1. CASE d \in L /\ e \in L
    BY <2>1, <1>1
  <2>2. CASE d \in L /\ e \in E
    BY <2>2, <1>1, <1>2, <1>6
  <2>3. CASE d \in E /\ e \in L
    BY <2>3, <1>1, <1>2, <1>6
  <2>4. CASE d \in E /\ e \in E
    BY <2>4, <1>1, <1>2, <1>6
  <2>5. QED  BY <2>1, <2>2, <2>3, <2>4, <1>2
<1>14. \A b \in SimActors : \A e \in EventsIn(simLogs'[b]) : e.by = b
  <2>1. \A b \in SimActors : \A e \in EventsIn(simLogs[b]) : e.by = b
    BY DEF RelaySimInv, Numbering
  <2>2. QED  BY <2>1, <1>2, <1>6
<1>15. Numbering'
  BY <1>9, <1>10, <1>11, <1>12, <1>13, <1>14 DEF Numbering
<1>16. QED
  BY <1>9, <1>15 DEF L

\* The order of the stamps, and what agents wait for and answered
LEMMA AppendedOrder ==
  ASSUME RelaySimInv, NEW a \in SimActors, NEW ev \in Seq(SimEvents), AppendsTo(a, ev)
  PROVE  Ordered'
<1> DEFINE s == simLogs[a]  N == Len(s)  M == Len(ev)  t == s \o ev
<1>1. /\ simLogs'[a] = t /\ s \in Seq(SimEvents)
      /\ \A b \in SimActors \ {a} : simLogs'[b] = simLogs[b]
  BY AppendedEvents DEF RelaySimInv, SimTyped
<1>2. tick \in Nat /\ tick' = tick /\ M \in 1 .. 3 /\ turns \subseteq turns' /\ a \notin turns
  BY RelaySimAssumption DEF RelaySimInv, SimTyped, AppendsTo, RelaySimAssumption
<1>3. /\ N \in Nat /\ DOMAIN s = 1 .. N /\ DOMAIN t = 1 .. N + M
      /\ \A n \in 1 .. N : t[n] = s[n]
      /\ \A n \in N + 1 .. N + M : t[n] = ev[n - N] /\ n - N \in 1 .. M
  BY <1>1, <1>2, ConcatProperties, LenProperties
<1>4. /\ \A n \in 1 .. N : s[n].ts \in Nat /\ s[n].ts <= 10 * tick
      /\ \A m, n \in 1 .. N : m < n => s[m].ts <= s[n].ts
  <2>1. \A n \in 1 .. N : s[n] \in SimEvents
    BY <1>1, <1>3, ElementOfSeq
  <2>2. QED  BY <1>2, <1>3, <2>1 DEF SimEvents, RelaySimInv, Ordered
<1>5. \A n \in 1 .. M : ev[n].ts = 10 * tick + (n - 1)
  BY DEF AppendsTo
<1>6. M = 1 \/ a \in turns'
  BY DEF AppendsTo
<1> HIDE DEF t, s, N, M
<1>7. \A n \in 1 .. N + M : n \in 1 .. N \/ n \in N + 1 .. N + M
  BY <1>2, <1>3
<1>8. \A n \in N + 1 .. N + M : t[n].ts = 10 * tick + (n - N - 1)
  BY <1>2, <1>3, <1>5
<1>9. ASSUME NEW n \in 1 .. N + M
      PROVE  t[n].ts \in Nat /\ t[n].ts <= 10 * tick + 2 /\ (a \notin turns' => t[n].ts <= 10 * tick)
  <2>1. CASE n \in 1 .. N
    BY <2>1, <1>2, <1>3, <1>4
  <2>2. CASE n \in N + 1 .. N + M
    <3>1. n - N \in 1 .. M /\ n - N \in 1 .. 3 /\ (M = 1 => n - N = 1)
      BY <2>2, <1>2, <1>3
    <3>2. t[n].ts = 10 * tick + (n - N - 1)
      BY <2>2, <1>8
    <3>3. n - N - 1 \in 0 .. 2 /\ (M = 1 => n - N - 1 = 0)
      BY <3>1, <1>3
    <3> DEFINE x == n - N - 1
    <3> HIDE DEF x
    <3>4. x \in 0 .. 2 /\ (M = 1 => x = 0) /\ t[n].ts = 10 * tick + x
      BY <3>2, <3>3 DEF x
    <3>5. QED  BY <3>4, <1>2, <1>6
  <2>3. QED  BY <2>1, <2>2, <1>7
<1>10. ASSUME NEW m \in 1 .. N + M, NEW n \in 1 .. N + M, m < n
       PROVE  t[m].ts <= t[n].ts
  <2>1. CASE n \in 1 .. N
    <3>1. m \in 1 .. N
      BY <1>10, <2>1, <1>2, <1>3
    <3>2. QED  BY <1>10, <2>1, <3>1, <1>3, <1>4
  <2>2. CASE n \in N + 1 .. N + M /\ m \in 1 .. N
    BY <2>2, <1>2, <1>3, <1>4, <1>8
  <2>3. CASE n \in N + 1 .. N + M /\ m \in N + 1 .. N + M
    BY <2>3, <1>10, <1>2, <1>3, <1>8
  <2>4. QED  BY <2>1, <2>2, <2>3, <1>7
<1>11. ASSUME NEW b \in SimActors
       PROVE  /\ \A m, n \in DOMAIN simLogs'[b] : m < n => simLogs'[b][m].ts <= simLogs'[b][n].ts
              /\ \A n \in DOMAIN simLogs'[b] :
                   /\ simLogs'[b][n].ts <= 10 * tick' + 2
                   /\ b \notin turns' => simLogs'[b][n].ts <= 10 * tick'
  <2>1. CASE b = a
    BY <2>1, <1>1, <1>2, <1>3, <1>9, <1>10
  <2>2. CASE b # a
    BY <2>2, <1>1, <1>2 DEF RelaySimInv, Ordered
  <2>3. QED  BY <2>1, <2>2
<1>12. QED
  BY <1>11 DEF Ordered

\* What was answered stays answered.
LEMMA AnsweredStays ==
  ASSUME Logged \subseteq Logged', NEW e, ActionValid(e)
  PROVE  ActionValid(e)'
  BY DEF ActionValid

\* No claim about the log appended to goes on holding, and no other is touched.
LEMMA AppendedClaims ==
  ASSUME RelaySimInv, NEW a \in SimActors, NEW ev \in Seq(SimEvents), AppendsTo(a, ev),
         feedDefs' = feedDefs
  PROVE  Founded' /\ Bounded'
<1>1. /\ simLogs \in [SimActors -> Seq(SimEvents)] /\ simLogs' \in [SimActors -> Seq(SimEvents)]
      /\ simLogs'[a] = simLogs[a] \o ev
      /\ \A b \in SimActors \ {a} : simLogs'[b] = simLogs[b]
  BY AppendedEvents DEF RelaySimInv, SimTyped
<1>2. \A b \in SimActors \ {a} : Head1(b)' = Head1(b)
  BY <1>1 DEF Head1
<1>3. Head1(a) \in 0 .. Cardinality(Logged) /\ Cardinality(Logged) \in Nat
  <2>1. Cardinality(Logged) \in Nat
    BY FS_CardinalityType DEF RelaySimInv, Numbering
  <2>2. CASE simLogs[a] = << >>
    BY <2>1, <2>2 DEF Head1
  <2>3. CASE simLogs[a] # << >>
    <3>1. simLogs[a] \in Seq(SimEvents) /\ Len(simLogs[a]) \in DOMAIN simLogs[a]
      BY <1>1, <2>3, LenProperties, EmptySeq
    <3>2. Last(simLogs[a]) \in EventsIn(simLogs[a])
      BY <3>1 DEF Last, EventsIn
    <3>3. Last(simLogs[a]) \in Logged
      BY <3>2 DEF Logged
    <3>4. Last(simLogs[a]).id \in 1 .. Cardinality(Logged)
      BY <3>3 DEF RelaySimInv, Numbering
    <3>5. QED  BY <2>1, <2>3, <3>4 DEF Head1
  <2>4. QED  BY <2>1, <2>2, <2>3
<1>4. Head1(a)' \in Nat /\ Head1(a)' > Head1(a)
  <2> DEFINE t == simLogs[a] \o ev  K == Len(t)
  <2>1. /\ Len(ev) \in 1 .. 3 /\ Len(simLogs[a]) \in Nat /\ K = Len(simLogs[a]) + Len(ev)
        /\ t[K] = ev[Len(ev)]
    <3>1. simLogs[a] \in Seq(SimEvents) /\ Len(ev) \in 1 .. 3
      BY <1>1 DEF AppendsTo
    <3>2. /\ Len(ev) \in Nat \ {0} /\ Len(simLogs[a]) \in Nat /\ K = Len(simLogs[a]) + Len(ev)
          /\ \A n \in 1 .. K : t[n] = IF n <= Len(simLogs[a]) THEN simLogs[a][n]
                                                           ELSE ev[n - Len(simLogs[a])]
      BY <3>1, ConcatProperties, LenProperties
    <3>3. K \in 1 .. K /\ ~(K <= Len(simLogs[a])) /\ K - Len(simLogs[a]) = Len(ev)
      BY <3>2
    <3> HIDE DEF t, K
    <3>4. t[K] = ev[Len(ev)]
      BY <3>2, <3>3
    <3>5. QED  BY <3>1, <3>2, <3>4
  <2>2. t # << >> /\ Last(t) = ev[Len(ev)]
    BY <2>1, EmptySeq DEF Last
  <2>3. ev[Len(ev)].id = Cardinality(Logged) + Len(ev)
    BY <2>1 DEF AppendsTo
  <2>4. Head1(a)' = Last(t).id
    BY <1>1, <2>2 DEF Head1
  <2> DEFINE h == Head1(a)  k == Head1(a)'  C == Cardinality(Logged)  m == Len(ev)
  <2>5. k = C + m
    BY <2>2, <2>3, <2>4
  <2>6. h \in 0 .. C /\ C \in Nat /\ m \in 1 .. 3
    BY <1>3, <2>1
  <2> HIDE DEF h, k, C, m
  <2>7. k \in Nat /\ k > h
    BY <2>5, <2>6
  <2>8. QED  BY <2>7 DEF h, k
<1>5. feedClaims' = feedClaims
  BY DEF AppendsTo
<1>6. Founded'
  BY DEF RelaySimInv, Founded
<1>7. \A f \in SimFeeds : feedDefs[f].sources \subseteq SimActors \ {a} => OverLogs(f)' = OverLogs(f)
  <2>1. TAKE f \in SimFeeds
  <2>2. HAVE feedDefs[f].sources \subseteq SimActors \ {a}
  <2>3. {EventsIn(FirstOf(LogLimit, simLogs'[s])) : s \in feedDefs[f].sources}
          = {EventsIn(FirstOf(LogLimit, simLogs[s])) : s \in feedDefs[f].sources}
    BY <2>2, <1>1
  <2>4. QED  BY <2>3 DEF OverLogs
<1>8. ASSUME NEW c \in feedClaims
      PROVE  /\ c.feed \in SimFeeds /\ c.version <= feedDefs[c.feed].version /\ c.version \in Nat
             /\ (c.version = feedDefs[c.feed].version /\ feedDefs[c.feed].sources \subseteq SimActors)
                => /\ DOMAIN c.heads = feedDefs[c.feed].sources
                   /\ \A b \in feedDefs[c.feed].sources : c.heads[b] \in Nat /\ c.heads[b] <= Head1(b)'
                   /\ (\A b \in feedDefs[c.feed].sources : Head1(b)' = c.heads[b])
                        => OverLogs(c.feed)' = c.ids
  <2>1. /\ c.feed \in SimFeeds /\ c.version <= feedDefs[c.feed].version /\ c.version \in Nat
        /\ (c.version = feedDefs[c.feed].version /\ feedDefs[c.feed].sources \subseteq SimActors)
           => /\ DOMAIN c.heads = feedDefs[c.feed].sources
              /\ \A b \in feedDefs[c.feed].sources : c.heads[b] \in Nat /\ c.heads[b] <= Head1(b)
              /\ (\A b \in feedDefs[c.feed].sources : Head1(b) = c.heads[b])
                   => OverLogs(c.feed) = c.ids
    BY DEF RelaySimInv, Bounded
  <2>2. SUFFICES ASSUME c.version = feedDefs[c.feed].version,
                        feedDefs[c.feed].sources \subseteq SimActors
                 PROVE  /\ \A b \in feedDefs[c.feed].sources :
                             c.heads[b] \in Nat /\ c.heads[b] <= Head1(b)'
                        /\ (\A b \in feedDefs[c.feed].sources : Head1(b)' = c.heads[b])
                             => OverLogs(c.feed)' = c.ids
    BY <2>1
  <2>3. CASE a \in feedDefs[c.feed].sources
    <3>1. \A b \in feedDefs[c.feed].sources : c.heads[b] \in Nat /\ c.heads[b] <= Head1(b)'
      <4>1. TAKE b \in feedDefs[c.feed].sources
      <4>2. c.heads[b] \in Nat /\ c.heads[b] <= Head1(b)
        BY <2>1, <2>2
      <4>3. CASE b = a
        BY <4>2, <4>3, <1>3, <1>4
      <4>4. CASE b # a
        BY <4>2, <4>4, <1>2, <2>2
      <4>5. QED  BY <4>3, <4>4
    <3>2. Head1(a)' # c.heads[a]
      <4>1. c.heads[a] \in Nat /\ c.heads[a] <= Head1(a)
        BY <2>1, <2>2, <2>3
      <4>2. QED  BY <4>1, <1>3, <1>4
    <3>3. QED  BY <3>1, <3>2, <2>3
  <2>4. CASE a \notin feedDefs[c.feed].sources
    <3>1. feedDefs[c.feed].sources \subseteq SimActors \ {a}
      BY <2>2, <2>4
    <3>2. \A b \in feedDefs[c.feed].sources : Head1(b)' = Head1(b)
      BY <1>2, <3>1
    <3>3. QED  BY <2>1, <2>2, <3>1, <3>2, <1>7
  <2>5. QED  BY <2>3, <2>4
<1>9. Bounded'
  BY <1>5, <1>8 DEF Bounded
<1>10. QED
  BY <1>6, <1>9

\* Where nothing is said of follows and memberships, memory stays what is on record.
LEMMA AppendedMemory ==
  ASSUME RelaySimInv, NEW a \in SimActors, NEW ev \in Seq(SimEvents), AppendsTo(a, ev)
  PROVE  /\ \A b \in SimActors \ {a} : Whom(b)' = Whom(b) /\ Where(b)' = Where(b)
         /\ \A x : x \in Whom(a)' <=>
              x \in Whom(a) \/ \E n \in 1 .. Len(ev) : ev[n].type = "follow.add" /\ x = ev[n].data[1]
         /\ \A x : x \in Where(a)' <=>
              x \in Where(a) \/ \E n \in 1 .. Len(ev) : ev[n].type = "membership.add" /\ x = ev[n].data
<1>1. /\ \A b \in SimActors \ {a} : simLogs'[b] = simLogs[b]
      /\ EventsIn(simLogs'[a]) = EventsIn(simLogs[a]) \cup {ev[n] : n \in 1 .. Len(ev)}
  BY AppendedEvents
<1>2. \A b \in SimActors \ {a} : Whom(b)' = Whom(b) /\ Where(b)' = Where(b)
  BY <1>1 DEF Whom, Where
<1> DEFINE A == EventsIn(simLogs[a])  B == EventsIn(simLogs'[a])
<1>3. \A e : e \in B <=> e \in A \/ \E n \in 1 .. Len(ev) : e = ev[n]
  BY <1>1
<1>4. /\ \A x : x \in Whom(a) <=> \E e \in A : e.type = "follow.add" /\ x = e.data[1]
      /\ \A x : x \in Whom(a)' <=> \E e \in B : e.type = "follow.add" /\ x = e.data[1]
      /\ \A x : x \in Where(a) <=> \E e \in A : e.type = "membership.add" /\ x = e.data
      /\ \A x : x \in Where(a)' <=> \E e \in B : e.type = "membership.add" /\ x = e.data
  BY DEF Whom, Where
<1> HIDE DEF A, B
<1>5. \A x : x \in Whom(a)' <=>
        x \in Whom(a) \/ \E n \in 1 .. Len(ev) : ev[n].type = "follow.add" /\ x = ev[n].data[1]
  BY <1>3, <1>4
<1>6. \A x : x \in Where(a)' <=>
        x \in Where(a) \/ \E n \in 1 .. Len(ev) : ev[n].type = "membership.add" /\ x = ev[n].data
  BY <1>3, <1>4
<1>7. QED
  BY <1>2, <1>5, <1>6

\* One event of an actor, in its turn
LEMMA OneEvent ==
  ASSUME RelaySimInv, NEW a \in SimActors, NEW type \in SimTypes, NEW data \in SimData,
         type # "action.result", Turn(a, "post") \/ Turn(a, "follow") \/ Turn(a, "channel")
                                                 \/ Turn(a, "request"),
         AppendAll(a, <<SimEvent(a, type, data, 1, 0)>>),
         UNCHANGED <<turns, feedDefs>>
  PROVE  LET e == SimEvent(a, type, data, 1, 0) IN
         /\ simLogs' \in [SimActors -> Seq(SimEvents)]
         /\ Numbering' /\ Ordered' /\ Founded' /\ Bounded'
         /\ Logged' = Logged \cup {e}
         /\ e.id = Cardinality(Logged) + 1 /\ e.type = type /\ e.data = data
         /\ \A d \in Logged' : d.type = "action.result" => ActionValid(d)'
         /\ \A b \in SimActors \ {a} : Whom(b)' = Whom(b) /\ Where(b)' = Where(b)
         /\ Whom(a)' = IF type = "follow.add" THEN Whom(a) \cup {data[1]} ELSE Whom(a)
         /\ Where(a)' = IF type = "membership.add" THEN Where(a) \cup {data} ELSE Where(a)
         /\ Cardinality(Logged) + 1 \in 1 .. scenario.events
<1> DEFINE e == SimEvent(a, type, data, 1, 0)  ev == <<e>>
<1>1. Cardinality(Logged) \in Nat /\ tick \in Nat /\ scenario.events \in Nat
  BY FS_CardinalityType, RelaySimAssumption
     DEF RelaySimInv, Numbering, SimTyped, RelaySimAssumption
<1>2. /\ e \in SimEvents /\ e.id = Cardinality(Logged) + 1 /\ e.type = type /\ e.data = data
      /\ e.by = a /\ e.ts = 10 * tick
  BY <1>1 DEF SimEvent, SimEvents
<1> HIDE DEF e
<1>3. ev \in Seq(SimEvents) /\ Len(ev) = 1 /\ ev[1] = e
  BY <1>2
<1>4. a \notin turns /\ UNCHANGED <<scenario, tick, feedClaims>>
  BY DEF Turn
<1>5. AppendAll(a, ev)
  BY DEF e
<1> HIDE DEF ev
<1>6. AppendsTo(a, ev)
  BY <1>1, <1>2, <1>3, <1>4, <1>5 DEF AppendsTo
<1>7. /\ simLogs' \in [SimActors -> Seq(SimEvents)] /\ Logged' = Logged \cup EventsIn(ev)
      /\ EventsIn(ev) = {ev[n] : n \in 1 .. Len(ev)}
  BY <1>3, <1>6, AppendedEvents
<1>8. Logged' = Logged \cup {e}
  BY <1>3, <1>7
<1>9. Numbering' /\ Ordered' /\ Founded' /\ Bounded'
  BY <1>3, <1>6, AppendedNumbers, AppendedOrder, AppendedClaims
<1>10. \A d \in Logged' : d.type = "action.result" => ActionValid(d)'
  <2>1. TAKE d \in Logged'
  <2>2. HAVE d.type = "action.result"
  <2>3. d \in Logged
    BY <1>2, <1>8, <2>2
  <2>4. ActionValid(d)
    BY <2>2, <2>3 DEF RelaySimInv, RequestsKept
  <2>5. QED  BY <1>8, <2>4, AnsweredStays
<1>11. /\ \A b \in SimActors \ {a} : Whom(b)' = Whom(b) /\ Where(b)' = Where(b)
       /\ \A x : x \in Whom(a)' <=>
            x \in Whom(a) \/ \E n \in 1 .. Len(ev) : ev[n].type = "follow.add" /\ x = ev[n].data[1]
       /\ \A x : x \in Where(a)' <=>
            x \in Where(a) \/ \E n \in 1 .. Len(ev) : ev[n].type = "membership.add" /\ x = ev[n].data
  BY <1>3, <1>6, AppendedMemory
<1>12. /\ \A x : x \in Whom(a)' <=> x \in Whom(a) \/ (type = "follow.add" /\ x = data[1])
       /\ \A x : x \in Where(a)' <=> x \in Where(a) \/ (type = "membership.add" /\ x = data)
  BY <1>2, <1>3, <1>11
<1>13. /\ Whom(a)' = IF type = "follow.add" THEN Whom(a) \cup {data[1]} ELSE Whom(a)
       /\ Where(a)' = IF type = "membership.add" THEN Where(a) \cup {data} ELSE Where(a)
  <2>1. CASE type = "follow.add"
    BY <1>12, <2>1
  <2>2. CASE type = "membership.add"
    BY <1>12, <2>2
  <2>3. CASE type \notin {"follow.add", "membership.add"}
    BY <1>12, <2>3
  <2>4. QED  BY <2>1, <2>2, <2>3
<1>14. Cardinality(Logged) + 1 \in 1 .. scenario.events
  BY <1>1, <1>3, <1>5 DEF AppendAll
<1>15. QED
  BY <1>2, <1>7, <1>8, <1>9, <1>10, <1>11, <1>13, <1>14 DEF e

\* The types of events are told apart.
LEMMA SimTypesAre ==
  /\ {"post", "follow.add", "membership.add", "action.request"} \subseteq SimTypes
  /\ << >> \in SimData
  /\ \A x \in SimActors \cup SimActions : <<x>> \in SimData
  /\ \A c \in Chans : c \in SimData
  BY DEF SimTypes, SimData

\* A post or a reaction
LEMMA PostStep ==
  ASSUME RelaySimInv, NEW a \in SimActors, DoPost(a)
  PROVE  RelaySimInv'
<1>1. "post" \in SimTypes /\ << >> \in SimData
  BY SimTypesAre
<1>2. /\ Turn(a, "post") /\ AppendAll(a, <<SimEvent(a, "post", << >>, 1, 0)>>)
      /\ UNCHANGED <<turns, followed, joined, requests, members, feedDefs>>
  BY DEF DoPost
<1> DEFINE e == SimEvent(a, "post", << >>, 1, 0)
<1>3. /\ simLogs' \in [SimActors -> Seq(SimEvents)]
      /\ Numbering' /\ Ordered' /\ Founded' /\ Bounded'
      /\ Logged' = Logged \cup {e}
      /\ \A d \in Logged' : d.type = "action.result" => ActionValid(d)'
      /\ \A b \in SimActors \ {a} : Whom(b)' = Whom(b) /\ Where(b)' = Where(b)
      /\ Whom(a)' = Whom(a) /\ Where(a)' = Where(a)
  BY <1>1, <1>2, OneEvent
<1> HIDE DEF e
<1>4. UNCHANGED <<scenario, tick>>
  BY <1>2 DEF Turn
<1>5. SimTyped'
  BY <1>2, <1>3, <1>4 DEF RelaySimInv, SimTyped
<1>6. RequestsKept'
  BY <1>2, <1>3 DEF RelaySimInv, RequestsKept
<1>7. Remembering'
  BY <1>2, <1>3 DEF RelaySimInv, Remembering
<1>8. QED
  BY <1>3, <1>5, <1>6, <1>7 DEF RelaySimInv

\* A follow is remembered and logged in one step.
LEMMA FollowStep ==
  ASSUME RelaySimInv, NEW a \in SimActors, NEW b \in SimActors, DoFollow(a, b)
  PROVE  RelaySimInv'
<1>1. "follow.add" \in SimTypes /\ <<b>> \in SimData
  BY SimTypesAre
<1>2. /\ Turn(a, "follow") /\ AppendAll(a, <<SimEvent(a, "follow.add", <<b>>, 1, 0)>>)
      /\ followed' = [followed EXCEPT ![a] = @ \cup {b}]
      /\ UNCHANGED <<turns, joined, requests, members, feedDefs>>
  BY DEF DoFollow
<1> DEFINE e == SimEvent(a, "follow.add", <<b>>, 1, 0)  data == <<b>>
<1>3. /\ simLogs' \in [SimActors -> Seq(SimEvents)]
      /\ Numbering' /\ Ordered' /\ Founded' /\ Bounded'
      /\ Logged' = Logged \cup {e}
      /\ \A d \in Logged' : d.type = "action.result" => ActionValid(d)'
      /\ \A x \in SimActors \ {a} : Whom(x)' = Whom(x) /\ Where(x)' = Where(x)
      /\ Whom(a)' = Whom(a) \cup {data[1]} /\ Where(a)' = Where(a)
  BY <1>1, <1>2, OneEvent
<1> HIDE DEF e
<1>4. UNCHANGED <<scenario, tick>> /\ data[1] = b
  BY <1>2 DEF Turn
<1>5. SimTyped'
  BY <1>2, <1>3, <1>4 DEF RelaySimInv, SimTyped
<1>6. RequestsKept'
  BY <1>2, <1>3 DEF RelaySimInv, RequestsKept
<1>7. Remembering'
  BY <1>2, <1>3, <1>4 DEF RelaySimInv, Remembering, SimTyped
<1>8. QED
  BY <1>3, <1>5, <1>6, <1>7 DEF RelaySimInv

\* Channels: one is created by its owner, or joined
LEMMA ChannelStep ==
  ASSUME RelaySimInv, NEW a \in SimActors, NEW c \in Chans,
         DoCreateChannel(a, c) \/ DoJoinChannel(a, c)
  PROVE  RelaySimInv'
<1>1. "membership.add" \in SimTypes /\ c \in SimData
  BY SimTypesAre
<1>2. /\ Turn(a, "channel") /\ AppendAll(a, <<SimEvent(a, "membership.add", c, 1, 0)>>)
      /\ joined' = [joined EXCEPT ![a] = @ \cup {c}]
      /\ members' = [members EXCEPT ![c] = @ \cup {a}]
      /\ UNCHANGED <<turns, followed, requests, feedDefs>>
  BY DEF DoCreateChannel, DoJoinChannel, RelaySimInv, SimTyped
<1> DEFINE e == SimEvent(a, "membership.add", c, 1, 0)
<1>3. /\ simLogs' \in [SimActors -> Seq(SimEvents)]
      /\ Numbering' /\ Ordered' /\ Founded' /\ Bounded'
      /\ Logged' = Logged \cup {e}
      /\ \A d \in Logged' : d.type = "action.result" => ActionValid(d)'
      /\ \A b \in SimActors \ {a} : Whom(b)' = Whom(b) /\ Where(b)' = Where(b)
      /\ Whom(a)' = Whom(a) /\ Where(a)' = Where(a) \cup {c}
  BY <1>1, <1>2, OneEvent
<1> HIDE DEF e
<1>4. UNCHANGED <<scenario, tick>>
  BY <1>2 DEF Turn
<1>5. SimTyped'
  BY <1>2, <1>3, <1>4 DEF RelaySimInv, SimTyped
<1>6. RequestsKept'
  BY <1>2, <1>3 DEF RelaySimInv, RequestsKept
<1>7. Remembering'
  <2>1. /\ joined \in [SimActors -> SUBSET Chans] /\ members \in [Chans -> SUBSET SimActors]
        /\ followed' = followed
    BY <1>2 DEF RelaySimInv, SimTyped
  <2>2. ASSUME NEW b \in SimActors
        PROVE  /\ followed'[b] = Whom(b)'
               /\ joined'[b] = {d \in Chans : b \in members'[d]}
               /\ joined'[b] = Where(b)'
    <3>1. /\ followed[b] = Whom(b) /\ joined[b] = {d \in Chans : b \in members[d]}
          /\ joined[b] = Where(b)
      BY DEF RelaySimInv, Remembering
    <3>2. \A d \in Chans : b \in members'[d] <=> b \in members[d] \/ (b = a /\ d = c)
      BY <1>2, <2>1
    <3>3. joined'[b] = IF b = a THEN joined[b] \cup {c} ELSE joined[b]
      BY <1>2, <2>1
    <3>4. joined'[b] = {d \in Chans : b \in members'[d]}
      BY <3>1, <3>2, <3>3
    <3>5. QED  BY <1>3, <2>1, <3>1, <3>3, <3>4
  <2>3. QED  BY <2>2 DEF Remembering
<1>8. QED
  BY <1>3, <1>5, <1>6, <1>7 DEF RelaySimInv

\* Asking an agent for an action
LEMMA RequestStep ==
  ASSUME RelaySimInv, NEW u \in SimUsers, NEW a \in SimAgents, NEW x \in SimActions,
         DoActionRequest(u, a, x)
  PROVE  RelaySimInv'
<1>1. "action.request" \in SimTypes /\ <<x>> \in SimData /\ u \in SimActors
  BY SimTypesAre DEF SimActors
<1>2. /\ Turn(u, "request") /\ AppendAll(u, <<SimEvent(u, "action.request", <<x>>, 1, 0)>>)
      /\ requests' = [requests EXCEPT ![a] = Append(@, Cardinality(Logged) + 1)]
      /\ UNCHANGED <<turns, followed, joined, members, feedDefs>>
  BY DEF DoActionRequest
<1> DEFINE e == SimEvent(u, "action.request", <<x>>, 1, 0)  data == <<x>>  C == Cardinality(Logged)
<1>3. /\ simLogs' \in [SimActors -> Seq(SimEvents)]
      /\ Numbering' /\ Ordered' /\ Founded' /\ Bounded'
      /\ Logged' = Logged \cup {e}
      /\ e.id = C + 1 /\ e.type = "action.request" /\ e.data = data
      /\ \A d \in Logged' : d.type = "action.result" => ActionValid(d)'
      /\ \A b \in SimActors \ {u} : Whom(b)' = Whom(b) /\ Where(b)' = Where(b)
      /\ Whom(u)' = Whom(u) /\ Where(u)' = Where(u)
      /\ C + 1 \in 1 .. scenario.events
  BY <1>1, <1>2, OneEvent
<1> HIDE DEF e, C
<1>4. UNCHANGED <<scenario, tick>>
  BY <1>2 DEF Turn
<1>5. /\ requests \in [SimAgents -> Seq(1 .. scenario.events)]
      /\ requests' = [requests EXCEPT ![a] = Append(@, C + 1)]
  BY <1>2 DEF RelaySimInv, SimTyped, C
<1>6. SimTyped'
  <2>1. requests' \in [SimAgents -> Seq(1 .. scenario.events)]
    BY <1>3, <1>5
  <2>2. QED  BY <1>2, <1>3, <1>4, <2>1 DEF RelaySimInv, SimTyped
<1>7. RequestsKept'
  <2>1. ASSUME NEW b \in SimAgents, NEW n \in DOMAIN requests'[b]
        PROVE  \E d \in Logged' : /\ d.id = requests'[b][n] /\ d.type = "action.request"
                                  /\ \E y \in SimActions : d.data = <<y>>
    <3>1. CASE b = a /\ n = Len(requests[a]) + 1
      <4>1. requests'[b][n] = C + 1
        BY <3>1, <1>5, AppendProperties
      <4>2. QED  BY <4>1, <1>3
    <3>2. CASE ~(b = a /\ n = Len(requests[a]) + 1)
      <4>1. n \in DOMAIN requests[b] /\ requests'[b][n] = requests[b][n]
        BY <2>1, <3>2, <1>5, AppendProperties, LenProperties
      <4>2. PICK d \in Logged : /\ d.id = requests[b][n] /\ d.type = "action.request"
                                /\ \E y \in SimActions : d.data = <<y>>
        BY <4>1 DEF RelaySimInv, RequestsKept
      <4>3. d \in Logged'
        BY <1>3
      <4>4. QED  BY <4>1, <4>2, <4>3
    <3>3. QED  BY <3>1, <3>2
  <2>2. QED  BY <2>1, <1>3 DEF RequestsKept
<1>8. Remembering'
  BY <1>2, <1>3 DEF RelaySimInv, Remembering
<1>9. QED
  BY <1>3, <1>6, <1>7, <1>8 DEF RelaySimInv

\* An agent answers: the commitment it logs is to what was asked for.
LEMMA ProcessStep ==
  ASSUME RelaySimInv, NEW a \in SimAgents, NEW params \in {50, 100},
         ProcessActionRequest(a, params)
  PROVE  RelaySimInv'
<1> DEFINE id   == Head(requests[a])
           hash == Commitment(id, EventOf(id).data[1], params)
           e1 == SimEvent(a, "action.commit", <<id, hash, params>>, 1, 0)
           e2 == SimEvent(a, "post", << >>, 2, 1)
           e3 == SimEvent(a, "action.result", hash, 3, 2)
           ev == <<e1, e2, e3>>
<1>1. /\ Turn(a, "request") /\ requests[a] # << >>
      /\ AppendAll(a, ev)
      /\ requests' = [requests EXCEPT ![a] = Tail(@)]
      /\ turns' = turns \cup {a}
      /\ UNCHANGED <<followed, joined, members, feedDefs>>
  BY DEF ProcessActionRequest
<1>2. a \notin turns /\ UNCHANGED <<scenario, tick, feedClaims>> /\ a \in SimActors
  BY <1>1 DEF Turn, SimActors
<1>3. /\ requests \in [SimAgents -> Seq(1 .. scenario.events)]
      /\ tick \in Nat /\ Cardinality(Logged) \in Nat /\ scenario.events \in Nat
      /\ turns \subseteq SimAgents
  BY FS_CardinalityType, RelaySimAssumption
     DEF RelaySimInv, Numbering, SimTyped, RelaySimAssumption
<1>4. id = requests[a][1] /\ 1 \in DOMAIN requests[a] /\ id \in Nat
  BY <1>1, <1>3, HeadTailProperties, LenProperties, EmptySeq
<1>5. PICK r \in Logged : /\ r.id = id /\ r.type = "action.request"
                          /\ \E x \in SimActions : r.data = <<x>>
  BY <1>4 DEF RelaySimInv, RequestsKept
<1>6. EventOf(id) = r
  BY <1>5 DEF EventOf, RelaySimInv, Numbering
<1>7. PICK x \in SimActions : r.data = <<x>>
  BY <1>5
<1>8. hash = <<id, x, params>> /\ hash \in ActionHashes /\ r.data[1] = x
  BY <1>4, <1>6, <1>7 DEF Commitment, ActionHashes
<1> HIDE DEF hash, id
<1>9. /\ e1 \in SimEvents /\ e1.id = Cardinality(Logged) + 1 /\ e1.by = a
      /\ e1.ts = 10 * tick + 0 /\ e1.type = "action.commit" /\ e1.data = <<id, hash, params>>
  <2>1. <<id, hash, params>> \in SimData
    BY <1>4, <1>8 DEF SimData
  <2>2. QED  BY <1>2, <1>3, <2>1 DEF SimEvent, SimEvents, SimTypes
<1>10. /\ e2 \in SimEvents /\ e2.id = Cardinality(Logged) + 2 /\ e2.by = a
       /\ e2.ts = 10 * tick + 1 /\ e2.type = "post"
  BY <1>2, <1>3, SimTypesAre DEF SimEvent, SimEvents, SimTypes
<1>11. /\ e3 \in SimEvents /\ e3.id = Cardinality(Logged) + 3 /\ e3.by = a
       /\ e3.ts = 10 * tick + 2 /\ e3.type = "action.result" /\ e3.data = hash
  <2>1. hash \in SimData
    BY <1>8 DEF SimData
  <2>2. QED  BY <1>2, <1>3, <2>1 DEF SimEvent, SimEvents, SimTypes
<1> HIDE DEF e1, e2, e3
<1>12. ev \in Seq(SimEvents) /\ Len(ev) = 3 /\ ev[1] = e1 /\ ev[2] = e2 /\ ev[3] = e3
  BY <1>9, <1>10, <1>11
<1> HIDE DEF ev
<1>13. \A n \in 1 .. Len(ev) : n = 1 \/ n = 2 \/ n = 3
  BY <1>12
<1>14. AppendsTo(a, ev)
  <2>1. \A n \in 1 .. Len(ev) : /\ ev[n].id = Cardinality(Logged) + n /\ ev[n].by = a
                                /\ ev[n].ts = 10 * tick + (n - 1)
    BY <1>9, <1>10, <1>11, <1>12, <1>13
  <2>2. QED  BY <1>1, <1>2, <1>12, <2>1 DEF AppendsTo
<1>15. /\ simLogs' \in [SimActors -> Seq(SimEvents)] /\ Logged' = Logged \cup EventsIn(ev)
       /\ EventsIn(ev) = {ev[n] : n \in 1 .. Len(ev)}
  BY <1>2, <1>12, <1>14, AppendedEvents
<1>16. e1 \in Logged' /\ e3 \in Logged' /\ Logged \subseteq Logged'
       /\ \A d \in Logged' : d \in Logged \/ d = e1 \/ d = e2 \/ d = e3
  BY <1>12, <1>13, <1>15
<1>17. Numbering' /\ Ordered' /\ Founded' /\ Bounded'
  BY <1>1, <1>2, <1>12, <1>14, AppendedNumbers, AppendedOrder, AppendedClaims
<1>18. SimTyped'
  <2>1. requests' \in [SimAgents -> Seq(1 .. scenario.events)]
    BY <1>1, <1>3, HeadTailProperties
  <2>2. QED  BY <1>1, <1>2, <1>15, <2>1 DEF RelaySimInv, SimTyped
<1>19. RequestsKept'
  <2>1. ASSUME NEW b \in SimAgents, NEW n \in DOMAIN requests'[b]
        PROVE  \E d \in Logged' : /\ d.id = requests'[b][n] /\ d.type = "action.request"
                                  /\ \E y \in SimActions : d.data = <<y>>
    <3>1. \E m \in DOMAIN requests[b] : requests'[b][n] = requests[b][m]
      <4>1. CASE b = a
        <5>1. requests'[a] = Tail(requests[a])
          BY <1>1, <1>3
        <5>2. n + 1 \in DOMAIN requests[a] /\ Tail(requests[a])[n] = requests[a][n + 1]
          BY <1>1, <1>3, <2>1, <4>1, <5>1, HeadTailProperties, LenProperties
        <5>3. QED  BY <4>1, <5>1, <5>2
      <4>2. CASE b # a
        BY <1>1, <1>3, <2>1, <4>2
      <4>3. QED  BY <4>1, <4>2
    <3>2. PICK m \in DOMAIN requests[b] : requests'[b][n] = requests[b][m]
      BY <3>1
    <3>3. PICK d \in Logged : /\ d.id = requests[b][m] /\ d.type = "action.request"
                              /\ \E y \in SimActions : d.data = <<y>>
      BY <3>2 DEF RelaySimInv, RequestsKept
    <3>4. QED  BY <1>16, <3>2, <3>3
  <2>2. ASSUME NEW d \in Logged', d.type = "action.result" PROVE ActionValid(d)'
    <3>1. CASE d \in Logged
      <4>1. ActionValid(d)
        BY <2>2, <3>1 DEF RelaySimInv, RequestsKept
      <4>2. QED  BY <1>16, <4>1, AnsweredStays
    <3>2. CASE d \notin Logged
      <4>1. d = e3
        BY <1>9, <1>10, <1>16, <2>2, <3>2
      <4>2. e1.data[2] = hash /\ e1.data[1] = id /\ e1.data[3] = params
        BY <1>9
      <4>3. r \in Logged' /\ hash = Commitment(r.id, r.data[1], e1.data[3])
        BY <1>5, <1>8, <1>16, <4>2 DEF Commitment
      <4>4. QED  BY <1>5, <1>9, <1>11, <1>16, <4>1, <4>2, <4>3 DEF ActionValid
    <3>3. QED  BY <3>1, <3>2
  <2>3. QED  BY <2>1, <2>2 DEF RequestsKept
<1>20. Remembering'
  <2>1. /\ \A b \in SimActors \ {a} : Whom(b)' = Whom(b) /\ Where(b)' = Where(b)
        /\ \A y : y \in Whom(a)' <=> y \in Whom(a)
                    \/ \E n \in 1 .. Len(ev) : ev[n].type = "follow.add" /\ y = ev[n].data[1]
        /\ \A y : y \in Where(a)' <=> y \in Where(a)
                    \/ \E n \in 1 .. Len(ev) : ev[n].type = "membership.add" /\ y = ev[n].data
    BY <1>2, <1>12, <1>14, AppendedMemory
  <2>2. \A n \in 1 .. Len(ev) : ev[n].type # "follow.add" /\ ev[n].type # "membership.add"
    BY <1>9, <1>10, <1>11, <1>12, <1>13
  <2>3. Whom(a)' = Whom(a) /\ Where(a)' = Where(a)
    <3>1. \A y : y \in Whom(a)' <=> y \in Whom(a)
      BY <2>1, <2>2
    <3>2. \A y : y \in Where(a)' <=> y \in Where(a)
      BY <2>1, <2>2
    <3>3. QED  BY <3>1, <3>2
  <2>4. QED  BY <1>1, <1>2, <2>1, <2>3 DEF RelaySimInv, Remembering
<1>21. QED
  BY <1>17, <1>18, <1>19, <1>20 DEF RelaySimInv

\* A feed is defined anew: claims of what it was are void.
LEMMA DefineStep ==
  ASSUME RelaySimInv, NEW f \in SimFeeds, DoCreateFeed(f)
  PROVE  RelaySimInv'
<1>1. PICK def \in FeedDefs(f) : PutFeed(f, def)
  BY DEF DoCreateFeed
<1>2. /\ def.version \in Nat /\ def.version > feedDefs[f].version
      /\ def.sources \subseteq SimActors \/ (f > 1 /\ def.sources = {f - 1})
  <2>1. f \in Nat /\ f >= 1
    BY RelaySimAssumption, FS_CardinalityType DEF RelaySimAssumption
  <2>2. /\ def.version \in {1, 2}
        /\ def.sources \in IF f = 1 THEN {SimUsers, SimUsers \cup SimAgents} ELSE {{f - 1}}
    BY <1>1 DEF FeedDefs
  <2>3. QED  BY <1>1, <2>1, <2>2 DEF SimActors, PutFeed
<1>3. /\ \A g \in SimFeeds : g # f => feedDefs'[g] = feedDefs[g]
      /\ feedDefs'[f] = def /\ DOMAIN feedDefs' = SimFeeds
      /\ UNCHANGED <<scenario, tick, turns, simLogs, followed, joined, requests, members,
                     feedClaims>>
  BY <1>1 DEF PutFeed, RelaySimInv, SimTyped
<1>4. \A a : Head1(a)' = Head1(a)
  BY <1>3 DEF Head1
<1>5. Founded'
  BY <1>2, <1>3 DEF RelaySimInv, Founded
<1>6. Bounded'
  <2>1. ASSUME NEW c \in feedClaims
        PROVE  /\ c.feed \in SimFeeds /\ c.version <= feedDefs'[c.feed].version /\ c.version \in Nat
               /\ (c.version = feedDefs'[c.feed].version
                   /\ feedDefs'[c.feed].sources \subseteq SimActors)
                  => /\ DOMAIN c.heads = feedDefs'[c.feed].sources
                     /\ \A b \in feedDefs'[c.feed].sources : c.heads[b] \in Nat /\ c.heads[b] <= Head1(b)'
                     /\ (\A b \in feedDefs'[c.feed].sources : Head1(b)' = c.heads[b])
                          => OverLogs(c.feed)' = c.ids
    <3>1. /\ c.feed \in SimFeeds /\ c.version <= feedDefs[c.feed].version /\ c.version \in Nat
          /\ (c.version = feedDefs[c.feed].version /\ feedDefs[c.feed].sources \subseteq SimActors)
             => /\ DOMAIN c.heads = feedDefs[c.feed].sources
                /\ \A b \in feedDefs[c.feed].sources : c.heads[b] \in Nat /\ c.heads[b] <= Head1(b)
                /\ (\A b \in feedDefs[c.feed].sources : Head1(b) = c.heads[b])
                     => OverLogs(c.feed) = c.ids
      BY DEF RelaySimInv, Bounded
    <3>2. CASE c.feed = f
      <4>1. feedDefs[f].version \in Nat
        BY DEF RelaySimInv, Founded
      <4>2. c.version < def.version
        BY <1>2, <3>1, <3>2, <4>1
      <4>3. QED  BY <1>2, <1>3, <3>1, <3>2, <4>2
    <3>3. CASE c.feed # f
      <4>1. feedDefs'[c.feed] = feedDefs[c.feed]
        BY <1>3, <3>1, <3>3
      <4>2. OverLogs(c.feed)' = OverLogs(c.feed)
        BY <1>3, <4>1 DEF OverLogs
      <4>3. QED  BY <1>4, <3>1, <4>1, <4>2
    <3>4. QED  BY <3>2, <3>3
  <2>2. QED  BY <1>3, <2>1 DEF Bounded
<1>7. Logged' = Logged /\ \A b \in SimActors : Whom(b)' = Whom(b) /\ Where(b)' = Where(b)
  BY <1>3 DEF Logged, Whom, Where
<1>8. SimTyped' /\ Ordered'
  BY <1>3 DEF RelaySimInv, SimTyped, Ordered
<1>9. Numbering' /\ Remembering'
  BY <1>3, <1>7 DEF RelaySimInv, Numbering, Remembering
<1>10. RequestsKept'
  <2>1. \A e : ActionValid(e)' <=> ActionValid(e)
    BY <1>7 DEF ActionValid
  <2>2. QED  BY <1>3, <1>7, <2>1 DEF RelaySimInv, RequestsKept
<1>11. QED
  BY <1>5, <1>6, <1>8, <1>9, <1>10 DEF RelaySimInv

\* A reduction claims what the logs give now.
LEMMA ReduceStep ==
  ASSUME RelaySimInv, NEW f \in SimFeeds, TestFeedReduction(f)
  PROVE  RelaySimInv'
<1> DEFINE c == [feed |-> f, version |-> feedDefs[f].version, heads |-> SourceHeads(f),
                 ids |-> Reduced[f]]
<1>1. /\ feedClaims' = {c}
      /\ UNCHANGED <<scenario, tick, turns, simLogs, followed, joined, requests, members,
                     feedDefs>>
  BY DEF TestFeedReduction
<1>2. /\ c.feed = f /\ c.version = feedDefs[f].version /\ c.heads = SourceHeads(f)
      /\ c.ids = Reduced[f]
  OBVIOUS
<1> HIDE DEF c
<1>3. feedDefs[f].version \in Nat
  BY DEF RelaySimInv, Founded
<1>4. \A a \in SimActors : Head1(a) \in Nat
  <2>1. TAKE a \in SimActors
  <2>2. CASE simLogs[a] = << >>
    BY <2>2 DEF Head1
  <2>3. CASE simLogs[a] # << >>
    <3>1. simLogs[a] \in Seq(SimEvents) /\ Len(simLogs[a]) \in DOMAIN simLogs[a]
      BY <2>3, LenProperties, EmptySeq DEF RelaySimInv, SimTyped
    <3>2. Last(simLogs[a]) \in SimEvents
      BY <3>1, ElementOfSeq, LenProperties DEF Last
    <3>3. QED  BY <2>3, <3>2 DEF Head1, SimEvents
  <2>4. QED  BY <2>2, <2>3
<1>5. feedDefs[f].sources \subseteq SimActors =>
        /\ DOMAIN c.heads = feedDefs[f].sources
        /\ \A b \in feedDefs[f].sources : c.heads[b] = Head1(b) /\ c.heads[b] \in Nat
        /\ OverLogs(f) = c.ids
  <2>1. HAVE feedDefs[f].sources \subseteq SimActors
  <2>2. Founded
    BY DEF RelaySimInv
  <2>3. Reduced[f] = OverLogs(f)
    BY <2>1, <2>2, ReducedOverLogs
  <2>4. feedDefs[f].sources \cap SimActors = feedDefs[f].sources
    BY <2>1
  <2>5. c.heads = [a \in feedDefs[f].sources |-> Head1(a)]
    BY <1>2, <2>4 DEF SourceHeads
  <2>6. QED  BY <1>2, <1>4, <2>1, <2>3, <2>5
<1>6. Logged' = Logged /\ \A b \in SimActors : Whom(b)' = Whom(b) /\ Where(b)' = Where(b)
  BY <1>1 DEF Logged, Whom, Where
<1>7. Founded' /\ Ordered' /\ SimTyped' /\ Numbering' /\ Remembering'
  BY <1>1, <1>6 DEF RelaySimInv, Founded, Ordered, SimTyped, Numbering, Remembering
<1>8. RequestsKept'
  <2>1. \A e : ActionValid(e)' <=> ActionValid(e)
    BY <1>6 DEF ActionValid
  <2>2. QED  BY <1>1, <1>6, <2>1 DEF RelaySimInv, RequestsKept
<1>9. \A b : Head1(b)' = Head1(b)
  BY <1>1 DEF Head1
<1>10. OverLogs(f)' = OverLogs(f)
  BY <1>1 DEF OverLogs
<1>11. \A b \in SimActors : Head1(b) <= Head1(b)
  BY <1>4
<1>12. Bounded'
  BY <1>1, <1>2, <1>3, <1>5, <1>9, <1>10, <1>11 DEF Bounded
<1>13. QED
  BY <1>7, <1>8, <1>12 DEF RelaySimInv

\* Time goes on: who has had a turn has none before the next tick.
LEMMA TickStep1 ==
  ASSUME RelaySimInv, NextTick
  PROVE  RelaySimInv'
<1>1. /\ tick < MaxTicks /\ tick' = tick + 1 /\ turns' = {} /\ tick \in Nat /\ MaxTicks \in Nat
      /\ UNCHANGED <<scenario, simLogs, followed, joined, requests, members, feedDefs,
                     feedClaims>>
  BY RelaySimAssumption DEF NextTick, RelaySimAssumption, RelaySimInv, SimTyped
<1>2. Logged' = Logged /\ \A b \in SimActors : Whom(b)' = Whom(b) /\ Where(b)' = Where(b)
  BY <1>1 DEF Logged, Whom, Where
<1>3. Founded' /\ SimTyped' /\ Numbering' /\ Remembering'
  BY <1>1, <1>2 DEF RelaySimInv, Founded, SimTyped, Numbering, Remembering
<1>4. Ordered'
  <2>1. \A a \in SimActors : \A n \in DOMAIN simLogs[a] : simLogs[a][n].ts \in Nat
    <3>1. \A a \in SimActors : \A n \in DOMAIN simLogs[a] : simLogs[a][n] \in SimEvents
      BY ElementOfSeq, LenProperties DEF RelaySimInv, SimTyped
    <3>2. QED  BY <3>1 DEF SimEvents
  <2>2. ASSUME NEW a \in SimActors, NEW n \in DOMAIN simLogs[a]
        PROVE  simLogs[a][n].ts <= 10 * tick'
    BY <1>1, <2>1 DEF RelaySimInv, Ordered
  <2>3. ASSUME NEW a \in SimActors, NEW n \in DOMAIN simLogs[a]
        PROVE  simLogs[a][n].ts <= 10 * tick' + 2
    BY <1>1, <2>1, <2>2
  <2>4. QED  BY <1>1, <2>2, <2>3 DEF RelaySimInv, Ordered
<1>5. RequestsKept'
  <2>1. \A e : ActionValid(e)' <=> ActionValid(e)
    BY <1>2 DEF ActionValid
  <2>2. QED  BY <1>1, <1>2, <2>1 DEF RelaySimInv, RequestsKept
<1>6. Bounded'
  <2>1. (\A a : Head1(a)' = Head1(a)) /\ \A f : OverLogs(f)' = OverLogs(f)
    BY <1>1 DEF Head1, OverLogs
  <2>2. QED  BY <1>1, <2>1 DEF RelaySimInv, Bounded
<1>7. QED
  BY <1>3, <1>4, <1>5, <1>6 DEF RelaySimInv

\* At the start logs are empty, and so are claims.
LEMMA RelaySimInitHolds == RelaySimInit => RelaySimInv
<1> SUFFICES ASSUME RelaySimInit PROVE RelaySimInv
  OBVIOUS
<1> USE DEF RelaySimInit
<1>1. \A a \in SimActors : EventsIn(simLogs[a]) = {}
  BY DEF EventsIn
<1>2. Logged = {}
  BY <1>1 DEF Logged
<1>3. scenario.events \in Nat /\ MaxTicks \in Nat
  BY RelaySimAssumption DEF RelaySimAssumption
<1>4. SimTyped
  BY <1>3 DEF SimTyped
<1>5. Numbering
  BY <1>1, <1>2, <1>3, FS_EmptySet DEF Numbering
<1>6. Ordered
  BY DEF Ordered
<1>7. RequestsKept
  BY <1>2 DEF RequestsKept
<1>8. \A a \in SimActors : Whom(a) = {} /\ Where(a) = {}
  BY <1>1 DEF Whom, Where
<1>9. Remembering
  BY <1>8 DEF Remembering
<1>10. Founded /\ Bounded
  BY DEF Founded, Bounded, NoDef
<1>11. QED
  BY <1>4, <1>5, <1>6, <1>7, <1>9, <1>10 DEF RelaySimInv

\* Every step keeps the invariant.
LEMMA RelaySimStep ==
  ASSUME RelaySimInv, [RelaySimNext]_relaySimVars
  PROVE  RelaySimInv'
<1>1. CASE RelaySimNext
  BY <1>1, PostStep, FollowStep, ChannelStep, RequestStep, ProcessStep, DefineStep, ReduceStep,
     TickStep1 DEF RelaySimNext
<1>2. CASE UNCHANGED relaySimVars
  <2>1. UNCHANGED <<scenario, tick, turns, simLogs, followed, joined, requests, members,
                    feedDefs, feedClaims>>
    BY <1>2 DEF relaySimVars
  <2>2. Logged' = Logged /\ \A b \in SimActors : Whom(b)' = Whom(b) /\ Where(b)' = Where(b)
    BY <2>1 DEF Logged, Whom, Where
  <2>3. Founded' /\ Ordered' /\ SimTyped' /\ Numbering' /\ Remembering'
    BY <2>1, <2>2 DEF RelaySimInv, Founded, Ordered, SimTyped, Numbering, Remembering
  <2>4. \A e : ActionValid(e)' <=> ActionValid(e)
    BY <2>2 DEF ActionValid
  <2>5. RequestsKept'
    BY <2>1, <2>2, <2>4 DEF RelaySimInv, RequestsKept
  <2>6. Bounded'
    <3>1. (\A a : Head1(a)' = Head1(a)) /\ \A f : OverLogs(f)' = OverLogs(f)
      BY <2>1 DEF Head1, OverLogs
    <3>2. QED  BY <2>1, <3>1 DEF RelaySimInv, Bounded
  <2>7. QED  BY <2>3, <2>5, <2>6 DEF RelaySimInv
<1>3. QED
  BY <1>1, <1>2

\* What the invariant says of the properties
LEMMA RelaySimInvSays ==
  RelaySimInv => RelaySimTypeOK /\ ActionsVerify /\ ActorsRemember /\ FeedsRecompute
<1> SUFFICES ASSUME RelaySimInv
             PROVE  RelaySimTypeOK /\ ActionsVerify /\ ActorsRemember /\ FeedsRecompute
  OBVIOUS
<1>1. SimTyped /\ Numbering /\ Ordered /\ RequestsKept /\ Remembering /\ Founded /\ Bounded
  BY DEF RelaySimInv
<1>2. RelaySimTypeOK
  <2>1. scenario.events \in Nat /\ Cardinality(Logged) \in 0 .. scenario.events
    BY <1>1, RelaySimAssumption DEF SimTyped, Numbering, RelaySimAssumption
  <2>2. \A a \in SimActors : \A e \in EventsIn(simLogs[a]) :
          e.by = a /\ e.id \in 1 .. scenario.events
    <3>1. \A a \in SimActors : \A e \in EventsIn(simLogs[a]) : e \in Logged
      BY DEF Logged
    <3>2. QED  BY <1>1, <2>1, <3>1 DEF Numbering
  <2>3. QED  BY <1>1, <2>2 DEF SimTyped, Founded, RelaySimTypeOK
<1>3. ActionsVerify
  BY <1>1 DEF ActionsVerify, RequestsKept, Ordered
<1>4. ActorsRemember
  BY <1>1 DEF ActorsRemember, Remembering, Whom, Where
<1>5. FeedsRecompute
  <2> SUFFICES ASSUME NEW c \in feedClaims, feedDefs[c.feed].version = c.version,
                      feedDefs[c.feed].sources \subseteq SimActors, SourceHeads(c.feed) = c.heads
               PROVE  Reduced[c.feed] = c.ids
    BY DEF FeedsRecompute
  <2>1. c.feed \in SimFeeds
    BY <1>1 DEF Bounded
  <2>2. \A a \in feedDefs[c.feed].sources : Head1(a) = c.heads[a]
    <3>1. SourceHeads(c.feed) = [a \in feedDefs[c.feed].sources \cap SimActors |-> Head1(a)]
      BY DEF SourceHeads
    <3>2. QED  BY <3>1
  <2>3. OverLogs(c.feed) = c.ids
    BY <1>1, <2>1, <2>2 DEF Bounded
  <2>4. QED  BY <1>1, <2>1, <2>3, ReducedOverLogs
<1>6. QED
  BY <1>2, <1>3, <1>4, <1>5

-----------------------------------------------------------------------------
(***************************************************************************)
(* The views of Relay v2. The range of a claim ends at a time that is      *)
(* over, so that what is logged from now on is outside it, and what views  *)
(* collect of each other is defined by the logs alone: a view is over the  *)
(* actors or over a view that was there before it.                         *)
(***************************************************************************)
\* The first entries of a log, and the entries as long as nothing is engaged with
Foremost(S) == {e \in S : Cardinality({d \in S : Before(d, e)}) < PerLog}
PlainEntry(e) == [id |-> e, at |-> stamp[e], engaged |-> 0]
Entries == [id : Nat, at : Nat, engaged : Nat]

\* The last of them that are an event
LastAt(S, x) == {e \in Foremost(S) : \A d \in Foremost(S) : d.id = x => ~Before(d, e)}

\* The types
ViewTyped ==
  /\ doing \in ViewScenarios
  /\ viewTick \in 1 .. MaxViewTicks
  /\ settled \in BOOLEAN
  /\ byActor \in [Actors2 -> Seq(EventIds)]
  /\ stamp \in [EventIds -> 0 .. MaxViewTicks]
  /\ following2 \in [Actors2 -> SUBSET Actors2]
  /\ follows \subseteq Actors2 \X Actors2 \X EventIds
  /\ DOMAIN viewDefs = Views
  /\ subscribed \in [Actors2 -> SUBSET Views]

\* What is logged was made by now, and nobody attests reactions.
LoggedByNow ==
  /\ \A a \in Actors2 : /\ IsFiniteSet(ToSet(byActor[a]))
                        /\ \A e \in ToSet(byActor[a]) : stamp[e] \in 1 .. viewTick
  /\ \A t \in attested : t[2] # "reaction"

\* A view is over the actors or over one view that was there before.
ViewsFounded ==
  \A v \in Views :
    \/ viewDefs[v] = NoView
    \/ /\ viewDefs[v].version = 1 /\ viewDefs[v].reduce \in Orders
       /\ \/ viewDefs[v].sources = Actors2
          \/ \E w \in Views : w # v /\ viewDefs[w] # NoView /\ viewDefs[v].sources = {w}

\* What a view has of its sources, of what the logs and the views give
Gathered(collected, base, v) ==
  UNION {IF s \in Actors2 THEN base[s] ELSE collected[s] : s \in viewDefs[v].sources}

\* Whatever the logs give, what views collect is defined, and by that alone.
Solvable == \A base : \E f : f = [v \in Views |-> Gathered(f, base, v)]
Gathers(f, base) == \A v \in Views : viewDefs[v] # NoView => f[v] = Gathered(f, base, v)
Determined ==
  \A base, f, g : Gathers(f, base) /\ Gathers(g, base) =>
    \A v \in Views : viewDefs[v] # NoView => f[v] = g[v]

\* The range of a claim ends at a time that is over.
EndsBy(ranges, t) ==
  \/ ranges = [a \in Actors2 |-> <<"to_ts", t>>]
  \/ \E x \in [Actors2 -> EventIds] :
       /\ ranges = [a \in Actors2 |-> <<"to_id", x[a]>>]
       /\ \A a \in Actors2 : x[a] \in ToSet(byActor[a]) /\ stamp[x[a]] <= t

ClaimsEnd ==
  \A c \in viewClaims :
    /\ c.view \in Views /\ viewDefs[c.view] # NoView
    /\ \E t \in 1 .. viewTick : /\ settled \/ t < viewTick
                                /\ EndsBy(c.ranges, t)

\* The inductive invariant of the views
ViewSimInv ==
  /\ ViewTyped /\ LoggedByNow /\ ViewsFounded /\ Solvable /\ Determined /\ ClaimsEnd
  /\ ViewsRecompute /\ SubscribersRemember

-----------------------------------------------------------------------------
\* What the entries of an actor are while nothing is engaged with
LogIs(a) ==
  /\ EntriesOf(a) = {PlainEntry(e) : e \in ToSet(byActor[a])}
  /\ EntriesOf(a) \subseteq Entries
  /\ IsFiniteSet(EntriesOf(a))
  /\ ActorLog(a) = Foremost(EntriesOf(a))
  /\ \A d, e \in EntriesOf(a) : d.id = e.id => d = e
  /\ \A t : InRange(a, <<"to_ts", t>>) = {e \in Foremost(EntriesOf(a)) : e.at <= t}
  /\ \A x : InRange(a, <<"to_id", x>>) = LastAt(EntriesOf(a), x)
  /\ \A r : InRange(a, r) = IF r[1] = "to_ts"
                             THEN {e \in Foremost(EntriesOf(a)) : e.at <= r[2]}
                             ELSE LastAt(EntriesOf(a), r[2])

LogsAre == \A a \in Actors2 : LogIs(a)

\* They are that, as nobody attests reactions.
LEMMA EntriesAre == ViewTyped /\ LoggedByNow => LogsAre
<1> SUFFICES ASSUME ViewTyped, LoggedByNow, NEW a \in Actors2 PROVE LogIs(a)
  BY DEF LogsAre
<1> DEFINE S == ToSet(byActor[a])
<1>1. \A e : EntryOf(e) = PlainEntry(e)
  <2>1. TAKE e
  <2>2. {t \in attested : t[2] = "reaction" /\ t[3] = e} = {}
    BY DEF LoggedByNow
  <2>3. Engagement(e) = 0
    BY <2>2, FS_EmptySet DEF Engagement
  <2>4. QED  BY <2>3 DEF EntryOf, PlainEntry
<1>2. EntriesOf(a) = {PlainEntry(e) : e \in S}
  BY <1>1 DEF EntriesOf
<1>3. S \subseteq EventIds /\ IsFiniteSet(S)
  BY DEF ViewTyped, LoggedByNow, ToSet
<1>4. \A e \in S : e \in Nat /\ stamp[e] \in Nat
  <2>1. stamp \in [EventIds -> 0 .. MaxViewTicks] /\ EventIds \subseteq Nat
    BY ViewSimAssumption DEF ViewSimAssumption, ViewTyped
  <2>2. MaxViewTicks \in Nat
    BY ViewSimAssumption DEF ViewSimAssumption
  <2>3. ASSUME NEW e \in S PROVE e \in Nat /\ stamp[e] \in Nat
    <3>1. e \in EventIds
      BY <1>3
    <3>2. stamp[e] \in 0 .. MaxViewTicks
      BY <2>1, <3>1
    <3>3. QED  BY <2>1, <2>2, <3>1, <3>2
  <2>4. QED  BY <2>3
<1>5. {PlainEntry(e) : e \in S} \subseteq Entries
  BY <1>4 DEF PlainEntry, Entries
<1>6. IsFiniteSet({PlainEntry(e) : e \in S})
  <2> DEFINE f == [e \in S |-> PlainEntry(e)]
             T == {PlainEntry(e) : e \in S}
  <2>1. f \in Surjection(S, T)
    BY DEF Surjection
  <2>2. QED  BY <2>1, <1>3, FS_Surjection
<1>7. \A d, e \in {PlainEntry(x) : x \in S} : d.id = e.id => d = e
  BY DEF PlainEntry
<1>8. ActorLog(a) = Foremost(EntriesOf(a))
  BY DEF ActorLog, Foremost
<1>9. /\ \A t : InRange(a, <<"to_ts", t>>) = {e \in Foremost(EntriesOf(a)) : e.at <= t}
      /\ \A x : InRange(a, <<"to_id", x>>) = LastAt(EntriesOf(a), x)
      /\ \A r : InRange(a, r) = IF r[1] = "to_ts"
                                 THEN {e \in Foremost(EntriesOf(a)) : e.at <= r[2]}
                                 ELSE LastAt(EntriesOf(a), r[2])
  BY <1>8 DEF InRange, LastAt
<1>10. QED
  BY <1>2, <1>5, <1>6, <1>7, <1>8, <1>9 DEF LogIs

\* The end of a range is an event of the log, within what is fetched or beyond it.
LEMMA EndIs ==
  ASSUME NEW S \in SUBSET Entries, IsFiniteSet(S), NEW x \in S,
         \A d, e \in S : d.id = e.id => d = e
  PROVE  LastAt(S, x.id) = {e \in Foremost(S) : ~Before(x, e)}
<1>1. ASSUME NEW e \in Foremost(S), ~Before(x, e), NEW d \in Foremost(S), d.id = x.id
      PROVE  ~Before(d, e)
  <2>1. d = x  BY <1>1 DEF Foremost
  <2>2. QED  BY <1>1, <2>1
<1>2. ASSUME NEW e \in Foremost(S), Before(x, e),
             \A d \in Foremost(S) : d.id = x.id => ~Before(d, e)
      PROVE  FALSE
  <2> DEFINE P(y) == {d \in S : Before(d, y)}
  <2>1. x \notin Foremost(S)
    BY <1>2
  <2>2. P(x) \subseteq P(e)
    BY <1>2 DEF Before, Entries, Foremost
  <2>3. IsFiniteSet(P(e)) /\ IsFiniteSet(P(x))
    BY FS_Subset
  <2>4. Cardinality(P(x)) <= Cardinality(P(e))
    BY <2>2, <2>3, FS_Subset
  <2>5. Cardinality(P(x)) \in Nat /\ Cardinality(P(e)) \in Nat
    BY <2>3, FS_CardinalityType
  <2>6. Cardinality(P(e)) < PerLog /\ ~(Cardinality(P(x)) < PerLog)
    BY <2>1 DEF Foremost
  <2>7. PerLog \in Nat
    BY ViewSimAssumption DEF ViewSimAssumption
  <2>8. QED  BY <2>4, <2>5, <2>6, <2>7
<1>3. QED
  BY <1>1, <1>2 DEF LastAt

\* What is appended after t leaves what a range up to t, or up to an event by then,
\* has of a log.
LEMMA RangeStays ==
  ASSUME NEW S \in SUBSET Entries, NEW S2 \in SUBSET Entries, IsFiniteSet(S2), S \subseteq S2,
         \A d, e \in S2 : d.id = e.id => d = e,
         NEW t \in Nat, \A e \in S2 \ S : e.at > t
  PROVE  /\ {e \in Foremost(S) : e.at <= t} = {e \in Foremost(S2) : e.at <= t}
         /\ \A x \in S : x.at <= t => LastAt(S, x.id) = LastAt(S2, x.id)
<1>1. ASSUME NEW e \in S2, e.at <= t PROVE e \in Foremost(S) <=> e \in Foremost(S2)
  <2>1. e \in S
    BY <1>1 DEF Entries
  <2>2. {d \in S : Before(d, e)} = {d \in S2 : Before(d, e)}
    BY <1>1 DEF Before, Entries
  <2>3. QED  BY <2>1, <2>2 DEF Foremost
<1>2. {e \in Foremost(S) : e.at <= t} = {e \in Foremost(S2) : e.at <= t}
  BY <1>1 DEF Foremost
<1>3. ASSUME NEW x \in S, x.at <= t PROVE LastAt(S, x.id) = LastAt(S2, x.id)
  <2>1. IsFiniteSet(S)
    BY FS_Subset
  <2>2. LastAt(S, x.id) = {e \in Foremost(S) : ~Before(x, e)}
    BY <2>1, EndIs
  <2>3. LastAt(S2, x.id) = {e \in Foremost(S2) : ~Before(x, e)}
    BY EndIs
  <2>4. \A e \in S2 : ~Before(x, e) => e.at <= t
    BY <1>3 DEF Before, Entries
  <2>5. QED  BY <1>1, <2>2, <2>3, <2>4 DEF Foremost
<1>4. QED  BY <1>2, <1>3

\* Views that are founded do collect, and what they collect is determined.
Collecting == \A R : Gathers(Collected(R), [a \in Actors2 |-> InRange(a, R[a])])

\* What is defined to be collected is collected.
LEMMA CollectedIs == Solvable => Collecting
<1> SUFFICES ASSUME Solvable, NEW R
             PROVE  Gathers(Collected(R), [a \in Actors2 |-> InRange(a, R[a])])
  BY DEF Collecting
<1> DEFINE base == [a \in Actors2 |-> InRange(a, R[a])]
<1>1. \A f : \A v : Sources(f, v, R) = Gathered(f, base, v)
  BY DEF Sources, Gathered
<1>2. PICK f : f = [v \in Views |-> Gathered(f, base, v)]
  BY DEF Solvable
<1>3. f = [v \in Views |-> Sources(f, v, R)]
  BY <1>1, <1>2
<1>4. Collected(R) = [v \in Views |-> Sources(Collected(R), v, R)]
  BY <1>3 DEF Collected
<1>5. QED
  BY <1>1, <1>4 DEF Gathers

\* A claim stands as long as the ranges and the views that are defined do.
LEMMA ClaimStands ==
  ASSUME Solvable, Solvable', Determined, NEW v \in Views, viewDefs[v] # NoView, NEW R,
         \A a \in Actors2 : InRange(a, R[a])' = InRange(a, R[a]),
         \A w \in Views : viewDefs[w] # NoView => viewDefs'[w] = viewDefs[w]
  PROVE  Execute(v, R)' = Execute(v, R)
<1> DEFINE base == [a \in Actors2 |-> InRange(a, R[a])]
           f == Collected(R)
           g == Collected(R)'
<1>1. Gathers(f, base)
  BY CollectedIs DEF Collecting
<1>2. (Solvable => Collecting)'
  BY CollectedIs, PTL
<1>3. Gathers(Collected(R), [a \in Actors2 |-> InRange(a, R[a])])'
  BY <1>2 DEF Collecting
<1>4. [a \in Actors2 |-> InRange(a, R[a])]' = base
  OBVIOUS
<1>5. ASSUME NEW w \in Views, viewDefs[w] # NoView PROVE g[w] = Gathered(g, base, w)
  <2>1. viewDefs'[w] = viewDefs[w]
    BY <1>5
  <2>2. g[w] = UNION {IF s \in Actors2 THEN base[s] ELSE g[s] : s \in viewDefs'[w].sources}
    BY <1>3, <1>4, <1>5, <2>1 DEF Gathers, Gathered
  <2>3. QED  BY <2>1, <2>2 DEF Gathered
<1>6. f[v] = g[v]
  <2>1. Gathers(g, base)
    BY <1>5 DEF Gathers
  <2>2. QED  BY <1>1, <2>1 DEF Determined
<1>7. QED  BY <1>6 DEF Execute

\* Where no log changes, claims stand as time goes on.
LEMMA ClaimsKept ==
  ASSUME ViewSimInv, ViewTyped', LoggedByNow', Solvable',
         UNCHANGED <<byActor, stamp, viewClaims>>,
         \A w \in Views : viewDefs[w] # NoView => viewDefs'[w] = viewDefs[w],
         viewTick <= viewTick', settled => settled' \/ viewTick < viewTick',
         ~settled => viewTick' = viewTick
  PROVE  ClaimsEnd' /\ ViewsRecompute'
<1>1. LogsAre /\ LogsAre'
  <2>1. (ViewTyped /\ LoggedByNow => LogsAre)'
    BY EntriesAre, PTL
  <2>2. QED  BY <2>1, EntriesAre DEF ViewSimInv
<1>2. ASSUME NEW a \in Actors2, NEW r PROVE InRange(a, r)' = InRange(a, r)
  <2>1. EntriesOf(a)' = EntriesOf(a)
    BY <1>1 DEF LogsAre, LogIs, PlainEntry
  <2>2. InRange(a, r) = IF r[1] = "to_ts"
                          THEN {e \in Foremost(EntriesOf(a)) : e.at <= r[2]}
                          ELSE LastAt(EntriesOf(a), r[2])
    BY <1>1 DEF LogsAre, LogIs
  <2>3. InRange(a, r)' = IF r[1] = "to_ts"
                           THEN {e \in Foremost(EntriesOf(a)') : e.at <= r[2]}
                           ELSE LastAt(EntriesOf(a)', r[2])
    BY <1>1 DEF LogsAre, LogIs
  <2>4. QED  BY <2>1, <2>2, <2>3
<1>3. ViewsRecompute'
  <2>1. ASSUME NEW c \in viewClaims PROVE Execute(c.view, c.ranges)' = c.items
    <3>1. c.view \in Views /\ viewDefs[c.view] # NoView
      BY <2>1 DEF ViewSimInv, ClaimsEnd
    <3>2. Execute(c.view, c.ranges)' = Execute(c.view, c.ranges)
      BY <1>2, <3>1, ClaimStands DEF ViewSimInv
    <3>3. QED  BY <2>1, <3>2 DEF ViewSimInv, ViewsRecompute
  <2>2. QED  BY <2>1 DEF ViewsRecompute
<1>4. ClaimsEnd'
  <2>1. ASSUME NEW c \in viewClaims
        PROVE  /\ c.view \in Views /\ viewDefs'[c.view] # NoView
               /\ \E t \in 1 .. viewTick' : /\ settled' \/ t < viewTick'
                                            /\ EndsBy(c.ranges, t)'
    <3>1. PICK t \in 1 .. viewTick : (settled \/ t < viewTick) /\ EndsBy(c.ranges, t)
      BY <2>1 DEF ViewSimInv, ClaimsEnd
    <3>2. EndsBy(c.ranges, t)'
      BY <3>1 DEF EndsBy
    <3>3. viewTick \in Nat /\ viewTick' \in Nat
      BY ViewSimAssumption DEF ViewSimAssumption, ViewSimInv, ViewTyped
    <3>4. t \in 1 .. viewTick' /\ (settled' \/ t < viewTick')
      BY <3>1, <3>3
    <3>5. c.view \in Views /\ viewDefs[c.view] # NoView
      BY <2>1 DEF ViewSimInv, ClaimsEnd
    <3>6. QED  BY <3>2, <3>4, <3>5
  <2>2. QED  BY <2>1 DEF ClaimsEnd
<1>5. QED  BY <1>3, <1>4

\* What an append does to the logs, the claims and what they end by
LEMMA AppendStep ==
  ASSUME ViewSimInv, NEW a \in Actors2, NEW e \in EventIds, AppendEvent(a, e), ~settled,
         UNCHANGED <<doing, viewTick, settled, viewClaims, viewDefs, attested>>
  PROVE  /\ byActor' \in [Actors2 -> Seq(EventIds)] /\ stamp' \in [EventIds -> 0 .. MaxViewTicks]
         /\ LoggedByNow'
         /\ ViewTyped' => ClaimsEnd' /\ ViewsRecompute'
<1>1. /\ byActor \in [Actors2 -> Seq(EventIds)] /\ stamp \in [EventIds -> 0 .. MaxViewTicks]
      /\ viewTick \in 1 .. MaxViewTicks /\ viewTick \in Nat
  BY ViewSimAssumption DEF ViewSimAssumption, ViewSimInv, ViewTyped
<1>2. /\ byActor' = [byActor EXCEPT ![a] = Append(@, e)]
      /\ stamp' = [stamp EXCEPT ![e] = viewTick]
      /\ stamp[e] = 0
  BY <1>1 DEF AppendEvent, Made
<1>3. byActor' \in [Actors2 -> Seq(EventIds)] /\ stamp' \in [EventIds -> 0 .. MaxViewTicks]
  BY <1>1, <1>2, AppendProperties
<1>4. /\ ToSet(byActor'[a]) = ToSet(byActor[a]) \cup {e}
      /\ \A b \in Actors2 \ {a} : byActor'[b] = byActor[b]
  <2>1. byActor[a] \in Seq(EventIds) /\ byActor'[a] = Append(byActor[a], e)
    BY <1>1, <1>2
  <2>2. ToSet(Append(byActor[a], e)) = ToSet(byActor[a]) \cup {e}
    BY <2>1, AppendProperties DEF ToSet
  <2>3. QED  BY <1>1, <1>2, <2>1, <2>2
<1>5. \A b \in Actors2 : /\ ToSet(byActor[b]) \subseteq EventIds
                         /\ e \notin ToSet(byActor[b])
                         /\ \A d \in ToSet(byActor[b]) : stamp'[d] = stamp[d]
  <2>1. TAKE b \in Actors2
  <2>2. ToSet(byActor[b]) \subseteq EventIds
    BY <1>1 DEF ToSet
  <2>3. e \notin ToSet(byActor[b])
    BY <1>2 DEF ViewSimInv, LoggedByNow
  <2>4. QED  BY <1>1, <1>2, <2>2, <2>3
<1>6. LoggedByNow'
  <2>1. ASSUME NEW b \in Actors2
        PROVE  IsFiniteSet(ToSet(byActor'[b]))
               /\ \A d \in ToSet(byActor'[b]) : stamp'[d] \in 1 .. viewTick
    <3>1. CASE b = a
      <4>1. IsFiniteSet(ToSet(byActor[a]) \cup {e})
        BY FS_AddElement DEF ViewSimInv, LoggedByNow
      <4>2. stamp'[e] = viewTick /\ viewTick \in 1 .. viewTick
        BY <1>1, <1>2
      <4>3. QED  BY <3>1, <4>1, <4>2, <1>4, <1>5 DEF ViewSimInv, LoggedByNow
    <3>2. CASE b # a
      BY <3>2, <1>4, <1>5 DEF ViewSimInv, LoggedByNow
    <3>3. QED  BY <3>1, <3>2
  <2>2. QED  BY <2>1 DEF LoggedByNow, ViewSimInv
<1>7. ASSUME ViewTyped' PROVE ClaimsEnd' /\ ViewsRecompute'
  <2>1. LogsAre /\ LogsAre'
    <3>1. (ViewTyped /\ LoggedByNow => LogsAre)'
      BY EntriesAre, PTL
    <3>2. QED  BY <3>1, <1>6, <1>7, EntriesAre DEF ViewSimInv
  <2>2. ASSUME NEW b \in Actors2, NEW t \in Nat, t < viewTick
        PROVE  /\ EntriesOf(b) \in SUBSET Entries /\ EntriesOf(b)' \in SUBSET Entries
               /\ IsFiniteSet(EntriesOf(b)') /\ EntriesOf(b) \subseteq EntriesOf(b)'
               /\ \A d, x \in EntriesOf(b)' : d.id = x.id => d = x
               /\ \A x \in EntriesOf(b)' \ EntriesOf(b) : x.at > t
    <3>1. \A d \in ToSet(byActor[b]) : PlainEntry(d)' = PlainEntry(d)
      BY <1>5 DEF PlainEntry
    <3>2. ToSet(byActor[b]) \subseteq ToSet(byActor'[b])
      BY <1>4
    <3>3. EntriesOf(b)' = {PlainEntry(d)' : d \in ToSet(byActor'[b])}
      BY <2>1 DEF LogsAre, LogIs
    <3>4. EntriesOf(b) = {PlainEntry(d) : d \in ToSet(byActor[b])}
      BY <2>1 DEF LogsAre, LogIs
    <3>5. ASSUME NEW x \in EntriesOf(b)' \ EntriesOf(b) PROVE x.at > t
      <4>1. PICK d \in ToSet(byActor'[b]) : x = PlainEntry(d)'
        BY <3>3, <3>5
      <4>2. d = e
        BY <4>1, <3>1, <3>4, <3>5, <1>4
      <4>3. x.at = viewTick
        BY <4>1, <4>2, <1>1, <1>2 DEF PlainEntry
      <4>4. QED  BY <4>3, <2>2, <1>1
    <3>6. EntriesOf(b) \subseteq EntriesOf(b)'
      BY <3>1, <3>2, <3>3, <3>4
    <3>7. QED  BY <3>5, <3>6, <2>1 DEF LogsAre, LogIs
  <2>3. ASSUME NEW c \in viewClaims
        PROVE  /\ Execute(c.view, c.ranges)' = c.items
               /\ c.view \in Views /\ viewDefs[c.view] # NoView
               /\ \E t \in 1 .. viewTick : t < viewTick /\ EndsBy(c.ranges, t)'
    <3>1. PICK t \in 1 .. viewTick : t < viewTick /\ EndsBy(c.ranges, t)
      BY <2>3 DEF ViewSimInv, ClaimsEnd
    <3>2. c.view \in Views /\ viewDefs[c.view] # NoView
      BY <2>3 DEF ViewSimInv, ClaimsEnd
    <3>3. t \in Nat
      BY <1>1, <3>1
    <3>4. EndsBy(c.ranges, t)'
      <4>1. CASE c.ranges = [b \in Actors2 |-> <<"to_ts", t>>]
        BY <4>1 DEF EndsBy
      <4>2. CASE ~(c.ranges = [b \in Actors2 |-> <<"to_ts", t>>])
        <5>1. PICK x \in [Actors2 -> EventIds] :
                /\ c.ranges = [b \in Actors2 |-> <<"to_id", x[b]>>]
                /\ \A b \in Actors2 : x[b] \in ToSet(byActor[b]) /\ stamp[x[b]] <= t
          BY <3>1, <4>2 DEF EndsBy
        <5>2. \A b \in Actors2 : x[b] \in ToSet(byActor'[b]) /\ stamp'[x[b]] <= t
          BY <5>1, <1>4, <1>5
        <5>3. QED  BY <5>1, <5>2 DEF EndsBy
      <4>3. QED  BY <4>1, <4>2
    <3>5. ASSUME NEW b \in Actors2
          PROVE  InRange(b, c.ranges[b])' = InRange(b, c.ranges[b])
      <4> DEFINE S == EntriesOf(b)  S2 == EntriesOf(b)'
      <4>0. /\ S \in SUBSET Entries /\ S2 \in SUBSET Entries
            /\ IsFiniteSet(S2) /\ S \subseteq S2
            /\ \A d, x \in S2 : d.id = x.id => d = x
            /\ \A x \in S2 \ S : x.at > t
        BY <2>2, <3>1, <3>3
      <4>1. CASE c.ranges = [d \in Actors2 |-> <<"to_ts", t>>]
        <5>1. c.ranges[b] = <<"to_ts", t>>
          BY <4>1
        <5>2. InRange(b, c.ranges[b]) = {x \in Foremost(S) : x.at <= t}
          BY <5>1, <2>1 DEF LogsAre, LogIs
        <5>3. InRange(b, c.ranges[b])' = {x \in Foremost(S2) : x.at <= t}
          BY <5>1, <2>1 DEF LogsAre, LogIs
        <5> HIDE DEF S, S2
        <5>4. QED  BY <5>2, <5>3, <4>0, <3>3, RangeStays
      <4>2. CASE ~(c.ranges = [d \in Actors2 |-> <<"to_ts", t>>])
        <5>1. PICK x \in [Actors2 -> EventIds] :
                /\ c.ranges = [d \in Actors2 |-> <<"to_id", x[d]>>]
                /\ \A d \in Actors2 : x[d] \in ToSet(byActor[d]) /\ stamp[x[d]] <= t
          BY <3>1, <4>2 DEF EndsBy
        <5>2. c.ranges[b] = <<"to_id", x[b]>>
          BY <5>1
        <5>3. InRange(b, c.ranges[b]) = LastAt(S, x[b])
          BY <5>2, <2>1 DEF LogsAre, LogIs
        <5>4. InRange(b, c.ranges[b])' = LastAt(S2, x[b])
          <6>1. (\A y : InRange(b, <<"to_id", y>>) = LastAt(EntriesOf(b), y))'
            BY <2>1 DEF LogsAre, LogIs
          <6>2. (\A y : InRange(b, <<"to_id", y>>) = LastAt(EntriesOf(b), y))' =>
                  InRange(b, <<"to_id", x[b]>>)' = LastAt(S2, x[b])
            BY DEF Foremost, LastAt
          <6>3. QED  BY <5>2, <6>1, <6>2
        <5>5. PlainEntry(x[b]) \in S /\ PlainEntry(x[b]).id = x[b] /\ PlainEntry(x[b]).at <= t
          BY <5>1, <2>1 DEF LogsAre, LogIs, PlainEntry
        <5> HIDE DEF S, S2
        <5>6. QED  BY <5>3, <5>4, <5>5, <4>0, <3>3, RangeStays
      <4>3. QED  BY <4>1, <4>2
    <3>6. Solvable'
      <4>1. \A f, base, v : Gathered(f, base, v)' = Gathered(f, base, v)
        BY DEF Gathered
      <4>2. ASSUME NEW base PROVE \E f : f = [v \in Views |-> Gathered(f, base, v)']
        <5>1. PICK f : f = [v \in Views |-> Gathered(f, base, v)]
          BY DEF ViewSimInv, Solvable
        <5>2. QED  BY <5>1, <4>1
      <4>3. QED  BY <4>2 DEF Solvable
    <3>7. Execute(c.view, c.ranges)' = Execute(c.view, c.ranges)
      BY <3>2, <3>5, <3>6, ClaimStands DEF ViewSimInv
    <3>8. QED  BY <2>3, <3>1, <3>2, <3>4, <3>7 DEF ViewSimInv, ViewsRecompute
  <2>4. QED  BY <2>3 DEF ClaimsEnd, ViewsRecompute
<1>8. QED  BY <1>3, <1>6, <1>7

\* What is defined stays solvable and determined where no view is defined.
LEMMA ViewsKept ==
  ASSUME ViewSimInv, UNCHANGED viewDefs
  PROVE  ViewsFounded' /\ Solvable' /\ Determined'
<1>1. \A f, base, v : Gathered(f, base, v)' = Gathered(f, base, v)
  BY DEF Gathered
<1>2. ASSUME NEW base PROVE \E f : f = [v \in Views |-> Gathered(f, base, v)']
  <2>1. PICK f : f = [v \in Views |-> Gathered(f, base, v)]
    BY DEF ViewSimInv, Solvable
  <2>2. QED  BY <2>1, <1>1
<1>3. \A f, base : Gathers(f, base)' <=> Gathers(f, base)
  BY <1>1 DEF Gathers
<1>4. Solvable'
  BY <1>2 DEF Solvable
<1>5. ASSUME NEW base, NEW f, NEW g, Gathers(f, base)', Gathers(g, base)',
             NEW v \in Views, viewDefs'[v] # NoView
      PROVE  f[v] = g[v]
  <2>1. Gathers(f, base) /\ Gathers(g, base) /\ viewDefs[v] # NoView
    BY <1>3, <1>5
  <2>2. QED  BY <2>1 DEF ViewSimInv, Determined
<1>6. Determined'
  BY <1>5 DEF Determined
<1>7. ViewsFounded'
  BY DEF ViewSimInv, ViewsFounded
<1>8. QED  BY <1>4, <1>6, <1>7

\* A post is logged at its author's.
LEMMA PostEventStep ==
  ASSUME ViewSimInv, NEW a \in Actors2, NEW e \in EventIds, PostEvent(a, e)
  PROVE  ViewSimInv'
<1>1. /\ AppendEvent(a, e) /\ ~settled
      /\ UNCHANGED <<doing, viewTick, settled, viewClaims, viewDefs, attested>>
      /\ UNCHANGED <<following2, follows, subscribed>>
  BY DEF PostEvent, Acts
<1>2. /\ byActor' \in [Actors2 -> Seq(EventIds)] /\ stamp' \in [EventIds -> 0 .. MaxViewTicks]
      /\ LoggedByNow'
      /\ ViewTyped' => ClaimsEnd' /\ ViewsRecompute'
  BY <1>1, AppendStep
<1>3. ViewTyped'
  BY <1>1, <1>2 DEF ViewTyped, ViewSimInv
<1>4. SubscribersRemember'
  BY <1>1 DEF SubscribersRemember, ViewSimInv
<1>5. QED
  BY <1>1, <1>2, <1>3, <1>4, ViewsKept DEF ViewSimInv

\* The image of a set and one more
LEMMA ImageGrows ==
  ASSUME NEW T, NEW x
  PROVE  /\ {t[2] : t \in T \cup {x}} = {t[2] : t \in T} \cup {x[2]}
         /\ {t[3] : t \in T \cup {x}} = {t[3] : t \in T} \cup {x[3]}
OBVIOUS

\* A follow is logged at the follower's, which remembers it.
LEMMA FollowEventStep ==
  ASSUME ViewSimInv, NEW a \in Actors2, NEW b \in Actors2, NEW e \in EventIds,
         FollowEvent(a, b, e)
  PROVE  ViewSimInv'
<1>1. /\ AppendEvent(a, e) /\ ~settled
      /\ UNCHANGED <<doing, viewTick, settled, viewClaims, viewDefs, attested, subscribed>>
      /\ following2' = [following2 EXCEPT ![a] = @ \cup {b}]
      /\ follows' = follows \cup {<<a, b, e>>}
  BY DEF FollowEvent, Acts
<1>2. /\ byActor' \in [Actors2 -> Seq(EventIds)] /\ stamp' \in [EventIds -> 0 .. MaxViewTicks]
      /\ LoggedByNow'
      /\ ViewTyped' => ClaimsEnd' /\ ViewsRecompute'
  BY <1>1, AppendStep
<1>3. following2' \in [Actors2 -> SUBSET Actors2]
      /\ follows' \subseteq Actors2 \X Actors2 \X EventIds
  BY <1>1 DEF ViewTyped, ViewSimInv
<1>4. ViewTyped'
  BY <1>1, <1>2, <1>3 DEF ViewTyped, ViewSimInv
<1>5. ASSUME NEW c \in Actors2
      PROVE  following2'[c] = {f[2] : f \in {g \in follows' : g[1] = c}}
  <2>1. following2[c] = {f[2] : f \in {g \in follows : g[1] = c}}
    BY DEF SubscribersRemember, ViewSimInv
  <2>2. CASE c = a
    <3> DEFINE F == {g \in follows : g[1] = c}
    <3>1. {g \in follows' : g[1] = c} = F \cup {<<a, b, e>>}
      BY <1>1, <2>2
    <3>2. following2'[c] = following2[c] \cup {b}
      BY <1>1, <2>2 DEF ViewTyped, ViewSimInv
    <3>3. following2[c] = {f[2] : f \in F}
      BY <2>1
    <3> HIDE DEF F
    <3>4. {f[2] : f \in F \cup {<<a, b, e>>}} = {f[2] : f \in F} \cup {<<a, b, e>>[2]}
      BY ImageGrows
    <3>5. QED  BY <3>1, <3>2, <3>3, <3>4
  <2>3. CASE c # a
    <3>1. {g \in follows' : g[1] = c} = {g \in follows : g[1] = c}
      BY <1>1, <2>3
    <3>2. following2'[c] = following2[c]
      BY <1>1, <2>3 DEF ViewTyped, ViewSimInv
    <3>3. QED  BY <2>1, <3>1, <3>2
  <2>4. QED  BY <2>2, <2>3
<1>6. SubscribersRemember'
  BY <1>1, <1>5 DEF SubscribersRemember, ViewSimInv
<1>7. QED
  BY <1>1, <1>2, <1>4, <1>6, ViewsKept DEF ViewSimInv

\* An attestation is no event.
LEMMA AttestStep ==
  ASSUME ViewSimInv, NEW a \in Actors2, NEW e \in EventIds, Attest(a, e, "indexed")
  PROVE  ViewSimInv'
<1>1. /\ UNCHANGED <<doing, viewTick, settled, viewClaims, viewDefs, byActor, stamp,
                     following2, follows, subscribed>>
      /\ attested' = attested \cup {<<a, "indexed", e>>} /\ ~settled
  BY DEF Attest, Acts
<1>2. ViewTyped'
  BY <1>1 DEF ViewTyped, ViewSimInv
<1>3. LoggedByNow'
  BY <1>1 DEF LoggedByNow, ViewSimInv
<1>4. ASSUME NEW c \in Actors2
      PROVE  subscribed[c] = {t[3] : t \in {u \in attested' : u[1] = c /\
                                                              u[2] = "subscribed"}}
  <2>1. {u \in attested' : u[1] = c /\ u[2] = "subscribed"}
          = {u \in attested : u[1] = c /\ u[2] = "subscribed"}
    BY <1>1
  <2>2. QED  BY <2>1 DEF SubscribersRemember, ViewSimInv
<1>5. SubscribersRemember'
  BY <1>1, <1>4 DEF SubscribersRemember, ViewSimInv
<1>6. ViewsFounded' /\ Solvable' /\ Determined'
  BY <1>1, ViewsKept
<1>7. viewTick <= viewTick'
  BY <1>1, ViewSimAssumption DEF ViewSimAssumption, ViewSimInv, ViewTyped
<1>8. ClaimsEnd' /\ ViewsRecompute'
  BY <1>1, <1>2, <1>3, <1>6, <1>7, ClaimsKept
<1>9. QED
  BY <1>2, <1>3, <1>5, <1>6, <1>8 DEF ViewSimInv

\* A view subscribed to is remembered by the subscriber.
LEMMA SubscribeStep ==
  ASSUME ViewSimInv, NEW a \in Actors2, NEW v \in Views, SubscribeView(a, v)
  PROVE  ViewSimInv'
<1>1. /\ UNCHANGED <<doing, viewTick, settled, viewClaims, viewDefs, byActor, stamp,
                     following2, follows>>
      /\ subscribed' = [subscribed EXCEPT ![a] = @ \cup {v}]
      /\ attested' = attested \cup {<<a, "subscribed", v>>} /\ ~settled
  BY DEF SubscribeView, Acts
<1>2. ViewTyped'
  BY <1>1 DEF ViewTyped, ViewSimInv
<1>3. LoggedByNow'
  BY <1>1 DEF LoggedByNow, ViewSimInv
<1>4. ASSUME NEW c \in Actors2
      PROVE  subscribed'[c] = {t[3] : t \in {u \in attested' : u[1] = c /\
                                                               u[2] = "subscribed"}}
  <2> DEFINE Of(x) == {u \in x : u[1] = c /\ u[2] = "subscribed"}
  <2>1. subscribed[c] = {t[3] : t \in Of(attested)}
    BY DEF SubscribersRemember, ViewSimInv
  <2>2. CASE c = a
    <3>1. Of(attested') = Of(attested) \cup {<<a, "subscribed", v>>}
      BY <1>1, <2>2
    <3>2. subscribed'[c] = subscribed[c] \cup {v}
      BY <1>1, <2>2 DEF ViewTyped, ViewSimInv
    <3>3. ASSUME NEW T
          PROVE  {t[3] : t \in T \cup {<<a, "subscribed", v>>}} = {t[3] : t \in T} \cup {v}
      <4>1. <<a, "subscribed", v>>[3] = v
        OBVIOUS
      <4>2. QED  BY <4>1, ImageGrows
    <3>4. QED  BY <2>1, <3>1, <3>2, <3>3
  <2>3. CASE c # a
    <3>1. Of(attested') = Of(attested)
      BY <1>1, <2>3
    <3>2. subscribed'[c] = subscribed[c]
      BY <1>1, <2>3 DEF ViewTyped, ViewSimInv
    <3>3. QED  BY <2>1, <3>1, <3>2
  <2>4. QED  BY <2>2, <2>3
<1>5. SubscribersRemember'
  BY <1>1, <1>4 DEF SubscribersRemember, ViewSimInv
<1>6. ViewsFounded' /\ Solvable' /\ Determined'
  BY <1>1, ViewsKept
<1>7. viewTick <= viewTick'
  BY <1>1, ViewSimAssumption DEF ViewSimAssumption, ViewSimInv, ViewTyped
<1>8. ClaimsEnd' /\ ViewsRecompute'
  BY <1>1, <1>2, <1>3, <1>6, <1>7, ClaimsKept
<1>9. QED
  BY <1>2, <1>3, <1>5, <1>6, <1>8 DEF ViewSimInv

\* A view defined over the actors, or over a view that is
LEMMA CreateStep ==
  ASSUME ViewSimInv, NEW v \in Views, NEW sources, NEW reduce \in Orders,
         \/ sources = Actors2
         \/ \E w \in Views : viewDefs[w] # NoView /\ sources = {w},
         CreateView(v, sources, reduce)
  PROVE  ViewSimInv'
<1> DEFINE def == [version |-> 1, sources |-> sources, reduce |-> reduce]
<1>1. /\ UNCHANGED <<doing, viewTick, settled, viewClaims, byActor, stamp,
                     following2, follows, subscribed, attested>>
      /\ viewDefs[v] = NoView /\ ~settled
      /\ viewDefs' = [viewDefs EXCEPT ![v] = def]
  BY DEF CreateView, Acts
<1>2. ViewTyped'
  BY <1>1 DEF ViewTyped, ViewSimInv
<1>3. LoggedByNow' /\ SubscribersRemember'
  BY <1>1 DEF LoggedByNow, SubscribersRemember, ViewSimInv
<1>4. /\ DOMAIN viewDefs = Views /\ def # NoView
      /\ viewDefs'[v] = def
      /\ \A u \in Views \ {v} : viewDefs'[u] = viewDefs[u]
      /\ \A u \in Views : viewDefs[u] # NoView => u # v /\ viewDefs'[u] # NoView
  BY <1>1 DEF ViewTyped, ViewSimInv, NoView
<1>5. ASSUME NEW u \in Views, u # v
      PROVE  v \notin viewDefs[u].sources
  <2>1. v \notin Actors2
    BY ViewSimAssumption DEF ViewSimAssumption
  <2>2. CASE viewDefs[u] = NoView
    BY <2>2 DEF NoView
  <2>3. CASE viewDefs[u] # NoView
    <3>1. \/ viewDefs[u].sources = Actors2
          \/ \E w \in Views : viewDefs[w] # NoView /\ viewDefs[u].sources = {w}
      BY <2>3 DEF ViewSimInv, ViewsFounded
    <3>2. QED  BY <3>1, <2>1, <1>1
  <2>4. QED  BY <2>2, <2>3
<1>6. v \notin sources
  BY <1>4, ViewSimAssumption DEF ViewSimAssumption
<1>7. \A f, base : \A u \in Views \ {v} : Gathered(f, base, u)' = Gathered(f, base, u)
  BY <1>4 DEF Gathered
<1>8. ViewsFounded'
  BY <1>4 DEF ViewSimInv, ViewsFounded
<1>9. Solvable'
  <2> SUFFICES ASSUME NEW base PROVE \E f : f = [u \in Views |-> Gathered(f, base, u)']
    BY DEF Solvable
  <2>1. PICK f : f = [u \in Views |-> Gathered(f, base, u)]
    BY DEF ViewSimInv, Solvable
  <2>2. PICK g : g = [u \in Views |-> IF u = v THEN Gathered(f, base, v)' ELSE f[u]]
    OBVIOUS
  <2>3. \A u \in Views \ {v} : Gathered(g, base, u) = Gathered(f, base, u)
    <3>1. TAKE u \in Views \ {v}
    <3>2. \A s \in viewDefs[u].sources : s \notin Actors2 => g[s] = f[s]
      <4>1. TAKE s \in viewDefs[u].sources
      <4>2. HAVE s \notin Actors2
      <4>3. s \in Views /\ s # v
        BY <1>5, <4>2 DEF ViewSimInv, ViewsFounded, NoView
      <4>4. QED  BY <4>3, <2>2
    <3>3. QED  BY <3>2 DEF Gathered
  <2>4. Gathered(g, base, v)' = Gathered(f, base, v)'
    <3>1. \A s \in sources : s \notin Actors2 => g[s] = f[s]
      BY <1>6, <2>2
    <3>2. QED  BY <3>1, <1>4 DEF Gathered
  <2>5. \A u \in Views : g[u] = Gathered(g, base, u)'
    BY <2>1, <2>2, <2>3, <2>4, <1>7
  <2>6. g = [u \in Views |-> g[u]]
    BY <2>2
  <2>7. QED  BY <2>5, <2>6
<1>10. Determined'
  <2> SUFFICES ASSUME NEW base, NEW f, NEW g, Gathers(f, base)', Gathers(g, base)',
                      NEW u \in Views, viewDefs'[u] # NoView
               PROVE  f[u] = g[u]
    BY DEF Determined
  <2>1. Gathers(f, base) /\ Gathers(g, base)
    BY <1>4, <1>7 DEF Gathers
  <2>2. \A w \in Views : viewDefs[w] # NoView => f[w] = g[w]
    BY <2>1 DEF ViewSimInv, Determined
  <2>3. CASE u # v
    BY <2>2, <2>3, <1>4
  <2>4. CASE u = v
    <3>1. f[v] = Gathered(f, base, v)' /\ g[v] = Gathered(g, base, v)'
      BY <1>4 DEF Gathers
    <3>2. \A s \in sources : s \notin Actors2 => f[s] = g[s]
      BY <2>2
    <3>3. Gathered(f, base, v)' = Gathered(g, base, v)'
      BY <3>2, <1>4 DEF Gathered
    <3>4. QED  BY <2>4, <3>1, <3>3
  <2>5. QED  BY <2>3, <2>4
<1>11. viewTick <= viewTick'
  BY <1>1, ViewSimAssumption DEF ViewSimAssumption, ViewSimInv, ViewTyped
<1>12. ClaimsEnd' /\ ViewsRecompute'
  BY <1>1, <1>2, <1>3, <1>4, <1>9, <1>11, ClaimsKept
<1>13. QED
  BY <1>2, <1>3, <1>8, <1>9, <1>10, <1>12 DEF ViewSimInv

\* A view executed over what there is now, or up to the heads
LEMMA ExecuteStep ==
  ASSUME ViewSimInv, NEW v \in Views, ExecuteViews(v)
  PROVE  ViewSimInv'
<1>1. /\ UNCHANGED <<doing, viewTick, settled, byActor, stamp, following2, follows,
                     viewDefs, subscribed, attested>>
      /\ viewDefs[v] # NoView /\ settled
  BY DEF ExecuteViews
<1>2. PICK ranges :
        /\ \/ ranges = RangesNow
           \/ ranges = RangesToHeads /\ \A a \in Actors2 : byActor[a] # << >>
        /\ viewClaims' = {[view |-> v, ranges |-> ranges, items |-> Execute(v, ranges)]}
  BY DEF ExecuteViews
<1>3. ViewTyped' /\ LoggedByNow' /\ SubscribersRemember'
  BY <1>1 DEF ViewTyped, LoggedByNow, SubscribersRemember, ViewSimInv
<1>4. ViewsFounded' /\ Solvable' /\ Determined'
  BY <1>1, ViewsKept
<1>5. Execute(v, ranges)' = Execute(v, ranges)
  <2>1. LogsAre /\ LogsAre'
    <3>1. (ViewTyped /\ LoggedByNow => LogsAre)'
      BY EntriesAre, PTL
    <3>2. QED  BY <1>3, <3>1, EntriesAre DEF ViewSimInv
  <2>2. ASSUME NEW a \in Actors2, NEW r PROVE InRange(a, r)' = InRange(a, r)
    <3>1. EntriesOf(a)' = EntriesOf(a)
      <4>1. \A e : PlainEntry(e)' = PlainEntry(e)
        BY <1>1 DEF PlainEntry
      <4>2. EntriesOf(a)' = {PlainEntry(e)' : e \in ToSet(byActor'[a])}
        BY <2>1 DEF LogsAre, LogIs
      <4>3. EntriesOf(a) = {PlainEntry(e) : e \in ToSet(byActor[a])}
        BY <2>1 DEF LogsAre, LogIs
      <4>4. QED  BY <4>1, <4>2, <4>3, <1>1
    <3>2. InRange(a, r) = IF r[1] = "to_ts"
                            THEN {e \in Foremost(EntriesOf(a)) : e.at <= r[2]}
                            ELSE LastAt(EntriesOf(a), r[2])
      BY <2>1 DEF LogsAre, LogIs
    <3>3. InRange(a, r)' = IF r[1] = "to_ts"
                             THEN {e \in Foremost(EntriesOf(a)') : e.at <= r[2]}
                             ELSE LastAt(EntriesOf(a)', r[2])
      BY <2>1 DEF LogsAre, LogIs
    <3>4. QED  BY <3>1, <3>2, <3>3
  <2>3. QED  BY <1>1, <1>4, <2>2, ClaimStands DEF ViewSimInv
<1>6. ViewsRecompute'
  BY <1>2, <1>5 DEF ViewsRecompute
<1>7. viewTick \in 1 .. viewTick
  BY ViewSimAssumption DEF ViewSimAssumption, ViewSimInv, ViewTyped
<1>8. EndsBy(ranges, viewTick)
  <2>1. CASE ranges = RangesNow
    BY <2>1 DEF EndsBy, RangesNow
  <2>2. CASE ranges = RangesToHeads /\ \A a \in Actors2 : byActor[a] # << >>
    <3> DEFINE x == [a \in Actors2 |-> Last(byActor[a])]
    <3>1. ASSUME NEW a \in Actors2
          PROVE  /\ x[a] \in ToSet(byActor[a]) /\ x[a] \in EventIds
                 /\ stamp[x[a]] <= viewTick
      <4>1. byActor[a] \in Seq(EventIds) /\ byActor[a] # << >>
        BY <2>2 DEF ViewSimInv, ViewTyped
      <4>2. Len(byActor[a]) \in DOMAIN byActor[a]
        BY <4>1, EmptySeq, LenProperties
      <4>3. Last(byActor[a]) \in ToSet(byActor[a])
        BY <4>2 DEF Last, ToSet
      <4>4. ToSet(byActor[a]) \subseteq EventIds
        BY <4>1 DEF ToSet
      <4>5. stamp[x[a]] \in 1 .. viewTick
        BY <4>3 DEF ViewSimInv, LoggedByNow
      <4>6. QED  BY <4>3, <4>4, <4>5, <1>7
    <3>2. x \in [Actors2 -> EventIds]
      BY <3>1
    <3>3. ranges = [a \in Actors2 |-> <<"to_id", x[a]>>]
      BY <2>2 DEF RangesToHeads
    <3> HIDE DEF x
    <3>4. QED  BY <3>1, <3>2, <3>3 DEF EndsBy
  <2>3. QED  BY <1>2, <2>1, <2>2
<1>9. EndsBy(ranges, viewTick)'
  BY <1>1, <1>8 DEF EndsBy
<1>10. ClaimsEnd'
  BY <1>1, <1>2, <1>7, <1>9 DEF ClaimsEnd
<1>11. QED
  BY <1>3, <1>4, <1>6, <1>10 DEF ViewSimInv

\* The actors are through with a tick, and then time goes on.
LEMMA TimeStep ==
  ASSUME ViewSimInv, Settle \/ NextTick2
  PROVE  ViewSimInv'
<1>1. /\ UNCHANGED <<doing, byActor, stamp, following2, follows, viewDefs, subscribed,
                     attested, viewClaims>>
      /\ \/ ~settled /\ settled' = TRUE /\ viewTick' = viewTick
         \/ /\ settled /\ settled' = FALSE
            /\ viewTick < MaxViewTicks /\ viewTick' = viewTick + 1
  BY DEF Settle, NextTick2
<1>2. viewTick \in Nat /\ MaxViewTicks \in Nat /\ viewTick \in 1 .. MaxViewTicks
  BY ViewSimAssumption DEF ViewSimAssumption, ViewSimInv, ViewTyped
<1>3. viewTick' \in 1 .. MaxViewTicks /\ viewTick <= viewTick'
  BY <1>1, <1>2
<1>4. ViewTyped'
  BY <1>1, <1>3 DEF ViewTyped, ViewSimInv
<1>5. 1 .. viewTick \subseteq 1 .. viewTick'
  BY <1>2, <1>3
<1>6. LoggedByNow'
  BY <1>1, <1>5 DEF LoggedByNow, ViewSimInv
<1>7. SubscribersRemember'
  BY <1>1 DEF SubscribersRemember, ViewSimInv
<1>8. ViewsFounded' /\ Solvable' /\ Determined'
  BY <1>1, ViewsKept
<1>9. ClaimsEnd' /\ ViewsRecompute'
  BY <1>1, <1>2, <1>3, <1>4, <1>6, <1>8, ClaimsKept
<1>10. QED
  BY <1>4, <1>6, <1>7, <1>8, <1>9 DEF ViewSimInv

\* At the start there are the views of the setup.
LEMMA ViewSimInitHolds == ViewSimInit => ViewSimInv
<1> SUFFICES ASSUME ViewSimInit PROVE ViewSimInv
  OBVIOUS
<1>1. ViewTyped
  <2>1. << >> \in Seq(EventIds)
    BY EmptySeq
  <2>2. MaxViewTicks \in Nat /\ 1 \in 1 .. MaxViewTicks
    BY ViewSimAssumption DEF ViewSimAssumption
  <2>3. /\ byActor \in [Actors2 -> Seq(EventIds)] /\ stamp \in [EventIds -> 0 .. MaxViewTicks]
        /\ DOMAIN viewDefs = Views
    BY <2>1, <2>2 DEF ViewSimInit
  <2>4. /\ doing \in ViewScenarios /\ viewTick \in 1 .. MaxViewTicks /\ settled \in BOOLEAN
        /\ following2 \in [Actors2 -> SUBSET Actors2]
        /\ follows \subseteq Actors2 \X Actors2 \X EventIds
        /\ subscribed \in [Actors2 -> SUBSET Views]
    BY <2>2 DEF ViewSimInit
  <2>5. QED  BY <2>3, <2>4 DEF ViewTyped
<1>2. LoggedByNow
  <2>1. ToSet(<< >>) = {}
    BY DEF ToSet
  <2>2. QED  BY <2>1, FS_EmptySet DEF LoggedByNow, ViewSimInit
<1>3. ViewsFounded /\ Determined /\ ClaimsEnd /\ ViewsRecompute /\ SubscribersRemember
  BY DEF ViewsFounded, Determined, ClaimsEnd, ViewsRecompute, SubscribersRemember,
         ViewSimInit
<1>4. Solvable
  <2> SUFFICES ASSUME NEW base PROVE \E f : f = [v \in Views |-> Gathered(f, base, v)]
    BY DEF Solvable
  <2>1. \A f : \A v \in Views : Gathered(f, base, v) = {}
    BY DEF Gathered, ViewSimInit, NoView
  <2> DEFINE f == [v \in Views |-> {}]
  <2>2. f = [v \in Views |-> Gathered(f, base, v)]
    BY <2>1
  <2>3. QED  BY <2>2
<1>5. QED
  BY <1>1, <1>2, <1>3, <1>4 DEF ViewSimInv

\* Every step keeps the invariant.
LEMMA ViewSimStep ==
  ASSUME ViewSimInv, [ViewSimNext]_viewSimVars
  PROVE  ViewSimInv'
<1>1. ASSUME NEW a \in Actors2, NEW e \in EventIds,
             \/ PostEvent(a, e)
             \/ \E b \in Actors2 : FollowEvent(a, b, e)
             \/ Attest(a, e, "indexed")
      PROVE  ViewSimInv'
  BY <1>1, PostEventStep, FollowEventStep, AttestStep
<1>2. ASSUME NEW a \in Actors2, NEW v \in Views, SubscribeView(a, v) PROVE ViewSimInv'
  BY <1>2, SubscribeStep
<1>3. ASSUME NEW v \in Views, NEW r \in Orders, CreateView(v, Actors2, r) PROVE ViewSimInv'
  BY <1>3, CreateStep
<1>4. ASSUME NEW v \in Views, NEW w \in Views, viewDefs[w] # NoView,
             CreateView(v, {w}, "engagement")
      PROVE  ViewSimInv'
  <2>1. "engagement" \in Orders
    BY DEF Orders
  <2>2. QED  BY <1>4, <2>1, CreateStep
<1>5. ASSUME NEW v \in Views, ExecuteViews(v) PROVE ViewSimInv'
  BY <1>5, ExecuteStep
<1>6. ASSUME Settle \/ NextTick2 PROVE ViewSimInv'
  BY <1>6, TimeStep
<1>7. ASSUME UNCHANGED viewSimVars PROVE ViewSimInv'
  <2>1. /\ ViewTyped' /\ LoggedByNow' /\ SubscribersRemember' /\ viewTick <= viewTick'
        /\ settled \in BOOLEAN
    BY <1>7, ViewSimAssumption
       DEF ViewSimAssumption, viewSimVars, ViewTyped, LoggedByNow, SubscribersRemember,
           ViewSimInv
  <2>2. ViewsFounded' /\ Solvable' /\ Determined'
    BY <1>7, ViewsKept DEF viewSimVars
  <2>3. ClaimsEnd' /\ ViewsRecompute'
    BY <1>7, <2>1, <2>2, ClaimsKept DEF viewSimVars
  <2>4. QED  BY <2>1, <2>2, <2>3 DEF ViewSimInv
<1>8. QED
  BY <1>1, <1>2, <1>3, <1>4, <1>5, <1>6, <1>7 DEF ViewSimNext

\* What the invariant says of the properties
LEMMA ViewSimInvSays ==
  ViewSimInv => ViewsRecompute /\ SubscribersRemember /\ ViewSimTypeOK
BY DEF ViewSimInv, ViewTyped, ViewsFounded, ViewSimTypeOK

-----------------------------------------------------------------------------
(***************************************************************************)
(* The views of Holon v4. A group is in one generation below another, so   *)
(* that a content comes from a source once; the rows of a view are ranked  *)
(* by an order that tells any two apart, and they stay as they are until   *)
(* something is added that is about them.                                  *)
(***************************************************************************)
\* The generation after one
NextGeneration(gen) ==
  [g \in {h \in HolonGroups : ParentOf[h] # h /\ ParentOf[h] \in DOMAIN gen}
     |-> gen[ParentOf[g]] * Cardinality(HolonGroups) + CreatedAs[g]]

\* Generations are what they are defined to be.
LEMMA GenerationsAre ==
  ASSUME NEW top
  PROVE  Generations(top) = [d \in 0 .. MaxDepth |->
                               IF d = 0 THEN [g \in {top} |-> 0]
                               ELSE NextGeneration(Generations(top)[d - 1])]
<1> DEFINE First == [g \in {top} |-> 0]
           Solves(f, n) == f = [d \in 0 .. n |-> IF d = 0 THEN First
                                                 ELSE NextGeneration(f[d - 1])]
           T == {n \in Nat : ~\E f : Solves(f, n)}
<1>1. MaxDepth \in Nat
  BY HolonAssumption DEF HolonAssumption
<1>2. T = {}
  <2> SUFFICES ASSUME T # {} PROVE FALSE
    OBVIOUS
  <2>1. PICK m \in T : \A k \in T : m <= k
    BY LeastOf
  <2>2. m \in Nat /\ ~\E f : Solves(f, m)
    BY <2>1
  <2>3. m # 0
    <3>1. SUFFICES ASSUME m = 0 PROVE FALSE
      OBVIOUS
    <3>2. Solves([d \in 0 .. 0 |-> First], 0)
      OBVIOUS
    <3>3. QED  BY <2>2, <3>1, <3>2
  <2>4. PICK f : Solves(f, m - 1)
    <3>1. m - 1 \in Nat /\ ~(m <= m - 1)
      BY <2>2, <2>3
    <3>2. QED  BY <2>1, <3>1
  <2> DEFINE h == [d \in 0 .. m |-> IF d = m THEN NextGeneration(f[m - 1]) ELSE f[d]]
  <2>5. ASSUME NEW d \in 0 .. m
        PROVE  h[d] = IF d = 0 THEN First ELSE NextGeneration(h[d - 1])
    <3>1. CASE d = m
      <4>1. h[d] = NextGeneration(f[m - 1]) /\ m - 1 \in 0 .. m /\ m - 1 # m
        BY <2>2, <2>3, <3>1
      <4>2. h[m - 1] = f[m - 1]
        BY <4>1
      <4>3. QED  BY <2>3, <3>1, <4>1, <4>2
    <3>2. CASE d # m
      <4>1. d \in 0 .. m - 1 /\ h[d] = f[d]
        BY <2>2, <2>3, <3>2
      <4>2. f[d] = IF d = 0 THEN First ELSE NextGeneration(f[d - 1])
        BY <2>4, <4>1
      <4>3. d # 0 => d - 1 \in 0 .. m /\ d - 1 # m
        BY <2>2, <4>1
      <4>4. d # 0 => h[d - 1] = f[d - 1]
        BY <4>3
      <4>5. QED  BY <4>1, <4>2, <4>4
    <3>3. QED  BY <3>1, <3>2
  <2>6. Solves(h, m)
    <3>1. h = [d \in 0 .. m |-> h[d]]
      OBVIOUS
    <3> HIDE DEF h
    <3>2. QED  BY <2>5, <3>1
  <2>7. QED  BY <2>2, <2>6
<1>3. PICK f : Solves(f, MaxDepth)
  BY <1>1, <1>2
<1>4. f = [d \in 0 .. MaxDepth |->
             IF d = 0 THEN [g \in {top} |-> 0]
             ELSE [g \in {h \in HolonGroups : ParentOf[h] # h /\ ParentOf[h] \in DOMAIN f[d - 1]}
                     |-> f[d - 1][ParentOf[g]] * Cardinality(HolonGroups) + CreatedAs[g]]]
  BY <1>3 DEF NextGeneration
<1>5. QED
  BY <1>4 DEF Generations, NextGeneration

\* So are ancestors.
LEMMA AncestorsAre ==
  Ancestor = [d \in 0 .. MaxDepth |->
                IF d = 0 THEN [g \in HolonGroups |-> g]
                ELSE [g \in HolonGroups |-> Ancestor[d - 1][ParentOf[g]]]]
<1> DEFINE First == [g \in HolonGroups |-> g]
           Up(f) == [g \in HolonGroups |-> f[ParentOf[g]]]
           Solves(f, n) == f = [d \in 0 .. n |-> IF d = 0 THEN First ELSE Up(f[d - 1])]
           T == {n \in Nat : ~\E f : Solves(f, n)}
<1>1. MaxDepth \in Nat
  BY HolonAssumption DEF HolonAssumption
<1>2. T = {}
  <2> SUFFICES ASSUME T # {} PROVE FALSE
    OBVIOUS
  <2>1. PICK m \in T : \A k \in T : m <= k
    BY LeastOf
  <2>2. m \in Nat /\ ~\E f : Solves(f, m)
    BY <2>1
  <2>3. m # 0
    <3>1. SUFFICES ASSUME m = 0 PROVE FALSE
      OBVIOUS
    <3>2. Solves([d \in 0 .. 0 |-> First], 0)
      OBVIOUS
    <3>3. QED  BY <2>2, <3>1, <3>2
  <2>4. PICK f : Solves(f, m - 1)
    <3>1. m - 1 \in Nat /\ ~(m <= m - 1)
      BY <2>2, <2>3
    <3>2. QED  BY <2>1, <3>1
  <2> DEFINE h == [d \in 0 .. m |-> IF d = m THEN Up(f[m - 1]) ELSE f[d]]
  <2> HIDE DEF First, Up
  <2>5. ASSUME NEW d \in 0 .. m
        PROVE  h[d] = IF d = 0 THEN First ELSE Up(h[d - 1])
    <3>1. CASE d = m
      <4>1. h[d] = Up(f[m - 1]) /\ m - 1 \in 0 .. m /\ m - 1 # m
        BY <2>2, <2>3, <3>1
      <4>2. h[m - 1] = f[m - 1]
        BY <4>1
      <4>3. QED  BY <2>3, <3>1, <4>1, <4>2
    <3>2. CASE d # m
      <4>1. d \in 0 .. m - 1 /\ h[d] = f[d]
        BY <2>2, <2>3, <3>2
      <4>2. f[d] = IF d = 0 THEN First ELSE Up(f[d - 1])
        BY <2>4, <4>1
      <4>3. d # 0 => d - 1 \in 0 .. m /\ d - 1 # m
        BY <2>2, <4>1
      <4>4. d # 0 => h[d - 1] = f[d - 1]
        BY <4>3
      <4>5. QED  BY <4>1, <4>2, <4>4
    <3>3. QED  BY <3>1, <3>2
  <2>6. Solves(h, m)
    <3>1. h = [d \in 0 .. m |-> h[d]]
      OBVIOUS
    <3> HIDE DEF h
    <3>2. QED  BY <2>5, <3>1
  <2>7. QED  BY <2>2, <2>6
<1>3. PICK f : Solves(f, MaxDepth)
  BY <1>1, <1>2
<1>4. QED
  BY <1>3 DEF Ancestor

\* A group of a generation is below the top by as many generations as that, and it was
\* created after the top.
LEMMA GenerationIs ==
  ASSUME NEW top \in HolonGroups, NEW d \in 0 .. MaxDepth, NEW g \in DOMAIN Generations(top)[d]
  PROVE  /\ g \in HolonGroups
         /\ Ancestor[d][g] = top
         /\ Generations(top)[d][g] \in Nat
         /\ d = 0 => g = top
         /\ d > 0 => CreatedAs[top] < CreatedAs[g]
<1> DEFINE gen == Generations(top)
           Ok(e, x) == /\ x \in HolonGroups
                       /\ Ancestor[e][x] = top
                       /\ gen[e][x] \in Nat
                       /\ e = 0 => x = top
                       /\ e > 0 => CreatedAs[top] < CreatedAs[x]
           T == {e \in Nat : e <= MaxDepth /\ \E x \in DOMAIN gen[e] : ~Ok(e, x)}
<1>1. MaxDepth \in Nat
  BY HolonAssumption DEF HolonAssumption
<1>2. T = {}
  <2> SUFFICES ASSUME T # {} PROVE FALSE
    OBVIOUS
  <2>1. PICK e \in T : \A k \in T : e <= k
    BY LeastOf
  <2>2. e \in Nat /\ e <= MaxDepth /\ e \in 0 .. MaxDepth
    BY <1>1, <2>1
  <2>3. PICK x \in DOMAIN gen[e] : ~Ok(e, x)
    BY <2>1
  <2>4. gen[e] = IF e = 0 THEN [h \in {top} |-> 0] ELSE NextGeneration(gen[e - 1])
    BY <2>2, GenerationsAre
  <2>5. Ancestor[e] = IF e = 0 THEN [h \in HolonGroups |-> h]
                      ELSE [h \in HolonGroups |-> Ancestor[e - 1][ParentOf[h]]]
    BY <2>2, AncestorsAre
  <2>6. CASE e = 0
    <3>1. x = top /\ gen[e][x] = 0 /\ Ancestor[e][x] = x
      BY <2>3, <2>4, <2>5, <2>6
    <3>2. QED  BY <2>3, <2>6, <3>1
  <2>7. CASE e > 0
    <3> DEFINE p == ParentOf[x]
    <3>1. x \in HolonGroups /\ p # x /\ p \in DOMAIN gen[e - 1]
      BY <2>3, <2>4, <2>7 DEF NextGeneration
    <3>2. gen[e][x] = gen[e - 1][p] * Cardinality(HolonGroups) + CreatedAs[x]
      BY <2>4, <2>7, <3>1 DEF NextGeneration
    <3>3. e - 1 \in Nat /\ e - 1 <= MaxDepth /\ ~(e <= e - 1)
      BY <2>2, <2>7, <1>1
    <3>4. Ok(e - 1, p)
      BY <2>1, <3>1, <3>3
    <3>5. CreatedAs[p] < CreatedAs[x] /\ CreatedAs[p] \in Nat /\ CreatedAs[x] \in Nat
          /\ CreatedAs[top] \in Nat
      <4>1. Cardinality(HolonGroups) \in Nat
        BY HolonAssumption, FS_CardinalityType DEF HolonAssumption
      <4>2. QED  BY <3>1, <3>4, <4>1, HolonAssumption DEF HolonAssumption
    <3>6. CreatedAs[top] < CreatedAs[x]
      <4>1. CASE e - 1 = 0
        BY <3>4, <3>5, <4>1
      <4>2. CASE e - 1 > 0
        BY <3>4, <3>5, <4>2
      <4>3. QED  BY <3>3, <4>1, <4>2
    <3>7. gen[e][x] \in Nat
      <4>1. Cardinality(HolonGroups) \in Nat
        BY HolonAssumption, FS_CardinalityType DEF HolonAssumption
      <4>2. \A i, j, k \in Nat : i * j + k \in Nat
        OBVIOUS
      <4>3. gen[e - 1][p] \in Nat
        BY <3>4
      <4> HIDE DEF gen
      <4>4. QED  BY <3>2, <3>5, <4>1, <4>2, <4>3
    <3>8. Ancestor[e][x] = top
      BY <2>5, <2>7, <3>1, <3>4
    <3>9. QED  BY <2>3, <2>7, <3>1, <3>6, <3>7, <3>8
  <2>8. QED  BY <2>2, <2>6, <2>7
<1>3. d \in Nat /\ d <= MaxDepth
  BY <1>1
<1>4. Ok(d, g)
  BY <1>2, <1>3
<1>5. QED  BY <1>4

\* A group is in one generation.
LEMMA GenerationsApart ==
  ASSUME NEW top \in HolonGroups, NEW d \in 0 .. MaxDepth, NEW e \in 0 .. MaxDepth,
         NEW g, g \in DOMAIN Generations(top)[d], g \in DOMAIN Generations(top)[e]
  PROVE  d = e
<1> DEFINE gen == Generations(top)
           T == {k \in Nat : k <= MaxDepth /\ \E l \in 0 .. MaxDepth :
                               l # k /\ \E x : x \in DOMAIN gen[k] /\ x \in DOMAIN gen[l]}
<1>1. MaxDepth \in Nat
  BY HolonAssumption DEF HolonAssumption
<1>2. T = {}
  <2> SUFFICES ASSUME T # {} PROVE FALSE
    OBVIOUS
  <2>1. PICK k \in T : \A j \in T : k <= j
    BY LeastOf
  <2>2. k \in Nat /\ k <= MaxDepth /\ k \in 0 .. MaxDepth
    BY <1>1, <2>1
  <2>14. PICK l \in 0 .. MaxDepth :
           l # k /\ \E x : x \in DOMAIN gen[k] /\ x \in DOMAIN gen[l]
    BY <2>1
  <2>3. PICK x : l # k /\ x \in DOMAIN gen[k] /\ x \in DOMAIN gen[l]
    BY <2>14
  <2>4. l \in T
    BY <2>2, <2>3, <1>1
  <2>5. k < l /\ l \in Nat /\ l > 0
    BY <2>1, <2>2, <2>3, <2>4, <1>1
  <2>6. /\ x \in HolonGroups /\ CreatedAs[top] < CreatedAs[x]
        /\ k = 0 => x = top
    BY <2>2, <2>3, <2>5, GenerationIs
  <2>7. k # 0
    <3>1. CreatedAs[top] \in Int
      <4>1. Cardinality(HolonGroups) \in Nat
        BY HolonAssumption, FS_CardinalityType DEF HolonAssumption
      <4>2. QED  BY <4>1, HolonAssumption DEF HolonAssumption
    <3>2. QED  BY <2>6, <3>1
  <2>8. gen[k] = NextGeneration(gen[k - 1])
    <3>1. gen[k] = IF k = 0 THEN [h \in {top} |-> 0] ELSE NextGeneration(gen[k - 1])
      BY <2>2, GenerationsAre
    <3>2. QED  BY <2>7, <3>1
  <2>13. gen[l] = NextGeneration(gen[l - 1])
    <3>1. gen[l] = IF l = 0 THEN [h \in {top} |-> 0] ELSE NextGeneration(gen[l - 1])
      BY <2>3, GenerationsAre
    <3>2. QED  BY <2>5, <3>1
  <2>9. ParentOf[x] \in DOMAIN gen[k - 1] /\ ParentOf[x] \in DOMAIN gen[l - 1]
    BY <2>3, <2>8, <2>13 DEF NextGeneration
  <2>10. k - 1 \in Nat /\ k - 1 <= MaxDepth /\ l - 1 \in 0 .. MaxDepth /\ l - 1 # k - 1
         /\ ~(k <= k - 1)
    BY <1>1, <2>2, <2>3, <2>5, <2>7
  <2>11. k - 1 \in T
    BY <2>9, <2>10
  <2>12. QED  BY <2>1, <2>10, <2>11
<1>3. d \in Nat /\ d <= MaxDepth
  BY <1>1
<1>4. QED  BY <1>2, <1>3

-----------------------------------------------------------------------------
\* A view the engine can execute
DefOK(def) == /\ def.source \in {"all", "group", "tree"}
              /\ def.source = "tree" => def.of \in HolonGroups

\* Concerns, of a context
Touches(def, ctx) ==
  CASE def.source = "all" -> TRUE
    [] def.source = "group" -> ctx = def.of /\ def.of # NoGroup
    [] def.source = "tree" -> Under(ctx, def.of)

\* A content comes once from a source it belongs to, at a place that is a number.
LEMMA PlacesAre ==
  ASSUME NEW def, DefOK(def), NEW ctx, NEW p \in Places(def, ctx), NEW q \in Places(def, ctx)
  PROVE  p[1] \in Nat /\ p[2] \in Nat /\ Touches(def, ctx) /\ p = q
<1>1. CASE def.source = "all"
  BY <1>1 DEF Places, Touches
<1>2. CASE def.source = "group"
  BY <1>2 DEF Places, Touches
<1>3. CASE def.source = "tree"
  <2> DEFINE gen == Generations(def.of)
  <2>1. def.of \in HolonGroups
    BY <1>3 DEF DefOK
  <2>2. Places(def, ctx) = {<<d, gen[d][ctx]>> : d \in {e \in 0 .. MaxDepth : ctx \in DOMAIN gen[e]}}
    BY <1>3 DEF Places
  <2> HIDE DEF gen
  <2>3. PICK d \in 0 .. MaxDepth : p = <<d, gen[d][ctx]>> /\ ctx \in DOMAIN gen[d]
    BY <2>2
  <2>4. PICK e \in 0 .. MaxDepth : q = <<e, gen[e][ctx]>> /\ ctx \in DOMAIN gen[e]
    BY <2>2
  <2>5. d = e
    BY <2>1, <2>3, <2>4, GenerationsApart DEF gen
  <2>6. ctx \in HolonGroups /\ Ancestor[d][ctx] = def.of /\ gen[d][ctx] \in Nat
    BY <2>1, <2>3, GenerationIs DEF gen
  <2>7. Touches(def, ctx)
    BY <1>3, <2>6 DEF Touches, Under
  <2>8. d \in Nat
    BY HolonAssumption DEF HolonAssumption
  <2>9. QED  BY <2>3, <2>4, <2>5, <2>6, <2>7, <2>8
<1>4. QED
  BY <1>1, <1>2, <1>3 DEF DefOK

\* Rows that can be ranked
RowsOK(S) ==
  /\ IsFiniteSet(S)
  /\ \A x \in S : x.key \in Nat /\ x.depth \in Nat /\ x.place \in Nat /\ x.id \in Nat
  /\ \A x, y \in S : x.id = y.id => x = y

\* Ranking names each row once.
LEMMA RankedAre ==
  ASSUME NEW S, RowsOK(S)
  PROVE  /\ \A n \in 1 .. Cardinality(S) : Ranked(S)[n] \in S
         /\ \A n, m \in 1 .. Cardinality(S) : Ranked(S)[n] = Ranked(S)[m] => n = m
<1> DEFINE Over(x) == {y \in S : Above(y, x)}
           place == [x \in S |-> Cardinality(Over(x)) + 1]
           N == Cardinality(S)
<1>1. N \in Nat
  BY FS_CardinalityType DEF RowsOK
<1>2. ASSUME NEW x \in S, NEW y \in S, NEW z \in S
      PROVE  /\ ~Above(x, x)
             /\ x # y => Above(x, y) \/ Above(y, x)
             /\ Above(x, y) /\ Above(y, z) => Above(x, z)
  <2>1. \A w \in S : w.key \in Nat /\ w.depth \in Nat /\ w.place \in Nat /\ w.id \in Nat
    BY DEF RowsOK
  <2>2. x.id = y.id => x = y
    BY DEF RowsOK
  <2>3. QED  BY <2>1, <2>2 DEF Above
<1>3. ASSUME NEW x \in S
      PROVE  IsFiniteSet(Over(x)) /\ Cardinality(Over(x)) \in Nat /\ Cardinality(Over(x)) < N
  <2>1. IsFiniteSet(S) /\ Over(x) \in SUBSET S /\ Over(x) # S
    BY <1>2 DEF RowsOK
  <2>2. QED  BY <2>1, FS_Subset, FS_CardinalityType
<1>4. ASSUME NEW x \in S, NEW y \in S, Above(y, x)
      PROVE  Cardinality(Over(y)) < Cardinality(Over(x))
  <2>1. Over(y) \in SUBSET Over(x)
    BY <1>2, <1>4
  <2>2. y \in Over(x) /\ y \notin Over(y)
    BY <1>2, <1>4
  <2>3. IsFiniteSet(Over(x)) /\ Over(y) # Over(x)
    BY <1>3, <2>2
  <2>4. Cardinality(Over(x)) \in Nat /\ Cardinality(Over(y)) \in Nat
    BY <1>3
  <2> HIDE DEF Over
  <2>5. Cardinality(Over(y)) <= Cardinality(Over(x)) /\ Cardinality(Over(y)) # Cardinality(Over(x))
    BY <2>1, <2>3, FS_Subset
  <2>6. QED  BY <2>4, <2>5
<1>5. place \in Injection(S, 1 .. N)
  <2>1. ASSUME NEW x \in S PROVE place[x] \in 1 .. N
    BY <1>1, <1>3
  <2>2. ASSUME NEW x \in S, NEW y \in S, place[x] = place[y] PROVE x = y
    <3>1. Cardinality(Over(x)) = Cardinality(Over(y))
      BY <1>3, <2>2
    <3>2. ~Above(x, y) /\ ~Above(y, x)
      BY <1>3, <1>4, <3>1
    <3>3. QED  BY <1>2, <3>2
  <2> HIDE DEF Over
  <2>3. place \in [S -> 1 .. N]
    BY <2>1
  <2> HIDE DEF place, N
  <2>4. QED  BY <2>2, <2>3 DEF Injection, IsInjective
<1>6. place \in Surjection(S, 1 .. N)
  <2>1. IsFiniteSet(1 .. N) /\ Cardinality(1 .. N) = N
    BY <1>1, FS_Interval
  <2> HIDE DEF place
  <2>2. QED  BY <1>5, <2>1, FS_Injection
<1>7. ASSUME NEW n \in 1 .. N
      PROVE  Ranked(S)[n] \in S /\ Cardinality(Over(Ranked(S)[n])) = n - 1
  <2>1. PICK x \in S : place[x] = n
    <3> HIDE DEF place
    <3>1. QED  BY <1>6 DEF Surjection
  <2>2. Cardinality(Over(x)) = n - 1
    BY <1>3, <2>1
  <2>3. Ranked(S)[n] = CHOOSE w \in S : Cardinality({y \in S : Above(y, w)}) = n - 1
    BY DEF Ranked
  <2>4. QED  BY <2>2, <2>3
<1>8. ASSUME NEW n \in 1 .. N, NEW m \in 1 .. N, Ranked(S)[n] = Ranked(S)[m]
      PROVE  n = m
  <2>1. n - 1 = m - 1
    BY <1>7, <1>8
  <2>2. QED  BY <1>1, <2>1
<1>9. QED  BY <1>7, <1>8

\* The ids of the first of them are of the rows, and no two are the same.
LEMMA TopIdsAre ==
  ASSUME NEW S, RowsOK(S)
  PROVE  /\ \A i \in DOMAIN TopIds(S) : \E x \in S : TopIds(S)[i] = x.id
         /\ \A i, j \in DOMAIN TopIds(S) : TopIds(S)[i] = TopIds(S)[j] => i = j
<1> DEFINE N == Cardinality(S)
           M == IF HolonLimit < N THEN HolonLimit ELSE N
<1>1. N \in Nat /\ HolonLimit \in Nat
  BY FS_CardinalityType, HolonAssumption DEF RowsOK, HolonAssumption
<1>2. TopIds(S) = [n \in 1 .. M |-> Ranked(S)[n].id]
  BY DEF TopIds
<1>3. \A n \in 1 .. M : n \in 1 .. N
  BY <1>1
<1>4. /\ \A n \in 1 .. N : Ranked(S)[n] \in S
      /\ \A n, m \in 1 .. N : Ranked(S)[n] = Ranked(S)[m] => n = m
  BY RankedAre
<1>5. \A x, y \in S : x.id = y.id => x = y
  BY DEF RowsOK
<1> HIDE DEF N, M
<1>6. QED  BY <1>2, <1>3, <1>4, <1>5

-----------------------------------------------------------------------------
\* The score of a content and the rows of a view, from the contents and the links
ScoreOf(cs, ls, n) ==
  2 * Cardinality({m \in DOMAIN ls : ls[m].kind = "react" /\ ls[m].to = n})
    + Cardinality({m \in DOMAIN cs : cs[m].reply = n})

RowOf(cs, ls, def, n, p) ==
  [id |-> n, depth |-> p[1], place |-> p[2],
   key |-> IF def.rank = "score" THEN ScoreOf(cs, ls, n) ELSE cs[n].at]

RowsOf(cs, ls, def, at) ==
  UNION {{RowOf(cs, ls, def, n, p) : p \in Places(def, cs[n].ctx)} :
         n \in {m \in DOMAIN cs : cs[m].kind = "post" /\ (def.recent => cs[m].at + 1 > at)}}

\* The candidates of a view are its rows.
LEMMA CandidatesAre ==
  ASSUME NEW def, NEW at
  PROVE  Candidates(def, at) = RowsOf(contents, links, def, at)
BY DEF Candidates, RowsOf, RowOf, ScoreOf, Score, Fresh

\* What links there are
LinkKinds == {"react", "label", "follow", "member", "creator", "view", "verify"}

\* What a content and a link may be
Targets == HolonEntities \cup Platforms \cup (HolonUsers \X Nat) \cup Nat

ContentsOK(cs) ==
  /\ cs \in Seq([by : HolonUsers, at : Nat \ {0}, kind : {"post", "article"},
                 ctx : HolonGroups \cup {NoGroup}, reply : Nat])
  /\ \A n \in DOMAIN cs : cs[n].reply < n

LinksOK(cs, ls) ==
  /\ ls \in Seq([kind : LinkKinds, from : HolonUsers, to : Targets])
  /\ \A m \in DOMAIN ls : ls[m].kind = "react" => ls[m].to \in DOMAIN cs

\* One sequence goes on from the other.
Extends(s, t) == Len(s) <= Len(t) /\ \A n \in 1 .. Len(s) : t[n] = s[n]

\* A score is a number.
LEMMA ScoreIs ==
  ASSUME NEW cs, NEW ls, ContentsOK(cs), LinksOK(cs, ls), NEW n
  PROVE  ScoreOf(cs, ls, n) \in Nat
<1> DEFINE R == {m \in DOMAIN ls : ls[m].kind = "react" /\ ls[m].to = n}
           A == {m \in DOMAIN cs : cs[m].reply = n}
<1>1. DOMAIN ls = 1 .. Len(ls) /\ Len(ls) \in Nat /\ DOMAIN cs = 1 .. Len(cs) /\ Len(cs) \in Nat
  BY DEF ContentsOK, LinksOK
<1>2. IsFiniteSet(DOMAIN ls) /\ IsFiniteSet(DOMAIN cs)
  BY <1>1, FS_Interval
<1>3. R \in SUBSET DOMAIN ls /\ A \in SUBSET DOMAIN cs
  OBVIOUS
<1>4. Cardinality(R) \in Nat /\ Cardinality(A) \in Nat
  <2> HIDE DEF R, A
  <2>1. QED  BY <1>2, <1>3, FS_Subset, FS_CardinalityType
<1>5. ScoreOf(cs, ls, n) = 2 * Cardinality(R) + Cardinality(A)
  BY DEF ScoreOf
<1> HIDE DEF R, A
<1>6. QED  BY <1>4, <1>5

\* What a row is of
LEMMA RowsAre ==
  ASSUME NEW cs, NEW ls, NEW def, NEW at, NEW x
  PROVE  x \in RowsOf(cs, ls, def, at) <=>
           \E n \in DOMAIN cs : \E p \in Places(def, cs[n].ctx) :
             /\ cs[n].kind = "post" /\ (def.recent => cs[n].at + 1 > at)
             /\ x = RowOf(cs, ls, def, n, p)
BY DEF RowsOf

\* The rows of a view can be ranked.
LEMMA RowsRank ==
  ASSUME NEW cs, NEW ls, ContentsOK(cs), LinksOK(cs, ls), NEW def, DefOK(def), NEW at
  PROVE  /\ RowsOK(RowsOf(cs, ls, def, at))
         /\ \A x \in RowsOf(cs, ls, def, at) :
              x.id \in DOMAIN cs /\ Touches(def, cs[x.id].ctx)
<1> DEFINE S == RowsOf(cs, ls, def, at)
           f == [x \in S |-> x.id]
<1>1. DOMAIN cs = 1 .. Len(cs) /\ Len(cs) \in Nat
  BY DEF ContentsOK
<1>2. ASSUME NEW x \in S
      PROVE  \E n \in DOMAIN cs : \E p \in Places(def, cs[n].ctx) : x = RowOf(cs, ls, def, n, p)
  BY RowsAre
<1> HIDE DEF S
<1>3. ASSUME NEW x \in S
      PROVE  /\ x.id \in DOMAIN cs /\ Touches(def, cs[x.id].ctx)
             /\ x.key \in Nat /\ x.depth \in Nat /\ x.place \in Nat /\ x.id \in Nat
  <2>1. PICK n \in DOMAIN cs : \E p \in Places(def, cs[n].ctx) : x = RowOf(cs, ls, def, n, p)
    BY <1>2
  <2>2. PICK p \in Places(def, cs[n].ctx) : x = RowOf(cs, ls, def, n, p)
    BY <2>1
  <2>3. p[1] \in Nat /\ p[2] \in Nat /\ Touches(def, cs[n].ctx)
    BY PlacesAre
  <2>4. ScoreOf(cs, ls, n) \in Nat /\ cs[n].at \in Nat
    <3>1. ScoreOf(cs, ls, n) \in Nat
      BY ScoreIs
    <3>2. cs[n] \in [by : HolonUsers, at : Nat \ {0}, kind : {"post", "article"},
                     ctx : HolonGroups \cup {NoGroup}, reply : Nat]
      BY <1>1, ElementOfSeq DEF ContentsOK
    <3>3. cs[n].at \in Nat
      BY <3>2
    <3>4. QED  BY <3>1, <3>3
  <2>5. x.id = n /\ x.depth = p[1] /\ x.place = p[2]
        /\ x.key = IF def.rank = "score" THEN ScoreOf(cs, ls, n) ELSE cs[n].at
    BY <2>2 DEF RowOf
  <2>6. QED  BY <1>1, <2>3, <2>4, <2>5
<1>4. ASSUME NEW x \in S, NEW y \in S, x.id = y.id PROVE x = y
  <2>1. PICK n \in DOMAIN cs : \E p \in Places(def, cs[n].ctx) : x = RowOf(cs, ls, def, n, p)
    BY <1>2
  <2>2. PICK p \in Places(def, cs[n].ctx) : x = RowOf(cs, ls, def, n, p)
    BY <2>1
  <2>3. PICK m \in DOMAIN cs : \E q \in Places(def, cs[m].ctx) : y = RowOf(cs, ls, def, m, q)
    BY <1>2
  <2>4. PICK q \in Places(def, cs[m].ctx) : y = RowOf(cs, ls, def, m, q)
    BY <2>3
  <2>5. n = m
    BY <1>4, <2>2, <2>4 DEF RowOf
  <2>6. p = q
    BY <2>5, PlacesAre
  <2>7. QED  BY <2>2, <2>4, <2>5, <2>6
<1>5. IsFiniteSet(S)
  <2>1. f \in Injection(S, 1 .. Len(cs))
    <3>1. f \in [S -> 1 .. Len(cs)]
      BY <1>1, <1>3
    <3>2. \A x, y \in S : f[x] = f[y] => x = y
      BY <1>4
    <3> HIDE DEF f
    <3>3. QED  BY <3>1, <3>2 DEF Injection, IsInjective
  <2>2. IsFiniteSet(1 .. Len(cs))
    BY <1>1, FS_Interval
  <2> HIDE DEF f
  <2>3. QED  BY <2>1, <2>2, FS_Injection
<1>6. RowsOK(S)
  BY <1>3, <1>4, <1>5 DEF RowsOK
<1>7. QED  BY <1>3, <1>6 DEF S

\* Nothing that is added is about the view, or a reaction or a reply to what is.
Quiet(cs, ls, cs2, ls2, def) ==
  /\ \A n \in Len(cs) + 1 .. Len(cs2) :
       /\ ~Touches(def, cs2[n].ctx)
       /\ cs2[n].reply # 0 => ~Touches(def, cs2[cs2[n].reply].ctx)
  /\ \A n \in Len(ls) + 1 .. Len(ls2) :
       ls2[n].kind = "react" => ~Touches(def, cs2[ls2[n].to].ctx)

\* Then its rows stay.
LEMMA RowsStay ==
  ASSUME NEW cs, NEW ls, NEW cs2, NEW ls2,
         ContentsOK(cs), LinksOK(cs, ls), ContentsOK(cs2), LinksOK(cs2, ls2),
         Extends(cs, cs2), Extends(ls, ls2),
         NEW def, DefOK(def), NEW at, Quiet(cs, ls, cs2, ls2, def)
  PROVE  RowsOf(cs2, ls2, def, at) = RowsOf(cs, ls, def, at)
<1>1. /\ DOMAIN cs = 1 .. Len(cs) /\ Len(cs) \in Nat /\ DOMAIN ls = 1 .. Len(ls) /\ Len(ls) \in Nat
      /\ DOMAIN cs2 = 1 .. Len(cs2) /\ Len(cs2) \in Nat
      /\ DOMAIN ls2 = 1 .. Len(ls2) /\ Len(ls2) \in Nat
  BY DEF ContentsOK, LinksOK
<1>2. ASSUME NEW n \in DOMAIN cs PROVE n \in DOMAIN cs2 /\ cs2[n] = cs[n]
  BY <1>1 DEF Extends
<1>3. ASSUME NEW n \in DOMAIN ls PROVE n \in DOMAIN ls2 /\ ls2[n] = ls[n]
  BY <1>1 DEF Extends
<1>4. ASSUME NEW n \in DOMAIN cs2, Touches(def, cs2[n].ctx) PROVE n \in DOMAIN cs
  BY <1>1, <1>4 DEF Quiet
<1>5. ASSUME NEW n \in DOMAIN cs, Touches(def, cs[n].ctx)
      PROVE  ScoreOf(cs2, ls2, n) = ScoreOf(cs, ls, n)
  <2>1. cs2[n] = cs[n] /\ n # 0
    BY <1>1, <1>2
  <2>2. ASSUME NEW m \in DOMAIN ls2, ls2[m].kind = "react", ls2[m].to = n
        PROVE  m \in DOMAIN ls
    BY <1>1, <1>5, <2>1, <2>2 DEF Quiet
  <2>3. {m \in DOMAIN ls2 : ls2[m].kind = "react" /\ ls2[m].to = n}
          = {m \in DOMAIN ls : ls[m].kind = "react" /\ ls[m].to = n}
    BY <1>3, <2>2
  <2>4. ASSUME NEW m \in DOMAIN cs2, cs2[m].reply = n
        PROVE  m \in DOMAIN cs
    BY <1>1, <1>5, <2>1, <2>4 DEF Quiet
  <2>5. {m \in DOMAIN cs2 : cs2[m].reply = n} = {m \in DOMAIN cs : cs[m].reply = n}
    BY <1>2, <2>4
  <2>6. QED  BY <2>3, <2>5 DEF ScoreOf
<1>6. ASSUME NEW n \in DOMAIN cs, NEW p \in Places(def, cs[n].ctx)
      PROVE  RowOf(cs2, ls2, def, n, p) = RowOf(cs, ls, def, n, p)
  <2>1. Touches(def, cs[n].ctx)
    BY PlacesAre
  <2>2. QED  BY <1>2, <1>5, <2>1 DEF RowOf
<1>7. ASSUME NEW x \in RowsOf(cs, ls, def, at) PROVE x \in RowsOf(cs2, ls2, def, at)
  <2>1. PICK n \in DOMAIN cs : \E p \in Places(def, cs[n].ctx) :
          /\ cs[n].kind = "post" /\ (def.recent => cs[n].at + 1 > at)
          /\ x = RowOf(cs, ls, def, n, p)
    BY RowsAre
  <2>2. PICK p \in Places(def, cs[n].ctx) :
          /\ cs[n].kind = "post" /\ (def.recent => cs[n].at + 1 > at)
          /\ x = RowOf(cs, ls, def, n, p)
    BY <2>1
  <2>3. n \in DOMAIN cs2 /\ cs2[n] = cs[n] /\ x = RowOf(cs2, ls2, def, n, p)
    BY <1>2, <1>6, <2>2
  <2>4. QED  BY <2>2, <2>3, RowsAre
<1>8. ASSUME NEW x \in RowsOf(cs2, ls2, def, at) PROVE x \in RowsOf(cs, ls, def, at)
  <2>1. PICK n \in DOMAIN cs2 : \E p \in Places(def, cs2[n].ctx) :
          /\ cs2[n].kind = "post" /\ (def.recent => cs2[n].at + 1 > at)
          /\ x = RowOf(cs2, ls2, def, n, p)
    BY RowsAre
  <2>2. PICK p \in Places(def, cs2[n].ctx) :
          /\ cs2[n].kind = "post" /\ (def.recent => cs2[n].at + 1 > at)
          /\ x = RowOf(cs2, ls2, def, n, p)
    BY <2>1
  <2>3. Touches(def, cs2[n].ctx)
    BY PlacesAre
  <2>4. n \in DOMAIN cs /\ cs2[n] = cs[n]
    BY <1>2, <1>4, <2>3
  <2>5. x = RowOf(cs, ls, def, n, p)
    BY <1>6, <2>2, <2>4
  <2>6. QED  BY <2>2, <2>4, <2>5, RowsAre
<1>9. QED  BY <1>7, <1>8

\* What is to be said of a claim, of the contents and the links
ClaimOK(cs, ls, c) ==
  /\ DefOK(c.def)
  /\ c.contents \in 0 .. Len(cs) /\ c.links \in 0 .. Len(ls)
  /\ \A i \in DOMAIN c.ids : c.ids[i] \in DOMAIN cs /\ Touches(c.def, cs[c.ids[i]].ctx)
  /\ \A i, j \in DOMAIN c.ids : c.ids[i] = c.ids[j] => i = j
  /\ (/\ \A n \in c.contents + 1 .. Len(cs) :
           /\ ~Touches(c.def, cs[n].ctx)
           /\ cs[n].reply # 0 => ~Touches(c.def, cs[cs[n].reply].ctx)
      /\ \A n \in c.links + 1 .. Len(ls) :
           ls[n].kind = "react" => ~Touches(c.def, cs[ls[n].to].ctx))
     => TopIds(RowsOf(cs, ls, c.def, c.at)) = c.ids

\* It stands as contents and links are added.
LEMMA ClaimStays ==
  ASSUME NEW cs, NEW ls, NEW cs2, NEW ls2,
         ContentsOK(cs), LinksOK(cs, ls), ContentsOK(cs2), LinksOK(cs2, ls2),
         Extends(cs, cs2), Extends(ls, ls2),
         NEW c, ClaimOK(cs, ls, c)
  PROVE  ClaimOK(cs2, ls2, c)
<1>1. /\ DOMAIN cs = 1 .. Len(cs) /\ Len(cs) \in Nat /\ DOMAIN ls = 1 .. Len(ls) /\ Len(ls) \in Nat
      /\ DOMAIN cs2 = 1 .. Len(cs2) /\ Len(cs2) \in Nat
      /\ DOMAIN ls2 = 1 .. Len(ls2) /\ Len(ls2) \in Nat
      /\ Len(cs) <= Len(cs2) /\ Len(ls) <= Len(ls2)
  BY DEF ContentsOK, LinksOK, Extends
<1>2. ASSUME NEW n \in DOMAIN cs PROVE n \in DOMAIN cs2 /\ cs2[n] = cs[n]
  BY <1>1 DEF Extends
<1>3. ASSUME NEW n \in DOMAIN ls PROVE n \in DOMAIN ls2 /\ ls2[n] = ls[n]
  BY <1>1 DEF Extends
<1>4. c.contents \in 0 .. Len(cs2) /\ c.links \in 0 .. Len(ls2)
  BY <1>1 DEF ClaimOK
<1>5. /\ DefOK(c.def)
      /\ \A i \in DOMAIN c.ids : c.ids[i] \in DOMAIN cs2 /\ Touches(c.def, cs2[c.ids[i]].ctx)
      /\ \A i, j \in DOMAIN c.ids : c.ids[i] = c.ids[j] => i = j
  BY <1>2 DEF ClaimOK
<1>6. ASSUME /\ \A n \in c.contents + 1 .. Len(cs2) :
                  /\ ~Touches(c.def, cs2[n].ctx)
                  /\ cs2[n].reply # 0 => ~Touches(c.def, cs2[cs2[n].reply].ctx)
             /\ \A n \in c.links + 1 .. Len(ls2) :
                  ls2[n].kind = "react" => ~Touches(c.def, cs2[ls2[n].to].ctx)
      PROVE  TopIds(RowsOf(cs2, ls2, c.def, c.at)) = c.ids
  <2>1. ASSUME NEW n \in c.contents + 1 .. Len(cs)
        PROVE  /\ ~Touches(c.def, cs[n].ctx)
               /\ cs[n].reply # 0 => ~Touches(c.def, cs[cs[n].reply].ctx)
    <3>1. n \in DOMAIN cs /\ n \in c.contents + 1 .. Len(cs2)
      BY <1>1 DEF ClaimOK
    <3>2. cs[n].reply \in Nat /\ cs[n].reply < n
      <4>1. cs[n] \in [by : HolonUsers, at : Nat \ {0}, kind : {"post", "article"},
                       ctx : HolonGroups \cup {NoGroup}, reply : Nat]
        BY <1>1, <3>1, ElementOfSeq DEF ContentsOK
      <4>2. QED  BY <3>1, <4>1 DEF ContentsOK
    <3>3. cs[n].reply # 0 => cs[n].reply \in DOMAIN cs
      BY <1>1, <3>1, <3>2
    <3>4. QED  BY <1>2, <1>6, <3>1, <3>3
  <2>2. ASSUME NEW n \in c.links + 1 .. Len(ls), ls[n].kind = "react"
        PROVE  ~Touches(c.def, cs[ls[n].to].ctx)
    <3>1. n \in DOMAIN ls /\ n \in c.links + 1 .. Len(ls2)
      BY <1>1 DEF ClaimOK
    <3>2. ls[n].to \in DOMAIN cs
      BY <2>2, <3>1 DEF LinksOK
    <3>3. QED  BY <1>2, <1>3, <1>6, <2>2, <3>1, <3>2
  <2>3. TopIds(RowsOf(cs, ls, c.def, c.at)) = c.ids
    BY <2>1, <2>2 DEF ClaimOK
  <2>4. \A n : n \in Len(cs) + 1 .. Len(cs2) => n \in c.contents + 1 .. Len(cs2)
    BY <1>1 DEF ClaimOK
  <2>5. \A n : n \in Len(ls) + 1 .. Len(ls2) => n \in c.links + 1 .. Len(ls2)
    BY <1>1 DEF ClaimOK
  <2>6. Quiet(cs, ls, cs2, ls2, c.def)
    BY <1>6, <2>4, <2>5 DEF Quiet
  <2>7. RowsOf(cs2, ls2, c.def, c.at) = RowsOf(cs, ls, c.def, c.at)
    BY <1>5, <2>6, RowsStay
  <2>8. QED  BY <2>3, <2>7
<1>7. QED
  BY <1>4, <1>5, <1>6 DEF ClaimOK

-----------------------------------------------------------------------------
\* LinksFrom and Lines, of the links
LinksOf(ls, u, kind) == {n \in DOMAIN ls : ls[n].kind = kind /\ ls[n].from = u}

LinesOf(ls, list, u, kind) ==
  /\ Len(list) = Cardinality(LinksOf(ls, u, kind))
  /\ \A n \in LinksOf(ls, u, kind) :
       list[Cardinality({m \in LinksOf(ls, u, kind) : m <= n})] = ls[n].to

\* The numbers of a finite set take the places from the first to the last.
LEMMA PlacesTaken ==
  ASSUME NEW S \in SUBSET Nat, IsFiniteSet(S)
  PROVE  /\ Cardinality(S) \in Nat
         /\ \A n \in S : Cardinality({m \in S : m <= n}) \in 1 .. Cardinality(S)
         /\ \A k \in 1 .. Cardinality(S) : \E n \in S : Cardinality({m \in S : m <= n}) = k
<1> DEFINE Upto(n) == {m \in S : m <= n}
           place == [n \in S |-> Cardinality(Upto(n))]
           N == Cardinality(S)
<1>1. N \in Nat
  BY FS_CardinalityType
<1>2. ASSUME NEW n \in S
      PROVE  IsFiniteSet(Upto(n)) /\ Cardinality(Upto(n)) \in 1 .. N
  <2>1. Upto(n) \in SUBSET S /\ n \in Upto(n)
    OBVIOUS
  <2> HIDE DEF Upto
  <2>2. IsFiniteSet(Upto(n)) /\ Cardinality(Upto(n)) <= N /\ Cardinality(Upto(n)) \in Nat
    BY <2>1, FS_Subset, FS_CardinalityType
  <2>3. Cardinality(Upto(n)) # 0
    BY <2>1, <2>2, FS_EmptySet
  <2>4. QED  BY <1>1, <2>2, <2>3
<1>3. ASSUME NEW n \in S, NEW k \in S, n < k
      PROVE  Cardinality(Upto(n)) < Cardinality(Upto(k))
  <2>5. n \in Nat /\ k \in Nat
    OBVIOUS
  <2>6. k <= k /\ ~(k <= n) /\ \A m \in Nat : m <= n => m <= k
    BY <1>3, <2>5
  <2>1. Upto(n) \in SUBSET Upto(k) /\ k \in Upto(k) /\ k \notin Upto(n)
    BY <2>6
  <2>2. /\ IsFiniteSet(Upto(k)) /\ Upto(n) # Upto(k)
        /\ Cardinality(Upto(k)) \in Nat /\ Cardinality(Upto(n)) \in Nat
    BY <1>1, <1>2, <2>1
  <2> HIDE DEF Upto
  <2>3. Cardinality(Upto(n)) <= Cardinality(Upto(k)) /\ Cardinality(Upto(n)) # Cardinality(Upto(k))
    BY <2>1, <2>2, FS_Subset
  <2>4. QED  BY <2>2, <2>3
<1>4. place \in Injection(S, 1 .. N)
  <2>1. ASSUME NEW n \in S, NEW k \in S, place[n] = place[k] PROVE n = k
    <3>1. Cardinality(Upto(n)) = Cardinality(Upto(k)) /\ Cardinality(Upto(n)) \in Nat
      BY <1>1, <1>2, <2>1
    <3>2. ~(n < k) /\ ~(k < n)
      BY <1>3, <3>1
    <3>3. QED  BY <3>2
  <2>2. place \in [S -> 1 .. N]
    BY <1>2
  <2> HIDE DEF place, N
  <2>3. QED  BY <2>1, <2>2 DEF Injection, IsInjective
<1>5. place \in Surjection(S, 1 .. N)
  <2>1. IsFiniteSet(1 .. N) /\ Cardinality(1 .. N) = N
    BY <1>1, FS_Interval
  <2> HIDE DEF place
  <2>2. QED  BY <1>4, <2>1, FS_Injection
<1>6. \A k \in 1 .. N : \E n \in S : place[n] = k
  <2> HIDE DEF place
  <2>1. QED  BY <1>5 DEF Surjection
<1>7. QED
  BY <1>1, <1>2, <1>6

\* The links of a user are finitely many numbers.
LEMMA LinksOfAre ==
  ASSUME NEW T, NEW ls \in Seq(T), NEW u, NEW kind
  PROVE  LinksOf(ls, u, kind) \in SUBSET Nat /\ IsFiniteSet(LinksOf(ls, u, kind))
<1>1. LinksOf(ls, u, kind) \in SUBSET (1 .. Len(ls)) /\ Len(ls) \in Nat
  BY DEF LinksOf
<1>2. IsFiniteSet(1 .. Len(ls))
  BY <1>1, FS_Interval
<1>3. QED
  BY <1>1, <1>2, FS_Subset

\* A list has nothing but what links are to.
LEMMA LinesNameTargets ==
  ASSUME NEW T, NEW ls \in Seq(T), NEW u, NEW kind, NEW X, NEW list \in Seq(X),
         LinesOf(ls, list, u, kind)
  PROVE  ToSet(list) = {ls[n].to : n \in LinksOf(ls, u, kind)}
<1> DEFINE S == LinksOf(ls, u, kind)
           P(n) == Cardinality({m \in S : m <= n})
<1>1. S \in SUBSET Nat /\ IsFiniteSet(S)
  BY LinksOfAre
<1>2. /\ \A n \in S : P(n) \in 1 .. Cardinality(S)
      /\ \A k \in 1 .. Cardinality(S) : \E n \in S : P(n) = k
  <2> HIDE DEF S
  <2>1. QED  BY <1>1, PlacesTaken
<1>3. Len(list) = Cardinality(S) /\ \A n \in S : list[P(n)] = ls[n].to
  BY DEF LinesOf
<1>4. ToSet(list) = {list[k] : k \in 1 .. Len(list)}
  BY DEF ToSet
<1> HIDE DEF S, P
<1>5. QED
  BY <1>2, <1>3, <1>4 DEF S

\* A link more: it is the last of the user's and kind's, and of no other's.
LEMMA LinesGrow ==
  ASSUME NEW T, NEW ls \in Seq(T), NEW r \in T, NEW u, NEW kind, NEW X, NEW list \in Seq(X),
         LinesOf(ls, list, u, kind), NEW x \in X, r.to = x
  PROVE  IF r.kind = kind /\ r.from = u THEN LinesOf(Append(ls, r), Append(list, x), u, kind)
                                        ELSE LinesOf(Append(ls, r), list, u, kind)
<1> DEFINE S == LinksOf(ls, u, kind)
           ls2 == Append(ls, r)
           l == Len(ls) + 1
           P(U, n) == {m \in U : m <= n}
<1>1. /\ DOMAIN ls = 1 .. Len(ls) /\ DOMAIN ls2 = DOMAIN ls \cup {l} /\ l \notin DOMAIN ls
      /\ ls2[l] = r /\ l \in Nat /\ \A n \in DOMAIN ls : ls2[n] = ls[n] /\ n < l
  OBVIOUS
<1>2. S \in SUBSET Nat /\ IsFiniteSet(S) /\ S \subseteq DOMAIN ls
  <2>1. S \in SUBSET Nat /\ IsFiniteSet(S)
    BY LinksOfAre
  <2>2. QED  BY <2>1 DEF LinksOf
<1>3. /\ Len(list) = Cardinality(S) /\ Cardinality(S) \in Nat
      /\ \A n \in S : list[Cardinality(P(S, n))] = ls[n].to
  BY <1>2, FS_CardinalityType DEF LinesOf
<1> HIDE DEF ls2
<1>4. CASE r.kind = kind /\ r.from = u
  <2>1. LinksOf(ls2, u, kind) = S \cup {l}
    BY <1>1, <1>4 DEF LinksOf
  <2>2. l \notin S /\ Cardinality(S \cup {l}) = Cardinality(S) + 1
    <3>1. l \notin S
      BY <1>1, <1>2
    <3> HIDE DEF S
    <3>2. QED  BY <1>2, <3>1, FS_AddElement
  <2>3. /\ Len(Append(list, x)) = Len(list) + 1
        /\ Append(list, x)[Len(list) + 1] = x
        /\ \A k \in 1 .. Len(list) : Append(list, x)[k] = list[k]
    OBVIOUS
  <2>4. ASSUME NEW n \in S \cup {l}
        PROVE  Append(list, x)[Cardinality(P(S \cup {l}, n))] = ls2[n].to
    <3>1. CASE n = l
      <4>1. l <= l /\ \A m \in S : m <= l
        BY <1>1, <1>2
      <4>2. P(S \cup {l}, n) = S \cup {l}
        BY <3>1, <4>1
      <4>3. QED  BY <1>1, <1>3, <2>2, <2>3, <3>1, <4>2
    <3>2. CASE n \in S
      <4>1. ~(l <= n) /\ n \in DOMAIN ls
        BY <1>1, <1>2, <3>2
      <4>2. P(S \cup {l}, n) = P(S, n)
        BY <4>1
      <4>3. Cardinality(P(S, n)) \in 1 .. Cardinality(S)
        <5> HIDE DEF S
        <5>1. QED  BY <1>2, <3>2, PlacesTaken
      <4>4. QED  BY <1>1, <1>3, <2>3, <3>2, <4>1, <4>2, <4>3
    <3>3. QED  BY <3>1, <3>2
  <2>5. LinesOf(ls2, Append(list, x), u, kind)
    <3> HIDE DEF S
    <3>1. QED  BY <1>3, <2>1, <2>2, <2>3, <2>4 DEF LinesOf
  <2>6. QED  BY <1>4, <2>5 DEF ls2
<1>5. CASE ~(r.kind = kind /\ r.from = u)
  <2>1. LinksOf(ls2, u, kind) = S
    BY <1>1, <1>5 DEF LinksOf
  <2>2. \A n \in S : ls2[n] = ls[n]
    BY <1>1, <1>2
  <2>3. LinesOf(ls2, list, u, kind)
    <3> HIDE DEF S
    <3>1. QED  BY <1>3, <2>1, <2>2 DEF LinesOf
  <2>4. QED  BY <1>5, <2>3 DEF ls2
<1>6. QED  BY <1>4, <1>5

-----------------------------------------------------------------------------
\* The links a list is of
KindOf == [w \in Lists |-> CASE w = "following" -> "follow"
                             [] w = "joined" -> "member"
                             [] w = "creators" -> "creator"
                             [] w = "views" -> "view"
                             [] w = "verified" -> "verify"]

\* What a list may have
Listed == HolonEntities \cup Platforms \cup (HolonUsers \X Nat)

\* The types
HolonTyped ==
  /\ holonDoing \in HolonScenarios
  /\ holonTick \in 1 .. MaxHolonTicks
  /\ through \in BOOLEAN /\ raised \in BOOLEAN
  /\ ContentsOK(contents) /\ LinksOK(contents, links)
  /\ \A n \in DOMAIN contents : contents[n].at \in 1 .. holonTick
  /\ memo \in [HolonUsers -> [Lists -> Seq(Listed)]]
  /\ DOMAIN holonViews \subseteq HolonUsers \X Nat /\ IsFiniteSet(DOMAIN holonViews)
  /\ \A v \in DOMAIN holonViews : DefOK(holonViews[v])

\* Lists are of the links, and have nothing twice.
Remembered ==
  \A u \in HolonUsers : \A w \in Lists :
    LinesOf(links, memo[u][w], u, KindOf[w]) /\ IsInjective(memo[u][w])

\* What was claimed stands.
Claimed == \A c \in holonClaims : ClaimOK(contents, links, c)

\* The inductive invariant of the Holon simulator
HolonInv == HolonTyped /\ Remembered /\ Claimed

\* Each list is of links of its own.
LEMMA KindsAre ==
  /\ KindOf["following"] = "follow" /\ KindOf["joined"] = "member"
  /\ KindOf["creators"] = "creator" /\ KindOf["views"] = "view"
  /\ KindOf["verified"] = "verify"
  /\ \A w \in Lists : KindOf[w] \in LinkKinds /\ KindOf[w] # "react" /\ KindOf[w] # "label"
  /\ \A w, v \in Lists : KindOf[w] = KindOf[v] => w = v
<1>1. /\ KindOf["following"] = "follow" /\ KindOf["joined"] = "member"
      /\ KindOf["creators"] = "creator" /\ KindOf["views"] = "view"
      /\ KindOf["verified"] = "verify"
  BY DEF KindOf, Lists
<1>2. \A w \in Lists : w = "following" \/ w = "joined" \/ w = "creators" \/ w = "views"
                        \/ w = "verified"
  BY DEF Lists
<1>3. \A w \in Lists : KindOf[w] \in LinkKinds /\ KindOf[w] # "react" /\ KindOf[w] # "label"
  BY <1>1, <1>2 DEF LinkKinds
<1>4. \A w, v \in Lists : KindOf[w] = KindOf[v] => w = v
  BY <1>1, <1>2
<1>5. QED
  BY <1>1, <1>3, <1>4

\* As contents and links are added, what was claimed stands.
LEMMA ClaimsStay ==
  ASSUME HolonInv, ContentsOK(contents'), LinksOK(contents', links'),
         Extends(contents, contents'), Extends(links, links'), holonClaims' = holonClaims
  PROVE  Claimed'
<1>1. ASSUME NEW c \in holonClaims PROVE ClaimOK(contents', links', c)
  <2>1. ClaimOK(contents, links, c) /\ ContentsOK(contents) /\ LinksOK(contents, links)
    BY DEF HolonInv, HolonTyped, Claimed
  <2>2. QED  BY <2>1, ClaimStays
<1>2. QED
  BY <1>1 DEF Claimed, ClaimOK, DefOK, Touches, Under

\* The links with one more
LEMMA LinkGrows ==
  ASSUME HolonInv, NEW r \in [kind : LinkKinds, from : HolonUsers, to : Targets],
         links' = Append(links, r), r.kind = "react" => r.to \in DOMAIN contents
  PROVE  LinksOK(contents, links') /\ Extends(links, links') /\ Extends(contents, contents)
<1>1. ContentsOK(contents) /\ LinksOK(contents, links)
  BY DEF HolonInv, HolonTyped
<1>2. links \in Seq([kind : LinkKinds, from : HolonUsers, to : Targets])
  BY <1>1 DEF LinksOK
<1>3. /\ links' \in Seq([kind : LinkKinds, from : HolonUsers, to : Targets])
      /\ Len(links') = Len(links) + 1 /\ Len(links) \in Nat
      /\ links'[Len(links) + 1] = r
      /\ \A n \in 1 .. Len(links) : links'[n] = links[n]
  BY <1>2
<1>4. DOMAIN links' = 1 .. Len(links) + 1 /\ DOMAIN links = 1 .. Len(links)
  BY <1>2, <1>3
<1>5. LinksOK(contents, links')
  BY <1>1, <1>3, <1>4 DEF LinksOK
<1>6. Len(contents) \in Nat
  BY <1>1 DEF ContentsOK
<1>7. QED
  BY <1>3, <1>5, <1>6 DEF Extends

\* An agent makes a link of a kind it keeps a list of, and adds to the list.
LEMMA ListStep ==
  ASSUME HolonInv, NEW u \in HolonUsers, NEW w \in Lists, NEW x \in Listed,
         x \notin ToSet(memo[u][w]),
         links' = Append(links, [kind |-> KindOf[w], from |-> u, to |-> x]),
         memo' = [memo EXCEPT ![u][w] = Append(@, x)],
         UNCHANGED <<holonDoing, holonTick, through, raised, contents, holonViews, holonClaims>>
  PROVE  HolonInv'
<1> DEFINE r == [kind |-> KindOf[w], from |-> u, to |-> x]
<1>1. r \in [kind : LinkKinds, from : HolonUsers, to : Targets] /\ r.kind # "react"
  BY KindsAre DEF Targets, Listed
<1>2. LinksOK(contents, links') /\ Extends(links, links') /\ Extends(contents, contents)
  <2> HIDE DEF r
  <2>1. links' = Append(links, r)
    BY DEF r
  <2>2. QED  BY <1>1, <2>1, LinkGrows
<1>3. ContentsOK(contents) /\ LinksOK(contents, links)
      /\ memo \in [HolonUsers -> [Lists -> Seq(Listed)]]
  BY DEF HolonInv, HolonTyped
<1>4. /\ memo' \in [HolonUsers -> [Lists -> Seq(Listed)]]
      /\ memo'[u][w] = Append(memo[u][w], x)
      /\ \A v \in HolonUsers, z \in Lists : v # u \/ z # w => memo'[v][z] = memo[v][z]
  <2>1. memo[u][w] \in Seq(Listed) /\ Append(memo[u][w], x) \in Seq(Listed)
    BY <1>3
  <2>2. QED  BY <1>3, <2>1
<1>5. HolonTyped'
  BY <1>2, <1>3, <1>4 DEF HolonInv, HolonTyped, ContentsOK, LinksOK, DefOK
<1>6. Claimed'
  BY <1>2, <1>3, ClaimsStay
<1>7. ASSUME NEW v \in HolonUsers, NEW z \in Lists
      PROVE  LinesOf(links', memo'[v][z], v, KindOf[z]) /\ IsInjective(memo'[v][z])
  <2>1. LinesOf(links, memo[v][z], v, KindOf[z]) /\ IsInjective(memo[v][z])
        /\ memo[v][z] \in Seq(Listed)
    BY <1>3 DEF HolonInv, Remembered
  <2>2. links \in Seq([kind : LinkKinds, from : HolonUsers, to : Targets])
    BY <1>3 DEF LinksOK
  <2>3. IF r.kind = KindOf[z] /\ r.from = v
        THEN LinesOf(Append(links, r), Append(memo[v][z], x), v, KindOf[z])
        ELSE LinesOf(Append(links, r), memo[v][z], v, KindOf[z])
    <3>1. r.to = x
      OBVIOUS
    <3> HIDE DEF r
    <3>2. QED  BY <1>1, <2>1, <2>2, <3>1, LinesGrow
  <2>4. r.kind = KindOf[z] /\ r.from = v <=> v = u /\ z = w
    BY KindsAre
  <2>5. CASE v = u /\ z = w
    <3>1. LinesOf(links', memo'[v][z], v, KindOf[z])
      BY <1>4, <2>3, <2>4, <2>5
    <3>2. IsInjective(Append(memo[v][z], x))
      <4>1. \A i \in DOMAIN memo[v][z] : memo[v][z][i] # x
        BY <2>5 DEF ToSet
      <4>2. /\ DOMAIN Append(memo[v][z], x) = 1 .. Len(memo[v][z]) + 1
            /\ DOMAIN memo[v][z] = 1 .. Len(memo[v][z]) /\ Len(memo[v][z]) \in Nat
            /\ Append(memo[v][z], x)[Len(memo[v][z]) + 1] = x
            /\ \A i \in 1 .. Len(memo[v][z]) : Append(memo[v][z], x)[i] = memo[v][z][i]
        BY <2>1
      <4>3. \A i \in 1 .. Len(memo[v][z]) + 1 :
              i \in DOMAIN memo[v][z] \/ i = Len(memo[v][z]) + 1
        BY <4>2
      <4>4. \A i, j \in DOMAIN memo[v][z] : memo[v][z][i] = memo[v][z][j] => i = j
        BY <2>1 DEF IsInjective
      <4>5. \A i, j \in 1 .. Len(memo[v][z]) + 1 :
              Append(memo[v][z], x)[i] = Append(memo[v][z], x)[j] => i = j
        BY <4>1, <4>2, <4>3, <4>4
      <4>6. QED  BY <4>2, <4>5 DEF IsInjective
    <3>3. QED  BY <1>4, <2>5, <3>1, <3>2
  <2>6. CASE ~(v = u /\ z = w)
    BY <1>4, <2>1, <2>3, <2>4, <2>6
  <2>7. QED  BY <2>5, <2>6
<1>8. Remembered'
  BY <1>7 DEF Remembered, LinesOf, LinksOf, KindOf
<1>9. QED  BY <1>5, <1>6, <1>8 DEF HolonInv

\* A reaction or a label is in no list.
LEMMA ReactStep ==
  ASSUME HolonInv, NEW u \in HolonUsers, NEW n \in DOMAIN contents, NEW kind \in {"react", "label"},
         HolonReact(u, n, kind)
  PROVE  HolonInv'
<1> DEFINE r == [kind |-> kind, from |-> u, to |-> n]
<1>1. ContentsOK(contents) /\ LinksOK(contents, links)
      /\ memo \in [HolonUsers -> [Lists -> Seq(Listed)]]
  BY DEF HolonInv, HolonTyped
<1>2. n \in Nat
  BY <1>1 DEF ContentsOK
<1>3. r \in [kind : LinkKinds, from : HolonUsers, to : Targets] /\ r.to \in DOMAIN contents
  <2>1. n \in Targets /\ kind \in LinkKinds
    BY <1>2 DEF Targets, LinkKinds
  <2>2. QED  BY <2>1
<1>4. links' = Append(links, r)
      /\ UNCHANGED <<holonDoing, holonTick, through, raised, contents, memo, holonViews, holonClaims>>
  BY DEF HolonReact, CreateLink, Does
<1>5. LinksOK(contents, links') /\ Extends(links, links') /\ Extends(contents, contents)
  <2> HIDE DEF r
  <2>1. QED  BY <1>3, <1>4, LinkGrows
<1>6. HolonTyped'
  <2> HIDE DEF r
  <2>1. QED  BY <1>1, <1>4, <1>5 DEF HolonInv, HolonTyped, ContentsOK, LinksOK, DefOK
<1>7. Claimed'
  BY <1>1, <1>4, <1>5, ClaimsStay
<1>8. ASSUME NEW v \in HolonUsers, NEW z \in Lists
      PROVE  LinesOf(links', memo'[v][z], v, KindOf[z]) /\ IsInjective(memo'[v][z])
  <2>1. LinesOf(links, memo[v][z], v, KindOf[z]) /\ IsInjective(memo[v][z])
        /\ memo[v][z] \in Seq(Listed \cup {n})
    BY <1>1 DEF HolonInv, Remembered
  <2>2. links \in Seq([kind : LinkKinds, from : HolonUsers, to : Targets])
    BY <1>1 DEF LinksOK
  <2>3. r.kind # KindOf[z] /\ r.to = n
    BY KindsAre
  <2> HIDE DEF r
  <2>4. LinesOf(Append(links, r), memo[v][z], v, KindOf[z])
    <3>1. n \in Listed \cup {n}
      OBVIOUS
    <3>2. QED  BY <1>3, <2>1, <2>2, <2>3, <3>1, LinesGrow
  <2>5. QED  BY <1>4, <2>1, <2>4
<1>9. Remembered'
  BY <1>8 DEF Remembered, LinesOf, LinksOf, KindOf
<1>10. QED  BY <1>6, <1>7, <1>9 DEF HolonInv

\* Where no link is made, what is remembered stays.
LEMMA RememberedStays ==
  ASSUME HolonInv, UNCHANGED <<links, memo>>
  PROVE  Remembered'
<1>1. ASSUME NEW v \in HolonUsers, NEW z \in Lists
      PROVE  LinesOf(links', memo'[v][z], v, KindOf[z]) /\ IsInjective(memo'[v][z])
  BY DEF HolonInv, Remembered
<1>2. QED
  BY <1>1 DEF Remembered, LinesOf, LinksOf, KindOf

\* A post is the last of the contents, and replies to one before it.
LEMMA HolonPostStep ==
  ASSUME HolonInv, NEW u \in HolonUsers, NEW kind \in {"post", "article"},
         NEW g \in HolonGroups \cup {NoGroup}, NEW n \in 0 .. Len(contents),
         HolonPost(u, kind, g, n)
  PROVE  HolonInv'
<1> DEFINE R == [by : HolonUsers, at : Nat \ {0}, kind : {"post", "article"},
                 ctx : HolonGroups \cup {NoGroup}, reply : Nat]
           r == [by |-> u, at |-> holonTick, kind |-> kind, ctx |-> g, reply |-> n]
<1>1. /\ ContentsOK(contents) /\ LinksOK(contents, links)
      /\ holonTick \in 1 .. MaxHolonTicks /\ holonTick \in Nat \ {0}
      /\ contents \in Seq(R) /\ Len(contents) \in Nat
      /\ \A m \in DOMAIN contents : contents[m].at \in 1 .. holonTick
  BY HolonAssumption DEF HolonInv, HolonTyped, ContentsOK, HolonAssumption
<1>2. r \in R
  BY <1>1
<1>3. /\ contents' = Append(contents, r)
      /\ UNCHANGED <<holonDoing, holonTick, through, holonClaims, raised, links, memo, holonViews>>
  BY DEF HolonPost, Does
<1>4. r.reply < Len(contents) + 1 /\ r.at = holonTick /\ r.reply = n
  BY <1>1
<1> HIDE DEF r
<1>5. /\ contents' \in Seq(R) /\ Len(contents') = Len(contents) + 1
      /\ contents'[Len(contents) + 1] = r
      /\ \A m \in 1 .. Len(contents) : contents'[m] = contents[m]
      /\ DOMAIN contents' = 1 .. Len(contents) + 1 /\ DOMAIN contents = 1 .. Len(contents)
  BY <1>1, <1>2, <1>3
<1>6. \A m \in 1 .. Len(contents) + 1 : m \in DOMAIN contents \/ m = Len(contents) + 1
  BY <1>1, <1>5
<1>7. ContentsOK(contents')
  <2>1. \A m \in DOMAIN contents : contents[m].reply < m
    BY <1>1 DEF ContentsOK
  <2>2. \A m \in DOMAIN contents' : contents'[m].reply < m
    BY <1>4, <1>5, <1>6, <2>1
  <2>3. QED  BY <1>5, <2>2 DEF ContentsOK
<1>8. LinksOK(contents', links)
  <2>1. \A m \in DOMAIN contents : m \in DOMAIN contents'
    BY <1>1, <1>5
  <2>2. QED  BY <1>1, <2>1 DEF LinksOK
<1>9. Extends(contents, contents') /\ Extends(links, links')
  <2>1. Len(links) \in Nat
    BY <1>1 DEF LinksOK
  <2>2. QED  BY <1>1, <1>3, <1>5, <2>1 DEF Extends
<1>10. Claimed'
  BY <1>3, <1>7, <1>8, <1>9, ClaimsStay
<1>11. \A m \in DOMAIN contents' : contents'[m].at \in 1 .. holonTick
  <2>1. holonTick \in 1 .. holonTick
    BY <1>1
  <2>2. QED  BY <1>1, <1>4, <1>5, <1>6, <2>1
<1>12. HolonTyped'
  <2>1. ContentsOK(contents)' /\ LinksOK(contents, links)'
    BY <1>3, <1>7, <1>8 DEF ContentsOK, LinksOK
  <2>2. QED  BY <1>1, <1>3, <1>11, <2>1 DEF HolonInv, HolonTyped, DefOK
<1>13. Remembered'
  BY <1>3, RememberedStays
<1>14. QED  BY <1>10, <1>12, <1>13 DEF HolonInv

\* What the lists are for: nothing is done twice.
LEMMA HolonListSteps ==
  ASSUME HolonInv, NEW u \in HolonUsers,
         \/ \E t \in HolonEntities : HolonFollow(u, t)
         \/ \E g \in HolonGroups : HolonJoin(u, g)
         \/ \E t \in HolonUsers : HolonSubscribe(u, t)
         \/ \E v \in DOMAIN holonViews : HolonSubscribeView(u, v)
         \/ \E p \in Platforms : HolonVerify(u, p)
  PROVE  HolonInv'
<1>1. ContentsOK(contents) /\ LinksOK(contents, links)
      /\ memo \in [HolonUsers -> [Lists -> Seq(Listed)]]
      /\ DOMAIN holonViews \subseteq HolonUsers \X Nat
  BY DEF HolonInv, HolonTyped
<1>2. ASSUME NEW w \in Lists
      PROVE  ToSet(memo[u][w]) = {links[n].to : n \in LinksOf(links, u, KindOf[w])}
  <2>1. LinesOf(links, memo[u][w], u, KindOf[w]) /\ memo[u][w] \in Seq(Listed)
    BY <1>1 DEF HolonInv, Remembered
  <2>2. links \in Seq([kind : LinkKinds, from : HolonUsers, to : Targets])
    BY <1>1 DEF LinksOK
  <2>3. QED  BY <2>1, <2>2, LinesNameTargets
<1>3. "following" \in Lists /\ "joined" \in Lists /\ "creators" \in Lists /\ "views" \in Lists
      /\ "verified" \in Lists
  BY DEF Lists
<1>4. ASSUME NEW t \in HolonEntities, HolonFollow(u, t) PROVE HolonInv'
  <2>1. Following(u) = ToSet(memo[u]["following"])
    BY <1>2, <1>3, KindsAre DEF Following, LinksFrom, LinksOf
  <2>2. t \notin ToSet(memo[u]["following"])
    <3>1. t \in FollowsOfFollows(u) \/ t \notin ToSet(memo[u]["following"])
      BY <1>4 DEF HolonFollow
    <3>2. t \in FollowsOfFollows(u) => t \notin Following(u)
      BY DEF FollowsOfFollows
    <3>3. QED  BY <2>1, <3>1, <3>2
  <2>3. /\ links' = Append(links, [kind |-> KindOf["following"], from |-> u, to |-> t])
        /\ memo' = [memo EXCEPT ![u]["following"] = Append(@, t)]
        /\ UNCHANGED <<holonDoing, holonTick, through, raised, contents, holonViews, holonClaims>>
    BY <1>4, KindsAre DEF HolonFollow, CreateLink, Remember, Does
  <2>4. t \in Listed
    BY DEF Listed
  <2>5. QED  BY <1>3, <2>2, <2>3, <2>4, ListStep
<1>5. ASSUME NEW g \in HolonGroups, HolonJoin(u, g) PROVE HolonInv'
  <2>1. Groups(u) = ToSet(memo[u]["joined"])
    BY <1>2, <1>3, KindsAre DEF Groups, LinksFrom, LinksOf
  <2>2. g \notin ToSet(memo[u]["joined"])
    <3>1. g \in SuggestedContexts(u) \/ g \notin ToSet(memo[u]["joined"])
      BY <1>5 DEF HolonJoin
    <3>2. g \in SuggestedContexts(u) => g \notin Groups(u)
      BY DEF SuggestedContexts
    <3>3. QED  BY <2>1, <3>1, <3>2
  <2>3. /\ links' = Append(links, [kind |-> KindOf["joined"], from |-> u, to |-> g])
        /\ memo' = [memo EXCEPT ![u]["joined"] = Append(@, g)]
        /\ UNCHANGED <<holonDoing, holonTick, through, raised, contents, holonViews, holonClaims>>
    BY <1>5, KindsAre DEF HolonJoin, CreateLink, Remember, Does
  <2>4. g \in Listed
    BY DEF Listed, HolonEntities
  <2>5. QED  BY <1>3, <2>2, <2>3, <2>4, ListStep
<1>6. ASSUME NEW t \in HolonUsers, HolonSubscribe(u, t) PROVE HolonInv'
  <2>2. t \notin ToSet(memo[u]["creators"])
    BY <1>6 DEF HolonSubscribe
  <2>3. /\ links' = Append(links, [kind |-> KindOf["creators"], from |-> u, to |-> t])
        /\ memo' = [memo EXCEPT ![u]["creators"] = Append(@, t)]
        /\ UNCHANGED <<holonDoing, holonTick, through, raised, contents, holonViews, holonClaims>>
    BY <1>6, KindsAre DEF HolonSubscribe, CreateLink, Remember, Does
  <2>4. t \in Listed
    BY DEF Listed, HolonEntities
  <2>5. QED  BY <1>3, <2>2, <2>3, <2>4, ListStep
<1>7. ASSUME NEW v \in DOMAIN holonViews, HolonSubscribeView(u, v) PROVE HolonInv'
  <2>2. v \notin ToSet(memo[u]["views"])
    BY <1>7 DEF HolonSubscribeView
  <2>3. /\ links' = Append(links, [kind |-> KindOf["views"], from |-> u, to |-> v])
        /\ memo' = [memo EXCEPT ![u]["views"] = Append(@, v)]
        /\ UNCHANGED <<holonDoing, holonTick, through, raised, contents, holonViews, holonClaims>>
    BY <1>7, KindsAre DEF HolonSubscribeView, CreateLink, Remember, Does
  <2>4. v \in Listed
    BY <1>1 DEF Listed
  <2>5. QED  BY <1>3, <2>2, <2>3, <2>4, ListStep
<1>8. ASSUME NEW p \in Platforms, HolonVerify(u, p) PROVE HolonInv'
  <2>2. p \notin ToSet(memo[u]["verified"])
    BY <1>8 DEF HolonVerify
  <2>3. /\ links' = Append(links, [kind |-> KindOf["verified"], from |-> u, to |-> p])
        /\ memo' = [memo EXCEPT ![u]["verified"] = Append(@, p)]
        /\ UNCHANGED <<holonDoing, holonTick, through, raised, contents, holonViews, holonClaims>>
    BY <1>8, KindsAre DEF HolonVerify, CreateLink, Remember, Does
  <2>4. p \in Listed
    BY DEF Listed
  <2>5. QED  BY <1>3, <2>2, <2>3, <2>4, ListStep
<1>9. QED  BY <1>4, <1>5, <1>6, <1>7, <1>8

-----------------------------------------------------------------------------
\* A view an agent creates can be executed.
LEMMA HolonViewStep ==
  ASSUME HolonInv, NEW u \in HolonUsers, HolonCreateView(u)
  PROVE  HolonInv'
<1> DEFINE V == DOMAIN holonViews
           made == Cardinality({v \in V : v[1] = u})
           of == IF memo[u].joined = << >> THEN {NoGroup} ELSE ToSet(memo[u].joined)
           defs == {[source |-> "all", recent |-> FALSE, rank |-> "score"]}
                     \cup {[source |-> "group", of |-> g, recent |-> TRUE, rank |-> "score"] :
                           g \in of}
<1>1. UNCHANGED <<holonDoing, holonTick, through, raised, contents, links, memo, holonClaims>>
  BY DEF HolonCreateView, Does
<1>2. PICK def \in defs :
        holonViews' = [v \in V \cup {<<u, made>>} |->
                         IF v = <<u, made>> THEN def ELSE holonViews[v]]
  BY DEF HolonCreateView
<1>3. DefOK(def)
  <2>1. def.source = "all" \/ def.source = "group"
    BY <1>2
  <2>2. QED  BY <2>1 DEF DefOK
<1>4. V \subseteq HolonUsers \X Nat /\ IsFiniteSet(V) /\ \A v \in V : DefOK(holonViews[v])
  BY DEF HolonInv, HolonTyped
<1> HIDE DEF defs, V
<1>5. made \in Nat
  <2>1. {v \in V : v[1] = u} \in SUBSET V
    OBVIOUS
  <2>2. QED  BY <1>4, <2>1, FS_Subset, FS_CardinalityType
<1> HIDE DEF made
<1>6. DOMAIN holonViews' = V \cup {<<u, made>>}
      /\ \A v \in DOMAIN holonViews' : DefOK(holonViews'[v])
  BY <1>2, <1>3, <1>4
<1>7. IsFiniteSet(V \cup {<<u, made>>})
  BY <1>4, FS_AddElement
<1>8. DOMAIN holonViews' \subseteq HolonUsers \X Nat
  BY <1>4, <1>5, <1>6
<1>9. HolonTyped'
  BY <1>1, <1>6, <1>7, <1>8 DEF HolonInv, HolonTyped, ContentsOK, LinksOK, DefOK
<1>10. Remembered'
  BY <1>1, RememberedStays
<1>11. Claimed'
  <2>1. ContentsOK(contents) /\ LinksOK(contents, links)
    BY DEF HolonInv, HolonTyped
  <2>2. Len(contents) \in Nat /\ Len(links) \in Nat
    BY <2>1 DEF ContentsOK, LinksOK
  <2>3. Extends(contents, contents) /\ Extends(links, links)
    BY <2>2 DEF Extends
  <2>4. QED  BY <1>1, <2>1, <2>3, ClaimsStay
<1>12. QED  BY <1>9, <1>10, <1>11 DEF HolonInv

\* What a view answers is about what it is of, and names nothing twice.
LEMMA ExecutionStep ==
  ASSUME HolonInv, NEW def \in AllDefs, ExecuteHolonView(def)
  PROVE  HolonInv'
<1> DEFINE S == RowsOf(contents, links, def, holonTick)
           c == [def |-> def, at |-> holonTick, ids |-> TopIds(S),
                 contents |-> Len(contents), links |-> Len(links)]
<1>1. DefOK(def)
  <2>1. CASE def \in {SystemViews[v] : v \in DOMAIN SystemViews}
    <3>1. def.source = "all"
      BY <2>1 DEF SystemViews
    <3>2. QED  BY <3>1 DEF DefOK
  <2>2. CASE def \in {GroupViews[g] : g \in HolonGroups}
    <3>1. def.source = "tree" /\ def.of \in HolonGroups
      BY <2>2 DEF GroupViews
    <3>2. QED  BY <3>1 DEF DefOK
  <2>3. CASE def \in {holonViews[v] : v \in DOMAIN holonViews}
    BY <2>3 DEF HolonInv, HolonTyped
  <2>4. QED  BY <2>1, <2>2, <2>3 DEF AllDefs
<1>2. ContentsOK(contents) /\ LinksOK(contents, links)
  BY DEF HolonInv, HolonTyped
<1>3. RowsOK(S) /\ \A x \in S : x.id \in DOMAIN contents /\ Touches(def, contents[x.id].ctx)
  BY <1>1, <1>2, RowsRank
<1>4. /\ UNCHANGED <<holonDoing, holonTick, through, raised, contents, links, memo, holonViews>>
      /\ holonClaims' = {c}
  BY CandidatesAre DEF ExecuteHolonView, ExecuteHolon
<1>5. /\ \A i \in DOMAIN TopIds(S) : \E x \in S : TopIds(S)[i] = x.id
      /\ \A i, j \in DOMAIN TopIds(S) : TopIds(S)[i] = TopIds(S)[j] => i = j
  <2> HIDE DEF S
  <2>1. QED  BY <1>3, TopIdsAre
<1>6. \A i \in DOMAIN TopIds(S) :
        TopIds(S)[i] \in DOMAIN contents /\ Touches(def, contents[TopIds(S)[i]].ctx)
  <2> HIDE DEF S
  <2>1. QED  BY <1>3, <1>5
<1>7. Len(contents) \in 0 .. Len(contents) /\ Len(links) \in 0 .. Len(links)
  BY <1>2 DEF ContentsOK, LinksOK
<1>8. /\ c.def = def /\ c.at = holonTick /\ c.ids = TopIds(S) /\ c.contents = Len(contents)
      /\ c.links = Len(links)
  OBVIOUS
<1>9. ClaimOK(contents, links, c)
  <2> HIDE DEF c
  <2>1. TopIds(RowsOf(contents, links, c.def, c.at)) = c.ids
    BY <1>8
  <2> HIDE DEF S
  <2>2. QED  BY <1>1, <1>5, <1>6, <1>7, <1>8, <2>1 DEF ClaimOK
<1>10. \A d \in holonClaims' : ClaimOK(contents', links', d)
  <2> HIDE DEF c
  <2>1. QED  BY <1>4, <1>9
<1>11. Claimed'
  BY <1>10 DEF Claimed, ClaimOK, DefOK, Touches, Under
<1>12. Remembered'
  BY <1>4, RememberedStays
<1>13. HolonTyped'
  BY <1>4 DEF HolonInv, HolonTyped, ContentsOK, LinksOK, DefOK
<1>14. QED  BY <1>11, <1>12, <1>13 DEF HolonInv

\* Time goes on, or the run ends.
LEMMA HolonOtherSteps ==
  ASSUME HolonInv,
         \/ \E u \in HolonUsers : HolonVerifyRaises(u)
         \/ HolonThrough \/ HolonAdvance
         \/ UNCHANGED holonVars
  PROVE  HolonInv'
<1>1. /\ UNCHANGED <<holonDoing, contents, links, memo, holonViews, holonClaims>>
      /\ through' \in BOOLEAN /\ raised' \in BOOLEAN
      /\ holonTick' \in 1 .. MaxHolonTicks /\ holonTick <= holonTick'
  <2>1. holonTick \in 1 .. MaxHolonTicks /\ through \in BOOLEAN /\ raised \in BOOLEAN
        /\ MaxHolonTicks \in Nat
    BY HolonAssumption DEF HolonInv, HolonTyped, HolonAssumption
  <2>2. CASE \E u \in HolonUsers : HolonVerifyRaises(u)
    BY <2>1, <2>2 DEF HolonVerifyRaises, Does
  <2>3. CASE HolonThrough
    BY <2>1, <2>3 DEF HolonThrough
  <2>4. CASE HolonAdvance
    <3>1. holonTick < MaxHolonTicks /\ holonTick' = holonTick + 1 /\ through' = FALSE
          /\ UNCHANGED <<holonDoing, raised, contents, links, memo, holonViews, holonClaims>>
      BY <2>4 DEF HolonAdvance
    <3>2. holonTick' \in 1 .. MaxHolonTicks /\ holonTick <= holonTick'
      BY <2>1, <3>1
    <3>3. QED  BY <2>1, <3>1, <3>2
  <2>5. CASE UNCHANGED holonVars
    BY <2>1, <2>5 DEF holonVars
  <2>6. QED  BY <2>2, <2>3, <2>4, <2>5
<1>2. ContentsOK(contents) /\ LinksOK(contents, links)
  BY DEF HolonInv, HolonTyped
<1>3. Len(contents) \in Nat /\ Len(links) \in Nat
  BY <1>2 DEF ContentsOK, LinksOK
<1>4. Extends(contents, contents) /\ Extends(links, links)
  BY <1>3 DEF Extends
<1>5. Claimed'
  BY <1>1, <1>2, <1>4, ClaimsStay
<1>6. Remembered'
  BY <1>1, RememberedStays
<1>7. \A n \in DOMAIN contents : contents[n].at \in 1 .. holonTick'
  <2>1. \A n \in DOMAIN contents : contents[n].at \in 1 .. holonTick
    BY DEF HolonInv, HolonTyped
  <2>2. holonTick \in Nat /\ holonTick' \in Nat
    BY <1>1 DEF HolonInv, HolonTyped
  <2>3. \A k \in 1 .. holonTick : k \in 1 .. holonTick'
    BY <1>1, <2>2
  <2>4. QED  BY <2>1, <2>3
<1>8. HolonTyped'
  BY <1>1, <1>7 DEF HolonInv, HolonTyped, ContentsOK, LinksOK, DefOK
<1>9. QED  BY <1>5, <1>6, <1>8 DEF HolonInv

\* At the start there is nothing.
LEMMA HolonInitHolds == HolonInit => HolonInv
<1> SUFFICES ASSUME HolonInit PROVE HolonInv
  OBVIOUS
<1> USE DEF HolonInit
<1>1. ContentsOK(contents) /\ LinksOK(contents, links)
  BY DEF ContentsOK, LinksOK
<1>2. 1 \in 1 .. MaxHolonTicks
  BY HolonAssumption DEF HolonAssumption
<1>3. DOMAIN holonViews = {} /\ IsFiniteSet(DOMAIN holonViews)
  BY FS_EmptySet
<1>4. memo \in [HolonUsers -> [Lists -> Seq(Listed)]]
  OBVIOUS
<1>5. \A n \in DOMAIN contents : contents[n].at \in 1 .. holonTick
  OBVIOUS
<1>6. HolonTyped
  BY <1>1, <1>2, <1>3, <1>4, <1>5 DEF HolonTyped
<1>7. \A u \in HolonUsers, w \in Lists : LinesOf(links, << >>, u, KindOf[w])
  <2>1. \A u \in HolonUsers, w \in Lists : LinksOf(links, u, KindOf[w]) = {}
    BY DEF LinksOf
  <2>2. Len(<< >>) = Cardinality({})
    BY FS_EmptySet
  <2>3. QED  BY <2>1, <2>2 DEF LinesOf
<1>8. \A u \in HolonUsers, w \in Lists : memo[u][w] = << >>
  OBVIOUS
<1>9. IsInjective(<< >>)
  BY DEF IsInjective
<1>10. Remembered
  BY <1>7, <1>8, <1>9 DEF Remembered
<1>11. QED
  BY <1>6, <1>10 DEF HolonInv, Claimed

\* Every step keeps the invariant.
LEMMA HolonStep == HolonInv /\ [HolonNext]_holonVars => HolonInv'
<1> SUFFICES ASSUME HolonInv, [HolonNext]_holonVars PROVE HolonInv'
  OBVIOUS
<1>1. holonDoing.users \subseteq HolonUsers
  BY HolonAssumption DEF HolonInv, HolonTyped, HolonAssumption
<1>2. ASSUME NEW u \in holonDoing.users,
             \/ \E kind \in {"post", "article"}, g \in HolonGroups \cup {NoGroup},
                  n \in 0 .. Len(contents) : HolonPost(u, kind, g, n)
             \/ \E n \in DOMAIN contents, kind \in {"react", "label"} : HolonReact(u, n, kind)
             \/ \E t \in HolonEntities : HolonFollow(u, t)
             \/ \E g \in HolonGroups : HolonJoin(u, g)
             \/ \E t \in HolonUsers : HolonSubscribe(u, t)
             \/ HolonCreateView(u)
             \/ \E v \in DOMAIN holonViews : HolonSubscribeView(u, v)
             \/ \E p \in Platforms : HolonVerify(u, p)
             \/ HolonVerifyRaises(u)
      PROVE  HolonInv'
  <2>1. u \in HolonUsers
    BY <1>1
  <2>2. ASSUME NEW kind \in {"post", "article"}, NEW g \in HolonGroups \cup {NoGroup},
               NEW n \in 0 .. Len(contents), HolonPost(u, kind, g, n)
        PROVE  HolonInv'
    BY <2>1, <2>2, HolonPostStep
  <2>3. ASSUME NEW n \in DOMAIN contents, NEW kind \in {"react", "label"}, HolonReact(u, n, kind)
        PROVE  HolonInv'
    BY <2>1, <2>3, ReactStep
  <2>4. CASE HolonCreateView(u)
    BY <2>1, <2>4, HolonViewStep
  <2>5. CASE HolonVerifyRaises(u)
    BY <2>1, <2>5, HolonOtherSteps
  <2>6. QED  BY <1>2, <2>1, <2>2, <2>3, <2>4, <2>5, HolonListSteps
<1>3. ASSUME NEW def \in AllDefs, ExecuteHolonView(def) PROVE HolonInv'
  BY <1>3, ExecutionStep
<1>4. CASE HolonThrough \/ HolonAdvance \/ UNCHANGED holonVars
  BY <1>4, HolonOtherSteps
<1>5. QED
  BY <1>2, <1>3, <1>4 DEF HolonNext

\* What the invariant says of the properties
LEMMA HolonInvSays == HolonInv => HolonViewsHold /\ HolonsRemember /\ HolonTypeOK
<1> SUFFICES ASSUME HolonInv PROVE HolonViewsHold /\ HolonsRemember /\ HolonTypeOK
  OBVIOUS
<1>1. ContentsOK(contents) /\ LinksOK(contents, links)
      /\ memo \in [HolonUsers -> [Lists -> Seq(Listed)]]
  BY DEF HolonInv, HolonTyped
<1>2. HolonTypeOK
  <2>1. contents \in Seq([by : HolonUsers, at : Nat \ {0}, kind : {"post", "article"},
                          ctx : HolonGroups \cup {NoGroup}, reply : Nat])
        /\ links \in Seq([kind : LinkKinds, from : HolonUsers, to : Targets])
    BY <1>1 DEF ContentsOK, LinksOK
  <2>2. /\ \A n \in DOMAIN contents : contents[n].by \in HolonUsers
        /\ \A n \in DOMAIN links : links[n].from \in HolonUsers
    <3>1. DOMAIN contents = 1 .. Len(contents) /\ DOMAIN links = 1 .. Len(links)
      BY <2>1
    <3>2. \A n \in 1 .. Len(contents) :
            contents[n] \in [by : HolonUsers, at : Nat \ {0}, kind : {"post", "article"},
                             ctx : HolonGroups \cup {NoGroup}, reply : Nat]
      BY <2>1, ElementOfSeq
    <3>3. \A n \in 1 .. Len(links) :
            links[n] \in [kind : LinkKinds, from : HolonUsers, to : Targets]
      BY <2>1, ElementOfSeq
    <3>4. QED  BY <3>1, <3>2, <3>3
  <2>3. QED  BY <1>1, <2>2 DEF HolonInv, HolonTyped, HolonTypeOK, Listed
<1>3. HolonsRemember
  <2>1. ASSUME NEW u \in HolonUsers
        PROVE  /\ Lines(memo[u].following, u, "follow")
               /\ Lines(memo[u].joined, u, "member")
               /\ Lines(memo[u].creators, u, "creator")
               /\ Lines(memo[u].views, u, "view")
               /\ Lines(memo[u].verified, u, "verify")
               /\ \A w \in Lists : IsInjective(memo[u][w])
    <3>1. \A w \in Lists :
            LinesOf(links, memo[u][w], u, KindOf[w]) /\ IsInjective(memo[u][w])
      BY DEF HolonInv, Remembered
    <3>2. \A list, kind : LinesOf(links, list, u, kind) => Lines(list, u, kind)
      BY DEF LinesOf, LinksOf, Lines, LinksFrom
    <3>3. /\ LinesOf(links, memo[u].following, u, "follow")
          /\ LinesOf(links, memo[u].joined, u, "member")
          /\ LinesOf(links, memo[u].creators, u, "creator")
          /\ LinesOf(links, memo[u].views, u, "view")
          /\ LinesOf(links, memo[u].verified, u, "verify")
      BY <3>1, KindsAre DEF Lists
    <3>4. QED  BY <3>1, <3>2, <3>3
  <2>2. QED  BY <2>1 DEF HolonsRemember
<1>4. HolonViewsHold
  <2>1. ASSUME NEW c \in holonClaims
        PROVE  /\ \A i, j \in DOMAIN c.ids : /\ Concerns(c.def, c.ids[i])
                                             /\ c.ids[i] = c.ids[j] => i = j
               /\ (/\ \A n \in c.contents + 1 .. Len(contents) :
                        /\ ~Concerns(c.def, n)
                        /\ contents[n].reply # 0 => ~Concerns(c.def, contents[n].reply)
                   /\ \A n \in c.links + 1 .. Len(links) :
                        links[n].kind = "react" => ~Concerns(c.def, links[n].to))
                  => ExecuteHolon(c.def, c.at) = c.ids
    <3>1. ClaimOK(contents, links, c)
      BY DEF HolonInv, Claimed
    <3>2. \A n : Concerns(c.def, n) <=> Touches(c.def, contents[n].ctx)
      BY <3>1 DEF ClaimOK, DefOK, Concerns, Touches
    <3>3. ExecuteHolon(c.def, c.at) = TopIds(RowsOf(contents, links, c.def, c.at))
      BY CandidatesAre DEF ExecuteHolon
    <3>4. QED  BY <3>1, <3>2, <3>3 DEF ClaimOK
  <2>2. QED  BY <2>1 DEF HolonViewsHold
<1>5. QED  BY <1>2, <1>3, <1>4

-----------------------------------------------------------------------------
(***************************************************************************)
(* The platform.  A step is one of the part that runs, and leaves the      *)
(* variables of the others as they are.                                    *)
(***************************************************************************)
LEMMA PartsStep ==
  ASSUME [PlatformNext]_platformVars
  PROVE  /\ [Next]_vars /\ [StoresNext]_storeVars
         /\ [RepNext]_repVars /\ [RelaySimNext]_relaySimVars
         /\ [ViewSimNext]_viewSimVars /\ [HolonNext]_holonVars
         /\ UNCHANGED library
<1>1. CASE Next /\ UNCHANGED libVars
  BY <1>1 DEF libVars
<1>2. CASE LibNext /\ UNCHANGED vars
  BY <1>2 DEF LibNext
<1>3. CASE UNCHANGED platformVars
  BY <1>3 DEF platformVars, libVars
<1>4. QED
  BY <1>1, <1>2, <1>3 DEF PlatformNext

\* What holds of the services and of the stores by themselves holds of them here.
LEMMA PartsRun == PlatformSpec => Spec /\ StoresSpec
<1>1. PlatformInit => Init /\ StoreInit
  BY DEF PlatformInit, LibInit
<1>2. [PlatformNext]_platformVars => [Next]_vars /\ [StoresNext]_storeVars
  BY PartsStep
<1>3. QED
  BY <1>1, <1>2, PTL DEF PlatformSpec, Spec, StoresSpec

\* The inductive invariant of the simulators
SimulatorsInv == RepInv /\ RelaySimInv /\ ViewSimInv /\ HolonInv

\* What may run
LibRuns == library \in Simulators \cup {"store", "none"}

LEMMA SimulatorsHold == PlatformSpec => [](SimulatorsInv /\ LibRuns)
<1>1. PlatformInit => SimulatorsInv /\ LibRuns
  BY RepInitHolds, RelaySimInitHolds, ViewSimInitHolds, HolonInitHolds
     DEF PlatformInit, LibInit, SimulatorsInv, LibRuns
<1>2. SimulatorsInv /\ LibRuns /\ [PlatformNext]_platformVars => (SimulatorsInv /\ LibRuns)'
  <2> SUFFICES ASSUME SimulatorsInv, LibRuns, [PlatformNext]_platformVars
               PROVE  SimulatorsInv' /\ LibRuns'
    OBVIOUS
  <2>1. RepInv' /\ RelaySimInv' /\ ViewSimInv' /\ HolonInv'
    BY PartsStep, RepStep, RelaySimStep, ViewSimStep, HolonStep DEF SimulatorsInv
  <2>2. LibRuns'
    BY PartsStep DEF LibRuns
  <2>3. QED  BY <2>1, <2>2 DEF SimulatorsInv
<1>3. QED
  BY <1>1, <1>2, PTL DEF PlatformSpec

\* Whoever recomputes a feed or a view from its definition and what was claimed of its
\* sources gets what was claimed, whatever was logged, posted or linked since.
THEOREM ClaimsAlwaysRecompute == PlatformSpec => []ClaimsRecompute
<1>1. SimulatorsInv => ClaimsRecompute
  BY RelaySimInvSays, ViewSimInvSays, HolonInvSays DEF SimulatorsInv, ClaimsRecompute
<1>2. QED
  BY <1>1, SimulatorsHold, PTL

\* What agents remember having done is on record and what replicas hold is a part of
\* it, in its order, after any steps of any agents, relays and clients.
THEOREM RecordsAlwaysAgree == PlatformSpec => []RecordsAgree
<1>1. SimulatorsInv => RecordsAgree
  BY RepInvSays, RelaySimInvSays, ViewSimInvSays, HolonInvSays DEF SimulatorsInv, RecordsAgree
<1>2. QED
  BY <1>1, SimulatorsHold, PTL

\* A store among the other parts of the platform is what it is by itself.
THEOREM StoresSurviveHere == PlatformSpec => []StoresSurviveOverlap
  BY PartsRun, StoresSurvive, PTL

\* So are the services: what clients, vault, relay, payments, media and moderation
\* promise each other holds in every behaviour of the platform.
THEOREM ServicesHoldHere ==
  PlatformSpec => []/\ EntityRecoverable /\ AnswersAreDurable /\ LoginsHold
                    /\ BillingAgrees /\ MediaIsConsistent /\ FilterHonoursAnswers
  BY PartsRun, EntitiesStayRecoverable, AnswersStayDurable, LoginsAlwaysHold,
     BillingAlwaysAgrees, MediaStaysConsistent, FilterAlwaysHonours, PTL

\* Every part of the platform is in a state of its type.
THEOREM PlatformWellTyped == PlatformSpec => []PlatformTypeOK
<1>1. SimulatorsInv /\ LibRuns /\ TypeOK /\ StoreTypeOK => PlatformTypeOK
  BY RepInvSays, RelaySimInvSays, ViewSimInvSays, HolonInvSays
     DEF SimulatorsInv, LibRuns, PlatformTypeOK, LibTypeOK
<1>2. QED
  BY <1>1, PartsRun, SimulatorsHold, ServicesWellTyped, StoresWellTyped, PTL
=============================================================================
