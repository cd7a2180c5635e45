----------------------------- MODULE NetworkProofs -----------------------------
(***************************************************************************)
(* Theorems about the parts of Network, for every value of their           *)
(* constants.                                                              *)
(*                                                                         *)
(* Each part has an invariant of its own, which holds initially, is kept   *)
(* by the steps of that part and does not mention the variables of the     *)
(* others; the theorems at the end put them together.                      *)
(***************************************************************************)
EXTENDS Network, FiniteSetTheorems, SequenceTheorems, TLAPS

-----------------------------------------------------------------------------
(***************************************************************************)
(* Peers.  A node that tells another, or waits for its answer, has noted   *)
(* it, for a crash in between ends the meeting.                            *)
(***************************************************************************)
PeerInv ==
  /\ PeerTypeOK
  /\ PeersAreNoted
  /\ \A m \in Meetings :
       meetPc[m] \in {"tell", "answer"} => m.from \in knownNodes[m.at]

\* Nobody was told anything yet.
LEMMA PeerStart == PeerInit => PeerInv
  BY PeersAssumption DEF PeerInit, PeerInv, PeerTypeOK, PeersAreNoted

\* Every step of a meeting, and every crash.
LEMMA PeerStep ==
  ASSUME PeerInv, PeerNext
  PROVE  PeerInv'
<1> USE PeersAssumption DEF PeerInv, PeerTypeOK
<1>1. ASSUME NEW m \in Meetings, Meet(m) \/ Tell(m) \/ Told(m) \/ TellFails(m)
      PROVE  PeerInv'
  <2>1. m.at \in PeerNodes /\ m.from \in PeerNodes
    BY DEF MeetingRequest
  <2>2. PeerTypeOK'
    BY <1>1, <2>1 DEF Meet, Tell, Told, TellFails, MeetGo
  <2>3. PeersAreNoted'
    BY <1>1, <2>1 DEF Meet, Tell, Told, TellFails, MeetGo, PeersAreNoted
  <2>4. \A k \in Meetings :
          meetPc'[k] \in {"tell", "answer"} => k.from \in knownNodes'[k.at]
    BY <1>1, <2>1 DEF Meet, Tell, Told, TellFails, MeetGo, MeetingRequest
  <2> QED
    BY <2>2, <2>3, <2>4
<1>2. ASSUME NEW n \in PeerNodes, PeerCrash(n)
      PROVE  PeerInv'
  <2>1. PeerTypeOK'
    BY <1>2 DEF PeerCrash
  <2>2. PeersAreNoted'
    BY <1>2 DEF PeerCrash, PeersAreNoted
  <2>3. ASSUME NEW k \in Meetings, meetPc'[k] \in {"tell", "answer"}
        PROVE  k.from \in knownNodes'[k.at]
    <3>1. k.at # n /\ meetPc[k] \in {"tell", "answer"}
      BY <1>2, <2>3 DEF PeerCrash
    <3>2. knownNodes'[k.at] = knownNodes[k.at]
      BY <1>2, <3>1 DEF PeerCrash, MeetingRequest
    <3> QED
      BY <3>1, <3>2
  <2> QED
    BY <2>1, <2>2, <2>3
<1> QED
  BY <1>1, <1>2 DEF PeerNext

-----------------------------------------------------------------------------
(***************************************************************************)
(* Federation.  Whatever an import has in hand was made somewhere and is   *)
(* no post that is not public; a row that is there is nothing to it.       *)
(***************************************************************************)
FedInv ==
  /\ FedTypeOK
  /\ RemovalsOutliveImports
  /\ \A n \in Nodes, i \in Items :
       \A tables \in {fedDb[n], fedDisk[n]} :
         tables[i] # "none" => i \in made /\ (i \in Private => n = Home[i])
  /\ \A r \in Imports : todo[r] \subseteq made \ Private
  /\ \A r \in Imports : r.op = "sync" => todo[r] \cap Links = {}

\* No node has a row.
LEMMA FedStart == FedInit => FedInv
  BY FederationAssumption
  DEF FedInit, FedInv, FedTypeOK, RemovalsOutliveImports, RowStates

\* Tables with one row changed are tables.
LEMMA RowChanges ==
  ASSUME NEW d \in [Nodes -> [Items -> RowStates]],
         NEW n \in Nodes, NEW i \in Items, NEW s \in RowStates
  PROVE  /\ [d EXCEPT ![n][i] = s] \in [Nodes -> [Items -> RowStates]]
         /\ \A m \in Nodes, j \in Items :
              [d EXCEPT ![n][i] = s][m][j] =
                IF m = n /\ j = i THEN s ELSE d[m][j]
  OBVIOUS

\* What SetRow leaves in the row, and beside it.
LEMMA SetRowSets ==
  ASSUME FedTypeOK, NEW n \in Nodes, NEW i \in Items, NEW s \in RowStates,
         SetRow(n, i, s)
  PROVE  /\ fedDb' \in [Nodes -> [Items -> RowStates]]
         /\ fedDisk' \in [Nodes -> [Items -> RowStates]]
         /\ fedDb'[n][i] = s /\ fedDisk'[n] = fedDb'[n]
         /\ \A m \in Nodes, j \in Items :
              m # n \/ j # i => fedDb'[m][j] = fedDb[m][j]
         /\ \A m \in Nodes : m # n => fedDisk'[m] = fedDisk[m]
         /\ badKeys' = badKeys /\ fedPc' = fedPc /\ todo' = todo
         /\ content' = content
  BY DEF FedTypeOK, SetRow, workVars

\* An import turns to what it has in hand.
LEMMA TurnsAreTodo ==
  ASSUME NEW r, NEW i \in Turns(r)
  PROVE  i \in todo[r]
  BY DEF Turns

\* The types, step by step; that POST sync hands over no links is what keeps
\* badKeys a set of entities.
LEMMA FedTypeStep ==
  ASSUME FedInv, FedNext
  PROVE  FedTypeOK'
<1>0. FedTypeOK
  BY DEF FedInv
<1> USE <1>0, FederationAssumption DEF FedTypeOK
<1>1. ASSUME NEW i \in Items, Make(i) PROVE FedTypeOK'
  <2>1. Home[i] \in Nodes /\ SetRow(Home[i], i, "live")
    BY <1>1 DEF Make
  <2> QED
    BY <1>1, <2>1, SetRowSets DEF Make, RowStates
<1>2. ASSUME NEW n \in Nodes, NEW p \in Posts,
             DeleteFound(n, p) \/ RemoveFound(n, p)
      PROVE  FedTypeOK'
  BY <1>2 DEF DeleteFound, RemoveFound, Act, rowVars, workVars
<1>3. ASSUME NEW n \in Nodes, NEW p \in Posts, DeleteContent(n, p)
      PROVE  FedTypeOK'
  <2>1. p \in Items /\ SetRow(n, p, "none")
    BY <1>3 DEF DeleteContent, Items
  <2> QED
    BY <1>3, <2>1, SetRowSets DEF DeleteContent, RowStates
<1>4. ASSUME NEW n \in Nodes, NEW p \in Posts, RemoveGroupContent(n, p)
      PROVE  FedTypeOK'
  <2>1. /\ p \in Items
        /\ SetRow(n, p, "ended") \/ SetRow(n, p, "none")
        /\ removed' \subseteq Nodes \X (Posts \cup Links)
        /\ UNCHANGED <<deleting, acts, made>>
        /\ removing' = removing \ {<<n, p>>}
    BY <1>4 DEF RemoveGroupContent, Items
  <2> QED
    BY <2>1, SetRowSets DEF RowStates
<1>5. ASSUME NEW n \in Nodes, NEW l \in Links,
             DeleteLink(n, l) \/ RenewLink(n, l)
      PROVE  FedTypeOK'
  <2>1. /\ l \in Items
        /\ SetRow(n, l, "ended") \/ SetRow(n, l, "live")
        /\ removed' \subseteq Nodes \X (Posts \cup Links)
        /\ UNCHANGED <<deleting, removing, made>>
        /\ acts' \in 0 .. MaxActs
    BY <1>5 DEF DeleteLink, RenewLink, Act, Items
  <2> QED
    BY <2>1, SetRowSets DEF RowStates
<1>6. ASSUME NEW r \in Imports,
             FetchEntities(r) \/ FetchContent(r) \/ Handed(r) \/ Imported(r)
      PROVE  FedTypeOK'
  <2>1. \A n \in Nodes :
          /\ ExportEntities(n) \subseteq Items
          /\ ExportContent(n) \subseteq Items
          /\ ExportLinks(n) \subseteq Items
    BY DEF ExportEntities, ExportContent, ExportLinks, Live, Found
  <2>2. r.from \in Nodes
    BY DEF ImportRequest
  <2>3. fedPc' \in [Imports -> {"idle", "look", "insert", "commit", "done",
                                "lost"}]
    BY <1>6 DEF FetchEntities, FetchContent, Handed, Imported, FedGo
  <2>6. acts' \in 0 .. MaxActs
    <3>1. Act \/ UNCHANGED acts
      BY <1>6 DEF FetchEntities, FetchContent, Handed, Imported, FedGo
    <3> QED
      BY <3>1 DEF Act
  <2>4. todo' \in [Imports -> SUBSET Items] /\ content' \subseteq Imports
    BY <1>6, <2>1, <2>2
    DEF FetchEntities, FetchContent, Handed, Imported, workVars
  <2>5. UNCHANGED rowVars /\ UNCHANGED userVars
    BY <1>6 DEF FetchEntities, FetchContent, Handed, Imported, FedGo
  <2> QED
    BY <2>3, <2>4, <2>5, <2>6 DEF rowVars, userVars
<1>7. ASSUME NEW r \in Imports, NEW i \in Items,
             Look(r, i) \/ Insert(r, i) \/ ImportCommit(r, i)
      PROVE  FedTypeOK'
  <2>1. /\ UNCHANGED acts /\ UNCHANGED userVars
        /\ fedPc' \in [Imports -> {"idle", "look", "insert", "commit", "done",
                                   "lost"}]
    BY <1>7 DEF Look, Insert, ImportCommit, FedGo
  <2>2. todo' \in [Imports -> SUBSET Items] /\ content' = content
    BY <1>7 DEF Look, Insert, ImportCommit
  <2>3. r.at \in Nodes
    BY DEF ImportRequest
  <2>4. fedDb' \in [Nodes -> [Items -> RowStates]]
    <3>1. \/ fedDb' = fedDb
          \/ fedDb' = [fedDb EXCEPT ![r.at][i] = "live"]
      <4>1. ASSUME Look(r, i) \/ ImportCommit(r, i) PROVE fedDb' = fedDb
        BY <4>1 DEF Look, ImportCommit, rowVars
      <4>2. ASSUME Insert(r, i)
            PROVE  \/ fedDb' = fedDb
                   \/ fedDb' = [fedDb EXCEPT ![r.at][i] = "live"]
        BY <4>2 DEF Insert
      <4> QED
        BY <1>7, <4>1, <4>2
    <3>2. "live" \in RowStates
      BY DEF RowStates
    <3>3. CASE fedDb' = [fedDb EXCEPT ![r.at][i] = "live"]
      BY <2>3, <3>2, <3>3, RowChanges
    <3> QED
      BY <3>1, <3>3
  <2>5. fedDisk' \in [Nodes -> [Items -> RowStates]]
    BY <1>7, <2>3 DEF Look, Insert, ImportCommit, rowVars
  <2>6. badKeys' \in [Nodes -> SUBSET Entities]
    <3>1. CASE badKeys' = badKeys
      BY <3>1
    <3>2. CASE badKeys' # badKeys
      <4>1. /\ r.op = "sync" /\ i \notin Posts /\ i \in todo[r]
            /\ badKeys' = [badKeys EXCEPT ![r.at] = @ \cup {i}]
        BY <1>7, <3>2, TurnsAreTodo DEF Look, Insert, ImportCommit, rowVars
      <4>2. i \in Entities
        BY <4>1 DEF FedInv, Items
      <4> QED
        BY <2>3, <4>1, <4>2
    <3> QED
      BY <3>1, <3>2
  <2> QED
    BY <2>1, <2>2, <2>4, <2>5, <2>6 DEF userVars
<1>8. ASSUME NEW n \in Nodes, FedCrash(n) PROVE FedTypeOK'
  BY <1>8 DEF FedCrash, Act
<1> QED
  BY <1>1, <1>2, <1>3, <1>4, <1>5, <1>6, <1>7, <1>8 DEF FedNext

\* What an export has in it: nothing but what was made, and no private post.
LEMMA ExportsAreMade ==
  ASSUME FedInv, NEW n \in Nodes
  PROVE  /\ ExportEntities(n) \subseteq made \ Private
         /\ ExportContent(n) \subseteq made \ Private
         /\ ExportLinks(n) \subseteq made \ Private
         /\ (ExportEntities(n) \cup ExportContent(n)) \cap Links = {}
  BY FederationAssumption
  DEF FedInv, ExportEntities, ExportContent, ExportLinks, Live, Found, Items

\* What a step has to leave as it is for the rest of the invariant to last.
LEMMA FedRowsStay ==
  ASSUME FedInv, FedTypeOK',
         \A pair \in removed' :
           \/ /\ fedDb'[pair[1]][pair[2]] = "ended"
              /\ fedDisk'[pair[1]][pair[2]] = "ended"
           \/ /\ pair \in removed
              /\ \/ fedDb'[pair[1]][pair[2]] = fedDb[pair[1]][pair[2]]
                 \/ fedDb'[pair[1]][pair[2]] = fedDisk[pair[1]][pair[2]]
              /\ \/ fedDisk'[pair[1]][pair[2]] = fedDisk[pair[1]][pair[2]]
                 \/ fedDisk'[pair[1]][pair[2]] = fedDb[pair[1]][pair[2]],
         made \subseteq made',
         \A n \in Nodes, i \in Items :
           \A tables \in {fedDb'[n], fedDisk'[n]} :
             \/ tables[i] = "none"
             \/ fedDb[n][i] # "none" \/ fedDisk[n][i] # "none"
             \/ i \in made' /\ (i \in Private => n = Home[i]),
         \A r \in Imports :
           \/ todo'[r] \subseteq todo[r]
           \/ /\ todo'[r] \subseteq made' \ Private
              /\ r.op = "sync" => todo'[r] \cap Links = {}
  PROVE  FedInv'
<1>1. RemovalsOutliveImports'
  BY DEF FedInv, RemovalsOutliveImports
<1>2. \A n \in Nodes, i \in Items :
        \A tables \in {fedDb'[n], fedDisk'[n]} :
          tables[i] # "none" => i \in made' /\ (i \in Private => n = Home[i])
  BY DEF FedInv
<1>3. \A r \in Imports : /\ todo'[r] \subseteq made' \ Private
                         /\ r.op = "sync" => todo'[r] \cap Links = {}
  BY DEF FedInv
<1> QED
  BY <1>1, <1>2, <1>3 DEF FedInv

\* A row that SetRow changes to what its node may have.
LEMMA FedSetRow ==
  ASSUME FedInv, FedTypeOK', NEW n \in Nodes, NEW i \in Items,
         NEW s \in RowStates, SetRow(n, i, s),
         made \subseteq made',
         s = "none" \/ (i \in made' /\ (i \in Private => n = Home[i])),
         removed' \subseteq removed \cup {<<n, i>>},
         <<n, i>> \in removed' => s = "ended"
  PROVE  FedInv'
<1>1. /\ fedDb'[n][i] = s /\ fedDisk'[n] = fedDb'[n]
      /\ \A m \in Nodes, j \in Items :
           m # n \/ j # i => fedDb'[m][j] = fedDb[m][j]
      /\ \A m \in Nodes : m # n => fedDisk'[m] = fedDisk[m]
      /\ todo' = todo
  BY SetRowSets DEF FedInv
<1>2. ASSUME NEW pair \in removed'
      PROVE  \/ /\ fedDb'[pair[1]][pair[2]] = "ended"
                /\ fedDisk'[pair[1]][pair[2]] = "ended"
             \/ /\ pair \in removed
                /\ \/ fedDb'[pair[1]][pair[2]] = fedDb[pair[1]][pair[2]]
                   \/ fedDb'[pair[1]][pair[2]] = fedDisk[pair[1]][pair[2]]
                /\ \/ fedDisk'[pair[1]][pair[2]] = fedDisk[pair[1]][pair[2]]
                   \/ fedDisk'[pair[1]][pair[2]] = fedDb[pair[1]][pair[2]]
  <2>1. pair[1] \in Nodes /\ pair[2] \in Items /\ pair = <<pair[1], pair[2]>>
    BY DEF FedTypeOK, Items
  <2>2. CASE pair = <<n, i>>
    BY <1>1, <2>2
  <2>3. CASE pair # <<n, i>>
    <3>1. pair \in removed /\ (pair[1] # n \/ pair[2] # i)
      BY <2>1, <2>3
    <3> QED
      BY <1>1, <2>1, <3>1
  <2> QED
    BY <2>2, <2>3
<1>3. \A m \in Nodes, j \in Items :
        \A tables \in {fedDb'[m], fedDisk'[m]} :
          \/ tables[j] = "none"
          \/ fedDb[m][j] # "none" \/ fedDisk[m][j] # "none"
          \/ j \in made' /\ (j \in Private => m = Home[j])
  BY <1>1
<1> QED
  BY <1>1, <1>2, <1>3, FedRowsStay

\* Every step: the node's own, an import's, a crash.
LEMMA FedStep ==
  ASSUME FedInv, FedNext
  PROVE  FedInv'
<1>0. FedTypeOK /\ FedTypeOK'
  BY FedTypeStep DEF FedInv
<1> USE FederationAssumption
<1>1. ASSUME NEW i \in Items, Make(i) PROVE FedInv'
  <2>1. /\ SetRow(Home[i], i, "live") /\ i \notin made
        /\ made' = made \cup {i} /\ removed' = removed
    BY <1>1 DEF Make
  <2>2. Home[i] \in Nodes /\ "live" \in RowStates
    BY DEF RowStates
  <2>3. <<Home[i], i>> \notin removed
    BY <2>1, <2>2 DEF FedInv, RemovalsOutliveImports
  <2> QED
    BY <1>0, <2>1, <2>2, <2>3, FedSetRow
<1>2. ASSUME NEW n \in Nodes, NEW p \in Posts,
             DeleteFound(n, p) \/ RemoveFound(n, p)
      PROVE  FedInv'
  <2>1. UNCHANGED <<fedDb, fedDisk, todo, made, removed>>
    BY <1>2 DEF DeleteFound, RemoveFound, rowVars, workVars
  <2> QED
    BY <1>0, <2>1 DEF FedInv, RemovalsOutliveImports
<1>3. ASSUME NEW n \in Nodes, NEW p \in Posts, DeleteContent(n, p)
      PROVE  FedInv'
  <2>1. /\ p \in Items /\ SetRow(n, p, "none") /\ made' = made
        /\ removed' = removed \ {<<n, p>>} /\ "none" \in RowStates
    BY <1>3 DEF DeleteContent, Items, RowStates
  <2> QED
    BY <1>0, <2>1, FedSetRow
<1>4. ASSUME NEW n \in Nodes, NEW p \in Posts, RemoveGroupContent(n, p)
      PROVE  FedInv'
  <2>1. p \in Items /\ made' = made /\ {"none", "ended"} \subseteq RowStates
    BY <1>4 DEF RemoveGroupContent, Items, RowStates
  <2>2. CASE p \in Found(n)
    <3>1. /\ SetRow(n, p, "ended") /\ removed' = removed \cup {<<n, p>>}
          /\ fedDb[n][p] # "none"
      BY <1>4, <2>2 DEF RemoveGroupContent, Found
    <3>2. p \in made /\ (p \in Private => n = Home[p])
      BY <2>1, <3>1 DEF FedInv
    <3> QED
      BY <1>0, <2>1, <3>1, <3>2, FedSetRow
  <2>3. CASE p \notin Found(n)
    <3>1. /\ SetRow(n, p, "none") /\ removed' = removed
          /\ fedDb[n][p] = "none"
      BY <1>4, <2>1, <2>3 DEF RemoveGroupContent, Found
    <3>2. <<n, p>> \notin removed
      BY <3>1 DEF FedInv, RemovalsOutliveImports
    <3> QED
      BY <1>0, <2>1, <3>1, <3>2, FedSetRow
  <2> QED
    BY <2>2, <2>3
<1>5. ASSUME NEW n \in Nodes, NEW l \in Links,
             DeleteLink(n, l) \/ RenewLink(n, l)
      PROVE  FedInv'
  <2>1. /\ l \in Items /\ fedDb[n][l] # "none" /\ made' = made
        /\ {"live", "ended"} \subseteq RowStates
    BY <1>5 DEF DeleteLink, RenewLink, Live, Found, Items, RowStates
  <2>2. l \in made /\ (l \in Private => n = Home[l])
    BY <2>1 DEF FedInv
  <2>3. \/ SetRow(n, l, "ended") /\ removed' = removed \cup {<<n, l>>}
        \/ SetRow(n, l, "live") /\ removed' = removed \ {<<n, l>>}
    BY <1>5 DEF DeleteLink, RenewLink
  <2> QED
    BY <1>0, <2>1, <2>2, <2>3, FedSetRow
<1>6. ASSUME NEW r \in Imports,
             FetchEntities(r) \/ FetchContent(r) \/ Handed(r) \/ Imported(r)
      PROVE  FedInv'
  <2>1. UNCHANGED <<fedDb, fedDisk, made, removed>>
    BY <1>6 DEF FetchEntities, FetchContent, Handed, Imported, FedGo, rowVars,
                userVars
  <2>2. r.from \in Nodes
    BY DEF ImportRequest
  <2>3. ASSUME NEW s \in Imports
        PROVE  \/ todo'[s] \subseteq todo[s]
               \/ /\ todo'[s] \subseteq made \ Private
                  /\ s.op = "sync" => todo'[s] \cap Links = {}
    <3>1. PICK items :
            /\ todo' = todo \/ todo' = [todo EXCEPT ![r] = items]
            /\ \/ items = ExportEntities(r.from)
               \/ items = ExportContent(r.from)
               \/ /\ items = ExportEntities(r.from) \cup ExportContent(r.from)
                               \cup ExportLinks(r.from)
                  /\ r.op # "sync"
               \/ items = ExportEntities(r.from) \cup ExportContent(r.from)
      <4>1. ASSUME Handed(r)
            PROVE  \E items :
                     /\ todo' = [todo EXCEPT ![r] = items]
                     /\ \/ /\ items = ExportEntities(r.from)
                                        \cup ExportContent(r.from)
                                        \cup ExportLinks(r.from)
                           /\ r.op # "sync"
                        \/ items = ExportEntities(r.from)
                                     \cup ExportContent(r.from)
        <5>1. CASE r.op = "direct"
          BY <4>1, <5>1 DEF Handed
        <5>2. CASE r.op # "direct"
          BY <4>1, <5>2 DEF Handed
        <5> QED
          BY <5>1, <5>2
      <4> QED
        BY <1>6, <4>1 DEF FetchEntities, FetchContent, Imported
    <3>2. /\ items \subseteq made \ Private
          /\ r.op = "sync" => items \cap Links = {}
      BY <2>2, <3>1, ExportsAreMade
    <3>3. todo \in [Imports -> SUBSET Items]
      BY <1>0 DEF FedTypeOK
    <3> QED
      BY <3>1, <3>2, <3>3
  <2> QED
    BY <1>0, <2>1, <2>3 DEF FedInv, RemovalsOutliveImports
<1>7. ASSUME NEW r \in Imports, NEW i \in Items, Look(r, i)
      PROVE  FedInv'
  <2>1. UNCHANGED <<fedDb, fedDisk, made, removed>>
    BY <1>7 DEF Look, FedGo, rowVars, userVars
  <2>2. \A s \in Imports : todo'[s] \subseteq todo[s]
    <3>1. \/ todo' = todo
          \/ todo' = [todo EXCEPT ![r] = @ \ {i}]
      BY <1>7 DEF Look
    <3>2. todo \in [Imports -> SUBSET Items]
      BY <1>0 DEF FedTypeOK
    <3> QED
      BY <3>1, <3>2
  <2> QED
    BY <1>0, <2>1, <2>2 DEF FedInv, RemovalsOutliveImports
<1>8. ASSUME NEW r \in Imports, NEW i \in Items, Insert(r, i)
      PROVE  FedInv'
  <2>1. UNCHANGED <<fedDisk, made, removed>> /\ i \in todo[r]
    BY <1>8, TurnsAreTodo DEF Insert, FedGo, userVars
  <2>2. \A s \in Imports : todo'[s] \subseteq todo[s]
    <3>1. \/ todo' = todo
          \/ todo' = [todo EXCEPT ![r] = @ \ {i}]
      BY <1>8 DEF Insert
    <3>2. todo \in [Imports -> SUBSET Items]
      BY <1>0 DEF FedTypeOK
    <3> QED
      BY <3>1, <3>2
  <2>3. \/ fedDb' = fedDb
        \/ /\ fedDb[r.at][i] = "none"
           /\ fedDb' = [fedDb EXCEPT ![r.at][i] = "live"]
    BY <1>8 DEF Insert, Found
  <2>4. i \in made \ Private /\ r.at \in Nodes
    BY <2>1 DEF FedInv, ImportRequest
  <2>5. \A n \in Nodes, j \in Items :
          \/ fedDb'[n][j] = fedDb[n][j]
          \/ fedDb[n][j] = "none" /\ j \in made \ Private
    <3>1. CASE fedDb' = [fedDb EXCEPT ![r.at][i] = "live"]
      <4>1. /\ fedDb \in [Nodes -> [Items -> RowStates]]
            /\ "live" \in RowStates
        BY <1>0 DEF FedTypeOK, RowStates
      <4> QED
        BY <2>3, <2>4, <3>1, <4>1, RowChanges
    <3> QED
      BY <2>3, <3>1
  <2>6. \A pair \in removed :
          fedDb'[pair[1]][pair[2]] = fedDb[pair[1]][pair[2]]
    <3> SUFFICES ASSUME NEW pair \in removed
                 PROVE  fedDb'[pair[1]][pair[2]] = fedDb[pair[1]][pair[2]]
      OBVIOUS
    <3>1. pair[1] \in Nodes /\ pair[2] \in Items
      BY <1>0 DEF FedTypeOK, Items
    <3>2. fedDb[pair[1]][pair[2]] # "none"
      BY DEF FedInv, RemovalsOutliveImports
    <3> QED
      BY <2>5, <3>1, <3>2
  <2>7. \A n \in Nodes, j \in Items :
          \A tables \in {fedDb'[n], fedDisk'[n]} :
            \/ tables[j] = "none"
            \/ fedDb[n][j] # "none" \/ fedDisk[n][j] # "none"
            \/ j \in made' /\ (j \in Private => n = Home[j])
    BY <2>1, <2>5
  <2> QED
    BY <1>0, <2>1, <2>2, <2>6, <2>7, FedRowsStay
<1>9. ASSUME NEW r \in Imports, NEW i \in Items, ImportCommit(r, i)
      PROVE  FedInv'
  <2>1. /\ UNCHANGED <<fedDb, made, removed>>
        /\ fedDisk' = [fedDisk EXCEPT ![r.at] = fedDb[r.at]]
    BY <1>9 DEF ImportCommit, FedGo, userVars
  <2>2. \A s \in Imports : todo'[s] \subseteq todo[s]
    BY <1>0, <1>9 DEF ImportCommit, FedTypeOK
  <2>3. \A n \in Nodes : fedDisk'[n] \in {fedDb[n], fedDisk[n]}
    BY <1>0, <2>1 DEF FedTypeOK
  <2>5. \A n \in Nodes, j \in Items :
          \A tables \in {fedDb'[n], fedDisk'[n]} :
            \/ tables[j] = "none"
            \/ fedDb[n][j] # "none" \/ fedDisk[n][j] # "none"
            \/ j \in made' /\ (j \in Private => n = Home[j])
    BY <2>1, <2>3
  <2>4. \A pair \in removed : pair[1] \in Nodes
    BY <1>0 DEF FedTypeOK
  <2> QED
    BY <1>0, <2>1, <2>2, <2>3, <2>4, <2>5, FedRowsStay
<1>10. ASSUME NEW n \in Nodes, FedCrash(n) PROVE FedInv'
  <2>1. /\ UNCHANGED <<fedDisk, made, removed>>
        /\ fedDb' = [fedDb EXCEPT ![n] = fedDisk[n]]
    BY <1>10 DEF FedCrash
  <2>2. \A s \in Imports : todo'[s] \subseteq todo[s]
    BY <1>0, <1>10 DEF FedCrash, FedTypeOK
  <2>3. \A m \in Nodes : fedDb'[m] \in {fedDb[m], fedDisk[m]}
    BY <1>0, <2>1 DEF FedTypeOK
  <2>5. \A m \in Nodes, j \in Items :
          \A tables \in {fedDb'[m], fedDisk'[m]} :
            \/ tables[j] = "none"
            \/ fedDb[m][j] # "none" \/ fedDisk[m][j] # "none"
            \/ j \in made' /\ (j \in Private => m = Home[j])
    BY <2>1, <2>3
  <2>4. \A pair \in removed : pair[1] \in Nodes
    BY <1>0 DEF FedTypeOK
  <2> QED
    BY <1>0, <2>1, <2>2, <2>3, <2>4, <2>5, FedRowsStay
<1> QED
  BY <1>1, <1>2, <1>3, <1>4, <1>5, <1>6, <1>7, <1>8, <1>9, <1>10 DEF FedNext

\* A private post is in no import's hands, and its row on its home only.
LEMMA FedPrivate == FedInv => ImportsArePublic
  BY FederationAssumption DEF FedInv, ImportsArePublic, Items

-----------------------------------------------------------------------------
(***************************************************************************)
(* Notification.  No row is ever taken back by a commit; what is promised  *)
(* a socket that is up has come to it or is still to be sent to it.        *)
(***************************************************************************)
Pushed == {"send", "delivered", "undelivered"}

NoticeInv ==
  /\ NoticeTypeOK
  /\ NoticesArrive
  /\ noticeDisk.rows \subseteq noticeDb.rows
  /\ active # {} => known
  /\ \A n \in Notices :
       /\ noticePc[n] = "commit" => n \in noticeDb.rows
       /\ noticePc[n] \in Pushed => n \in noticeDisk.rows
       /\ promised[n] \subseteq listening
       /\ promised[n] \subseteq got[n] \cup toSend[n]
       /\ noticePc[n] # "send" => toSend[n] = {}
       /\ noticePc[n] \in {"idle", "commit"} => got[n] = {}
       /\ noticePc[n] = "send" /\ (got[n] # {} \/ toSend[n] # {}) => known

\* Nothing is there yet.
LEMMA NoticeStart == NoticeInit => NoticeInv
<1> SUFFICES ASSUME NoticeInit PROVE NoticeInv
  OBVIOUS
<1>1. /\ noticeDb = [rows |-> {}, read |-> {}] /\ noticeDisk = noticeDb
      /\ \A n \in Notices : /\ noticePc[n] = "idle" /\ toSend[n] = {}
                            /\ got[n] = {} /\ promised[n] = {}
      /\ active = {} /\ known = FALSE /\ listening = {}
  BY DEF NoticeInit
<1>2. NoticeTypeOK
  <2>1. noticeDb \in NoticeTables
    BY <1>1 DEF NoticeTables
  <2>2. marking = [m \in Marks |-> "idle"] /\ noticeCrashes = 0
        /\ noticePc = [n \in Notices |-> "idle"]
        /\ toSend = [n \in Notices |-> {}]
        /\ got = [n \in Notices |-> {}]
        /\ promised = [n \in Notices |-> {}]
    BY DEF NoticeInit
  <2>3. noticeCrashes \in 0 .. MaxNoticeCrashes
    BY <2>2, NotificationAssumption
  <2>4. /\ noticePc \in [Notices -> {"idle", "commit", "send", "no",
                                     "delivered", "undelivered"}]
        /\ marking \in [Marks -> {"idle", "commit", "ok", "no"}]
    BY <2>2
  <2>5. /\ toSend \in [Notices -> SUBSET Listeners]
        /\ got \in [Notices -> SUBSET Listeners]
        /\ promised \in [Notices -> SUBSET Listeners]
    BY <2>2
  <2> QED
    BY <1>1, <2>1, <2>3, <2>4, <2>5 DEF NoticeTypeOK
<1>3. NoticesArrive
  BY <1>1 DEF NoticesArrive, PushedIsStored, ListenersHear
<1> QED
  BY <1>1, <1>2, <1>3 DEF NoticeInv, Pushed

\* The types, step by step.
LEMMA NoticeTypeStep ==
  ASSUME NoticeTypeOK, NoticeNext
  PROVE  NoticeTypeOK'
<1> USE NotificationAssumption DEF NoticeTypeOK, NoticeTables, NoticeGo,
        SocketsAlone, RowsAlone
<1>1. ASSUME NEW n \in Notices, CreateNotification(n) PROVE NoticeTypeOK'
  BY <1>1 DEF CreateNotification
<1>2. ASSUME NEW n \in Notices, NoticeCommit(n) PROVE NoticeTypeOK'
  BY <1>2 DEF NoticeCommit
<1>3. ASSUME NEW n \in Notices, NoticeAnswer(n) PROVE NoticeTypeOK'
  BY <1>3 DEF NoticeAnswer
<1>4. ASSUME NEW n \in Notices, NEW s \in Listeners, NoticeSend(n, s)
      PROVE  NoticeTypeOK'
  <2>1. /\ active' \subseteq Listeners
        /\ got' \in [Notices -> SUBSET Listeners]
        /\ toSend' \in [Notices -> SUBSET Listeners]
    BY <1>4 DEF NoticeSend
  <2> QED
    BY <1>4, <2>1 DEF NoticeSend
<1>5. ASSUME NEW m \in Marks, MarkRead(m) PROVE NoticeTypeOK'
  <2>1. noticeDb' \in NoticeTables
    <3>1. \E s \in SUBSET Notices : noticeDb' = [noticeDb EXCEPT !.read = s]
      BY <1>5 DEF MarkRead
    <3> QED
      BY <3>1
  <2>2. marking' \in [Marks -> {"idle", "commit", "ok", "no"}]
    BY <1>5 DEF MarkRead
  <2> QED
    BY <1>5, <2>1, <2>2 DEF MarkRead
<1>6. ASSUME NEW m \in Marks, MarkCommit(m) PROVE NoticeTypeOK'
  BY <1>6 DEF MarkCommit
<1>7. ASSUME NEW s \in Listeners,
             Listen(s) \/ ListenerGone(s) \/ ListenerDisconnect(s)
      PROVE  NoticeTypeOK'
  BY <1>7 DEF Listen, ListenerGone, ListenerDisconnect
<1>8. ASSUME NoticeCrash PROVE NoticeTypeOK'
  <2>1. /\ noticePc' \in [Notices -> {"idle", "commit", "send", "no",
                                      "delivered", "undelivered"}]
        /\ marking' \in [Marks -> {"idle", "commit", "ok", "no"}]
    BY <1>8 DEF NoticeCrash
  <2>2. /\ toSend' \in [Notices -> SUBSET Listeners]
        /\ promised' \in [Notices -> SUBSET Listeners]
    BY <1>8 DEF NoticeCrash
  <2>3. noticeCrashes' \in 0 .. MaxNoticeCrashes
    BY <1>8 DEF NoticeCrash
  <2> QED
    BY <1>8, <2>1, <2>2, <2>3 DEF NoticeCrash
<1> QED
  BY <1>1, <1>2, <1>3, <1>4, <1>5, <1>6, <1>7, <1>8 DEF NoticeNext

\* Every step keeps the rest.
LEMMA NoticeStep ==
  ASSUME NoticeInv, NoticeNext
  PROVE  NoticeInv'
<1>0. NoticeTypeOK /\ NoticeTypeOK'
  BY NoticeTypeStep DEF NoticeInv
<1> USE DEF NoticesArrive, PushedIsStored, ListenersHear, Pushed, NoticeGo,
            SocketsAlone, RowsAlone
<1>1. ASSUME NEW n \in Notices, CreateNotification(n) PROVE NoticeInv'
  <2>1. /\ noticeDb'.rows = noticeDb.rows \cup {n}
        /\ noticePc[n] = "idle" /\ noticePc' = [noticePc EXCEPT ![n] = "commit"]
        /\ UNCHANGED <<noticeDisk, toSend, got, promised, listening, active, known>>
    BY <1>0, <1>1 DEF CreateNotification, NoticeTypeOK, NoticeTables
  <2> QED
    BY <1>0, <2>1 DEF NoticeInv, NoticeTypeOK
<1>2. ASSUME NEW n \in Notices, NoticeCommit(n) PROVE NoticeInv'
  <2>1. /\ noticeDisk' = noticeDb /\ noticeDb' = noticeDb
        /\ noticePc[n] = "commit" /\ noticePc' = [noticePc EXCEPT ![n] = "send"]
        /\ toSend' = [toSend EXCEPT ![n] = active]
        /\ promised' = [promised EXCEPT ![n] = active \cap listening]
        /\ UNCHANGED <<got, listening, active, known>>
    BY <1>2 DEF NoticeCommit
  <2> QED
    BY <1>0, <2>1 DEF NoticeInv, NoticeTypeOK
<1>3. ASSUME NEW n \in Notices, NoticeAnswer(n) PROVE NoticeInv'
  <2>1. /\ noticePc[n] = "send" /\ toSend[n] = {}
        /\ noticePc' = [noticePc EXCEPT
                          ![n] = IF known THEN "delivered" ELSE "undelivered"]
        /\ UNCHANGED <<noticeDb, noticeDisk, toSend, got, promised, listening,
                       active, known>>
    BY <1>3 DEF NoticeAnswer
  <2> QED
    BY <1>0, <2>1 DEF NoticeInv, NoticeTypeOK
<1>4. ASSUME NEW n \in Notices, NEW s \in Listeners, NoticeSend(n, s)
      PROVE  NoticeInv'
  <2>1. /\ noticePc[n] = "send" /\ noticePc' = noticePc /\ s \in toSend[n]
        /\ toSend' = [toSend EXCEPT ![n] = @ \ {s}]
        /\ UNCHANGED <<noticeDb, noticeDisk, promised, listening, known>>
    BY <1>0, <1>4 DEF NoticeSend, NoticeTypeOK
  <2>2. CASE s \in listening
    <3>1. got' = [got EXCEPT ![n] = @ \cup {s}] /\ active' = active
      BY <1>4, <2>2 DEF NoticeSend
    <3> QED
      BY <1>0, <2>1, <3>1 DEF NoticeInv, NoticeTypeOK
  <2>3. CASE s \notin listening
    <3>1. got' = got /\ active' = active \ {s}
      BY <1>4, <2>3 DEF NoticeSend
    <3> QED
      BY <1>0, <2>1, <2>3, <3>1 DEF NoticeInv, NoticeTypeOK
  <2> QED
    BY <2>2, <2>3
<1>5. ASSUME NEW m \in Marks, MarkRead(m) \/ MarkCommit(m) PROVE NoticeInv'
  <2>1. /\ noticeDb'.rows = noticeDb.rows
        /\ noticeDisk'.rows \in {noticeDisk.rows, noticeDb.rows}
        /\ UNCHANGED <<noticePc, toSend, got, promised, listening, active, known>>
    BY <1>0, <1>5 DEF MarkRead, MarkCommit, NoticeTypeOK, NoticeTables
  <2> QED
    BY <1>0, <2>1 DEF NoticeInv, NoticeTypeOK
<1>7. ASSUME NEW s \in Listeners,
             Listen(s) \/ ListenerGone(s) \/ ListenerDisconnect(s)
      PROVE  NoticeInv'
  BY <1>0, <1>7
  DEF Listen, ListenerGone, ListenerDisconnect, NoticeInv, NoticeTypeOK
<1>8. ASSUME NoticeCrash PROVE NoticeInv'
  BY <1>0, <1>8 DEF NoticeCrash, NoticeInv, NoticeTypeOK
<1> QED
  BY <1>1, <1>2, <1>3, <1>4, <1>5, <1>7, <1>8 DEF NoticeNext

-----------------------------------------------------------------------------
(***************************************************************************)
(* Publications.  A subscription's rows follow from what its two requests  *)
(* were answered; the article's from the one request that wrote it.        *)
(***************************************************************************)
Sub(c) == <<"subscribe", c>>
Can(c) == <<"cancel", c>>
Edit(e) == <<"edit", e>>

\* Who is about to insert met neither a row nor another who is, but for pairs
\* of clicks that met.
ClicksMet ==
  /\ \A c, d \in Clicks :
       c # d /\ Clicking(c) /\ (Clicking(d) \/ pubDb.subs[d] = "active") =>
         {c, d} \in clicked
  /\ \A tables \in {pubDb, pubDisk} : \A c, d \in Clicks :
       c # d /\ tables.subs[c] = "active" /\ tables.subs[d] = "active" =>
         {c, d} \in clicked

\* What a subscription's requests say of its row, in memory and on disk.
SubsFollow ==
  \A c \in Clicks :
    /\ \A tables \in {pubDb, pubDisk} :
         tables.subs[c] # "none" =>
           pubPc[Sub(c)] \notin {"idle", "subscribe_insert"}
    /\ pubPc[Can(c)] = "cancel_update" => pubDb.subs[c] # "none"
    /\ pubPc[Can(c)] \in {"commit", "ok"} => pubDb.subs[c] = "canceled"
    /\ pubPc[Can(c)] = "ok" => pubDisk.subs[c] = "canceled"
    /\ pubPc[Can(c)] = "idle" =>
         /\ pubPc[Sub(c)] \in {"commit", "ok"} => pubDb.subs[c] = "active"
         /\ pubPc[Sub(c)] = "ok" => pubDisk.subs[c] = "active"

\* What is owed was answered, and stays so.
OwedAnswered ==
  /\ \A c \in owed.must : pubPc[Sub(c)] = "ok"
  /\ \A c \in owed.gone : pubPc[Can(c)] = "ok"
  /\ PaywallHonoursAnswers

\* One request wrote the article, and no update loses its date.
ArticleFollows ==
  /\ PublishedIsDated
  /\ \A v, w \in Writes : pubPc[v] # "idle" /\ pubPc[w] # "idle" => v = w
  /\ \A tables \in {pubDb, pubDisk} :
       tables.article # NoArticle =>
         \E v \in Writes : pubPc[v] \notin {"idle", "write_insert"}
  /\ \A e \in Edits :
       pubPc[Edit(e)] = "edit_update" =>
         /\ pubDb.article # NoArticle
         /\ readStatus[e] = "published" => pubDb.article.dated

PubInv ==
  /\ PubTypeOK
  /\ ClicksMet /\ SubsFollow /\ OwedAnswered /\ ArticleFollows

\* No publication, no subscription, no article, no request.
LEMMA PubStart == PubInit => PubInv
<1> SUFFICES ASSUME PubInit PROVE PubInv
  OBVIOUS
<1>1. /\ pubDb = [pubs |-> {}, subs |-> [c \in Clicks |-> "none"],
                  article |-> NoArticle]
      /\ pubDisk = pubDb /\ clicked = {} /\ readAccess = "public"
      /\ pubCrashes = 0 /\ owed = [must |-> {}, gone |-> {}]
      /\ pubPc = [r \in PubRequest |-> "idle"]
      /\ readStatus = [e \in Edits |-> "draft"]
  BY DEF PubInit
<1>2. PubTypeOK
  <2>1. pubDb \in PubTables
    BY <1>1 DEF PubTables, Articles
  <2>2. pubCrashes \in 0 .. MaxPubCrashes
    BY <1>1, PublicationsAssumption
  <2>3. /\ readStatus \in [Edits -> Status] /\ readAccess \in Access
        /\ pubPc \in [PubRequest -> PubSteps \cup {"idle", "ok", "no", "shown",
                                                   "paywall"}]
    BY <1>1 DEF Status, Access
  <2> QED
    BY <1>1, <2>1, <2>2, <2>3 DEF PubTypeOK
<1>3. \A r \in PubRequest : pubPc[r] = "idle"
  BY <1>1
<1>4. ClicksMet
  BY <1>1, <1>3 DEF ClicksMet, Clicking, PubRequest
<1>5. SubsFollow
  BY <1>1, <1>3 DEF SubsFollow, Sub, Can, PubRequest
<1>6. OwedAnswered
  BY <1>1, <1>3 DEF OwedAnswered, PaywallHonoursAnswers, PubRequest
<1>7. ArticleFollows
  BY <1>1, <1>3
  DEF ArticleFollows, PublishedIsDated, NoArticle, Edit, PubRequest
<1> QED
  BY <1>2, <1>4, <1>5, <1>6, <1>7 DEF PubInv

\* Whose steps are counted.
LEMMA AreRequests ==
  /\ \A c \in Clicks : Sub(c) \in PubRequest /\ Can(c) \in PubRequest
  /\ \A v \in Writes : v \in PubRequest
  /\ \A e \in Edits : Edit(e) \in PubRequest
  /\ Read \in PubRequest
  BY DEF Sub, Can, Edit, Read, Writes, PubRequest

\* A request that goes on leaves the others where they are: those of the
\* clicks, of the article, and the reader's.
ClicksUnmoved ==
  \A c \in Clicks : pubPc'[Sub(c)] = pubPc[Sub(c)] /\ pubPc'[Can(c)] = pubPc[Can(c)]

ArticleUnmoved ==
  /\ \A v \in Writes : pubPc'[v] = pubPc[v]
  /\ \A e \in Edits : pubPc'[Edit(e)] = pubPc[Edit(e)]

ReadUnmoved == pubPc'[Read] = pubPc[Read]

\* Each kind of request in turn: what is asked by a click,
LEMMA SubMoves ==
  ASSUME PubTypeOK, NEW c \in Clicks, NEW s,
         pubPc' = [pubPc EXCEPT ![Sub(c)] = s]
  PROVE  /\ pubPc'[Sub(c)] = s
         /\ \A d \in Clicks : /\ d # c => pubPc'[Sub(d)] = pubPc[Sub(d)]
                              /\ pubPc'[Can(d)] = pubPc[Can(d)]
         /\ ArticleUnmoved /\ ReadUnmoved
  BY DEF PubTypeOK, PubRequest, Sub, Can, Edit, Read, Writes, ArticleUnmoved,
         ReadUnmoved

\* its cancellation,
LEMMA CanMoves ==
  ASSUME PubTypeOK, NEW c \in Clicks, NEW s,
         pubPc' = [pubPc EXCEPT ![Can(c)] = s]
  PROVE  /\ pubPc'[Can(c)] = s
         /\ \A d \in Clicks : /\ d # c => pubPc'[Can(d)] = pubPc[Can(d)]
                              /\ pubPc'[Sub(d)] = pubPc[Sub(d)]
         /\ ArticleUnmoved /\ ReadUnmoved
  BY DEF PubTypeOK, PubRequest, Sub, Can, Edit, Read, Writes, ArticleUnmoved,
         ReadUnmoved

\* the writing of the article,
LEMMA WriteMoves ==
  ASSUME PubTypeOK, NEW w \in Writes, NEW s,
         pubPc' = [pubPc EXCEPT ![w] = s]
  PROVE  /\ pubPc'[w] = s
         /\ \A v \in Writes : v # w => pubPc'[v] = pubPc[v]
         /\ \A e \in Edits : pubPc'[Edit(e)] = pubPc[Edit(e)]
         /\ ClicksUnmoved /\ ReadUnmoved
  BY DEF PubTypeOK, PubRequest, Sub, Can, Edit, Read, Writes, ClicksUnmoved,
         ReadUnmoved

\* its updates,
LEMMA EditMoves ==
  ASSUME PubTypeOK, NEW e \in Edits, NEW s,
         pubPc' = [pubPc EXCEPT ![Edit(e)] = s]
  PROVE  /\ pubPc'[Edit(e)] = s
         /\ \A d \in Edits : d # e => pubPc'[Edit(d)] = pubPc[Edit(d)]
         /\ \A v \in Writes : pubPc'[v] = pubPc[v]
         /\ ClicksUnmoved /\ ReadUnmoved
  BY DEF PubTypeOK, PubRequest, Sub, Can, Edit, Read, Writes, ClicksUnmoved,
         ReadUnmoved

\* the founding of a publication,
LEMMA FoundMoves ==
  ASSUME PubTypeOK, NEW f \in Founders, NEW s,
         pubPc' = [pubPc EXCEPT ![<<"found", f>>] = s]
  PROVE  ClicksUnmoved /\ ArticleUnmoved /\ ReadUnmoved
  BY DEF PubTypeOK, PubRequest, Sub, Can, Edit, Read, Writes, ClicksUnmoved,
         ArticleUnmoved, ReadUnmoved

\* the reading of the article.
LEMMA ReadMoves ==
  ASSUME PubTypeOK, NEW s, pubPc' = [pubPc EXCEPT ![Read] = s]
  PROVE  pubPc'[Read] = s /\ ClicksUnmoved /\ ArticleUnmoved
  BY DEF PubTypeOK, PubRequest, Sub, Can, Edit, Read, Writes, ClicksUnmoved,
         ArticleUnmoved

\* A step in which no subscription's row changes but by a commit or a crash,
\* and no request of theirs goes on but by that crash.
SubsCalm ==
  /\ pubDb'.subs \in {pubDb.subs, pubDisk.subs}
  /\ pubDisk'.subs \in {pubDb.subs, pubDisk.subs}
  /\ clicked \subseteq clicked'
  /\ \A c \in Clicks : \A q \in {Sub(c), Can(c)} :
       /\ pubPc'[q] = pubPc[q] \/ (pubPc[q] # "idle" /\ pubPc'[q] = "no")
       /\ \/ pubDb'.subs = pubDb.subs
          \/ pubPc'[q] \notin {"subscribe_insert", "cancel_update", "commit"}

\* They are as they were.
LEMMA SubsStay ==
  ASSUME ClicksMet, SubsFollow, SubsCalm
  PROVE  ClicksMet' /\ SubsFollow'
<1>1. ClicksMet'
  BY DEF SubsCalm, ClicksMet, Clicking, Sub
<1>2. SubsFollow'
  BY DEF SubsCalm, SubsFollow
<1> QED
  BY <1>1, <1>2

\* What is owed where the reader's requests go on, and his read does not.
LEMMA OwedStays ==
  ASSUME OwedAnswered, PubTypeOK, UNCHANGED <<owed, readAccess>>,
         clicked \subseteq clicked',
         pubPc'[Read] \in {pubPc[Read], "no", "ok"},
         \A c \in Clicks : \A q \in {Sub(c), Can(c)} :
           /\ pubPc[q] = "ok" => pubPc'[q] = "ok"
           /\ pubPc[q] # "idle" => pubPc'[q] # "idle"
  PROVE  OwedAnswered'
<1>1. owed.must \subseteq Clicks /\ owed.gone \subseteq Clicks
  BY DEF PubTypeOK
<1>2. PaywallHonoursAnswers'
  BY <1>1 DEF OwedAnswered, PaywallHonoursAnswers, Opens, Asks, Sub, Can
<1> QED
  BY <1>1, <1>2 DEF OwedAnswered

\* The article where it does not change but by a commit or a crash.
LEMMA ArticleStays ==
  ASSUME ArticleFollows,
         pubDb'.article \in {pubDb.article, pubDisk.article},
         pubDisk'.article \in {pubDb.article, pubDisk.article},
         \A v \in Writes :
           /\ pubPc'[v] = "idle" <=> pubPc[v] = "idle"
           /\ pubPc'[v] = "write_insert" => pubPc[v] = "write_insert",
         \A e \in Edits :
           pubPc'[Edit(e)] = "edit_update" =>
             /\ pubDb'.article = pubDb.article
             /\ \/ readStatus'[e] = readStatus[e] /\ pubPc[Edit(e)] = "edit_update"
                \/ /\ pubDb.article # NoArticle
                   /\ readStatus'[e] = pubDb.article.status
  PROVE  ArticleFollows'
<1>1. PublishedIsDated'
  BY DEF ArticleFollows, PublishedIsDated
<1>2. \A v, w \in Writes : pubPc'[v] # "idle" /\ pubPc'[w] # "idle" => v = w
  BY DEF ArticleFollows
<1>3. \A tables \in {pubDb', pubDisk'} :
        tables.article # NoArticle =>
          \E v \in Writes : pubPc'[v] \notin {"idle", "write_insert"}
  BY DEF ArticleFollows
<1>4. ASSUME NEW e \in Edits, pubPc'[Edit(e)] = "edit_update"
      PROVE  /\ pubDb'.article # NoArticle
             /\ readStatus'[e] = "published" => pubDb'.article.dated
  BY <1>4 DEF ArticleFollows, PublishedIsDated
<1> QED
  BY <1>1, <1>2, <1>3, <1>4 DEF ArticleFollows

\* The types, step by step; an update finds an article to change.
LEMMA PubTypeStep ==
  ASSUME PubTypeOK, ArticleFollows, PubNext
  PROVE  PubTypeOK'
<1> DEFINE PcType == [PubRequest -> PubSteps \cup {"idle", "ok", "no", "shown",
                                                  "paywall"}]
<1>0. /\ pubDb \in PubTables /\ pubDisk \in PubTables /\ pubPc \in PcType
      /\ readAccess \in Access /\ readStatus \in [Edits -> Status]
      /\ pubCrashes \in 0 .. MaxPubCrashes
      /\ clicked \subseteq SUBSET Clicks
      /\ owed \in [must : SUBSET Clicks, gone : SUBSET Clicks]
  BY DEF PubTypeOK
<1>1. /\ pubDb.pubs \subseteq Founders /\ pubDb.article \in Articles
      /\ pubDb.subs \in [Clicks -> {"none", "active", "canceled"}]
      /\ pubDb.article # NoArticle =>
           /\ pubDb.article.status \in Status
           /\ pubDb.article.dated \in BOOLEAN
      /\ pubDb.article.access \in Access
  BY <1>0 DEF PubTables, Articles, NoArticle, Access
<1>2. pubPc' \in PcType
  <2>1. ASSUME NEW r, NEW from, NEW to, PubGo(r, from, to),
               to \in PubSteps \cup {"idle", "ok", "no", "shown", "paywall"}
        PROVE  pubPc' \in PcType
    BY <1>0, <2>1 DEF PubGo
  <2>2. ASSUME NEW f \in Founders, CreatePublication(f) \/ PublicationInsert(f)
        PROVE  pubPc' \in PcType
    <3>1. \E r, from, to : PubGo(r, from, to) /\ to \in PubSteps \cup {"no"}
      BY <2>2 DEF CreatePublication, PublicationInsert, PubLook, PubWrite, PubSteps
    <3> QED
      BY <2>1, <3>1
  <2>3. ASSUME NEW w \in Writes, CreateArticle(w) \/ ArticleInsert(w)
        PROVE  pubPc' \in PcType
    <3>1. \E r, from, to : PubGo(r, from, to) /\ to \in PubSteps \cup {"no"}
      BY <2>3 DEF CreateArticle, ArticleInsert, PubLook, PubWrite, PubSteps
    <3> QED
      BY <2>1, <3>1
  <2>4. ASSUME NEW e \in Edits, UpdateArticle(e) \/ ArticleUpdate(e)
        PROVE  pubPc' \in PcType
    <3>1. \E r, from, to : PubGo(r, from, to) /\ to \in PubSteps \cup {"no"}
      BY <2>4 DEF UpdateArticle, ArticleUpdate, PubLook, PubWrite, PubSteps
    <3> QED
      BY <2>1, <3>1
  <2>5. ASSUME NEW c \in Clicks,
               \/ CreateSubscription(c) \/ SubscriptionInsert(c)
               \/ CancelSubscription(c) \/ SubscriptionUpdate(c)
        PROVE  pubPc' \in PcType
    <3>1. \E r, from, to : PubGo(r, from, to) /\ to \in PubSteps \cup {"no"}
      BY <2>5 DEF CreateSubscription, SubscriptionInsert, CancelSubscription,
                  SubscriptionUpdate, PubLook, PubWrite, PubSteps
    <3> QED
      BY <2>1, <3>1
  <2>6. ASSUME GetArticle \/ ReadSubscription PROVE pubPc' \in PcType
    <3>1. \E r, from, to :
            PubGo(r, from, to) /\ to \in {"no", "shown", "read_subs", "paywall"}
      BY <2>6 DEF GetArticle, ReadSubscription
    <3> QED
      BY <2>1, <3>1 DEF PubSteps
  <2>7. ASSUME NEW r \in PubRequest, PubCommit(r) PROVE pubPc' \in PcType
    BY <1>0, <2>7 DEF PubCommit
  <2>8. ASSUME PubCrash PROVE pubPc' \in PcType
    BY <1>0, <2>8 DEF PubCrash
  <2> QED
    BY <2>2, <2>3, <2>4, <2>5, <2>6, <2>7, <2>8 DEF PubNext
<1>3. pubDb' \in PubTables /\ pubDisk' \in PubTables
  <2>1. ASSUME NEW f \in Founders, CreatePublication(f) \/ PublicationInsert(f)
        PROVE  pubDb' \in PubTables /\ pubDisk' = pubDisk
    <3>1. /\ pubDb' = pubDb \/ pubDb' = [pubDb EXCEPT !.pubs = {f}]
          /\ pubDisk' = pubDisk
      BY <2>1 DEF CreatePublication, PublicationInsert, PubLook, PubWrite, PubGo
    <3> QED
      BY <1>0, <3>1 DEF PubTables
  <2>2. ASSUME NEW w \in Writes, CreateArticle(w) \/ ArticleInsert(w)
        PROVE  pubDb' \in PubTables /\ pubDisk' = pubDisk
    <3>1. /\ \/ pubDb' = pubDb
             \/ \E a \in Access :
                  pubDb' = [pubDb EXCEPT !.article =
                              [status |-> w[2], access |-> a,
                               dated |-> w[2] = "published"]]
          /\ pubDisk' = pubDisk
      BY <2>2, PublicationsAssumption
         DEF CreateArticle, ArticleInsert, PubLook, PubWrite, PubGo
    <3>2. w[2] \in Status
      BY DEF Writes
    <3>3. \A a \in Access : [status |-> w[2], access |-> a,
                            dated |-> w[2] = "published"] \in Articles
      BY <3>2 DEF Articles
    <3> QED
      BY <1>0, <3>1, <3>3 DEF PubTables
  <2>3. ASSUME NEW e \in Edits, UpdateArticle(e)
        PROVE  pubDb' \in PubTables /\ pubDisk' = pubDisk
    BY <1>0, <2>3 DEF UpdateArticle, PubLook, PubGo
  <2>4. ASSUME NEW e \in Edits, ArticleUpdate(e)
        PROVE  pubDb' \in PubTables /\ pubDisk' = pubDisk
    <3>1. \E dated \in BOOLEAN :
            pubDb' = [pubDb EXCEPT !.article = Edited(e, dated)]
      <4>1. pubDb.article.dated \in BOOLEAN
        <5>1. CASE pubDb.article = NoArticle
          BY <5>1 DEF NoArticle
        <5> QED
          BY <1>1, <5>1
      <4> QED
        BY <2>4, <4>1 DEF ArticleUpdate, PubWrite
    <3>2. pubPc[Edit(e)] = "edit_update" /\ pubDisk' = pubDisk
      BY <2>4 DEF ArticleUpdate, PubWrite, PubGo, Edit
    <3>3. pubDb.article # NoArticle
      BY <3>2 DEF ArticleFollows
    <3>4. \A dated \in BOOLEAN : Edited(e, dated) \in Articles
      <4>1. /\ e.status \in Status \cup {Same}
            /\ e.access \in Access \cup {Same}
        BY PublicationsAssumption
      <4> QED
        BY <1>1, <3>3, <4>1 DEF Edited, Articles
    <3> QED
      BY <1>0, <3>1, <3>2, <3>4 DEF PubTables
  <2>5. ASSUME NEW c \in Clicks,
               \/ CreateSubscription(c) \/ SubscriptionInsert(c)
               \/ CancelSubscription(c) \/ SubscriptionUpdate(c)
        PROVE  pubDb' \in PubTables /\ pubDisk' = pubDisk
    <3>1. /\ \/ pubDb' = pubDb
             \/ \E s \in {"active", "canceled"} :
                  pubDb' = [pubDb EXCEPT !.subs = [pubDb.subs EXCEPT ![c] = s]]
          /\ pubDisk' = pubDisk
      BY <2>5 DEF CreateSubscription, SubscriptionInsert, CancelSubscription,
                  SubscriptionUpdate, PubLook, PubWrite, PubGo
    <3>2. \A s \in {"active", "canceled"} :
            [pubDb.subs EXCEPT ![c] = s]
              \in [Clicks -> {"none", "active", "canceled"}]
      BY <1>1
    <3> QED
      BY <1>0, <3>1, <3>2 DEF PubTables
  <2>6. ASSUME GetArticle \/ ReadSubscription
        PROVE  pubDb' \in PubTables /\ pubDisk' = pubDisk
    BY <1>0, <2>6 DEF GetArticle, ReadSubscription, PubGo
  <2>7. ASSUME NEW r \in PubRequest, PubCommit(r)
        PROVE  pubDb' \in PubTables /\ pubDisk' \in PubTables
    BY <1>0, <2>7 DEF PubCommit
  <2>8. ASSUME PubCrash PROVE pubDb' \in PubTables /\ pubDisk' \in PubTables
    BY <1>0, <2>8 DEF PubCrash
  <2> QED
    BY <1>0, <2>1, <2>2, <2>3, <2>4, <2>5, <2>6, <2>7, <2>8 DEF PubNext
<1>4. readAccess' \in Access /\ readStatus' \in [Edits -> Status]
  <2>1. ASSUME GetArticle PROVE readAccess' \in Access /\ readStatus' = readStatus
    BY <1>1, <2>1 DEF GetArticle
  <2>2. ASSUME NEW e \in Edits, UpdateArticle(e)
        PROVE  readStatus' \in [Edits -> Status] /\ readAccess' = readAccess
    <3>0. readAccess' = readAccess
      BY <2>2 DEF UpdateArticle
    <3>1. \/ readStatus' = readStatus
          \/ /\ readStatus' = [readStatus EXCEPT ![e] = pubDb.article.status]
             /\ pubDb.article.status \in Status
      <4>1. CASE pubDb.article = NoArticle
        <5>1. readStatus' = [readStatus EXCEPT ![e] = readStatus[e]]
          BY <2>2, <4>1 DEF UpdateArticle
        <5> QED
          BY <1>0, <5>1
      <4>2. CASE pubDb.article # NoArticle
        <5>1. readStatus' = [readStatus EXCEPT ![e] = pubDb.article.status]
          BY <2>2, <4>2 DEF UpdateArticle
        <5> QED
          BY <1>1, <4>2, <5>1
      <4> QED
        BY <4>1, <4>2
    <3> QED
      BY <1>0, <3>0, <3>1
  <2>3. CASE UNCHANGED <<readAccess, readStatus>>
    BY <1>0, <2>3
  <2>4. \/ GetArticle \/ \E e \in Edits : UpdateArticle(e)
        \/ UNCHANGED <<readAccess, readStatus>>
    BY DEF PubNext, CreatePublication, PublicationInsert, CreateArticle,
           ArticleInsert, ArticleUpdate, CreateSubscription, SubscriptionInsert,
           CancelSubscription, SubscriptionUpdate, ReadSubscription, PubCommit,
           PubCrash, PubWrite, ReadsAlone
  <2> QED
    BY <1>0, <2>1, <2>2, <2>3, <2>4
<1>5. /\ clicked' \subseteq SUBSET Clicks
      /\ owed' \in [must : SUBSET Clicks, gone : SUBSET Clicks]
  <2>1. ASSUME GetArticle
        PROVE  owed' \in [must : SUBSET Clicks, gone : SUBSET Clicks]
               /\ clicked' = clicked
    BY <2>1 DEF GetArticle
  <2>2. ASSUME NEW c \in Clicks, CreateSubscription(c)
        PROVE  clicked' \subseteq SUBSET Clicks /\ owed' = owed
    BY <1>0, <2>2 DEF CreateSubscription
  <2>3. \/ GetArticle \/ \E c \in Clicks : CreateSubscription(c)
        \/ UNCHANGED <<clicked, owed>>
    BY DEF PubNext, CreatePublication, PublicationInsert, CreateArticle,
           UpdateArticle, ArticleInsert, ArticleUpdate, SubscriptionInsert,
           CancelSubscription, SubscriptionUpdate, ReadSubscription, PubCommit,
           PubCrash, PubWrite, ReadsAlone
  <2> QED
    BY <1>0, <2>1, <2>2, <2>3
<1>6. pubCrashes' \in 0 .. MaxPubCrashes
  <2>1. \/ PubCrash \/ UNCHANGED pubCrashes
    BY DEF PubNext, CreatePublication, PublicationInsert, CreateArticle,
           UpdateArticle, ArticleInsert, ArticleUpdate, CreateSubscription,
           SubscriptionInsert, CancelSubscription, SubscriptionUpdate,
           GetArticle, ReadSubscription, PubCommit, PubWrite, PubLook, PubGo
  <2> QED
    BY <1>0, <2>1, PublicationsAssumption DEF PubCrash
<1> QED
  BY <1>2, <1>3, <1>4, <1>5, <1>6 DEF PubTypeOK

\* What a click's step does.
LEMMA SubsStep ==
  ASSUME PubInv, NEW c \in Clicks,
         \/ CreateSubscription(c) \/ SubscriptionInsert(c)
         \/ CancelSubscription(c) \/ SubscriptionUpdate(c)
  PROVE  ClicksMet' /\ SubsFollow'
<1>0. /\ PubTypeOK /\ ClicksMet /\ SubsFollow
      /\ pubDb.subs \in [Clicks -> {"none", "active", "canceled"}]
      /\ pubDb \in PubTables
  BY DEF PubInv, PubTypeOK, PubTables
<1>1. CASE CreateSubscription(c)
  <2>1. PICK s \in {"subscribe_insert", "no"} :
          /\ pubPc' = [pubPc EXCEPT ![Sub(c)] = s]
          /\ s = "subscribe_insert" => Active = {}
          /\ pubPc[Sub(c)] = "idle"
          /\ pubDb' = pubDb /\ pubDisk' = pubDisk
          /\ clicked' = clicked \cup
                          {{c, d} : d \in {k \in Clicks \ {c} : Clicking(k)}}
    BY <1>1 DEF CreateSubscription, PubLook, PubGo, Sub
  <2>2. /\ pubPc'[Sub(c)] = s
        /\ \A d \in Clicks : /\ d # c => pubPc'[Sub(d)] = pubPc[Sub(d)]
                             /\ pubPc'[Can(d)] = pubPc[Can(d)]
    BY <1>0, <2>1, SubMoves
  <2>3. ClicksMet'
    <3>1. \A d \in Clicks : Clicking(d)' =>
            \/ Clicking(d)
            \/ d = c /\ \A e \in Clicks : pubDb.subs[e] # "active"
      BY <2>1, <2>2 DEF Clicking, Sub, Active
    <3>2. \A d \in Clicks : d # c /\ Clicking(d) => {c, d} \in clicked'
      BY <2>1
    <3>3. \A d \in Clicks : {c, d} = {d, c}
      OBVIOUS
    <3>4. clicked \subseteq clicked'
      BY <2>1
    <3>5. \A d, e \in Clicks :
            d # e /\ Clicking(d)' /\ (Clicking(e)' \/ pubDb.subs[e] = "active") =>
              {d, e} \in clicked'
      BY <1>0, <3>1, <3>2, <3>3, <3>4 DEF ClicksMet
    <3> QED
      BY <1>0, <2>1, <3>4, <3>5 DEF ClicksMet
  <2>4. SubsFollow'
    BY <1>0, <2>1, <2>2 DEF SubsFollow
  <2> QED
    BY <2>3, <2>4
<1>2. CASE SubscriptionInsert(c)
  <2>1. /\ pubPc' = [pubPc EXCEPT ![Sub(c)] = "commit"]
        /\ pubPc[Sub(c)] = "subscribe_insert" /\ Clicking(c)
        /\ pubDb' = [pubDb EXCEPT !.subs = [pubDb.subs EXCEPT ![c] = "active"]]
        /\ pubDisk' = pubDisk /\ clicked' = clicked
    BY <1>2 DEF SubscriptionInsert, PubWrite, PubGo, ReadsAlone, Sub, Clicking
  <2>2. /\ pubPc'[Sub(c)] = "commit"
        /\ \A d \in Clicks : /\ d # c => pubPc'[Sub(d)] = pubPc[Sub(d)]
                             /\ pubPc'[Can(d)] = pubPc[Can(d)]
    BY <1>0, <2>1, SubMoves
  <2>3. pubDb'.subs = [pubDb.subs EXCEPT ![c] = "active"]
    BY <1>0, <2>1 DEF PubTables
  <2>4. /\ pubDb'.subs[c] = "active"
        /\ \A d \in Clicks : d # c => pubDb'.subs[d] = pubDb.subs[d]
    BY <1>0, <2>3
  <2>5. \A d \in Clicks : {c, d} = {d, c}
    OBVIOUS
  <2>6. ClicksMet'
    <3>1. \A d \in Clicks : Clicking(d)' => Clicking(d) /\ d # c
      BY <2>2 DEF Clicking, Sub
    <3> QED
      BY <1>0, <2>1, <2>4, <2>5, <3>1 DEF ClicksMet
  <2>7. SubsFollow'
    BY <1>0, <2>1, <2>2, <2>4 DEF SubsFollow
  <2> QED
    BY <2>6, <2>7
<1>3. CASE CancelSubscription(c)
  <2>1. PICK s \in {"cancel_update", "no"} :
          /\ pubPc' = [pubPc EXCEPT ![Can(c)] = s]
          /\ s = "cancel_update" => pubDb.subs[c] # "none"
          /\ pubDb' = pubDb /\ pubDisk' = pubDisk /\ clicked' = clicked
    BY <1>3 DEF CancelSubscription, PubLook, PubGo, Can, ReadsAlone
  <2>2. /\ pubPc'[Can(c)] = s
        /\ \A d \in Clicks : /\ d # c => pubPc'[Can(d)] = pubPc[Can(d)]
                             /\ pubPc'[Sub(d)] = pubPc[Sub(d)]
    BY <1>0, <2>1, CanMoves
  <2>3. ClicksMet'
    BY <1>0, <2>1, <2>2 DEF ClicksMet, Clicking, Sub
  <2>4. SubsFollow'
    BY <1>0, <2>1, <2>2 DEF SubsFollow
  <2> QED
    BY <2>3, <2>4
<1>4. CASE SubscriptionUpdate(c)
  <2>1. /\ pubPc' = [pubPc EXCEPT ![Can(c)] = "commit"]
        /\ pubPc[Can(c)] = "cancel_update"
        /\ pubDb' = [pubDb EXCEPT !.subs = [pubDb.subs EXCEPT ![c] = "canceled"]]
        /\ pubDisk' = pubDisk /\ clicked' = clicked
    BY <1>4 DEF SubscriptionUpdate, PubWrite, PubGo, ReadsAlone, Can
  <2>2. /\ pubPc'[Can(c)] = "commit"
        /\ \A d \in Clicks : /\ d # c => pubPc'[Can(d)] = pubPc[Can(d)]
                             /\ pubPc'[Sub(d)] = pubPc[Sub(d)]
    BY <1>0, <2>1, CanMoves
  <2>3. pubDb'.subs = [pubDb.subs EXCEPT ![c] = "canceled"]
    BY <1>0, <2>1 DEF PubTables
  <2>4. /\ pubDb'.subs[c] = "canceled"
        /\ \A d \in Clicks : d # c => pubDb'.subs[d] = pubDb.subs[d]
    BY <1>0, <2>3
  <2>5. ClicksMet'
    BY <1>0, <2>1, <2>2, <2>4 DEF ClicksMet, Clicking, Sub
  <2>6. SubsFollow'
    BY <1>0, <2>1, <2>2, <2>4 DEF SubsFollow
  <2> QED
    BY <2>5, <2>6
<1> QED
  BY <1>1, <1>2, <1>3, <1>4

\* What the reader's own steps do.
LEMMA OwedStep ==
  ASSUME PubInv, GetArticle \/ ReadSubscription
  PROVE  OwedAnswered'
<1>0. PubTypeOK /\ OwedAnswered /\ SubsFollow
  BY DEF PubInv
<1>1. CASE GetArticle
  <2>1. PICK s \in {"no", "shown", "read_subs"} :
          /\ pubPc' = [pubPc EXCEPT ![Read] = s]
          /\ s = "shown" => pubDb.article.access = "public"
    <3>1. \A s : PubGo(Read, "idle", s) => pubPc' = [pubPc EXCEPT ![Read] = s]
      BY DEF PubGo
    <3>2. CASE pubDb.article = NoArticle
      <4>1. PubGo(Read, "idle", "no")
        BY <1>1, <3>2 DEF GetArticle
      <4> QED
        BY <3>1, <4>1
    <3>3. CASE pubDb.article # NoArticle /\ pubDb.article.access = "public"
      <4>1. PubGo(Read, "idle", "shown")
        BY <1>1, <3>3 DEF GetArticle
      <4> QED
        BY <3>1, <3>3, <4>1
    <3>4. CASE pubDb.article # NoArticle /\ pubDb.article.access # "public"
      <4>1. PubGo(Read, "idle", "read_subs")
        BY ONLY <1>1, <3>4 DEF GetArticle
      <4> QED
        BY <3>1, <4>1
    <3> QED
      BY <3>2, <3>3, <3>4
  <2>2. /\ readAccess' = pubDb.article.access
        /\ \A c \in owed'.must : c \in Clicks /\ pubPc[Sub(c)] = "ok"
        /\ \A c \in owed'.gone : c \in Clicks /\ pubPc[Can(c)] = "ok"
    BY <1>1 DEF GetArticle, Answered, Sub, Can
  <2>3. /\ pubPc'[Read] = s
        /\ \A c \in Clicks : /\ pubPc'[Sub(c)] = pubPc[Sub(c)]
                             /\ pubPc'[Can(c)] = pubPc[Can(c)]
    BY <1>0, <2>1, ReadMoves DEF ClicksUnmoved
  <2>4. PaywallHonoursAnswers'
    BY <2>1, <2>2, <2>3 DEF PaywallHonoursAnswers
  <2> QED
    BY <2>2, <2>3, <2>4 DEF OwedAnswered
<1>2. CASE ReadSubscription
  <2>1. PICK s \in {"shown", "paywall"} :
          /\ pubPc' = [pubPc EXCEPT ![Read] = s]
          /\ s = "shown" => \E c \in Active : Opens(c)
          /\ s = "paywall" => Active = {} \/ \E c \in Active : ~Opens(c)
    BY <1>2 DEF ReadSubscription, PubGo
  <2>2. UNCHANGED <<pubDb, readAccess, clicked, owed>>
    BY <1>2 DEF ReadSubscription, ReadsAlone
  <2>3. /\ pubPc'[Read] = s
        /\ \A c \in Clicks : /\ pubPc'[Sub(c)] = pubPc[Sub(c)]
                             /\ pubPc'[Can(c)] = pubPc[Can(c)]
    BY <1>0, <2>1, ReadMoves DEF ClicksUnmoved
  <2>4. owed.must \subseteq Clicks /\ owed.gone \subseteq Clicks
    BY <1>0 DEF PubTypeOK
  <2>5. ASSUME s = "shown"
        PROVE  \E c \in Clicks \ owed.gone : Opens(c) /\ pubPc[Sub(c)] # "idle"
    <3>1. PICK c \in Active : Opens(c)
      BY <2>1, <2>5
    <3>2. c \in Clicks /\ pubDb.subs[c] = "active"
      BY DEF Active
    <3>3. c \notin owed.gone /\ pubPc[Sub(c)] # "idle"
      BY <1>0, <3>2 DEF OwedAnswered, SubsFollow
    <3> QED
      BY <3>1, <3>2, <3>3
  <2>6. ASSUME s = "paywall", NEW c \in owed.must, pubPc[Can(c)] = "idle", Opens(c)
        PROVE  \E pair \in clicked : c \in pair
    <3>1. c \in Clicks /\ pubDb.subs[c] = "active" /\ c \in Active
      BY <1>0, <2>4, <2>6 DEF OwedAnswered, SubsFollow, Active
    <3>2. PICK d \in Active : ~Opens(d)
      BY <2>1, <2>6, <3>1
    <3>3. d \in Clicks /\ pubDb.subs[d] = "active" /\ c # d
      BY <2>6, <3>2 DEF Active
    <3>4. {c, d} \in clicked
      BY <3>1, <3>3 DEF PubInv, ClicksMet
    <3> QED
      BY <3>4
  <2>7. PaywallHonoursAnswers'
    <3>1. \A c \in Clicks : Opens(c)' = Opens(c)
      BY <2>2 DEF Opens
    <3>2. \A c \in Clicks : /\ Asks("subscribe", c)' <=> pubPc[Sub(c)] # "idle"
                            /\ Asks("cancel", c)' <=> pubPc[Can(c)] # "idle"
      BY <2>3 DEF Asks, Sub, Can
    <3>3. pubPc'[Read] = "shown" =>
            \E c \in Clicks \ owed.gone : Opens(c)' /\ Asks("subscribe", c)'
      BY <2>3, <2>5, <3>1, <3>2
    <3>4. pubPc'[Read] = "paywall" =>
            \A c \in owed.must : \/ Asks("cancel", c)' \/ ~Opens(c)'
                                 \/ \E pair \in clicked : c \in pair
      BY <2>3, <2>4, <2>6, <3>1, <3>2
    <3> QED
      BY <2>2, <3>3, <3>4 DEF PaywallHonoursAnswers
  <2> QED
    BY <1>0, <2>2, <2>3, <2>4, <2>7 DEF OwedAnswered
<1> QED
  BY <1>1, <1>2

\* What the article's own steps do.
LEMMA ArticleStep ==
  ASSUME PubInv, PubTypeOK',
         \/ \E w \in Writes : CreateArticle(w) \/ ArticleInsert(w)
         \/ \E e \in Edits : UpdateArticle(e) \/ ArticleUpdate(e)
  PROVE  ArticleFollows'
<1>0. /\ PubTypeOK /\ ArticleFollows /\ pubDb \in PubTables
      /\ readStatus \in [Edits -> Status]
  BY DEF PubInv, PubTypeOK
<1>1. ASSUME NEW w \in Writes, CreateArticle(w) PROVE ArticleFollows'
  <2>1. PICK s \in {"write_insert", "no"} :
          /\ pubPc' = [pubPc EXCEPT ![w] = s]
          /\ \A v \in Writes : pubPc[v] = "idle"
          /\ UNCHANGED <<pubDb, pubDisk, readStatus>>
    BY <1>1 DEF CreateArticle, PubLook, PubGo, ReadsAlone
  <2>2. /\ \A v \in Writes : v # w => pubPc'[v] = "idle"
        /\ \A e \in Edits : pubPc'[Edit(e)] = pubPc[Edit(e)]
    BY <1>0, <2>1, WriteMoves
  <2>3. pubDb.article = NoArticle /\ pubDisk.article = NoArticle
    BY <1>0, <2>1 DEF ArticleFollows
  <2> QED
    BY <1>0, <2>1, <2>2, <2>3 DEF ArticleFollows, PublishedIsDated
<1>2. ASSUME NEW w \in Writes, ArticleInsert(w) PROVE ArticleFollows'
  <2>1. /\ pubPc' = [pubPc EXCEPT ![w] = "commit"] /\ pubPc[w] = "write_insert"
        /\ UNCHANGED <<pubDisk, readStatus>>
        /\ \E a \in Access :
             pubDb' = [pubDb EXCEPT !.article =
                         [status |-> w[2], access |-> a,
                          dated |-> w[2] = "published"]]
    BY <1>2, PublicationsAssumption
       DEF ArticleInsert, PubWrite, PubGo, ReadsAlone
  <2>2. /\ pubPc'[w] = "commit"
        /\ \A v \in Writes : v # w => pubPc'[v] = pubPc[v]
        /\ \A e \in Edits : pubPc'[Edit(e)] = pubPc[Edit(e)]
    BY <1>0, <2>1, WriteMoves
  <2>3. pubDb.article = NoArticle /\ pubDisk.article = NoArticle
    <3>1. \A v \in Writes : pubPc[v] # "idle" => v = w
      BY <1>0, <2>1 DEF ArticleFollows
    <3> QED
      BY <1>0, <2>1, <3>1 DEF ArticleFollows
  <2>4. pubDb'.article.status = "published" => pubDb'.article.dated
    <3>1. PICK a \in Access :
            pubDb' = [pubDb EXCEPT !.article =
                        [status |-> w[2], access |-> a,
                         dated |-> w[2] = "published"]]
      BY <2>1
    <3>2. pubDb'.article = [status |-> w[2], access |-> a,
                            dated |-> w[2] = "published"]
      BY <1>0, <3>1 DEF PubTables
    <3>3. CASE w[2] = "published"
      <4>1. (w[2] = "published") = TRUE
        BY <3>3
      <4>2. pubDb'.article = [status |-> w[2], access |-> a, dated |-> TRUE]
        BY <3>2, <4>1
      <4> QED
        BY <4>2
    <3>4. CASE w[2] # "published"
      BY <3>2, <3>4
    <3> QED
      BY <3>3, <3>4
  <2>5. \A e \in Edits : pubPc'[Edit(e)] # "edit_update"
    BY <1>0, <2>2, <2>3 DEF ArticleFollows
  <2>6. PublishedIsDated'
    BY <1>0, <2>1, <2>4 DEF ArticleFollows, PublishedIsDated
  <2>7. \A u, v \in Writes : pubPc'[u] # "idle" /\ pubPc'[v] # "idle" => u = v
    BY <1>0, <2>1, <2>2 DEF ArticleFollows
  <2> QED
    BY <2>2, <2>5, <2>6, <2>7 DEF ArticleFollows
<1>3. ASSUME NEW e \in Edits, UpdateArticle(e) PROVE ArticleFollows'
  <2>1. PICK s \in {"edit_update", "no"} :
          /\ pubPc' = [pubPc EXCEPT ![Edit(e)] = s]
          /\ s = "edit_update" => pubDb.article # NoArticle
          /\ UNCHANGED <<pubDb, pubDisk>>
    BY <1>3 DEF UpdateArticle, PubLook, PubGo, Edit
  <2>2. /\ pubPc'[Edit(e)] = s
        /\ \A v \in Writes : pubPc'[v] = pubPc[v]
        /\ \A d \in Edits : d # e => pubPc'[Edit(d)] = pubPc[Edit(d)]
    BY <1>0, <2>1, EditMoves
  <2>3. /\ pubDb.article # NoArticle => readStatus'[e] = pubDb.article.status
        /\ \A d \in Edits : d # e => readStatus'[d] = readStatus[d]
    BY <1>0, <1>3 DEF UpdateArticle
  <2> QED
    BY <1>0, <2>1, <2>2, <2>3, ArticleStays
<1>4. ASSUME NEW e \in Edits, ArticleUpdate(e) PROVE ArticleFollows'
  <2>1. /\ pubPc' = [pubPc EXCEPT ![Edit(e)] = "commit"]
        /\ pubPc[Edit(e)] = "edit_update"
        /\ UNCHANGED <<pubDisk, readStatus>>
        /\ pubDb' = [pubDb EXCEPT !.article =
             Edited(e, \/ pubDb.article.dated
                       \/ e.status = "published" /\ readStatus[e] # "published")]
    BY <1>4 DEF ArticleUpdate, PubWrite, PubGo, ReadsAlone, Edit
  <2>2. /\ pubPc'[Edit(e)] = "commit"
        /\ \A v \in Writes : pubPc'[v] = pubPc[v]
        /\ \A d \in Edits : d # e => pubPc'[Edit(d)] = pubPc[Edit(d)]
    BY <1>0, <2>1, EditMoves
  <2>3. /\ pubDb.article # NoArticle
        /\ readStatus[e] = "published" => pubDb.article.dated
    BY <1>0, <2>1 DEF ArticleFollows
  <2>4. /\ pubDb'.article.status \in {e.status, pubDb.article.status}
        /\ pubDb'.article.status = e.status \/ e.status = Same
        /\ pubDb'.article.dated <=>
             \/ pubDb.article.dated
             \/ e.status = "published" /\ readStatus[e] # "published"
    BY <1>0, <2>1 DEF PubTables, Edited
  <2>5. /\ pubDb'.article.status = "published" => pubDb'.article.dated
        /\ pubDb.article.dated => pubDb'.article.dated
    <3>1. pubDb.article.status = "published" => pubDb.article.dated
      BY <1>0 DEF ArticleFollows, PublishedIsDated
    <3> QED
      BY <2>3, <2>4, <3>1 DEF Same
  <2>6. pubDb'.article # NoArticle
    <3>1. pubDb.article.status # "none" /\ e.status # "none"
      BY <1>0, <2>3, PublicationsAssumption
      DEF PubTables, Articles, Status, Same
    <3> QED
      BY <2>4, <3>1 DEF NoArticle
  <2>7. PublishedIsDated'
    BY <1>0, <2>1, <2>5 DEF ArticleFollows, PublishedIsDated
  <2>8. \A tables \in {pubDb', pubDisk'} :
          tables.article # NoArticle =>
            \E v \in Writes : pubPc'[v] \notin {"idle", "write_insert"}
    BY <1>0, <2>1, <2>2, <2>3 DEF ArticleFollows
  <2>9. \A u, v \in Writes : pubPc'[u] # "idle" /\ pubPc'[v] # "idle" => u = v
    BY <1>0, <2>2 DEF ArticleFollows
  <2>10. \A d \in Edits : pubPc'[Edit(d)] = "edit_update" =>
           /\ pubDb'.article # NoArticle
           /\ readStatus'[d] = "published" => pubDb'.article.dated
    BY <1>0, <2>1, <2>2, <2>5, <2>6 DEF ArticleFollows
  <2> QED
    BY <2>7, <2>8, <2>9, <2>10 DEF ArticleFollows
<1> QED
  BY <1>1, <1>2, <1>3, <1>4

\* Every step keeps what the others do not touch.
LEMMA PubStep ==
  ASSUME PubInv, PubNext
  PROVE  PubInv'
<1>0. /\ PubTypeOK /\ PubTypeOK'
      /\ ClicksMet /\ SubsFollow /\ OwedAnswered /\ ArticleFollows
  BY PubTypeStep DEF PubInv
<1>t. /\ pubDb \in PubTables
      /\ \A new : /\ [pubDb EXCEPT !.pubs = new].subs = pubDb.subs
                  /\ [pubDb EXCEPT !.pubs = new].article = pubDb.article
                  /\ [pubDb EXCEPT !.article = new].subs = pubDb.subs
                  /\ [pubDb EXCEPT !.subs = new].article = pubDb.article
  <2>1. pubDb \in PubTables
    BY <1>0 DEF PubTypeOK
  <2> QED
    BY <2>1 DEF PubTables
<1>1. ASSUME NEW f \in Founders, CreatePublication(f) \/ PublicationInsert(f)
      PROVE  PubInv'
  <2>1. /\ \E s : pubPc' = [pubPc EXCEPT ![<<"found", f>>] = s]
        /\ pubDb' = pubDb \/ \E new : pubDb' = [pubDb EXCEPT !.pubs = new]
        /\ UNCHANGED <<pubDisk, readAccess, readStatus, clicked, owed>>
    BY <1>1 DEF CreatePublication, PublicationInsert, PubLook, PubWrite, PubGo,
                ReadsAlone
  <2>2. pubDb'.subs = pubDb.subs /\ pubDb'.article = pubDb.article
    BY <1>t, <2>1
  <2>3. ClicksUnmoved /\ ArticleUnmoved /\ ReadUnmoved
    BY <1>0, <2>1, FoundMoves
  <2>4. ClicksMet' /\ SubsFollow'
    <3>1. SubsCalm
      BY <2>1, <2>2, <2>3 DEF SubsCalm, ClicksUnmoved
    <3> QED
      BY <1>0, <3>1, SubsStay
  <2>5. OwedAnswered'
    BY <1>0, <2>1, <2>3, OwedStays DEF ClicksUnmoved, ReadUnmoved
  <2>6. ArticleFollows'
    BY <1>0, <2>1, <2>2, <2>3, ArticleStays DEF ArticleUnmoved
  <2> QED
    BY <1>0, <2>4, <2>5, <2>6 DEF PubInv
<1>2. ASSUME \/ \E w \in Writes : CreateArticle(w) \/ ArticleInsert(w)
             \/ \E e \in Edits : UpdateArticle(e) \/ ArticleUpdate(e)
      PROVE  PubInv'
  <2>1. /\ ClicksUnmoved /\ ReadUnmoved
        /\ pubDb' = pubDb \/ \E new : pubDb' = [pubDb EXCEPT !.article = new]
        /\ UNCHANGED <<pubDisk, readAccess, clicked, owed>>
    <3>1. ASSUME NEW w \in Writes, CreateArticle(w) \/ ArticleInsert(w)
          PROVE  /\ \E s : pubPc' = [pubPc EXCEPT ![w] = s]
                 /\ \/ pubDb' = pubDb
                    \/ \E new : pubDb' = [pubDb EXCEPT !.article = new]
                 /\ UNCHANGED <<pubDisk, readAccess, clicked, owed>>
      BY <3>1 DEF CreateArticle, ArticleInsert, PubLook, PubWrite, PubGo,
                  ReadsAlone
    <3>2. ASSUME NEW e \in Edits, UpdateArticle(e) \/ ArticleUpdate(e)
          PROVE  /\ \E s : pubPc' = [pubPc EXCEPT ![Edit(e)] = s]
                 /\ \/ pubDb' = pubDb
                    \/ \E new : pubDb' = [pubDb EXCEPT !.article = new]
                 /\ UNCHANGED <<pubDisk, readAccess, clicked, owed>>
      BY <3>2 DEF UpdateArticle, ArticleUpdate, PubLook, PubWrite, PubGo,
                  ReadsAlone, Edit
    <3> QED
      BY <1>0, <1>2, <3>1, <3>2, WriteMoves, EditMoves
  <2>2. pubDb'.subs = pubDb.subs
    BY <1>t, <2>1
  <2>3. ClicksMet' /\ SubsFollow'
    <3>1. SubsCalm
      BY <2>1, <2>2 DEF SubsCalm, ClicksUnmoved
    <3> QED
      BY <1>0, <3>1, SubsStay
  <2>4. OwedAnswered'
    BY <1>0, <2>1, OwedStays DEF ClicksUnmoved, ReadUnmoved
  <2>5. ArticleFollows'
    BY <1>0, <1>2, ArticleStep
  <2> QED
    BY <1>0, <2>3, <2>4, <2>5 DEF PubInv
<1>3. ASSUME NEW c \in Clicks,
             \/ CreateSubscription(c) \/ SubscriptionInsert(c)
             \/ CancelSubscription(c) \/ SubscriptionUpdate(c)
      PROVE  PubInv'
  <2>1. /\ ArticleUnmoved /\ ReadUnmoved
        /\ \A d \in Clicks : \A q \in {Sub(d), Can(d)} :
             /\ pubPc[q] = "ok" => pubPc'[q] = "ok"
             /\ pubPc[q] # "idle" => pubPc'[q] # "idle"
        /\ pubDb' = pubDb \/ \E new : pubDb' = [pubDb EXCEPT !.subs = new]
        /\ UNCHANGED <<pubDisk, readAccess, readStatus, owed>>
        /\ clicked \subseteq clicked'
    <3>1. ASSUME CreateSubscription(c) \/ SubscriptionInsert(c)
          PROVE  /\ \E s : pubPc' = [pubPc EXCEPT ![Sub(c)] = s] /\ s # "idle"
                 /\ pubPc[Sub(c)] # "ok"
                 /\ \/ pubDb' = pubDb
                    \/ \E new : pubDb' = [pubDb EXCEPT !.subs = new]
                 /\ UNCHANGED <<pubDisk, readAccess, readStatus, owed>>
                 /\ clicked \subseteq clicked'
      BY <3>1 DEF CreateSubscription, SubscriptionInsert, PubLook, PubWrite,
                  PubGo, ReadsAlone, Sub
    <3>2. ASSUME CancelSubscription(c) \/ SubscriptionUpdate(c)
          PROVE  /\ \E s : pubPc' = [pubPc EXCEPT ![Can(c)] = s] /\ s # "idle"
                 /\ pubPc[Can(c)] # "ok"
                 /\ \/ pubDb' = pubDb
                    \/ \E new : pubDb' = [pubDb EXCEPT !.subs = new]
                 /\ UNCHANGED <<pubDisk, readAccess, readStatus, owed>>
                 /\ clicked \subseteq clicked'
      BY <3>2 DEF CancelSubscription, SubscriptionUpdate, PubLook, PubWrite,
                  PubGo, ReadsAlone, Can
    <3>3. CASE CreateSubscription(c) \/ SubscriptionInsert(c)
      BY <1>0, <3>1, <3>3, SubMoves
    <3>4. CASE CancelSubscription(c) \/ SubscriptionUpdate(c)
      BY <1>0, <3>2, <3>4, CanMoves
    <3> QED
      BY <1>3, <3>3, <3>4
  <2>2. pubDb'.article = pubDb.article
    BY <1>t, <2>1
  <2>3. ClicksMet' /\ SubsFollow'
    BY <1>3, SubsStep
  <2>4. OwedAnswered'
    BY <1>0, <2>1, OwedStays DEF ReadUnmoved
  <2>5. ArticleFollows'
    BY <1>0, <2>1, <2>2, ArticleStays DEF ArticleUnmoved
  <2> QED
    BY <1>0, <2>3, <2>4, <2>5 DEF PubInv
<1>4. ASSUME GetArticle \/ ReadSubscription PROVE PubInv'
  <2>1. /\ \E s : pubPc' = [pubPc EXCEPT ![Read] = s]
        /\ UNCHANGED <<pubDb, pubDisk, readStatus, clicked>>
    BY <1>4 DEF GetArticle, ReadSubscription, PubGo, ReadsAlone
  <2>2. ClicksUnmoved /\ ArticleUnmoved
    BY <1>0, <2>1, ReadMoves
  <2>3. ClicksMet' /\ SubsFollow'
    <3>1. SubsCalm
      BY <2>1, <2>2 DEF SubsCalm, ClicksUnmoved
    <3> QED
      BY <1>0, <3>1, SubsStay
  <2>4. ArticleFollows'
    BY <1>0, <2>1, <2>2, ArticleStays DEF ArticleUnmoved
  <2> QED
    BY <1>0, <1>4, <2>3, <2>4, OwedStep DEF PubInv
<1>5. ASSUME NEW r \in PubRequest, PubCommit(r) PROVE PubInv'
  <2>1. /\ pubPc[r] = "commit" /\ pubPc' = [pubPc EXCEPT ![r] = "ok"]
        /\ pubDisk' = pubDb
        /\ UNCHANGED <<pubDb, readAccess, readStatus, clicked, owed>>
    BY <1>5 DEF PubCommit, ReadsAlone
  <2>2. \A q \in PubRequest :
          pubPc'[q] = pubPc[q] \/ (pubPc[q] = "commit" /\ pubPc'[q] = "ok")
    <3>1. \A q \in PubRequest : pubPc'[q] = IF q = r THEN "ok" ELSE pubPc[q]
      BY <1>0, <2>1 DEF PubTypeOK
    <3> QED
      BY <2>1, <3>1
  <2>3. ClicksMet'
    <3>1. \A c \in Clicks : Clicking(c)' => Clicking(c)
      BY <2>2, AreRequests DEF Clicking, Sub
    <3> QED
      BY <1>0, <2>1, <3>1 DEF ClicksMet
  <2>4. SubsFollow'
    <3>1. \A c \in Clicks : \A q \in {Sub(c), Can(c)} :
            pubPc'[q] = pubPc[q] \/ (pubPc[q] = "commit" /\ pubPc'[q] = "ok")
      BY <2>2, AreRequests
    <3> QED
      BY <1>0, <2>1, <3>1 DEF SubsFollow
  <2>5. OwedAnswered'
    <3>1. pubPc'[Read] \in {pubPc[Read], "ok"}
      BY <2>2, AreRequests
    <3>2. \A c \in Clicks : \A q \in {Sub(c), Can(c)} :
            /\ pubPc[q] = "ok" => pubPc'[q] = "ok"
            /\ pubPc[q] # "idle" => pubPc'[q] # "idle"
      BY <2>2, AreRequests
    <3> QED
      BY <1>0, <2>1, <3>1, <3>2, OwedStays
  <2>6. ArticleFollows'
    <3>1. \A v \in Writes :
            /\ pubPc'[v] = "idle" <=> pubPc[v] = "idle"
            /\ pubPc'[v] = "write_insert" => pubPc[v] = "write_insert"
      BY <2>2, AreRequests
    <3>2. \A e \in Edits : pubPc'[Edit(e)] = "edit_update" =>
                             pubPc[Edit(e)] = "edit_update"
      BY <2>2, AreRequests
    <3> QED
      BY <1>0, <2>1, <3>1, <3>2, ArticleStays
  <2> QED
    BY <1>0, <2>3, <2>4, <2>5, <2>6 DEF PubInv
<1>6. ASSUME PubCrash PROVE PubInv'
  <2>1. /\ pubDb' = pubDisk /\ pubDisk' = pubDisk
        /\ UNCHANGED <<readAccess, readStatus, clicked, owed>>
        /\ \A r \in PubRequest :
             pubPc'[r] = IF pubPc[r] \in PubSteps THEN "no" ELSE pubPc[r]
    BY <1>6 DEF PubCrash, ReadsAlone
  <2>2. \A r \in PubRequest :
          /\ pubPc'[r] = pubPc[r] \/ (pubPc[r] # "idle" /\ pubPc'[r] = "no")
          /\ pubPc'[r] \notin PubSteps
          /\ pubPc[r] = "ok" => pubPc'[r] = "ok"
    <3>1. "no" \notin PubSteps /\ "ok" \notin PubSteps /\ "idle" \notin PubSteps
      BY DEF PubSteps
    <3>2. ASSUME NEW r \in PubRequest, pubPc[r] \in PubSteps
          PROVE  pubPc'[r] = "no"
      BY <2>1, <3>2
    <3>3. ASSUME NEW r \in PubRequest, pubPc[r] \notin PubSteps
          PROVE  pubPc'[r] = pubPc[r]
      BY <2>1, <3>3
    <3> QED
      BY <3>1, <3>2, <3>3
  <2>3. ClicksMet' /\ SubsFollow'
    <3>1. SubsCalm
      <4>1. {"subscribe_insert", "cancel_update", "commit"} \subseteq PubSteps
        BY DEF PubSteps
      <4> QED
        BY <2>1, <2>2, <4>1, AreRequests DEF SubsCalm
    <3> QED
      BY <1>0, <3>1, SubsStay
  <2>4. OwedAnswered'
    BY <1>0, <2>1, <2>2, AreRequests, OwedStays
  <2>5. ArticleFollows'
    <3>1. \A v \in Writes :
            /\ pubPc'[v] = "idle" <=> pubPc[v] = "idle"
            /\ pubPc'[v] # "write_insert"
      BY <2>2, AreRequests DEF PubSteps
    <3>2. \A e \in Edits : pubPc'[Edit(e)] # "edit_update"
      BY <2>2, AreRequests DEF PubSteps
    <3> QED
      BY <1>0, <2>1, <3>1, <3>2, ArticleStays
  <2> QED
    BY <1>0, <2>3, <2>4, <2>5 DEF PubInv
<1> QED
  BY <1>1, <1>2, <1>3, <1>4, <1>5, <1>6 DEF PubNext

\* What the reader is due.
LEMMA PubDue == PubInv => ReaderGetsItsDue
  BY DEF PubInv, ReaderGetsItsDue, OneActive, Active, ClicksMet, OwedAnswered,
         ArticleFollows
-----------------------------------------------------------------------------
(***************************************************************************)
(* Reads.  What had been deleted or removed when the read began is so      *)
(* still, and what a list has in hand is public.                           *)
(***************************************************************************)
ReadInv ==
  /\ ReadTypeOK
  /\ \A i \in before.deleted : rows[i] = "gone"
  /\ \A i \in before.removed : rows[i] = "taken"
  /\ readPc = "idle" => shown = {} /\ page = {}
  /\ readPc = "fetch" => reader \in Lists
  /\ reader \in Feeds => shown = {}
  /\ reader \in Lists => page \cup shown \subseteq Public
  /\ ReadsAreTrue

\* The kinds of read are told apart.
LEMMA ReadKinds ==
  /\ Lists \cap Feeds = {} /\ Talks \cap (Lists \cup {Trending}) = {}
  /\ Alerts \cap (Lists \cup {Trending}) = {} /\ Trending \notin Lists \cup Feeds
  BY DEF Lists, Feeds, Talks, Alerts, Trending, Pages

\* No message is public, nor what is asked to be private or a group's.
LEMMA PublicKinds ==
  ASSUME NEW i \in Public
  PROVE  About[i].kind # "dm" /\ About[i].asked \notin {"private", "group"}
  BY DEF Public, StoredAccess

\* What each query has in it.
LEMMA RowsAreRight ==
  /\ \A r \in Lists : Rows(r) \subseteq HeldRows \cap Public
  /\ Rows(Trending) \subseteq LiveRows \cap Public
  /\ \A r \in Talks : Rows(r) \subseteq HeldRows \cap Between(r[2], r[3])
  /\ \A r \in Alerts : Rows(r) \subseteq HeldRows \cap Kind("reply")
<1>1. LiveRows \subseteq HeldRows
  BY DEF LiveRows, HeldRows
<1>2. ASSUME NEW r \in Lists PROVE Rows(r) \subseteq HeldRows \cap Public
  <2>1. CASE r = <<"list">>
    <3>1. Rows(r) = HeldRows \cap Public \cap TopLevel
      BY <2>1 DEF Rows, Pages, Trending, Talks, Alerts
    <3> QED
      BY <3>1
  <2>2. CASE r \in Pages
    <3>1. Rows(r) = HeldRows \cap Public \cap {i \in Posted : About[i].author = r[2]}
      BY <2>2 DEF Rows, Pages, Trending, Talks, Alerts
    <3> QED
      BY <3>1
  <2>3. CASE r = <<"peer">>
    <3>1. Rows(r) = HeldRows \cap Public
      BY <2>3 DEF Rows, Pages, Trending, Talks, Alerts
    <3> QED
      BY <3>1
  <2>4. CASE r = <<"sync">>
    <3>1. Rows(r) = LiveRows \cap Public
      BY <2>4 DEF Rows, Pages, Trending, Talks, Alerts
    <3> QED
      BY <1>1, <3>1
  <2> QED
    BY <2>1, <2>2, <2>3, <2>4 DEF Lists
<1>3. Rows(Trending) \subseteq LiveRows \cap Public
  BY DEF Rows, Pages, Trending, Talks, Alerts
<1>4. ASSUME NEW r \in Talks
      PROVE  Rows(r) \subseteq HeldRows \cap Between(r[2], r[3])
  BY DEF Rows, Pages, Trending, Talks, Alerts
<1>5. ASSUME NEW r \in Alerts PROVE Rows(r) \subseteq HeldRows \cap Kind("reply")
  <2>1. Rows(r) = HeldRows \cap RepliesTo(r[2])
    BY DEF Rows, Pages, Trending, Talks, Alerts
  <2> QED
    BY <2>1 DEF RepliesTo
<1> QED
  BY <1>2, <1>3, <1>4, <1>5

\* Nothing is posted, and nothing read.
LEMMA ReadStart == ReadInit => ReadInv
<1> SUFFICES ASSUME ReadInit PROVE ReadInv
  OBVIOUS
<1>1. ReadTypeOK
  <2>1. readActs \in 0 .. MaxReadActs
    BY ReadsAssumption DEF ReadInit
  <2>2. rows \in [Posted -> {"none", "live", "taken", "gone"}]
    BY DEF ReadInit
  <2> QED
    BY <2>1, <2>2 DEF ReadInit, ReadTypeOK
<1>2. ReadsAreTrue
  BY DEF ReadInit, ReadsAreTrue, DeletedStaysUnseen, KeptFromLists
<1> QED
  BY <1>1, <1>2 DEF ReadInit, ReadInv

\* The types, step by step.
LEMMA ReadTypeStep ==
  ASSUME ReadTypeOK, ReadNext
  PROVE  ReadTypeOK'
<1> USE ReadsAssumption DEF ReadTypeOK, Change
<1>1. ASSUME NEW i \in Posted,
             Post(i) \/ SendMessage(i) \/ TakeDown(i) \/ Delete(i)
               \/ DeleteAnswers(i)
      PROVE  ReadTypeOK'
  <2>1. /\ UNCHANGED <<links, reader, readPc, page, shown, before>>
        /\ \/ rows' = rows
           \/ \E s \in {"live", "taken", "gone"} : rows' = [rows EXCEPT ![i] = s]
        /\ leaving' \subseteq leaving \cup {i}
        /\ \/ readActs' = readActs
           \/ readActs < MaxReadActs /\ readActs' = readActs + 1
    BY <1>1 DEF Post, SendMessage, TakeDown, Delete, DeleteAnswers
  <2>2. readActs' \in 0 .. MaxReadActs
    BY <2>1
  <2>3. rows' \in [Posted -> {"none", "live", "taken", "gone"}]
    BY <2>1
  <2> QED
    BY <2>1, <2>2, <2>3
<1>2. ASSUME NEW l \in LinkRows, ToggleLink(l) PROVE ReadTypeOK'
  BY <1>2 DEF ToggleLink
<1>3. ASSUME Begin
      PROVE  /\ UNCHANGED <<rows, links, leaving, reader, readActs>>
             /\ before' \in [deleted : SUBSET Posted, removed : SUBSET Posted]
  BY <1>3 DEF Begin
<1>4. \A r : r \in Lists \cup {Trending} \cup Talks \cup Alerts =>
               Rows(r) \subseteq Posted
  BY RowsAreRight DEF HeldRows, LiveRows
<1>5. CASE BeginList
  BY <1>3, <1>4, <1>5 DEF BeginList
<1>6. ASSUME NEW i \in Posted, Fetch(i) PROVE ReadTypeOK'
  BY <1>6 DEF Fetch
<1>7. CASE EndList
  BY <1>7 DEF EndList
<1>8. CASE Answer
  <2>1. reader \in {Trending} \cup Talks \cup Alerts
    BY <1>8 DEF Answer, Reads
  <2> QED
    BY <1>3, <1>4, <1>8, <2>1 DEF Answer
<1>9. CASE BeginFeed
  BY <1>3, <1>9 DEF BeginFeed
<1>10. CASE FeedQuery
  BY <1>10 DEF FeedQuery
<1> QED
  BY <1>1, <1>2, <1>5, <1>6, <1>7, <1>8, <1>9, <1>10 DEF ReadNext

\* Every step keeps the rest: a row that is gone or taken stays so.
LEMMA ReadStep ==
  ASSUME ReadInv, ReadNext
  PROVE  ReadInv'
<1>0. ReadTypeOK /\ ReadTypeOK'
  BY ReadTypeStep DEF ReadInv
<1>1. ASSUME NEW i \in Posted,
             Post(i) \/ SendMessage(i) \/ TakeDown(i) \/ Delete(i)
               \/ DeleteAnswers(i)
      PROVE  ReadInv'
  <2>1. /\ UNCHANGED <<reader, readPc, page, shown, before>>
        /\ \/ rows' = rows
           \/ /\ rows[i] \in {"none", "live"}
              /\ \E s : rows' = [rows EXCEPT ![i] = s]
    BY <1>1 DEF Post, SendMessage, TakeDown, Delete, DeleteAnswers, Change
  <2>2. /\ \A j \in before.deleted : rows'[j] = "gone"
        /\ \A j \in before.removed : rows'[j] = "taken"
    BY <1>0, <2>1 DEF ReadInv, ReadTypeOK
  <2> QED
    BY <1>0, <2>1, <2>2
    DEF ReadInv, ReadsAreTrue, DeletedStaysUnseen, KeptFromLists
<1>2. ASSUME UNCHANGED <<rows, reader, shown, before>>,
             page' \subseteq page, readPc' # "idle",
             readPc' = "fetch" => readPc = "fetch"
      PROVE  ReadInv'
  BY <1>0, <1>2 DEF ReadInv, ReadsAreTrue, DeletedStaysUnseen, KeptFromLists
<1>3. ASSUME NEW l \in LinkRows, ToggleLink(l) PROVE ReadInv'
  <2>1. UNCHANGED <<rows, reader, readPc, page, shown, before>>
    BY <1>3 DEF ToggleLink, Change
  <2> QED
    BY <1>0, <2>1
    DEF ReadInv, ReadsAreTrue, DeletedStaysUnseen, KeptFromLists
<1>4. ASSUME Begin
      PROVE  /\ rows' = rows /\ reader' = reader /\ readPc = "idle"
             /\ \A i \in before'.deleted : rows[i] = "gone"
             /\ \A i \in before'.removed : rows[i] = "taken"
             /\ shown = {} /\ page = {}
  BY <1>4 DEF Begin, ReadInv
<1>5. CASE BeginList
  <2>1. /\ reader \in Lists /\ readPc' = "fetch" /\ page' = Rows(reader)
        /\ shown' = {}
    BY <1>4, <1>5 DEF BeginList
  <2>2. page' \subseteq Public
    BY <2>1, RowsAreRight
  <2>3. ReadsAreTrue'
    BY <2>1 DEF ReadsAreTrue, DeletedStaysUnseen, KeptFromLists
  <2> QED
    BY <1>0, <1>4, <1>5, <2>1, <2>2, <2>3 DEF ReadInv, BeginList
<1>6. ASSUME NEW i \in Posted, Fetch(i) PROVE ReadInv'
  <2>1. /\ UNCHANGED <<rows, reader, readPc, before>>
        /\ readPc = "fetch" /\ reader \in Lists
        /\ page' = page \ {i} /\ i \in page
        /\ shown' = shown \/ (shown' = shown \cup {i} /\ rows[i] = "live")
    BY <1>6 DEF Fetch, ReadInv, LiveRows
  <2>2. page' \cup shown' \subseteq Public
    BY <2>1 DEF ReadInv
  <2>3. DeletedStaysUnseen'
    BY <2>1 DEF ReadInv, ReadsAreTrue, DeletedStaysUnseen
  <2>4. KeptFromLists'
    BY <2>2, PublicKinds DEF KeptFromLists
  <2>5. reader \notin Feeds
    BY <2>1, ReadKinds
  <2> QED
    BY <1>0, <2>1, <2>2, <2>3, <2>4, <2>5 DEF ReadInv, ReadsAreTrue
<1>7. CASE EndList
  BY <1>2, <1>7 DEF EndList
<1>8. CASE Answer
  <2>1. /\ reader \in {Trending} \cup Talks \cup Alerts /\ readPc' = "done"
        /\ reader \notin Lists \cup Feeds
        /\ shown' = Rows(reader) /\ Begin
    BY <1>0, <1>8 DEF Answer, Reads, ReadTypeOK
  <2>2. shown' \subseteq HeldRows
    BY <2>1, RowsAreRight DEF LiveRows, HeldRows
  <2>3. reader = Trending => shown' \subseteq LiveRows \cap Public
    BY <2>1, RowsAreRight
  <2>4. DeletedStaysUnseen'
    BY <1>4, <2>1, <2>2, <2>3
    DEF DeletedStaysUnseen, HeldRows, LiveRows
  <2>5. KeptFromLists'
    <3> SUFFICES ASSUME NEW i \in shown'
                 PROVE  /\ About[i].kind = "dm" =>
                             /\ reader \in Talks
                             /\ {About[i].author, About[i].to}
                                  = {reader[2], reader[3]}
                        /\ About[i].asked \in {"private", "group"} =>
                             reader \notin Lists \cup {Trending}
      BY <1>4, <2>1 DEF KeptFromLists
    <3>1. CASE reader = Trending
      BY <2>3, <3>1, PublicKinds
    <3>2. CASE reader \in Talks
      <4>1. i \in Between(reader[2], reader[3])
        BY <2>1, <3>2, RowsAreRight
      <4> QED
        BY <3>2, <4>1, ReadKinds DEF Between
    <3>3. CASE reader \in Alerts
      <4>1. i \in Kind("reply")
        BY <2>1, <3>3, RowsAreRight
      <4> QED
        BY <3>3, <4>1, ReadKinds DEF Kind
    <3> QED
      BY <2>1, <3>1, <3>2, <3>3
  <2> QED
    BY <1>0, <1>4, <2>1, <2>4, <2>5 DEF ReadInv, ReadsAreTrue
<1>9. CASE BeginFeed
  <2>1. /\ readPc' = "query" /\ shown' = {} /\ page' = {} /\ Begin
    BY <1>4, <1>9 DEF BeginFeed
  <2>2. ReadsAreTrue'
    BY <2>1 DEF ReadsAreTrue, DeletedStaysUnseen, KeptFromLists
  <2> QED
    BY <1>0, <1>4, <2>1, <2>2 DEF ReadInv
<1>10. CASE FeedQuery
  BY <1>2, <1>10 DEF FeedQuery
<1> QED
  BY <1>1, <1>3, <1>5, <1>6, <1>7, <1>8, <1>9, <1>10 DEF ReadNext
-----------------------------------------------------------------------------
(***************************************************************************)
(* Pushes.  What a loop has still before it, it has not sent to; what is   *)
(* behind it unsent is as much as the removals moved there.                *)
(***************************************************************************)
\* The sockets at the positions loop b has yet to take, and those it never
\* will.
Ahead(b) == {connections[i] : i \in {j \in DOMAIN connections : j >= at[b]}}

Behind(b) == {s \in Missed(b) : InLoop(b) => s # sending[b] /\ s \notin Ahead(b)}

NewSockets == {s \in Sockets : sockets[s] = "new"}

PushShape ==
  /\ connections \in Seq(Sockets)
  /\ sockets \in [Sockets -> {"new", "open", "gone", "removed"}]
  /\ at \in [Broadcasts -> Nat]
  /\ sending \in [Broadcasts -> Sockets \cup {NoSocket}]
  /\ begun \subseteq Broadcasts
  /\ heard \in [Broadcasts -> Seq(Sockets)]
  /\ audience \in [Broadcasts -> SUBSET Sockets]
  /\ leavers \in [Broadcasts -> SUBSET Sockets]

ListSound ==
  /\ IsInjective(connections)
  /\ \A i \in DOMAIN connections : sockets[connections[i]] \in {"open", "gone"}

LoopSound(b) ==
  /\ IsInjective(heard[b])
  /\ ToSet(heard[b]) \cap NewSockets = {}
  /\ InLoop(b) =>
       /\ b \in begun
       /\ sending[b] \in Sockets \ (NewSockets \cup ToSet(heard[b]) \cup Ahead(b))
       /\ Ahead(b) \cap ToSet(heard[b]) = {}
  /\ b \notin begun => heard[b] = <<>>

LossSound(b) ==
  /\ IsFiniteSet(audience[b]) /\ audience[b] \cap NewSockets = {}
  /\ IsFiniteSet(leavers[b])
  /\ \A s \in leavers[b] : sockets[s] = "removed"
  /\ b \in begun => Cardinality(Behind(b)) <= Cardinality(leavers[b])

PushInv ==
  /\ PushShape /\ ListSound
  /\ \A b \in Broadcasts : LoopSound(b) /\ LossSound(b)

\* Nobody is connected.
LEMMA PushStart == PushInit => PushInv
<1> SUFFICES ASSUME PushInit PROVE PushInv
  OBVIOUS
<1>1. PushShape
  <2>1. <<>> \in Seq(Sockets)
    BY EmptySeq
  <2>2. /\ sockets \in [Sockets -> {"new", "open", "gone", "removed"}]
        /\ at \in [Broadcasts -> Nat]
        /\ sending \in [Broadcasts -> Sockets \cup {NoSocket}]
    BY DEF PushInit
  <2>3. /\ heard \in [Broadcasts -> Seq(Sockets)]
        /\ audience \in [Broadcasts -> SUBSET Sockets]
        /\ leavers \in [Broadcasts -> SUBSET Sockets]
    BY <2>1 DEF PushInit
  <2> QED
    BY <2>1, <2>2, <2>3 DEF PushInit, PushShape
<1>2. ListSound
  BY DEF PushInit, ListSound, IsInjective
<1>3. ASSUME NEW b \in Broadcasts PROVE LoopSound(b) /\ LossSound(b)
  <2>1. /\ heard[b] = <<>> /\ at[b] = 0 /\ b \notin begun
        /\ audience[b] = {} /\ leavers[b] = {}
    BY DEF PushInit
  <2>2. IsInjective(heard[b]) /\ ToSet(heard[b]) = {}
    BY <2>1 DEF IsInjective, ToSet
  <2> QED
    BY <2>1, <2>2, FS_EmptySet DEF LoopSound, LossSound, InLoop
<1> QED
  BY <1>1, <1>2, <1>3 DEF PushInv

\* The members of a list are finitely many.
LEMMA MembersFinite ==
  ASSUME NEW S, NEW list \in Seq(S)
  PROVE  IsFiniteSet(ToSet(list))
<1>1. Len(list) \in Nat /\ DOMAIN list = 1 .. Len(list)
  BY LenProperties
<1>2. list \in Surjection(1 .. Len(list), ToSet(list))
  BY <1>1, LenProperties DEF Surjection, ToSet
<1>3. IsFiniteSet(1 .. Len(list))
  BY <1>1, FS_Interval
<1> QED
  BY <1>2, <1>3, FS_Surjection

\* What is appended comes last.
LEMMA AppendedLast ==
  ASSUME NEW S, NEW list \in Seq(S), NEW s \in S
  PROVE  /\ Append(list, s) \in Seq(S)
         /\ DOMAIN Append(list, s) = 1 .. Len(list) + 1
         /\ DOMAIN list = 1 .. Len(list) /\ Len(list) \in Nat
         /\ Append(list, s)[Len(list) + 1] = s
         /\ \A i \in DOMAIN list : Append(list, s)[i] = list[i]
         /\ ToSet(Append(list, s)) = ToSet(list) \cup {s}
<1>1. /\ Append(list, s) \in Seq(S)
      /\ DOMAIN Append(list, s) = 1 .. Len(list) + 1
      /\ DOMAIN list = 1 .. Len(list) /\ Len(list) \in Nat
      /\ Append(list, s)[Len(list) + 1] = s
      /\ \A i \in DOMAIN list : Append(list, s)[i] = list[i]
  OBVIOUS
<1>2. ToSet(Append(list, s)) = ToSet(list) \cup {s}
  BY <1>1 DEF ToSet
<1> QED
  BY <1>1, <1>2

\* Another member keeps a list free of repetitions.
LEMMA AppendedOnce ==
  ASSUME NEW S, NEW list \in Seq(S), NEW s \in S,
         IsInjective(list), s \notin ToSet(list)
  PROVE  IsInjective(Append(list, s))
  BY AppendedLast DEF IsInjective, ToSet

\* Whoever is taken off a list moves those after it up by one.
LEMMA RemovedShifts ==
  ASSUME NEW S, NEW list \in Seq(S), NEW s, IsInjective(list)
  PROVE  /\ RemoveFirst(list, s) \in Seq(S)
         /\ IsInjective(RemoveFirst(list, s))
         /\ \A i \in DOMAIN RemoveFirst(list, s) :
              /\ RemoveFirst(list, s)[i] # s
              /\ \/ i \in DOMAIN list /\ RemoveFirst(list, s)[i] = list[i]
                 \/ /\ i + 1 \in DOMAIN list
                    /\ RemoveFirst(list, s)[i] = list[i + 1]
         /\ \A i \in DOMAIN list :
              \/ list[i] = s
              \/ /\ i \in DOMAIN RemoveFirst(list, s)
                 /\ RemoveFirst(list, s)[i] = list[i]
              \/ /\ i - 1 \in DOMAIN RemoveFirst(list, s)
                 /\ RemoveFirst(list, s)[i - 1] = list[i]
<1>0. DOMAIN list = 1 .. Len(list) /\ Len(list) \in Nat
  BY LenProperties
<1>1. CASE \A i \in 1 .. Len(list) : list[i] # s
  <2>1. RemoveFirst(list, s) = list
    BY <1>1 DEF RemoveFirst
  <2> QED
    BY <1>0, <1>1, <2>1
<1>2. ASSUME NEW k \in 1 .. Len(list), list[k] = s
      PROVE  RemoveFirst(list, s)
               = SubSeq(list, 1, k - 1) \o SubSeq(list, k + 1, Len(list))
  <2>1. {i \in 1 .. Len(list) : list[i] = s} = {k}
    BY <1>0, <1>2 DEF IsInjective
  <2>2. Min({k}) = k
    BY DEF Min
  <2>3. SelectInSeq(list, LAMBDA v : v = s) = k
    BY <2>1, <2>2 DEF SelectInSeq
  <2> QED
    BY <1>2, <2>3 DEF RemoveFirst, RemoveAt
<1>3. ASSUME NEW k \in 1 .. Len(list), list[k] = s
      PROVE  LET new == RemoveFirst(list, s)
             IN  /\ new \in Seq(S) /\ DOMAIN new = 1 .. Len(list) - 1
                 /\ \A i \in 1 .. Len(list) - 1 :
                      new[i] = IF i < k THEN list[i] ELSE list[i + 1]
  <2>1. /\ SubSeq(list, 1, k - 1) \in Seq(S)
        /\ Len(SubSeq(list, 1, k - 1)) = k - 1
        /\ \A i \in 1 .. k - 1 : SubSeq(list, 1, k - 1)[i] = list[i]
    <3>1. \A i \in 1 .. k - 1 : list[i] \in S
      BY <1>0, ElementOfSeq
    <3> QED
      BY <1>0, <3>1, SubSeqProperties
  <2>2. /\ SubSeq(list, k + 1, Len(list)) \in Seq(S)
        /\ Len(SubSeq(list, k + 1, Len(list))) = Len(list) - k
        /\ \A i \in 1 .. Len(list) - k :
             SubSeq(list, k + 1, Len(list))[i] = list[k + i]
    <3>1. \A i \in k + 1 .. Len(list) : list[i] \in S
      BY <1>0, ElementOfSeq
    <3>2. \A i \in 1 .. Len(list) - (k + 1) + 1 :
             SubSeq(list, k + 1, Len(list))[i] = list[k + 1 + i - 1]
      BY <1>0, <3>1, SubSeqProperties
    <3>3. /\ SubSeq(list, k + 1, Len(list)) \in Seq(S)
          /\ Len(SubSeq(list, k + 1, Len(list)))
               = IF k + 1 <= Len(list) THEN Len(list) - (k + 1) + 1 ELSE 0
      BY <1>0, <3>1, SubSeqProperties
    <3>4. \A i \in 1 .. Len(list) - k :
            /\ i \in 1 .. Len(list) - (k + 1) + 1
            /\ k + 1 + i - 1 = k + i
      BY <1>0
    <3>5. (IF k + 1 <= Len(list) THEN Len(list) - (k + 1) + 1 ELSE 0)
            = Len(list) - k
      <4>1. \A n \in Nat : \A m \in 1 .. n :
              (IF m + 1 <= n THEN n - (m + 1) + 1 ELSE 0) = n - m
        OBVIOUS
      <4> QED
        BY <1>0, <4>1
    <3> QED
      BY <3>2, <3>3, <3>4, <3>5
  <2> DEFINE left == SubSeq(list, 1, k - 1)
             right == SubSeq(list, k + 1, Len(list))
             new == left \o right
  <2>3. /\ new \in Seq(S) /\ Len(new) = Len(list) - 1
        /\ \A i \in 1 .. Len(list) - 1 :
             new[i] = IF i <= k - 1 THEN left[i] ELSE right[i - (k - 1)]
    <3>1. left \in Seq(S) /\ right \in Seq(S)
      BY <2>1, <2>2
    <3>2. Len(left) = k - 1 /\ Len(right) = Len(list) - k
      BY <2>1, <2>2
    <3> HIDE DEF left, right
    <3>3. Len(left) + Len(right) = Len(list) - 1
      BY <1>0, <3>2
    <3>4. /\ new \in Seq(S) /\ Len(new) = Len(left) + Len(right)
          /\ \A i \in 1 .. Len(left) + Len(right) :
               new[i] = IF i <= Len(left) THEN left[i] ELSE right[i - Len(left)]
      BY <3>1, ConcatProperties
    <3> QED
      BY <3>2, <3>3, <3>4
  <2>4. DOMAIN new = 1 .. Len(list) - 1
    BY <2>3, LenProperties
  <2>5. \A i \in 1 .. Len(list) - 1 :
          new[i] = IF i < k THEN list[i] ELSE list[i + 1]
    <3> SUFFICES ASSUME NEW i \in 1 .. Len(list) - 1
                 PROVE  new[i] = IF i < k THEN list[i] ELSE list[i + 1]
      OBVIOUS
    <3>1. CASE i < k
      <4>1. i \in 1 .. k - 1 /\ i <= k - 1
        BY <1>0, <3>1
      <4> QED
        BY <2>1, <2>3, <3>1, <4>1
    <3>2. CASE ~(i < k)
      <4>1. /\ i - (k - 1) \in 1 .. Len(list) - k /\ ~(i <= k - 1)
            /\ k + (i - (k - 1)) = i + 1
        BY <1>0, <3>2
      <4> QED
        BY <2>2, <2>3, <3>2, <4>1
    <3> QED
      BY <3>1, <3>2
  <2> QED
    BY <1>2, <1>3, <2>3, <2>4, <2>5
<1>4. ASSUME NEW k \in 1 .. Len(list), list[k] = s
      PROVE  /\ RemoveFirst(list, s) \in Seq(S)
             /\ IsInjective(RemoveFirst(list, s))
             /\ \A i \in DOMAIN RemoveFirst(list, s) :
                  /\ RemoveFirst(list, s)[i] # s
                  /\ \/ i \in DOMAIN list /\ RemoveFirst(list, s)[i] = list[i]
                     \/ /\ i + 1 \in DOMAIN list
                        /\ RemoveFirst(list, s)[i] = list[i + 1]
             /\ \A i \in DOMAIN list :
                  \/ list[i] = s
                  \/ /\ i \in DOMAIN RemoveFirst(list, s)
                     /\ RemoveFirst(list, s)[i] = list[i]
                  \/ /\ i - 1 \in DOMAIN RemoveFirst(list, s)
                     /\ RemoveFirst(list, s)[i - 1] = list[i]
  <2> DEFINE new == RemoveFirst(list, s)
  <2>1. /\ new \in Seq(S) /\ DOMAIN new = 1 .. Len(list) - 1
        /\ \A i \in 1 .. Len(list) - 1 :
             new[i] = IF i < k THEN list[i] ELSE list[i + 1]
    BY <1>3, <1>4
  <2> HIDE DEF new
  <2>2. \A i, j \in 1 .. Len(list) : list[i] = list[j] => i = j
    BY <1>0 DEF IsInjective
  <2>3. \A i, j \in 1 .. Len(list) - 1 : new[i] = new[j] => i = j
    BY <1>0, <2>1, <2>2
  <2>4. \A i \in 1 .. Len(list) - 1 :
          /\ new[i] # s
          /\ \/ i \in 1 .. Len(list) /\ new[i] = list[i]
             \/ i + 1 \in 1 .. Len(list) /\ new[i] = list[i + 1]
    BY <1>0, <1>4, <2>1, <2>2
  <2>5. \A i \in 1 .. Len(list) :
          \/ list[i] = s
          \/ i \in 1 .. Len(list) - 1 /\ new[i] = list[i]
          \/ i - 1 \in 1 .. Len(list) - 1 /\ new[i - 1] = list[i]
    BY <1>0, <1>4, <2>1
  <2>6. IsInjective(new)
    BY <2>1, <2>3 DEF IsInjective
  <2> QED
    BY <1>0, <2>1, <2>4, <2>5, <2>6 DEF new
<1> QED
  BY <1>1, <1>4

\* The types, step by step.
LEMMA PushShapeStep ==
  ASSUME PushInv, PushNext
  PROVE  PushShape'
<1>0. PushShape /\ ListSound /\ \A b \in Broadcasts : LoopSound(b)
  BY DEF PushInv
<1> USE <1>0
<1>1. ASSUME NEW s \in Sockets, Connect(s) PROVE PushShape'
  <2>1. Append(connections, s) \in Seq(Sockets)
    BY AppendedLast DEF PushShape
  <2> QED
    BY <1>1, <2>1 DEF Connect, LoopsAlone, PushShape
<1>2. ASSUME NEW s \in Sockets, PeerGone(s) PROVE PushShape'
  BY <1>2 DEF PeerGone, LoopsAlone, PushShape
<1>3. ASSUME NEW s \in Sockets, Disconnect(s) PROVE PushShape'
  <2>1. RemoveFirst(connections, s) \in Seq(Sockets)
    BY <1>3, RemovedShifts DEF ListSound, PushShape
  <2> QED
    BY <1>3, <2>1 DEF Disconnect, PushShape
<1>4. ASSUME NEW b \in Broadcasts, NEW i \in Nat, Turn(b, i), i > 0
      PROVE  /\ at' \in [Broadcasts -> Nat]
             /\ sending' \in [Broadcasts -> Sockets \cup {NoSocket}]
  <2>1. CASE i > Len(connections)
    <3>1. /\ at' = [at EXCEPT ![b] = 0]
          /\ sending' = [sending EXCEPT ![b] = NoSocket]
      BY <1>4, <2>1 DEF Turn
    <3> QED
      BY <3>1 DEF PushShape
  <2>2. CASE ~(i > Len(connections))
    <3>1. Len(connections) \in Nat
      BY LenProperties DEF PushShape
    <3>2. i \in 1 .. Len(connections)
      BY <1>4, <2>2, <3>1
    <3>3. connections[i] \in Sockets
      BY <3>2, ElementOfSeq DEF PushShape
    <3>4. /\ at' = [at EXCEPT ![b] = i + 1]
          /\ sending' = [sending EXCEPT ![b] = connections[i]]
      BY <1>4, <2>2 DEF Turn
    <3> QED
      BY <3>3, <3>4 DEF PushShape
  <2> QED
    BY <2>1, <2>2
<1>5. ASSUME NEW b \in Broadcasts, BroadcastBegin(b) PROVE PushShape'
  <2>1. /\ at' \in [Broadcasts -> Nat]
        /\ sending' \in [Broadcasts -> Sockets \cup {NoSocket}]
    BY <1>4, <1>5 DEF BroadcastBegin
  <2>2. ToSet(connections) \subseteq Sockets
    BY ElementOfSeq, LenProperties DEF ToSet, PushShape
  <2>3. audience' \in [Broadcasts -> SUBSET Sockets]
    BY <1>5, <2>2 DEF BroadcastBegin, PushShape
  <2> QED
    BY <1>5, <2>1, <2>3 DEF BroadcastBegin, PushShape
<1>6. ASSUME NEW b \in Broadcasts, BroadcastSend(b) PROVE PushShape'
  <2>1. at[b] \in Nat /\ at[b] > 0 /\ Turn(b, at[b])
    BY <1>6 DEF BroadcastSend, InLoop, PushShape
  <2>2. /\ at' \in [Broadcasts -> Nat]
        /\ sending' \in [Broadcasts -> Sockets \cup {NoSocket}]
    BY <1>4, <2>1
  <2>3. sending[b] \in Sockets /\ heard[b] \in Seq(Sockets)
    BY <1>6, <2>1 DEF LoopSound, InLoop, PushShape
  <2>4. Append(heard[b], sending[b]) \in Seq(Sockets)
    BY <2>3, AppendedLast
  <2>5. Reached(b) \in Seq(Sockets)
    BY <2>3, <2>4 DEF Reached
  <2>6. heard' \in [Broadcasts -> Seq(Sockets)]
    BY <1>6, <2>5 DEF BroadcastSend, PushShape
  <2> QED
    BY <1>6, <2>2, <2>6 DEF BroadcastSend, PushShape
<1> QED
  BY <1>1, <1>2, <1>3, <1>5, <1>6 DEF PushNext

\* A loop that nothing touches is as it was.
LEMMA LoopStays ==
  ASSUME NEW b \in Broadcasts, LoopSound(b), LossSound(b),
         connections' = connections, sockets' = sockets,
         at'[b] = at[b], sending'[b] = sending[b], heard'[b] = heard[b],
         audience'[b] = audience[b], leavers'[b] = leavers[b],
         b \in begun' <=> b \in begun
  PROVE  LoopSound(b)' /\ LossSound(b)'
<1>1. /\ Ahead(b)' = Ahead(b) /\ Missed(b)' = Missed(b)
      /\ InLoop(b)' = InLoop(b) /\ NewSockets' = NewSockets
  BY DEF Ahead, Missed, InLoop, NewSockets
<1>2. Behind(b)' = Behind(b)
  BY <1>1 DEF Behind
<1>3. LoopSound(b)'
  BY <1>1 DEF LoopSound
<1>4. LossSound(b)'
  BY <1>1, <1>2 DEF LossSound
<1> QED
  BY <1>3, <1>4

\* Fewer behind, and nobody forgotten.
LEMMA LossStays ==
  ASSUME NEW b \in Broadcasts, LossSound(b),
         audience'[b] = audience[b], leavers'[b] = leavers[b],
         b \in begun' => b \in begun, NewSockets' \subseteq NewSockets,
         \A s \in leavers[b] : sockets'[s] = "removed",
         Behind(b)' \subseteq Behind(b)
  PROVE  LossSound(b)'
<1>1. IsFiniteSet(Behind(b))
  BY FS_Subset DEF LossSound, Behind, Missed
<1>2. /\ Cardinality(Behind(b)') <= Cardinality(Behind(b))
      /\ Cardinality(Behind(b)') \in Nat /\ Cardinality(Behind(b)) \in Nat
  BY <1>1, FS_Subset, FS_CardinalityType
<1>3. Cardinality(leavers[b]) \in Nat
  BY FS_CardinalityType DEF LossSound
<1> QED
  BY <1>2, <1>3 DEF LossSound

\* A loop's turn to position i, from which on it has sent to nobody.
LEMMA TurnSound ==
  ASSUME PushShape, PushShape', ListSound, NEW b \in Broadcasts,
         NEW i \in Nat, i > 0, Turn(b, i),
         connections' = connections, sockets' = sockets, b \in begun',
         IsInjective(heard'[b]), ToSet(heard'[b]) \cap NewSockets = {},
         \A j \in DOMAIN connections :
           j >= i => connections[j] \notin ToSet(heard'[b])
  PROVE  /\ LoopSound(b)'
         /\ \A s \in Behind(b)' :
              /\ s \in Missed(b)'
              /\ \A j \in DOMAIN connections : j >= i => s # connections[j]
<1>0. /\ NewSockets' = NewSockets
      /\ DOMAIN connections = 1 .. Len(connections) /\ Len(connections) \in Nat
      /\ \A j \in DOMAIN connections : connections[j] \in Sockets \ NewSockets
      /\ \A j, k \in DOMAIN connections :
           connections[j] = connections[k] => j = k
  <2>1. DOMAIN connections = 1 .. Len(connections) /\ Len(connections) \in Nat
    BY LenProperties DEF PushShape
  <2>2. \A j \in DOMAIN connections : connections[j] \in Sockets
    BY <2>1, ElementOfSeq DEF PushShape
  <2> QED
    BY <2>1, <2>2 DEF NewSockets, ListSound, IsInjective
<1>1. CASE i > Len(connections)
  <2>1. at'[b] = 0
    BY <1>1 DEF Turn, PushShape
  <2>2. ~InLoop(b)'
    BY <2>1 DEF InLoop
  <2>3. LoopSound(b)'
    BY <1>0, <2>2 DEF LoopSound
  <2>4. Behind(b)' \subseteq Missed(b)'
    BY DEF Behind
  <2> QED
    BY <1>0, <1>1, <2>3, <2>4
<1>2. CASE ~(i > Len(connections))
  <2>1. /\ at'[b] = i + 1 /\ sending'[b] = connections[i]
        /\ i \in DOMAIN connections
    BY <1>0, <1>2 DEF Turn, PushShape
  <2>2. InLoop(b)'
    BY <2>1 DEF InLoop
  <2>3. Ahead(b)' = {connections[j] : j \in {k \in DOMAIN connections : k >= i + 1}}
    BY <2>1 DEF Ahead
  <2>4. connections[i] \notin Ahead(b)'
    BY <1>0, <2>1, <2>3
  <2>5. Ahead(b)' \cap ToSet(heard'[b]) = {}
    BY <1>0, <2>3
  <2>6. LoopSound(b)'
    BY <1>0, <2>1, <2>2, <2>4, <2>5 DEF LoopSound
  <2>7. ASSUME NEW s \in Behind(b)', NEW j \in DOMAIN connections, j >= i
        PROVE  s # connections[j]
    <3>1. s # connections[i] /\ s \notin Ahead(b)'
      BY <2>1, <2>2 DEF Behind
    <3>2. j = i \/ j >= i + 1
      BY <1>0, <2>7
    <3> QED
      BY <2>3, <3>1, <3>2
  <2>8. Behind(b)' \subseteq Missed(b)'
    BY DEF Behind
  <2> QED
    BY <2>6, <2>7, <2>8
<1> QED
  BY <1>1, <1>2

\* Beginning, the loop has everybody before it.
LEMMA BeginStep ==
  ASSUME PushInv, PushShape', NEW b \in Broadcasts, BroadcastBegin(b)
  PROVE  LoopSound(b)' /\ LossSound(b)'
<1>1. PushShape /\ ListSound /\ LoopSound(b) /\ LossSound(b)
  BY DEF PushInv
<1>2. /\ b \notin begun /\ b \in begun' /\ heard'[b] = <<>>
      /\ audience'[b] = ToSet(connections) /\ Turn(b, 1)
      /\ connections' = connections /\ sockets' = sockets
      /\ leavers' = leavers
  BY <1>1 DEF BroadcastBegin, LoopSound, PushShape
<1>3. IsInjective(heard'[b]) /\ ToSet(heard'[b]) = {}
  BY <1>2 DEF IsInjective, ToSet
<1>4. /\ LoopSound(b)'
      /\ \A s \in Behind(b)' :
           /\ s \in Missed(b)'
           /\ \A j \in DOMAIN connections : j >= 1 => s # connections[j]
  BY <1>1, <1>2, <1>3, TurnSound
<1>5. Behind(b)' = {}
  <2>1. Missed(b)' \subseteq ToSet(connections)
    BY <1>2 DEF Missed
  <2>2. \A j \in DOMAIN connections : j >= 1
    BY <1>1, LenProperties DEF PushShape
  <2> QED
    BY <1>4, <2>1, <2>2 DEF ToSet
<1>6. IsFiniteSet(audience'[b])
  BY <1>1, <1>2, MembersFinite DEF PushShape
<1>7. audience'[b] \cap NewSockets' = {}
  BY <1>1, <1>2 DEF ListSound, NewSockets, ToSet
<1>8. Cardinality(Behind(b)') <= Cardinality(leavers'[b])
  <2>1. Cardinality(Behind(b)') = 0
    BY <1>5, FS_EmptySet
  <2>2. Cardinality(leavers[b]) \in Nat
    BY <1>1, FS_CardinalityType DEF LossSound
  <2> QED
    BY <1>2, <2>1, <2>2
<1> QED
  BY <1>1, <1>2, <1>4, <1>6, <1>7, <1>8 DEF LossSound

\* Sending, it leaves nobody behind but who is gone.
LEMMA SendStep ==
  ASSUME PushInv, PushShape', NEW b \in Broadcasts, BroadcastSend(b)
  PROVE  LoopSound(b)' /\ LossSound(b)'
<1>1. PushShape /\ ListSound /\ LoopSound(b) /\ LossSound(b)
  BY DEF PushInv
<1>2. /\ InLoop(b) /\ at[b] \in Nat /\ at[b] > 0 /\ heard'[b] = Reached(b)
      /\ audience' = audience /\ Turn(b, at[b])
      /\ connections' = connections /\ sockets' = sockets
      /\ leavers' = leavers /\ begun' = begun
  BY <1>1 DEF BroadcastSend, InLoop, PushShape
<1>3. /\ b \in begun /\ IsInjective(heard[b]) /\ heard[b] \in Seq(Sockets)
      /\ sending[b] \in Sockets /\ sending[b] \notin NewSockets
      /\ sending[b] \notin ToSet(heard[b]) /\ sending[b] \notin Ahead(b)
      /\ Ahead(b) \cap ToSet(heard[b]) = {}
      /\ ToSet(heard[b]) \cap NewSockets = {}
  BY <1>1, <1>2 DEF LoopSound, PushShape
<1>4. /\ IsInjective(heard'[b])
      /\ ToSet(heard'[b]) =
           IF sockets[sending[b]] = "open" THEN ToSet(heard[b]) \cup {sending[b]}
                                           ELSE ToSet(heard[b])
  <2>1. CASE sockets[sending[b]] = "open"
    <3>1. heard'[b] = Append(heard[b], sending[b])
      BY <1>2, <2>1 DEF Reached
    <3>2. IsInjective(Append(heard[b], sending[b]))
      BY <1>3, AppendedOnce
    <3>3. ToSet(Append(heard[b], sending[b])) = ToSet(heard[b]) \cup {sending[b]}
      BY <1>3, AppendedLast
    <3> QED
      BY <2>1, <3>1, <3>2, <3>3
  <2>2. CASE sockets[sending[b]] # "open"
    BY <1>2, <1>3, <2>2 DEF Reached
  <2> QED
    BY <2>1, <2>2
<1>5. \A j \in DOMAIN connections :
        j >= at[b] => connections[j] \notin ToSet(heard'[b])
  BY <1>3, <1>4 DEF Ahead
<1>6. /\ LoopSound(b)'
      /\ \A s \in Behind(b)' :
           /\ s \in Missed(b)'
           /\ \A j \in DOMAIN connections : j >= at[b] => s # connections[j]
  <2>1. ToSet(heard'[b]) \cap NewSockets = {}
    BY <1>3, <1>4
  <2>2. b \in begun'
    BY <1>2, <1>3
  <2> QED
    BY <1>1, <1>2, <1>4, <1>5, <2>1, <2>2, TurnSound
<1>7. Behind(b)' \subseteq Behind(b)
  <2> SUFFICES ASSUME NEW s \in Behind(b)' PROVE s \in Behind(b)
    OBVIOUS
  <2>1. s \in audience[b] /\ sockets[s] = "open" /\ s \notin ToSet(heard'[b])
    BY <1>2, <1>6 DEF Missed
  <2>2. s \notin ToSet(heard[b]) /\ s # sending[b]
    BY <1>4, <2>1
  <2>3. s \notin Ahead(b)
    BY <1>6 DEF Ahead
  <2> QED
    BY <2>1, <2>2, <2>3 DEF Behind, Missed
<1>8. LossSound(b)'
  <2>1. NewSockets' = NewSockets
    BY <1>2 DEF NewSockets
  <2>2. \A s \in leavers[b] : sockets'[s] = "removed"
    BY <1>1, <1>2 DEF LossSound
  <2> QED
    BY <1>1, <1>2, <1>7, <2>1, <2>2, LossStays
<1> QED
  BY <1>6, <1>8

\* A socket that joins comes after all others, and has heard nothing.
LEMMA ConnectStep ==
  ASSUME PushInv, NEW s \in Sockets, Connect(s)
  PROVE  ListSound' /\ \A b \in Broadcasts : LoopSound(b)' /\ LossSound(b)'
<1>1. PushShape /\ ListSound
  BY DEF PushInv
<1>2. /\ sockets[s] = "new" /\ connections' = Append(connections, s)
      /\ sockets' = [sockets EXCEPT ![s] = "open"]
      /\ UNCHANGED <<at, sending, begun, heard, audience, leavers>>
  BY DEF Connect, LoopsAlone
<1>3. /\ sockets'[s] = "open"
      /\ \A t \in Sockets : t # s => sockets'[t] = sockets[t]
      /\ s \in NewSockets /\ NewSockets' = NewSockets \ {s}
  BY <1>1, <1>2 DEF PushShape, NewSockets
<1>4. /\ connections \in Seq(Sockets)
      /\ DOMAIN connections = 1 .. Len(connections) /\ Len(connections) \in Nat
      /\ DOMAIN connections' = 1 .. Len(connections) + 1
      /\ connections'[Len(connections) + 1] = s
      /\ \A i \in DOMAIN connections : /\ connections'[i] = connections[i]
                                       /\ connections[i] \in Sockets
  BY <1>1, <1>2, AppendedLast, ElementOfSeq DEF PushShape
<1>5. \A i \in DOMAIN connections : connections[i] # s
  BY <1>1, <1>2 DEF ListSound
<1>6. ListSound'
  <2>1. IsInjective(connections')
    BY <1>1, <1>2, <1>4, <1>5, AppendedOnce DEF ListSound, ToSet
  <2>2. \A i \in DOMAIN connections' : sockets'[connections'[i]] \in {"open", "gone"}
    <3> SUFFICES ASSUME NEW i \in DOMAIN connections'
                 PROVE  sockets'[connections'[i]] \in {"open", "gone"}
      OBVIOUS
    <3>1. CASE i = Len(connections) + 1
      BY <1>3, <1>4, <3>1
    <3>2. CASE i # Len(connections) + 1
      <4>1. i \in DOMAIN connections
        BY <1>4, <3>2
      <4> QED
        BY <1>1, <1>3, <1>4, <1>5, <4>1 DEF ListSound
    <3> QED
      BY <3>1, <3>2
  <2> QED
    BY <2>1, <2>2 DEF ListSound
<1>7. ASSUME NEW b \in Broadcasts PROVE LoopSound(b)' /\ LossSound(b)'
  <2>1. /\ LoopSound(b) /\ LossSound(b) /\ at[b] \in Nat
        /\ InLoop(b)' = InLoop(b)
    BY <1>1, <1>2 DEF PushInv, PushShape, InLoop
  <2>2. Ahead(b) \subseteq Ahead(b)' /\ Ahead(b)' \subseteq Ahead(b) \cup {s}
    <3>1. \A i \in DOMAIN connections' :
            i \in DOMAIN connections \/ connections'[i] = s
      BY <1>4
    <3>2. DOMAIN connections \subseteq DOMAIN connections'
      BY <1>4
    <3> QED
      BY <1>2, <1>4, <3>1, <3>2 DEF Ahead
  <2>3. s \notin ToSet(heard[b]) /\ s \notin audience[b] /\ s \notin leavers[b]
    BY <1>2, <1>3, <2>1 DEF LoopSound, LossSound
  <2>4. LoopSound(b)'
    <3>1. InLoop(b) => sending[b] # s
      BY <1>3, <2>1 DEF LoopSound
    <3> QED
      BY <1>2, <1>3, <2>1, <2>2, <2>3, <3>1 DEF LoopSound
  <2>5. Behind(b)' \subseteq Behind(b)
    <3>1. Missed(b)' \subseteq Missed(b)
      <4>1. audience[b] \subseteq Sockets
        BY <1>1 DEF PushShape
      <4> QED
        BY <1>2, <1>3, <2>3, <4>1 DEF Missed
    <3> QED
      BY <1>2, <2>1, <2>2, <3>1 DEF Behind
  <2>6. \A t \in leavers[b] : sockets'[t] = "removed"
    <3>1. leavers[b] \subseteq Sockets
      BY <1>1 DEF PushShape
    <3> QED
      BY <1>3, <2>1, <2>3, <3>1 DEF LossSound
  <2> QED
    BY <1>2, <1>3, <2>1, <2>4, <2>5, <2>6, LossStays
<1> QED
  BY <1>6, <1>7

\* A peer that is gone is nobody to be reached.
LEMMA GoneStep ==
  ASSUME PushInv, NEW s \in Sockets, PeerGone(s)
  PROVE  ListSound' /\ \A b \in Broadcasts : LoopSound(b)' /\ LossSound(b)'
<1>1. PushShape /\ ListSound
  BY DEF PushInv
<1>2. /\ sockets[s] = "open" /\ connections' = connections
      /\ UNCHANGED <<at, sending, begun, heard, audience, leavers>>
      /\ sockets'[s] = "gone"
      /\ \A t \in Sockets : t # s => sockets'[t] = sockets[t]
      /\ NewSockets' = NewSockets
  BY <1>1 DEF PeerGone, LoopsAlone, PushShape, NewSockets
<1>3. ListSound'
  <2>1. \A i \in DOMAIN connections : connections[i] \in Sockets
    BY <1>1, ElementOfSeq, LenProperties DEF PushShape
  <2> QED
    BY <1>1, <1>2, <2>1 DEF ListSound
<1>4. ASSUME NEW b \in Broadcasts PROVE LoopSound(b)' /\ LossSound(b)'
  <2>1. /\ LoopSound(b) /\ LossSound(b)
        /\ InLoop(b)' = InLoop(b) /\ Ahead(b)' = Ahead(b)
    BY <1>2 DEF PushInv, InLoop, Ahead
  <2>2. LoopSound(b)'
    BY <1>2, <2>1 DEF LoopSound
  <2>3. Behind(b)' \subseteq Behind(b)
    <3>1. audience[b] \subseteq Sockets
      BY <1>1 DEF PushShape
    <3> QED
      BY <1>2, <2>1, <3>1 DEF Behind, Missed
  <2>4. \A t \in leavers[b] : sockets'[t] = "removed"
    <3>1. leavers[b] \subseteq Sockets
      BY <1>1 DEF PushShape
    <3> QED
      BY <1>2, <2>1, <3>1 DEF LossSound
  <2> QED
    BY <1>2, <2>1, <2>2, <2>3, <2>4, LossStays
<1> QED
  BY <1>3, <1>4

\* A socket taken off the list costs a loop one that moves behind it at most.
LEMMA DisconnectStep ==
  ASSUME PushInv, NEW s \in Sockets, Disconnect(s)
  PROVE  ListSound' /\ \A b \in Broadcasts : LoopSound(b)' /\ LossSound(b)'
<1>1. PushShape /\ ListSound
  BY DEF PushInv
<1>2. /\ sockets[s] = "gone" /\ connections' = RemoveFirst(connections, s)
      /\ UNCHANGED <<at, sending, begun, heard, audience>>
      /\ sockets'[s] = "removed"
      /\ \A t \in Sockets : t # s => sockets'[t] = sockets[t]
      /\ NewSockets' = NewSockets
      /\ \A b \in Broadcasts : leavers'[b] = IF InLoop(b) THEN leavers[b] \cup {s}
                                                          ELSE leavers[b]
  BY <1>1 DEF Disconnect, PushShape, NewSockets
<1>3. /\ IsInjective(connections')
      /\ \A i \in DOMAIN connections' :
           /\ connections'[i] # s
           /\ \/ i \in DOMAIN connections /\ connections'[i] = connections[i]
              \/ i + 1 \in DOMAIN connections /\ connections'[i] = connections[i + 1]
      /\ \A i \in DOMAIN connections :
           \/ connections[i] = s
           \/ i \in DOMAIN connections' /\ connections'[i] = connections[i]
           \/ i - 1 \in DOMAIN connections' /\ connections'[i - 1] = connections[i]
  BY <1>1, <1>2, RemovedShifts DEF PushShape, ListSound
<1>4. /\ \A i \in DOMAIN connections : connections[i] \in Sockets /\ i \in Nat
      /\ \A i \in DOMAIN connections' : i \in Nat
  <2>1. RemoveFirst(connections, s) \in Seq(Sockets)
    BY <1>1, RemovedShifts DEF PushShape, ListSound
  <2> QED
    BY <1>1, <1>2, <2>1, ElementOfSeq, LenProperties DEF PushShape
<1>5. ListSound'
  BY <1>1, <1>2, <1>3, <1>4 DEF ListSound
<1>6. ASSUME NEW b \in Broadcasts PROVE LoopSound(b)' /\ LossSound(b)'
  <2>1. /\ LoopSound(b) /\ LossSound(b) /\ at[b] \in Nat
        /\ InLoop(b)' = InLoop(b) /\ audience[b] \subseteq Sockets
        /\ leavers[b] \subseteq Sockets
    BY <1>1, <1>2 DEF PushInv, PushShape, InLoop
  <2>2. Ahead(b)' \subseteq Ahead(b)
    <3> SUFFICES ASSUME NEW i \in DOMAIN connections', i >= at[b]
                 PROVE  connections'[i] \in Ahead(b)
      BY <1>2 DEF Ahead
    <3>1. \/ i \in DOMAIN connections /\ connections'[i] = connections[i]
          \/ i + 1 \in DOMAIN connections /\ connections'[i] = connections[i + 1]
      BY <1>3
    <3>2. i + 1 >= at[b]
      BY <1>4, <2>1
    <3> QED
      BY <3>1, <3>2 DEF Ahead
  <2>3. LoopSound(b)'
    BY <1>2, <2>1, <2>2 DEF LoopSound
  <2>4. Missed(b)' \subseteq Missed(b) \ {s}
    BY <1>2, <2>1 DEF Missed
  <2>5. \A t \in leavers'[b] : sockets'[t] = "removed"
    BY <1>2, <2>1 DEF LossSound
  <2>6. CASE ~InLoop(b)
    <3>1. Behind(b)' \subseteq Behind(b)
      BY <2>1, <2>4, <2>6 DEF Behind
    <3> QED
      BY <1>2, <2>1, <2>3, <2>5, <2>6, <3>1, LossStays
  <2>7. CASE InLoop(b)
    <3>1. Behind(b)' \subseteq Behind(b) \cup {connections[at[b]]}
      <4> SUFFICES ASSUME NEW t \in Behind(b)', t \notin Behind(b)
                   PROVE  t = connections[at[b]]
        OBVIOUS
      <4>1. t \in Missed(b) /\ t # s /\ t # sending[b] /\ t \notin Ahead(b)'
        BY <1>2, <2>1, <2>4, <2>7 DEF Behind
      <4>2. t \in Ahead(b)
        BY <2>7, <4>1 DEF Behind
      <4>3. PICK j \in DOMAIN connections : j >= at[b] /\ t = connections[j]
        BY <4>2 DEF Ahead
      <4>4. \A i \in DOMAIN connections' : connections'[i] = t => ~(i >= at[b])
        BY <1>2, <4>1 DEF Ahead
      <4>5. j - 1 \in DOMAIN connections' /\ connections'[j - 1] = t
        BY <1>3, <4>1, <4>3, <4>4
      <4>6. ~(j - 1 >= at[b])
        BY <4>4, <4>5
      <4>7. j = at[b]
        BY <1>4, <2>1, <4>3, <4>6
      <4> QED
        BY <4>3, <4>7
    <3>2. /\ leavers'[b] = leavers[b] \cup {s} /\ s \notin leavers[b]
          /\ IsFiniteSet(leavers[b])
      BY <1>2, <2>1, <2>7 DEF LossSound
    <3>3. /\ IsFiniteSet(leavers'[b])
          /\ Cardinality(leavers'[b]) = Cardinality(leavers[b]) + 1
          /\ Cardinality(leavers[b]) \in Nat
      BY <3>2, FS_AddElement, FS_CardinalityType
    <3>4. IsFiniteSet(Behind(b)) /\ Cardinality(Behind(b)) \in Nat
      BY <2>1, FS_Subset, FS_CardinalityType DEF LossSound, Behind, Missed
    <3>5. Cardinality(Behind(b)') <= Cardinality(Behind(b)) + 1
      <4> DEFINE more == Behind(b) \cup {connections[at[b]]}
      <4>1. /\ IsFiniteSet(more)
            /\ Cardinality(more) \in {Cardinality(Behind(b)), Cardinality(Behind(b)) + 1}
        BY <3>4, FS_AddElement
      <4>2. /\ Cardinality(Behind(b)') <= Cardinality(more)
            /\ IsFiniteSet(Behind(b)')
        BY <3>1, <4>1, FS_Subset
      <4>3. Cardinality(Behind(b)') \in Nat /\ Cardinality(more) \in Nat
        BY <4>1, <4>2, FS_CardinalityType
      <4> HIDE DEF more
      <4> QED
        BY <3>4, <4>1, <4>2, <4>3
    <3>6. IsFiniteSet(Behind(b)') /\ Cardinality(Behind(b)') \in Nat
      <4>1. IsFiniteSet(Behind(b) \cup {connections[at[b]]})
        BY <3>4, FS_AddElement
      <4> QED
        BY <3>1, <4>1, FS_Subset, FS_CardinalityType
    <3>7. b \in begun' => Cardinality(Behind(b)') <= Cardinality(leavers'[b])
      <4>1. b \in begun => Cardinality(Behind(b)) <= Cardinality(leavers[b])
        BY <2>1 DEF LossSound
      <4> QED
        BY <1>2, <3>3, <3>4, <3>5, <3>6, <4>1
    <3>8. IsFiniteSet(audience'[b]) /\ audience'[b] \cap NewSockets' = {}
      BY <1>2, <2>1 DEF LossSound
    <3> QED
      BY <2>3, <2>5, <3>3, <3>7, <3>8 DEF LossSound
  <2> QED
    BY <2>6, <2>7
<1> QED
  BY <1>5, <1>6

\* Every step.
LEMMA PushStep ==
  ASSUME PushInv, PushNext
  PROVE  PushInv'
<1>1. PushShape /\ PushShape' /\ ListSound
  BY PushShapeStep DEF PushInv
<1>2. ASSUME NEW s \in Sockets, Connect(s) \/ PeerGone(s) \/ Disconnect(s)
      PROVE  PushInv'
  BY <1>1, <1>2, ConnectStep, GoneStep, DisconnectStep DEF PushInv
<1>3. ASSUME NEW b \in Broadcasts, BroadcastBegin(b) \/ BroadcastSend(b)
      PROVE  PushInv'
  <2>1. /\ connections' = connections /\ sockets' = sockets
        /\ begun' \in {begun, begun \cup {b}}
        /\ \A c \in Broadcasts : c # b =>
             /\ at'[c] = at[c] /\ sending'[c] = sending[c]
             /\ heard'[c] = heard[c]
             /\ audience'[c] = audience[c] /\ leavers'[c] = leavers[c]
    <3>1. \A i \in Nat : Turn(b, i) =>
            \A c \in Broadcasts : c # b => at'[c] = at[c] /\ sending'[c] = sending[c]
      BY <1>1 DEF Turn, PushShape
    <3>2. at[b] \in Nat
      BY <1>1 DEF PushShape
    <3> QED
      BY <1>1, <1>3, <3>1, <3>2 DEF BroadcastBegin, BroadcastSend, PushShape
  <2>2. ListSound'
    BY <1>1, <2>1 DEF ListSound
  <2>3. LoopSound(b)' /\ LossSound(b)'
    BY <1>1, <1>3, BeginStep, SendStep
  <2>4. ASSUME NEW c \in Broadcasts, c # b PROVE LoopSound(c)' /\ LossSound(c)'
    <3>1. LoopSound(c) /\ LossSound(c) /\ (c \in begun' <=> c \in begun)
      BY <2>1, <2>4 DEF PushInv
    <3> QED
      BY <2>1, <2>4, <3>1, LoopStays
  <2> QED
    BY <1>1, <2>2, <2>3, <2>4 DEF PushInv
<1> QED
  BY <1>2, <1>3 DEF PushNext

\* Whoever was there when the loop ended is behind it or has heard.
LEMMA PushReaches == PushInv => AudienceIsReached
  BY DEF PushInv, LoopSound, LossSound, AudienceIsReached, HeardOnce,
         LeaversCostOne, Behind, PushShape

-----------------------------------------------------------------------------
\* A list without repetitions is no longer than there are sockets.
LEMMA ListFits ==
  ASSUME NEW list \in Seq(Sockets), IsInjective(list)
  PROVE  Len(list) \in Nat /\ Len(list) <= Cardinality(Sockets)
<1>1. Len(list) \in Nat /\ DOMAIN list = 1 .. Len(list)
  BY LenProperties
<1>2. list \in [1 .. Len(list) -> Sockets]
  BY <1>1, ElementOfSeq, LenProperties
<1>3. list \in Injection(1 .. Len(list), Sockets)
  BY <1>1, <1>2 DEF Injection, IsInjective
<1>4. Cardinality(1 .. Len(list)) <= Cardinality(Sockets)
  BY <1>3, FS_Injection, PushAssumption
<1>5. Cardinality(1 .. Len(list)) = Len(list)
  BY <1>1, FS_Interval
<1> QED
  BY <1>1, <1>4, <1>5

\* No loop goes further than one past the end of a list of all sockets.
AtBound == \A b \in Broadcasts : at[b] <= Cardinality(Sockets) + 1

LEMMA AtStart == PushInit => AtBound
<1>1. Cardinality(Sockets) \in Nat
  BY FS_CardinalityType, PushAssumption
<1> QED
  BY <1>1 DEF PushInit, AtBound

\* A loop's turn is at a position of the list as it is.
LEMMA AtStep ==
  ASSUME PushInv, AtBound, PushNext
  PROVE  AtBound'
<1>1. /\ Len(connections) \in Nat /\ Len(connections) <= Cardinality(Sockets)
      /\ Cardinality(Sockets) \in Nat
      /\ at \in [Broadcasts -> Nat]
  BY ListFits, FS_CardinalityType, PushAssumption DEF PushInv, PushShape, ListSound
<1>2. ASSUME NEW b \in Broadcasts, NEW i \in Nat, Turn(b, i) PROVE AtBound'
  <2>1. CASE i > Len(connections)
    BY <1>1, <1>2, <2>1 DEF Turn, AtBound
  <2>2. CASE ~(i > Len(connections))
    <3>1. at' = [at EXCEPT ![b] = i + 1]
      BY <1>2, <2>2 DEF Turn
    <3>2. i + 1 <= Cardinality(Sockets) + 1
      BY <1>1, <2>2
    <3> QED
      BY <1>1, <3>1, <3>2 DEF AtBound
  <2> QED
    BY <2>1, <2>2
<1>3. ASSUME NEW s \in Sockets, Connect(s) \/ PeerGone(s) \/ Disconnect(s)
      PROVE  AtBound'
  BY <1>3 DEF Connect, PeerGone, Disconnect, LoopsAlone, AtBound
<1>4. ASSUME NEW b \in Broadcasts, BroadcastBegin(b) \/ BroadcastSend(b)
      PROVE  AtBound'
  <2>1. Turn(b, 1) \/ (Turn(b, at[b]) /\ at[b] \in Nat)
    BY <1>1, <1>4 DEF BroadcastBegin, BroadcastSend
  <2> QED
    BY <1>2, <2>1
<1> QED
  BY <1>3, <1>4 DEF PushNext

LEMMA PushTyped == PushInv /\ AtBound => PushTypeOK
<1> SUFFICES ASSUME PushInv, AtBound PROVE PushTypeOK
  OBVIOUS
<1>1. Cardinality(Sockets) \in Nat /\ at \in [Broadcasts -> Nat]
  BY FS_CardinalityType, PushAssumption DEF PushInv, PushShape
<1>2. \A b \in Broadcasts : at[b] \in 0 .. Cardinality(Sockets) + 1
  BY <1>1 DEF AtBound
<1>3. at \in [Broadcasts -> 0 .. Cardinality(Sockets) + 1]
  BY <1>1, <1>2
<1> QED
  BY <1>3 DEF PushInv, PushShape, PushTypeOK
-----------------------------------------------------------------------------
(***************************************************************************)
(* Crawler.  The queue has one entry for a relay, so it is no longer than  *)
(* there are relays; a task that is past the queue has a relay in hand.    *)
(***************************************************************************)
QueuedOnce ==
  \A i, j \in DOMAIN crawlQueue : crawlQueue[i].relay = crawlQueue[j].relay => i = j

CrawlInv ==
  /\ CrawlTypeOK
  /\ QueuedOnce
  /\ \A c \in Crawls : crawlPc[c] \in CrawlSteps => current \in Entry

\* The queue is empty, and no task runs.
LEMMA CrawlStart == CrawlInit => CrawlInv
<1> SUFFICES ASSUME CrawlInit PROVE CrawlInv
  OBVIOUS
<1>1. /\ crawlQueue \in Seq(Entry) /\ Len(crawlQueue) = 0
      /\ DOMAIN crawlQueue = {}
  BY EmptySeq DEF CrawlInit
<1>2. Cardinality(Relays) \in Nat
  BY FS_CardinalityType, CrawlerAssumption
<1>3. \A c \in Crawls : crawlPc[c] \notin CrawlSteps
  BY DEF CrawlInit, CrawlSteps
<1>4. CrawlTypeOK
  <2>1. Len(crawlQueue) <= Cardinality(Relays)
    BY <1>1, <1>2
  <2>2. /\ relayIndex \in [Relays -> {"absent", "unknown", "healthy", "offline"}]
        /\ crawlPc \in [Crawls -> CrawlSteps \cup {"idle", "created", "over"}]
        /\ current \in Entry \cup {NoEntry} /\ crawlInProgress \in BOOLEAN
    BY DEF CrawlInit
  <2>3. visited = {} /\ entityIndex = {} /\ asked = {}
    BY DEF CrawlInit
  <2> QED
    BY <1>1, <2>1, <2>2, <2>3 DEF CrawlTypeOK
<1> QED
  BY <1>1, <1>3, <1>4 DEF CrawlInv, QueuedOnce

\* A queue with one entry for a relay has no more entries than there are
\* relays.
LEMMA QueueFits ==
  ASSUME NEW q \in Seq(Entry),
         \A i, j \in DOMAIN q : q[i].relay = q[j].relay => i = j
  PROVE  Len(q) <= Cardinality(Relays)
<1>1. Len(q) \in Nat /\ DOMAIN q = 1 .. Len(q)
  BY LenProperties
<1> DEFINE relayOf == [i \in 1 .. Len(q) |-> q[i].relay]
<1>2. \A i \in 1 .. Len(q) : q[i] \in Entry
  BY <1>1, ElementOfSeq
<1>3. relayOf \in [1 .. Len(q) -> Relays]
  BY <1>2 DEF Entry
<1>4. relayOf \in Injection(1 .. Len(q), Relays)
  BY <1>1, <1>3 DEF Injection, IsInjective
<1>5. Cardinality(1 .. Len(q)) <= Cardinality(Relays)
  BY <1>4, FS_Injection, CrawlerAssumption
<1>6. Cardinality(1 .. Len(q)) = Len(q)
  BY <1>1, FS_Interval
<1> QED
  BY <1>5, <1>6

\* What joins the queue is not in it, and joins it once.
LEMMA EnqueueSound ==
  ASSUME CrawlInv, NEW entries \in SUBSET [relay : Relays, depth : Nat],
         Enqueue(entries)
  PROVE  /\ crawlQueue' \in Seq(Entry) /\ QueuedOnce'
         /\ Len(crawlQueue') <= Cardinality(Relays)
<1> DEFINE new == {e \in entries : /\ e.relay \notin visited \cup Queued
                                   /\ e.depth <= MaxDepth}
<1>1. PICK s \in SUBSET new :
        /\ \A d, e \in s : d.relay = e.relay => d = e
        /\ \E order \in SetToSeqs(s) : crawlQueue' = crawlQueue \o order
  BY DEF Enqueue
<1>2. PICK order \in SetToSeqs(s) : crawlQueue' = crawlQueue \o order
  BY <1>1
<1>3. s \subseteq Entry /\ \A e \in s : e.relay \notin Queued
  <2>1. \A e \in entries : e.depth <= MaxDepth => e \in Entry
    BY CrawlerAssumption DEF Entry
  <2> QED
    BY <2>1
<1>4. IsFiniteSet(s)
  <2> DEFINE relayOf == [e \in s |-> e.relay]
  <2>1. relayOf \in Injection(s, Relays)
    BY <1>1, <1>3 DEF Injection, IsInjective, Entry
  <2> QED
    BY <2>1, FS_Injection, CrawlerAssumption
<1>5. Cardinality(s) \in Nat
  BY <1>4, FS_CardinalityType
<1> DEFINE n == Cardinality(s)
           m == Len(crawlQueue)
<1>6. /\ order \in [1 .. n -> s]
      /\ \A i, j \in 1 .. n : i # j => order[i] # order[j]
  BY <1>2 DEF SetToSeqs
<1>7. order \in Seq(Entry) /\ Len(order) = n
  <2>1. order \in [1 .. n -> Entry]
    BY <1>3, <1>6
  <2> QED
    BY <1>5, <2>1, IsASeq, LenProperties
<1>8. /\ crawlQueue \in Seq(Entry) /\ m \in Nat /\ DOMAIN crawlQueue = 1 .. m
      /\ QueuedOnce
  BY LenProperties DEF CrawlInv, CrawlTypeOK
<1>9. /\ crawlQueue' \in Seq(Entry) /\ Len(crawlQueue') = m + n
      /\ DOMAIN crawlQueue' = 1 .. m + n
      /\ \A i \in 1 .. m + n :
           crawlQueue'[i] = IF i <= m THEN crawlQueue[i] ELSE order[i - m]
  <2>1. /\ crawlQueue \o order \in Seq(Entry)
        /\ Len(crawlQueue \o order) = m + n
        /\ \A i \in 1 .. m + n :
             (crawlQueue \o order)[i]
               = IF i <= m THEN crawlQueue[i] ELSE order[i - m]
    BY <1>7, <1>8, ConcatProperties
  <2>2. DOMAIN (crawlQueue \o order) = 1 .. m + n
    BY <2>1, LenProperties
  <2> QED
    BY <1>2, <2>1, <2>2
<1>10. ASSUME NEW i \in 1 .. m + n, NEW j \in 1 .. m + n,
              crawlQueue'[i].relay = crawlQueue'[j].relay
       PROVE  i = j
  <2>1. ASSUME NEW k \in 1 .. m + n, k <= m
        PROVE  k \in 1 .. m /\ crawlQueue'[k] = crawlQueue[k]
               /\ crawlQueue'[k].relay \in Queued
    <3>1. k \in 1 .. m /\ crawlQueue'[k] = crawlQueue[k]
      BY <1>5, <1>8, <1>9, <2>1
    <3> QED
      BY <1>8, <3>1 DEF Queued
  <2>2. ASSUME NEW k \in 1 .. m + n, ~(k <= m)
        PROVE  k - m \in 1 .. n /\ crawlQueue'[k] = order[k - m]
               /\ crawlQueue'[k] \in s
    <3>1. k - m \in 1 .. n /\ crawlQueue'[k] = order[k - m]
      BY <1>5, <1>8, <1>9, <2>2
    <3> QED
      BY <1>6, <3>1
  <2>3. CASE i <= m /\ j <= m
    BY <1>8, <1>10, <2>1, <2>3 DEF QueuedOnce
  <2>4. CASE i <= m <=> ~(j <= m)
    BY <1>3, <1>10, <2>1, <2>2, <2>4
  <2>5. CASE ~(i <= m) /\ ~(j <= m)
    <3>1. crawlQueue'[i] = crawlQueue'[j]
      BY <1>1, <1>10, <2>2, <2>5
    <3>2. i - m = j - m
      BY <1>6, <2>2, <2>5, <3>1
    <3> QED
      BY <1>5, <1>8, <3>2
  <2> QED
    BY <2>3, <2>4, <2>5
<1>11. QueuedOnce'
  BY <1>9, <1>10 DEF QueuedOnce
<1> QED
  BY <1>9, <1>11, QueueFits DEF QueuedOnce

\* The relay taken from the queue was in it, and what is left was behind it.
LEMMA TakeNextSound ==
  ASSUME CrawlInv, NEW c \in Crawls, TakeNext(c)
  PROVE  /\ crawlQueue' \in Seq(Entry) /\ QueuedOnce'
         /\ Len(crawlQueue') <= Cardinality(Relays)
         /\ visited' \subseteq Relays
         /\ relayIndex' \in [Relays -> {"absent", "unknown", "healthy", "offline"}]
         /\ \/ current' \in Entry /\ crawlPc' = [crawlPc EXCEPT ![c] = "info"]
            \/ current' = current /\ crawlPc' = [crawlPc EXCEPT ![c] = "over"]
         /\ crawlInProgress' \in BOOLEAN
<1> DEFINE m == Len(crawlQueue)
<1>1. /\ CrawlTypeOK /\ QueuedOnce /\ crawlQueue \in Seq(Entry)
      /\ m \in Nat /\ DOMAIN crawlQueue = 1 .. m
      /\ \A i \in 1 .. m : crawlQueue[i] \in Entry
  BY LenProperties, ElementOfSeq DEF CrawlInv, CrawlTypeOK
<1>2. CASE Due = {} /\ crawlQueue' = <<>> /\ crawlInProgress' = FALSE
           /\ crawlPc' = [crawlPc EXCEPT ![c] = "over"]
           /\ UNCHANGED <<visited, relayIndex, current>>
  <2>1. /\ crawlQueue' \in Seq(Entry) /\ Len(crawlQueue') = 0
        /\ DOMAIN crawlQueue' = {}
    BY <1>2, EmptySeq
  <2>2. Cardinality(Relays) \in Nat
    BY FS_CardinalityType, CrawlerAssumption
  <2>3. QueuedOnce'
    BY <2>1 DEF QueuedOnce
  <2>4. Len(crawlQueue') <= Cardinality(Relays)
    BY <2>1, <2>2
  <2>5. /\ visited' \subseteq Relays /\ crawlInProgress' \in BOOLEAN
        /\ relayIndex' \in [Relays -> {"absent", "unknown", "healthy", "offline"}]
    BY <1>1, <1>2 DEF CrawlTypeOK
  <2> QED
    BY <1>2, <2>1, <2>3, <2>4, <2>5
<1>3. ASSUME NEW i \in Due,
             crawlQueue' = SubSeq(crawlQueue, i + 1, Len(crawlQueue)),
             crawlInProgress' = TRUE, current' = crawlQueue[i],
             visited' = visited \cup {crawlQueue[i].relay},
             relayIndex' = Listed({crawlQueue[i].relay}),
             crawlPc' = [crawlPc EXCEPT ![c] = "info"]
      PROVE  /\ crawlQueue' \in Seq(Entry) /\ QueuedOnce'
             /\ Len(crawlQueue') <= Cardinality(Relays)
             /\ visited' \subseteq Relays /\ current' \in Entry
             /\ relayIndex' \in [Relays -> {"absent", "unknown", "healthy", "offline"}]
  <2>1. i \in 1 .. m /\ crawlQueue[i] \in Entry /\ crawlQueue[i].relay \in Relays
    BY <1>1 DEF Due, Entry
  <2>2. /\ SubSeq(crawlQueue, i + 1, m) \in Seq(Entry)
        /\ \A k \in 1 .. m - (i + 1) + 1 :
             SubSeq(crawlQueue, i + 1, m)[k] = crawlQueue[i + 1 + k - 1]
        /\ Len(SubSeq(crawlQueue, i + 1, m))
             = IF i + 1 <= m THEN m - (i + 1) + 1 ELSE 0
    <3>1. \A k \in i + 1 .. m : crawlQueue[k] \in Entry
      BY <1>1, <2>1
    <3> QED
      BY <1>1, <2>1, <3>1, SubSeqProperties
  <2>3. (IF i + 1 <= m THEN m - (i + 1) + 1 ELSE 0) = m - i
    <3>1. \A n \in Nat : \A k \in 1 .. n :
            (IF k + 1 <= n THEN n - (k + 1) + 1 ELSE 0) = n - k
      OBVIOUS
    <3> QED
      BY <1>1, <2>1, <3>1
  <2>4. /\ DOMAIN crawlQueue' = 1 .. m - i
        /\ \A k \in 1 .. m - i : /\ crawlQueue'[k] = crawlQueue[i + k]
                                 /\ i + k \in 1 .. m
    <3>1. \A k \in 1 .. m - i : /\ k \in 1 .. m - (i + 1) + 1
                                /\ i + 1 + k - 1 = i + k /\ i + k \in 1 .. m
      BY <1>1, <2>1
    <3>2. DOMAIN crawlQueue' = 1 .. m - i
      BY <1>3, <2>2, <2>3, LenProperties
    <3> QED
      BY <1>3, <2>2, <3>1, <3>2
  <2>5. QueuedOnce'
    <3>1. ASSUME NEW j \in 1 .. m - i, NEW k \in 1 .. m - i,
                 crawlQueue'[j].relay = crawlQueue'[k].relay
          PROVE  j = k
      <4>1. i + j = i + k
        BY <1>1, <2>4, <3>1 DEF QueuedOnce
      <4> QED
        BY <2>1, <4>1
    <3> QED
      BY <2>4, <3>1 DEF QueuedOnce
  <2>6. crawlQueue' \in Seq(Entry)
    BY <1>3, <2>2
  <2> QED
    BY <1>1, <1>3, <2>1, <2>5, <2>6, QueueFits DEF CrawlTypeOK, Listed, QueuedOnce
<1> QED
  BY <1>2, <1>3 DEF TakeNext

\* Every step of a crawl keeps the shape of what the indexer knows.
LEMMA CrawlStays ==
  ASSUME CrawlInv, CrawlNext
  PROVE  CrawlInv'
<1>0. /\ CrawlTypeOK /\ QueuedOnce
      /\ \A c \in Crawls : crawlPc[c] \in CrawlSteps => current \in Entry
  BY DEF CrawlInv
<1>a. /\ EntitiesAt \in [Relays -> SUBSET Indexable]
      /\ HintsOf \in [Indexable -> SUBSET Relays]
      /\ PeersOf \in [Relays -> SUBSET Relays]
  BY CrawlerAssumption
<1>b. \A rs \in SUBSET Relays, d \in Nat : To(rs, d) \in SUBSET [relay : Relays, depth : Nat]
  BY DEF To
<1>c. ASSUME crawlQueue' = crawlQueue \/
               \E entries \in SUBSET [relay : Relays, depth : Nat] : Enqueue(entries)
      PROVE  /\ crawlQueue' \in Seq(Entry) /\ QueuedOnce'
             /\ Len(crawlQueue') <= Cardinality(Relays)
  <2>1. CASE crawlQueue' = crawlQueue
    BY <1>0, <2>1 DEF CrawlTypeOK, QueuedOnce
  <2>2. CASE \E entries \in SUBSET [relay : Relays, depth : Nat] : Enqueue(entries)
    BY <2>2, EnqueueSound
  <2> QED
    BY <1>c, <2>1, <2>2
<1>d. \A rs \in SUBSET Relays :
        Listed(rs) \in [Relays -> {"absent", "unknown", "healthy", "offline"}]
  BY <1>0 DEF CrawlTypeOK, Listed
<1>e. ASSUME NEW c \in Crawls, crawlPc[c] \in CrawlSteps
      PROVE  current \in Entry /\ current.relay \in Relays /\ current.depth + 1 \in Nat
  BY <1>0, <1>e, CrawlerAssumption DEF Entry
<1>1. ASSUME NEW r \in Relays, RegisterRelay(r) PROVE CrawlInv'
  <2>1. Enqueue(To({r}, 0)) /\ To({r}, 0) \in SUBSET [relay : Relays, depth : Nat]
    BY <1>1, <1>b DEF RegisterRelay
  <2>2. relayIndex' \in [Relays -> {"absent", "unknown", "healthy", "offline"}]
    BY <1>1, <1>d DEF RegisterRelay
  <2> QED
    BY <1>0, <1>1, <1>c, <2>1, <2>2 DEF RegisterRelay, CrawlInv, CrawlTypeOK
<1>2. ASSUME NEW c \in Crawls, NEW seeds \in SUBSET Relays, TriggerCrawl(c, seeds)
      PROVE  CrawlInv'
  <2>1. Enqueue(To(seeds, 0)) /\ To(seeds, 0) \in SUBSET [relay : Relays, depth : Nat]
    BY <1>2, <1>b DEF TriggerCrawl
  <2>2. /\ relayIndex' \in [Relays -> {"absent", "unknown", "healthy", "offline"}]
        /\ asked' \subseteq Relays
    BY <1>0, <1>2, <1>d DEF TriggerCrawl, CrawlTypeOK
  <2>3. /\ crawlPc' \in [Crawls -> CrawlSteps \cup {"idle", "created", "over"}]
        /\ \A k \in Crawls : crawlPc'[k] \in CrawlSteps => crawlPc[k] \in CrawlSteps
    BY <1>0, <1>2 DEF TriggerCrawl, CrawlTypeOK, CrawlSteps
  <2> QED
    BY <1>0, <1>2, <1>c, <2>1, <2>2, <2>3 DEF TriggerCrawl, CrawlInv, CrawlTypeOK
<1>3. ASSUME NEW c \in Crawls, RunCrawl(c) \/ NextRelay(c) PROVE CrawlInv'
  <2>1. CASE TakeNext(c)
    <3>1. UNCHANGED <<entityIndex, asked>>
      BY <1>3 DEF RunCrawl, NextRelay
    <3>2. /\ crawlPc' \in [Crawls -> CrawlSteps \cup {"idle", "created", "over"}]
          /\ current' \in Entry \cup {NoEntry}
          /\ \A k \in Crawls : crawlPc'[k] \in CrawlSteps => current' \in Entry
      BY <1>0, <2>1, TakeNextSound DEF CrawlTypeOK, CrawlSteps
    <3> QED
      BY <1>0, <2>1, <3>1, <3>2, TakeNextSound DEF CrawlInv, CrawlTypeOK
  <2>2. CASE ~TakeNext(c)
    <3>1. /\ crawlPc' = [crawlPc EXCEPT ![c] = "over"]
          /\ UNCHANGED <<crawlQueue, visited, crawlInProgress, relayIndex, current,
                         entityIndex, asked>>
      BY <1>3, <2>2 DEF RunCrawl, NextRelay
    <3>2. /\ crawlPc' \in [Crawls -> CrawlSteps \cup {"idle", "created", "over"}]
          /\ \A k \in Crawls : crawlPc'[k] \in CrawlSteps => crawlPc[k] \in CrawlSteps
      BY <1>0, <3>1 DEF CrawlTypeOK, CrawlSteps
    <3> QED
      BY <1>0, <1>c, <3>1, <3>2 DEF CrawlInv, CrawlTypeOK
  <2> QED
    BY <2>1, <2>2
<1>4. ASSUME NEW c \in Crawls, NEW from \in CrawlSteps, NEW to \in CrawlSteps,
             CrawlGo(c, from, to),
             crawlQueue' = crawlQueue \/
               \E entries \in SUBSET [relay : Relays, depth : Nat] : Enqueue(entries),
             relayIndex' \in [Relays -> {"absent", "unknown", "healthy", "offline"}],
             entityIndex' \subseteq Indexable \ PrivateOnes
      PROVE  CrawlInv'
  <2>1. /\ crawlPc' \in [Crawls -> CrawlSteps \cup {"idle", "created", "over"}]
        /\ \A k \in Crawls : crawlPc'[k] \in CrawlSteps => crawlPc[k] \in CrawlSteps
        /\ UNCHANGED <<visited, crawlInProgress, current, asked>>
    BY <1>0, <1>4 DEF CrawlGo, CrawlTypeOK
  <2> QED
    BY <1>0, <1>4, <1>c, <2>1 DEF CrawlInv, CrawlTypeOK
<1>f. /\ relayIndex \in [Relays -> {"absent", "unknown", "healthy", "offline"}]
      /\ entityIndex \subseteq Indexable \ PrivateOnes
      /\ \A k \in {"info", "entities", "links", "peers", "save", "sleep"} :
           k \in CrawlSteps
  BY <1>0 DEF CrawlTypeOK, CrawlSteps
<1>5. ASSUME NEW c \in Crawls, FetchInfo(c) \/ FetchNothing(c) \/ LinksOver(c)
      PROVE  CrawlInv'
  BY <1>4, <1>5, <1>f DEF FetchInfo, FetchNothing, LinksOver
<1>6. ASSUME NEW c \in Crawls, CrawlEntities(c) PROVE CrawlInv'
  <2> DEFINE found  == EntitiesAt[current.relay]
             public == found \ PrivateOnes
             next   == To(Hinted(public), 1) \cup To(Hinted(found), current.depth + 1)
  <2>1. /\ CrawlGo(c, "entities", "links") /\ crawlPc[c] \in CrawlSteps
        /\ entityIndex' = entityIndex \cup public /\ relayIndex' = relayIndex
        /\ Enqueue(next)
    BY <1>6, <1>f DEF CrawlEntities, CrawlGo
  <2>2. found \subseteq Indexable /\ current.depth + 1 \in Nat
    BY <1>a, <1>e, <2>1
  <2>3. Hinted(public) \subseteq Relays /\ Hinted(found) \subseteq Relays
    BY <1>a, <2>2 DEF Hinted
  <2>4. next \in SUBSET [relay : Relays, depth : Nat]
    BY <1>b, <2>2, <2>3
  <2>5. entityIndex' \subseteq Indexable \ PrivateOnes
    BY <1>f, <2>1, <2>2
  <2> QED
    BY <1>4, <1>f, <2>1, <2>4, <2>5
<1>7. ASSUME NEW c \in Crawls, FetchFails(c) \/ SaveRelay(c) PROVE CrawlInv'
  <2>1. /\ \E from \in CrawlSteps : CrawlGo(c, from, "sleep")
        /\ UNCHANGED <<crawlQueue, entityIndex>>
        /\ relayIndex' \in [Relays -> {"absent", "unknown", "healthy", "offline"}]
    BY <1>7, <1>f DEF FetchFails, SaveRelay
  <2> QED
    BY <1>4, <1>f, <2>1
<1>8. ASSUME NEW c \in Crawls, NEW e \in Indexable, NEW r \in Relays,
             DiscoverEntity(c, e, r)
      PROVE  CrawlInv'
  <2>1. /\ CrawlGo(c, "links", "links") /\ e \in EntitiesAt[r] \ PrivateOnes
        /\ entityIndex' = entityIndex \cup {e} /\ relayIndex' = relayIndex
        /\ Enqueue(To(HintsOf[e] \cup {r}, 1))
    BY <1>8 DEF DiscoverEntity
  <2>2. To(HintsOf[e] \cup {r}, 1) \in SUBSET [relay : Relays, depth : Nat]
    BY <1>a, <1>b
  <2> QED
    BY <1>4, <1>f, <2>1, <2>2
<1>9. ASSUME NEW c \in Crawls, FetchPeers(c) PROVE CrawlInv'
  <2>1. /\ CrawlGo(c, "peers", "save") /\ crawlPc[c] \in CrawlSteps
        /\ UNCHANGED <<relayIndex, entityIndex>>
        /\ \/ Enqueue(To(PeersOf[current.relay], current.depth + 1))
           \/ crawlQueue' = crawlQueue
    BY <1>9, <1>f DEF FetchPeers, CrawlGo
  <2>2. PeersOf[current.relay] \subseteq Relays /\ current.depth + 1 \in Nat
    BY <1>a, <1>e, <2>1
  <2>3. To(PeersOf[current.relay], current.depth + 1)
          \in SUBSET [relay : Relays, depth : Nat]
    BY <1>b, <2>2
  <2> QED
    BY <1>4, <1>f, <2>1, <2>3
<1> QED
  BY <1>1, <1>2, <1>3, <1>5, <1>6, <1>7, <1>8, <1>9 DEF CrawlNext, CrawlStep
-----------------------------------------------------------------------------
(***************************************************************************)
(* The parts together.  A step is one of one part; what it leaves alone    *)
(* keeps its invariant.                                                    *)
(***************************************************************************)
NetInv ==
  /\ part \in Parts
  /\ PubInv /\ PushInv /\ AtBound /\ NoticeInv /\ FedInv /\ PeerInv /\ CrawlInv
  /\ ReadInv

LEMMA PubStands == PubInv /\ UNCHANGED pubVars => PubInv'
  BY DEF PubInv, PubTypeOK, ClicksMet, SubsFollow, OwedAnswered, ArticleFollows,
         Clicking, PaywallHonoursAnswers, PublishedIsDated, Opens, Asks, pubVars

LEMMA PushStands == PushInv /\ AtBound /\ UNCHANGED pushVars => PushInv' /\ AtBound'
<1> SUFFICES ASSUME PushInv, AtBound, UNCHANGED pushVars PROVE PushInv' /\ AtBound'
  OBVIOUS
<1>1. UNCHANGED <<connections, sockets, at, sending, begun, heard, audience, leavers>>
  BY DEF pushVars
<1>2. ASSUME NEW b \in Broadcasts PROVE LoopSound(b)' /\ LossSound(b)'
  BY <1>1, LoopStays DEF PushInv
<1>3. PushShape' /\ ListSound' /\ AtBound'
  BY <1>1 DEF PushInv, PushShape, ListSound, AtBound
<1> QED
  BY <1>2, <1>3 DEF PushInv

LEMMA NoticeStands == NoticeInv /\ UNCHANGED noticeVars => NoticeInv'
  BY DEF NoticeInv, NoticeTypeOK, NoticesArrive, PushedIsStored, ListenersHear,
         noticeVars

LEMMA FedStands == FedInv /\ UNCHANGED fedVars => FedInv'
  BY DEF FedInv, FedTypeOK, RemovalsOutliveImports, fedVars, rowVars, workVars,
         userVars

LEMMA PeerStands == PeerInv /\ UNCHANGED peerVars => PeerInv'
  BY DEF PeerInv, PeerTypeOK, PeersAreNoted, peerVars

LEMMA CrawlStands == CrawlInv /\ UNCHANGED crawlVars => CrawlInv'
  BY DEF CrawlInv, CrawlTypeOK, QueuedOnce, crawlVars

LEMMA ReadStands == ReadInv /\ UNCHANGED readVars => ReadInv'
  BY DEF ReadInv, ReadTypeOK, ReadsAreTrue, DeletedStaysUnseen, KeptFromLists,
         readVars

\* Every part starts sound.
LEMMA NetStart == Init => NetInv
  BY PubStart, PushStart, AtStart, NoticeStart, FedStart, PeerStart, CrawlStart,
     ReadStart
  DEF Init, NetInv

\* Whichever part takes a step, all of them are as sound as before.
LEMMA NetStep == NetInv /\ [Next]_vars => NetInv'
<1> SUFFICES ASSUME NetInv, [Next]_vars PROVE NetInv'
  OBVIOUS
<1>0. /\ part' = part /\ part \in Parts
      /\ PubNext \/ UNCHANGED pubVars
      /\ PushNext \/ UNCHANGED pushVars
      /\ NoticeNext \/ UNCHANGED noticeVars
      /\ FedNext \/ UNCHANGED fedVars
      /\ PeerNext \/ UNCHANGED peerVars
      /\ CrawlNext \/ UNCHANGED crawlVars
      /\ ReadNext \/ UNCHANGED readVars
  <2>1. CASE Next
    BY <2>1 DEF NetInv, Next, OnlyPublications, OnlyPush, OnlyNotification,
                OnlyFederation, OnlyPeers, OnlyCrawler, OnlyReads
  <2>2. CASE UNCHANGED vars
    BY <2>2 DEF NetInv, vars
  <2> QED
    BY <2>1, <2>2
<1>1. PubInv'
  BY <1>0, PubStep, PubStands DEF NetInv
<1>2. PushInv' /\ AtBound'
  BY <1>0, PushStep, AtStep, PushStands DEF NetInv
<1>3. NoticeInv'
  BY <1>0, NoticeStep, NoticeStands DEF NetInv
<1>4. FedInv'
  BY <1>0, FedStep, FedStands DEF NetInv
<1>5. PeerInv'
  BY <1>0, PeerStep, PeerStands DEF NetInv
<1>6. CrawlInv'
  BY <1>0, CrawlStays, CrawlStands DEF NetInv
<1>7. ReadInv'
  BY <1>0, ReadStep, ReadStands DEF NetInv
<1> QED
  BY <1>0, <1>1, <1>2, <1>3, <1>4, <1>5, <1>6, <1>7 DEF NetInv

LEMMA NetHolds == Spec => []NetInv
  BY NetStart, NetStep, PTL DEF Spec

\* Every variable of every part has its type, and what is bounded stays so:
\* the crawl's queue by the relays there are, a loop's position by the sockets;
\* nothing private is indexed.
THEOREM NetworkTypes == Spec => []TypeOK
<1>1. NetInv => TypeOK
  BY PushTyped DEF NetInv, PubInv, NoticeInv, FedInv, PeerInv, CrawlInv, ReadInv,
                   TypeOK
<1> QED
  BY <1>1, NetHolds, PTL

\* What was removed or unlinked at a node stays so through every import that
\* comes to it and every crash, no import brings a post that is not public to a
\* node it was not made at, and a node that answered that another is its peer
\* knows it; each knows the other if the other took the registration, too.
THEOREM NodesKeep == Spec => []NodesKeepTheirSay
<1>1. NetInv => NodesKeepTheirSay
  BY FedPrivate DEF NetInv, FedInv, PeerInv, NodesKeepTheirSay
<1> QED
  BY <1>1, NetHolds, PTL

\* Whoever listens hears, and nobody twice: a broadcast costs at most one
\* socket for each that left the list while its loop went through it, and no
\* notice that was pushed is lost by a crash.
THEOREM PushesDoArrive == Spec => []PushesArrive
<1>1. NetInv => PushesArrive
  BY PushReaches DEF NetInv, NoticeInv, PushesArrive
<1> QED
  BY <1>1, NetHolds, PTL

\* A reader who was told of a subscription has it, with the tier that came with
\* it and until it was cancelled, crash or not, and sees what that entitles to.
THEOREM ReadersGetTheirDue == Spec => []ReaderGetsItsDue
<1>1. NetInv => ReaderGetsItsDue
  BY PubDue DEF NetInv
<1> QED
  BY <1>1, NetHolds, PTL

\* No read, however many awaits it takes, shows what was deleted or taken down
\* before it began, nobody sees a message of two others, and no list shows a
\* message or what was posted as private or to a group.
THEOREM ReadsStayTrue == Spec => []ReadsAreTrue
<1>1. NetInv => ReadsAreTrue
  BY DEF NetInv, ReadInv
<1> QED
  BY <1>1, NetHolds, PTL

=============================================================================
