------------------------------ MODULE Federation ------------------------------
(***************************************************************************)
(* Relays that exchange what they hold, app/server/main.py: a node fetches *)
(* from another (federation_import), or is handed what somebody exported   *)
(* from another some time ago (import/direct, POST sync), and inserts the  *)
(* items it misses one by one, while its own users go on publishing,       *)
(* deleting and moderating.  Each node has a database with commits and     *)
(* crashes as in RelayLog.                                                 *)
(*                                                                         *)
(* An item is an entity (a user or group), a post or a link, under an id   *)
(* all nodes share.  The writes of the node's own users are RelayLog's and *)
(* RelayGroups'; here each is its last statement with its commit.          *)
(*                                                                         *)
(* How nodes come to know each other is a process of its own, over         *)
(* known_nodes, and at the end.                                            *)
(***************************************************************************)
EXTENDS Naturals

CONSTANTS
  Nodes,
  Entities, Posts, Links,
  Private,       \* posts whose access is not public
  Home,          \* Home[i]: the node on which item i is made
  Imports,       \* the requests to import
  MaxActs        \* bound: imports, deletions, removals, renewals and crashes

Items == Entities \cup Posts \cup Links

ImportRequest == [op : {"import", "direct", "sync"}, at : Nodes, from : Nodes]

ASSUME FederationAssumption ==
  /\ Entities \cap Posts = {} /\ Entities \cap Links = {} /\ Posts \cap Links = {}
  /\ Private \subseteq Posts
  /\ Home \in [Items -> Nodes]
  /\ Imports \subseteq ImportRequest
  /\ MaxActs \in Nat

VARIABLES
  fedDb,      \* fedDb[n][i]: no row, a live one, or one with its tombstone set
  fedDisk,
  badKeys,    \* badKeys[n]: entities whose public_key was stored as text
  fedPc,      \* fedPc[r]: where import r is
  todo,       \* todo[r]: the items it has yet to look at
  content,    \* imports that have content, and not only entities, in todo
  deleting,   \* deletions and removals by users of a node that have found
  removing,   \* their post, and not yet done it
  acts,       \* what is bounded by MaxActs, begun so far
  made,       \* history: items made at home
  removed     \* history: removals answered, of a post or a link on a node

rowVars  == <<fedDb, fedDisk, badKeys>>
workVars == <<fedPc, todo, content>>
userVars == <<deleting, removing, made, removed>>
fedVars  == <<rowVars, workVars, userVars, acts>>

RowStates == {"none", "live", "ended"}

FedTypeOK ==
  /\ fedDb \in [Nodes -> [Items -> RowStates]]
  /\ fedDisk \in [Nodes -> [Items -> RowStates]]
  /\ badKeys \in [Nodes -> SUBSET Entities]
  /\ fedPc \in [Imports -> {"idle", "look", "insert", "commit", "done", "lost"}]
  /\ todo \in [Imports -> SUBSET Items]
  /\ content \subseteq Imports
  /\ deleting \subseteq Nodes \X Posts
  /\ removing \subseteq Nodes \X Posts
  /\ acts \in 0 .. MaxActs
  /\ made \subseteq Items
  /\ removed \subseteq Nodes \X (Posts \cup Links)

FedInit ==
  /\ fedDb = [n \in Nodes |-> [i \in Items |-> "none"]]
  /\ fedDisk = fedDb
  /\ badKeys = [n \in Nodes |-> {}]
  /\ fedPc = [r \in Imports |-> "idle"]
  /\ todo = [r \in Imports |-> {}]
  /\ content = {}
  /\ deleting = {} /\ removing = {} /\ made = {} /\ removed = {}
  /\ acts = 0

Live(n)  == {i \in Items : fedDb[n][i] = "live"}
Found(n) == {i \in Items : fedDb[n][i] # "none"}

-----------------------------------------------------------------------------
(***************************************************************************)
(* What a node's own users do.                                             *)
(***************************************************************************)
\* One row of a node changes, and its transaction is committed.
SetRow(n, i, state) ==
  /\ fedDb' = [fedDb EXCEPT ![n][i] = state]
  /\ fedDisk' = [fedDisk EXCEPT ![n] = fedDb'[n]]
  /\ UNCHANGED <<badKeys, workVars>>

Make(i) ==
  /\ i \notin made
  /\ made' = made \cup {i}
  /\ SetRow(Home[i], i, "live")
  /\ UNCHANGED <<deleting, removing, acts, removed>>

\* One more of what is bounded
Act == acts < MaxActs /\ acts' = acts + 1

\* delete_content by the author: get_content, the log, and the DELETE
DeleteFound(n, p) ==
  /\ Act
  /\ p \in Live(n)
  /\ deleting' = deleting \cup {<<n, p>>}
  /\ UNCHANGED <<rowVars, workVars, removing, made, removed>>

DeleteContent(n, p) ==
  /\ <<n, p>> \in deleting
  /\ deleting' = deleting \ {<<n, p>>}
  \* a deletion that found the post before it was removed takes the row away
  /\ removed' = removed \ {<<n, p>>}
  /\ SetRow(n, p, "none")
  /\ UNCHANGED <<removing, acts, made>>

\* remove_group_content by a moderator: get_content, and the UPDATE
RemoveFound(n, p) ==
  /\ Act
  /\ p \in Live(n)
  /\ removing' = removing \cup {<<n, p>>}
  /\ UNCHANGED <<rowVars, workVars, deleting, made, removed>>

RemoveGroupContent(n, p) ==
  /\ <<n, p>> \in removing
  /\ removing' = removing \ {<<n, p>>}
  /\ IF p \in Found(n)
       THEN /\ removed' = removed \cup {<<n, p>>}
            /\ SetRow(n, p, "ended")
       ELSE /\ UNCHANGED removed
            /\ SetRow(n, p, "none")
  /\ UNCHANGED <<deleting, acts, made>>

\* delete_link, and create_link of a link that was deleted
DeleteLink(n, l) ==
  /\ Act
  /\ l \in Live(n)
  /\ removed' = removed \cup {<<n, l>>}
  /\ SetRow(n, l, "ended")
  /\ UNCHANGED <<deleting, removing, made>>

RenewLink(n, l) ==
  /\ Act
  /\ l \in Found(n) \ Live(n)
  /\ removed' = removed \ {<<n, l>>}
  /\ SetRow(n, l, "live")
  /\ UNCHANGED <<deleting, removing, made>>

-----------------------------------------------------------------------------
(***************************************************************************)
(* Exports.  An entity whose key is text cannot be turned into hex, and    *)
(* the answer is an error.  Links go out without their tombstones.  Only   *)
(* public posts go out as content; the events of sync_entity are another   *)
(* way out, with the payload of every post (see RelaySync), but no import  *)
(* fetches them, and what an import is handed is taken to be an export.    *)
(***************************************************************************)
Exportable(n) == badKeys[n] = {}

ExportEntities(n) == Live(n) \cap Entities
ExportContent(n)  == (Live(n) \cap Posts) \ Private
ExportLinks(n)    == Found(n) \cap Links

(***************************************************************************)
(* Imports.                                                                *)
(***************************************************************************)
FedGo(r, from, to) ==
  /\ fedPc[r] = from
  /\ IF from = "idle" THEN Act ELSE UNCHANGED acts
  /\ fedPc' = [fedPc EXCEPT ![r] = to]
  /\ UNCHANGED userVars

\* federation_import fetches the other's entities, and goes on without them if
\* that fails.
FetchEntities(r) ==
  /\ r.op = "import"
  /\ FedGo(r, "idle", "look")
  /\ \/ todo' = [todo EXCEPT ![r] = ExportEntities(r.from)] /\ Exportable(r.from)
     \/ UNCHANGED todo
  /\ UNCHANGED <<rowVars, content>>

\* When they are done, its content; an error is passed over too.
FetchContent(r) ==
  /\ todo[r] = {} /\ r \notin content
  /\ FedGo(r, "look", "look")
  /\ \/ todo' = [todo EXCEPT ![r] = ExportContent(r.from)]
     \/ UNCHANGED todo
  /\ content' = content \cup {r}
  /\ UNCHANGED rowVars

\* import/direct and POST sync get an export, all of it in the request, which
\* may be long on its way.
Handed(r) ==
  /\ r.op # "import"
  /\ Exportable(r.from)
  /\ FedGo(r, "idle", "look")
  /\ todo' = [todo EXCEPT ![r] =
                ExportEntities(r.from) \cup ExportContent(r.from)
                  \cup IF r.op = "direct" THEN ExportLinks(r.from) ELSE {}]
  /\ content' = content \cup {r}
  /\ UNCHANGED rowVars

\* Entities, then posts, then links
Turns(r) ==
  LET of(kind) == todo[r] \cap kind IN
    CASE of(Entities) # {} -> of(Entities)
      [] of(Entities) = {} /\ of(Posts) # {} -> of(Posts)
      [] OTHER -> of(Links)

\* Is the item here?  get_content does not see a post that was removed; the
\* question for links sees them all.
Here(n, i) == IF i \in Links THEN i \in Found(n) ELSE i \in Live(n)

Look(r, i) ==
  /\ i \in Turns(r)
  /\ IF Here(r.at, i)
       THEN /\ FedGo(r, "look", "look")
            /\ todo' = [todo EXCEPT ![r] = @ \ {i}]
       ELSE /\ FedGo(r, "look", "insert")
            /\ UNCHANGED todo
  /\ UNCHANGED <<rowVars, content>>

\* Mistake: the row there is written over.
InsertOrReplace(r, i) ==
  /\ i \in Turns(r)
  /\ FedGo(r, "insert", "commit")
  /\ fedDb' = [fedDb EXCEPT ![r.at][i] = "live"]
  /\ UNCHANGED <<fedDisk, badKeys, todo, content>>

\* The id is the key: an INSERT of a row that is there, whatever its state,
\* fails, and is skipped.  A post's body that comes by POST sync is no string,
\* which fails every time; an entity's key that does is stored as text.
Insert(r, i) ==
  /\ i \in Turns(r)
  /\ IF i \in Found(r.at) \/ (r.op = "sync" /\ i \in Posts)
       THEN /\ FedGo(r, "insert", "look")
            /\ todo' = [todo EXCEPT ![r] = @ \ {i}]
            /\ UNCHANGED <<fedDb, badKeys>>
       ELSE /\ FedGo(r, "insert", "commit")
            /\ fedDb' = [fedDb EXCEPT ![r.at][i] = "live"]
            /\ badKeys' = IF r.op = "sync"
                            THEN [badKeys EXCEPT ![r.at] = @ \cup {i}]
                            ELSE badKeys
            /\ UNCHANGED todo
  /\ UNCHANGED <<fedDisk, content>>

ImportCommit(r, i) ==
  /\ i \in Turns(r)
  /\ FedGo(r, "commit", "look")
  /\ fedDisk' = [fedDisk EXCEPT ![r.at] = fedDb[r.at]]
  /\ todo' = [todo EXCEPT ![r] = @ \ {i}]
  /\ UNCHANGED <<fedDb, badKeys, content>>

Imported(r) ==
  /\ todo[r] = {} /\ r \in content
  /\ FedGo(r, "look", "done")
  /\ UNCHANGED <<rowVars, todo, content>>

-----------------------------------------------------------------------------
\* A node stops and starts again: the rows on disk, and nothing of its memory.
FedCrash(n) ==
  LET here == {r \in Imports : r.at = n /\ fedPc[r] \notin {"idle", "done"}} IN
    /\ Act
    /\ fedDb' = [fedDb EXCEPT ![n] = fedDisk[n]]
    /\ badKeys' = [badKeys EXCEPT ![n] =
                     {e \in badKeys[n] : fedDisk[n][e] # "none"}]
    /\ fedPc' = [r \in Imports |-> IF r \in here THEN "lost" ELSE fedPc[r]]
    /\ todo' = [r \in Imports |-> IF r \in here THEN {} ELSE todo[r]]
    /\ deleting' = deleting \ ({n} \X Posts)
    /\ removing' = removing \ ({n} \X Posts)
    /\ UNCHANGED <<fedDisk, content, made, removed>>

FedNext ==
  \/ \E i \in Items : Make(i)
  \/ \E n \in Nodes, p \in Posts :
       \/ DeleteFound(n, p) \/ DeleteContent(n, p)
       \/ RemoveFound(n, p) \/ RemoveGroupContent(n, p)
  \/ \E n \in Nodes, l \in Links : DeleteLink(n, l) \/ RenewLink(n, l)
  \/ \E r \in Imports :
       \/ FetchEntities(r) \/ FetchContent(r) \/ Handed(r) \/ Imported(r)
       \/ \E i \in Items : Look(r, i) \/ Insert(r, i) \/ ImportCommit(r, i)
  \/ \E n \in Nodes : FedCrash(n)

-----------------------------------------------------------------------------
(***************************************************************************)
(* Properties.                                                             *)
(***************************************************************************)

\* What a moderator removed from a node, or a user unlinked there, no import
\* brings back, though the imports do not see that it was removed; neither
\* does a crash.
RemovalsOutliveImports ==
  \A pair \in removed :
    fedDb[pair[1]][pair[2]] = "ended" /\ fedDisk[pair[1]][pair[2]] = "ended"

\* No import has in hand a post that is not public, and no node has a row of one
\* but the node it was made on.  That is what imports do; it does not say that
\* such a post stays secret, for sync_entity hands its event to anybody.
ImportsArePublic ==
  /\ \A r \in Imports : todo[r] \cap Private = {}
  /\ \A n \in Nodes, p \in Private :
       n # Home[p] => fedDb[n][p] = "none" /\ fedDisk[n][p] = "none"

-----------------------------------------------------------------------------
(***************************************************************************)
(* How relays come to know each other: register_peer and connect_to_node   *)
(* note the other node and then tell it of themselves.  What they know is  *)
(* memory, gone when a node stops.                                         *)
(***************************************************************************)
CONSTANTS
  PeerNodes,
  Meetings,       \* the requests to register a peer or connect to one
  MaxPeerCrashes  \* bound: crashes of nodes

MeetingRequest == [op : {"peer", "connect"}, at : PeerNodes, from : PeerNodes]

ASSUME PeersAssumption ==
  Meetings \subseteq MeetingRequest /\ MaxPeerCrashes \in Nat

VARIABLES
  knownNodes, \* the peers of each node
  meetPc,     \* meetPc[m]: where meeting m is, or its answer
  told,       \* history: <<a, b>> when a's client was answered that a and b
              \* are peers, and a has not restarted
  met,        \* history: <<a, b>> when b took a's registration, and neither has
              \* restarted
  peerCrashes

peerVars == <<knownNodes, meetPc, told, met, peerCrashes>>

PeerTypeOK ==
  /\ knownNodes \in [PeerNodes -> SUBSET PeerNodes]
  /\ meetPc \in [Meetings -> {"idle", "tell", "answer", "ok", "failed"}]
  /\ told \subseteq PeerNodes \X PeerNodes
  /\ met \subseteq PeerNodes \X PeerNodes
  /\ peerCrashes \in 0 .. MaxPeerCrashes

PeerInit ==
  /\ knownNodes = [n \in PeerNodes |-> {}]
  /\ meetPc = [m \in Meetings |-> "idle"]
  /\ told = {} /\ met = {}
  /\ peerCrashes = 0

MeetGo(m, from, to) ==
  /\ meetPc[m] = from
  /\ meetPc' = [meetPc EXCEPT ![m] = to]
  /\ UNCHANGED peerCrashes

\* Both fetch /.well-known/mesh-node of the other, where an error is one, and
\* note it,
Meet(m) ==
  /\ \/ /\ MeetGo(m, "idle", "tell")
        /\ knownNodes' = [knownNodes EXCEPT ![m.at] = @ \cup {m.from}]
     \/ /\ MeetGo(m, "idle", "failed")
        /\ UNCHANGED knownNodes
  /\ UNCHANGED <<told, met>>

\* then post their own address to it.  Its register_node notes that, or it
\* answers with an error and notes nothing.
Tell(m) ==
  /\ MeetGo(m, "tell", "answer")
  /\ \/ /\ knownNodes' = [knownNodes EXCEPT ![m.from] = @ \cup {m.at}]
        /\ met' = met \cup {<<m.at, m.from>>}
     \/ UNCHANGED <<knownNodes, met>>
  /\ UNCHANGED told

\* Nobody looks at the status of the answer: "registered", or "connected",
\* whatever it says.
Told(m) ==
  /\ MeetGo(m, "answer", "ok")
  /\ told' = told \cup {<<m.at, m.from>>}
  /\ UNCHANGED <<knownNodes, met>>

\* The request or its answer is lost, or late: connect_to_node says "connected"
\* all the same, register_peer an error, though it has noted the other.
TellFails(m) ==
  /\ \E from \in {"tell", "answer"} :
       MeetGo(m, from, IF m.op = "connect" THEN "ok" ELSE "failed")
  /\ told' = IF m.op = "connect" THEN told \cup {<<m.at, m.from>>} ELSE told
  /\ UNCHANGED <<knownNodes, met>>

\* A node stops, and starts knowing nobody.
PeerCrash(n) ==
  /\ peerCrashes < MaxPeerCrashes
  /\ peerCrashes' = peerCrashes + 1
  /\ knownNodes' = [knownNodes EXCEPT ![n] = {}]
  /\ meetPc' = [m \in Meetings |->
                  IF m.at = n /\ meetPc[m] \in {"tell", "answer"}
                    THEN "failed" ELSE meetPc[m]]
  /\ told' = {pair \in told : n # pair[1]}
  /\ met' = {pair \in met : n \notin {pair[1], pair[2]}}

PeerNext ==
  \/ \E m \in Meetings : Meet(m) \/ Tell(m) \/ Told(m) \/ TellFails(m)
  \/ \E n \in PeerNodes : PeerCrash(n)

\* Whoever was answered "registered" or "connected" knows the other until it
\* restarts itself.  That the other knows it is more than the answer says: it
\* does if its register_node took the address, until one of them restarts.
PeersAreNoted ==
  /\ \A pair \in told : pair[2] \in knownNodes[pair[1]]
  /\ \A pair \in met :
       pair[2] \in knownNodes[pair[1]] /\ pair[1] \in knownNodes[pair[2]]
=============================================================================
