------------------------------- MODULE Crawler -------------------------------
(***************************************************************************)
(* The indexer's crawl, app/server/discovery.py and the endpoints that     *)
(* feed and start it in app/server/main.py.  A crawl is a task: it takes   *)
(* relays from a queue, asks each for its entities, links and peers in     *)
(* turn, and queues the relays these name.  Tasks change over at awaits    *)
(* only, and one crawl runs at a time.                                     *)
(*                                                                         *)
(* An entry of the queue behind one of the same relay is left out: it is   *)
(* thrown away when its turn comes, as are entries too deep.               *)
(***************************************************************************)
EXTENDS Naturals, FiniteSets, SequencesExt

CONSTANTS
  Relays,
  Indexable,       \* entities
  PrivateOnes,     \* those whose indexing_preference is private
  EntitiesAt,      \* EntitiesAt[r]: what relay r exports
  HintsOf,         \* HintsOf[e]: the relays entity e names
  TargetsAt,       \* TargetsAt[r]: what the links r exports point to
  PeersOf,         \* PeersOf[r]: the relays r gossips about
  MaxDepth,        \* max_depth
  Crawls           \* bound: requests to start a crawl

ASSUME CrawlerAssumption ==
  /\ IsFiniteSet(Relays)
  /\ PrivateOnes \subseteq Indexable
  /\ EntitiesAt \in [Relays -> SUBSET Indexable]
  /\ HintsOf \in [Indexable -> SUBSET Relays]
  /\ TargetsAt \in [Relays -> SUBSET Indexable]
  /\ PeersOf \in [Relays -> SUBSET Relays]
  /\ MaxDepth \in Nat \ {0}

VARIABLES
  crawlQueue,      \* entries of a relay and a depth
  visited,         \* visited_relays
  crawlInProgress,
  relayIndex,      \* relayIndex[r]: its health, "absent" if not in the index
  entityIndex,     \* the entities in the index
  crawlPc,         \* crawlPc[c]: what the task of crawl c awaits
  current,         \* the entry being crawled
  asked            \* history: relays crawls were started for

crawlVars == <<crawlQueue, visited, crawlInProgress, relayIndex, entityIndex,
               crawlPc, current, asked>>

Entry   == [relay : Relays, depth : 0 .. MaxDepth]
NoEntry == [relay |-> "no relay", depth |-> 0]

CrawlSteps == {"info", "entities", "links", "peers", "save", "sleep"}

CrawlTypeOK ==
  /\ crawlQueue \in Seq(Entry)
  /\ Len(crawlQueue) <= Cardinality(Relays)
  /\ visited \subseteq Relays
  /\ crawlInProgress \in BOOLEAN
  /\ relayIndex \in [Relays -> {"absent", "unknown", "healthy", "offline"}]
  /\ entityIndex \subseteq Indexable \ PrivateOnes
  /\ crawlPc \in [Crawls -> CrawlSteps \cup {"idle", "created", "over"}]
  /\ current \in Entry \cup {NoEntry}
  /\ asked \subseteq Relays

CrawlInit ==
  /\ crawlQueue = <<>>
  /\ visited = {}
  /\ crawlInProgress = FALSE
  /\ relayIndex = [r \in Relays |-> "absent"]
  /\ entityIndex = {}
  /\ crawlPc = [c \in Crawls |-> "idle"]
  /\ current = NoEntry
  /\ asked = {}

-----------------------------------------------------------------------------
Queued == {crawlQueue[i].relay : i \in DOMAIN crawlQueue}

To(relays, depth) == {[relay |-> r, depth |-> depth] : r \in relays}

\* Of entries that come in no order worth telling, one for each relay that is
\* neither visited nor queued joins the queue.
Enqueue(entries) ==
  LET new == {e \in entries : /\ e.relay \notin visited \cup Queued
                              /\ e.depth <= MaxDepth}
      once(s) == \A d, e \in s : d.relay = e.relay => d = e
  IN \E s \in SUBSET new :
       /\ once(s) /\ \A e \in new : \E d \in s : d.relay = e.relay
       /\ \E order \in SetToSeqs(s) : crawlQueue' = crawlQueue \o order

Listed(relays) ==
  [r \in Relays |-> IF r \in relays /\ relayIndex[r] = "absent" THEN "unknown"
                                                                ELSE relayIndex[r]]

\* register_relay: add_seed_relay alone, which starts no crawl
RegisterRelay(r) ==
  /\ relayIndex' = Listed({r})
  /\ Enqueue(To({r}, 0))
  /\ UNCHANGED <<visited, crawlInProgress, entityIndex, crawlPc, current, asked>>

\* trigger_crawl: its seed relays, and a task
TriggerCrawl(c, seeds) ==
  /\ crawlPc[c] = "idle"
  /\ crawlPc' = [crawlPc EXCEPT ![c] = "created"]
  /\ relayIndex' = Listed(seeds)
  /\ Enqueue(To(seeds, 0))
  /\ asked' = asked \cup seeds
  /\ UNCHANGED <<visited, crawlInProgress, entityIndex, current>>

-----------------------------------------------------------------------------
\* The queue's first relay not visited, or the end of the crawl: nothing is
\* awaited between the look at the queue and crawl_in_progress.
Due == {i \in DOMAIN crawlQueue : crawlQueue[i].relay \notin visited}

TakeNext(c) ==
  \/ /\ Due = {}
     /\ crawlQueue' = <<>>
     /\ crawlInProgress' = FALSE
     /\ crawlPc' = [crawlPc EXCEPT ![c] = "over"]
     /\ UNCHANGED <<visited, relayIndex, current>>
  \/ \E i \in Due :
       /\ \A j \in Due : i <= j
       /\ crawlQueue' = SubSeq(crawlQueue, i + 1, Len(crawlQueue))
       /\ crawlInProgress' = TRUE
       /\ current' = crawlQueue[i]
       /\ visited' = visited \cup {crawlQueue[i].relay}
       /\ relayIndex' = Listed({crawlQueue[i].relay})
       /\ crawlPc' = [crawlPc EXCEPT ![c] = "info"]

\* run_crawl, unless one runs: that one serves the queue
RunCrawl(c) ==
  /\ crawlPc[c] = "created"
  /\ IF crawlInProgress
       THEN /\ crawlPc' = [crawlPc EXCEPT ![c] = "over"]
            /\ UNCHANGED <<crawlQueue, visited, crawlInProgress, relayIndex,
                           current>>
       ELSE TakeNext(c)
  /\ UNCHANGED <<entityIndex, asked>>

\* after the pause
NextRelay(c) ==
  /\ crawlPc[c] = "sleep"
  /\ TakeNext(c)
  /\ UNCHANGED <<entityIndex, asked>>

CrawlGo(c, from, to) ==
  /\ crawlPc[c] = from
  /\ crawlPc' = [crawlPc EXCEPT ![c] = to]
  /\ UNCHANGED <<visited, crawlInProgress, current, asked>>

\* /.well-known/mesh-node of the relay: an error is passed over.
FetchInfo(c) ==
  /\ CrawlGo(c, "info", "entities")
  /\ UNCHANGED <<crawlQueue, relayIndex, entityIndex>>

Hinted(entities) == UNION {HintsOf[e] : e \in entities}

\* Mistake: private ones are indexed too.
CrawlAllEntities(c) ==
  LET found == EntitiesAt[current.relay] IN
    /\ CrawlGo(c, "entities", "links")
    /\ entityIndex' = entityIndex \cup found
    /\ Enqueue(To(Hinted(found), 1))
    /\ UNCHANGED relayIndex

\* index_entity puts the hints of an entity at depth 1, however deep it was
\* found, and passes a private one over; the hints of that one are then queued
\* a level further down.
CrawlEntities(c) ==
  LET found  == EntitiesAt[current.relay]
      public == found \ PrivateOnes
  IN /\ CrawlGo(c, "entities", "links")
     /\ entityIndex' = entityIndex \cup public
     /\ Enqueue(To(Hinted(public), 1) \cup To(Hinted(found), current.depth + 1))
     /\ UNCHANGED relayIndex

\* A relay that gives an error for the answer is left at that, and indexed as
\* healthy; so are groups, which are asked for under a name no relay uses.
FetchNothing(c) ==
  /\ CrawlGo(c, "entities", "links")
  /\ UNCHANGED <<crawlQueue, relayIndex, entityIndex>>

\* Mistake: the error ends the crawl.
FetchRaises(c) ==
  /\ crawlPc[c] = "entities"
  /\ crawlPc' = [crawlPc EXCEPT ![c] = "over"]
  /\ crawlInProgress' = FALSE
  /\ relayIndex' = [relayIndex EXCEPT ![current.relay] = "offline"]
  /\ UNCHANGED <<crawlQueue, visited, entityIndex, current, asked>>

\* One that does not answer is offline, and stays visited.
FetchFails(c) ==
  /\ CrawlGo(c, "entities", "sleep")
  /\ relayIndex' = [relayIndex EXCEPT ![current.relay] = "offline"]
  /\ UNCHANGED <<crawlQueue, entityIndex>>

\* _discover_entity_relay of a link's target that is not indexed: the first
\* known relay that has it
DiscoverEntity(c, e, r) ==
  /\ CrawlGo(c, "links", "links")
  /\ current.depth < MaxDepth
  /\ e \in TargetsAt[current.relay] \ entityIndex
  /\ relayIndex[r] # "absent" /\ e \in EntitiesAt[r] \ PrivateOnes
  /\ entityIndex' = entityIndex \cup {e}
  /\ Enqueue(To(HintsOf[e] \cup {r}, 1))
  /\ UNCHANGED relayIndex

LinksOver(c) ==
  /\ CrawlGo(c, "links", "peers")
  /\ UNCHANGED <<crawlQueue, relayIndex, entityIndex>>

FetchPeers(c) ==
  /\ CrawlGo(c, "peers", "save")
  /\ \/ Enqueue(To(PeersOf[current.relay], current.depth + 1))
     \/ UNCHANGED crawlQueue
  /\ UNCHANGED <<relayIndex, entityIndex>>

\* The relay's row is saved.
SaveRelay(c) ==
  /\ CrawlGo(c, "save", "sleep")
  /\ relayIndex' = [relayIndex EXCEPT ![current.relay] = "healthy"]
  /\ UNCHANGED <<crawlQueue, entityIndex>>

CrawlStep(c) ==
  \/ RunCrawl(c) \/ NextRelay(c)
  \/ FetchInfo(c) \/ CrawlEntities(c) \/ FetchNothing(c) \/ FetchFails(c)
  \/ \E e \in Indexable, r \in Relays : DiscoverEntity(c, e, r)
  \/ LinksOver(c) \/ FetchPeers(c) \/ SaveRelay(c)

CrawlNext ==
  \/ \E r \in Relays : RegisterRelay(r)
  \/ \E c \in Crawls :
       \/ \E seeds \in SUBSET Relays : TriggerCrawl(c, seeds)
       \/ CrawlStep(c)

\* The event loop runs every task, and a fetch answers or times out.
CrawlFairness == \A c \in Crawls : WF_crawlVars(CrawlStep(c))

-----------------------------------------------------------------------------
(***************************************************************************)
(* Properties.                                                             *)
(***************************************************************************)

\* Every relay that a crawl was asked for is visited in the end, though the
\* crawl may find another one running and leave the queue to it, just as that
\* one ends.  (Neither set ever shrinks, so this says the same as a ~> for
\* every relay.)
SeedsAreCrawled == <>[](asked \subseteq visited)
=============================================================================
