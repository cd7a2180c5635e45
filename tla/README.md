# MESH: verification project

TLA+ models of the MESH social network's servers, checked with TLC and proved
about with TLAPS. Source paths are relative to `src/`.

## The system

A relay node (`app/server/main.py`) keeps users, contents and links in one
sqlite database, and for each user a log of signed events: every write is to
append one, and peers pull the log. A second server (`app/server/server_v2.py`,
with `app/server/protocol.py`) does the same with a DAG of events instead of a
chain. Around them stand a discovery indexer, five small services and web
clients, and beside them, in `implementations/` and `simulators/`, the stores and
simulators of earlier versions of the protocol. All servers are asyncio processes: a handler runs alone until it
awaits, and then any other may run.

### Inventory

| Component | State | Operations | Talks to |
|---|---|---|---|
| Relay log and write handlers, `main.py` 205-520, 764-1165 | tables `entities`, `content`, `links`, `log_events`, `log_heads` on ONE shared connection | create/update entity, create/delete content, create/delete link, each ending in `append_log` | push (`broadcast_event`) |
| Relay event export, `main.py` 2512 | none | `sync_entity`: an actor's events since a seq | peers (HTTP) |
| Relay friends, `main.py` 1230-1445 | two `friend` rows per friendship, one `friend_request` row per request | send (accepts if the other has asked), accept, reject, remove | |
| Relay groups and moderation, `main.py` 1475-1960 | `member` rows with a role in JSON, `owner` in the group's profile, bans | create, join, leave, promote, demote, transfer, kick, ban, moderate | the link handlers, which write the same rows |
| Relay authentication, `main.py` 680-760 | `challenges`, `sessions`: dictionaries in memory | challenge, verify, require_auth | every handler |
| Relay publications, subscriptions, `main.py` 1964-2407 | rows | publications with a handle, articles, subscribe, cancel, paywall | Stripe |
| Relay federation, `main.py` 2410-2987 | `known_nodes` in memory, imported rows | export and import of entities, content, links; peers that register with each other | peers |
| Relay push, `main.py` 3225-3270 | `websocket_connections` in memory | connect, subscribe, disconnect, broadcast | clients |
| Relay reads, `main.py` | none | lists, conversations, notifications, trending, feed: one query and then a lookup for each row | clients, peers |
| DAG server write path, `server_v2.py` | tables `entities`, `content`, `links`, `events`; `storage.dag` in memory | create entity/content/dm/link, delete link, merge forks | |
| DAG server users, `server_v2.py` | `challenges`, `sessions` in memory; `device_keys`, a column | challenge, verify, add device key | |
| DAG protocol library, `protocol.py` | none | DAGStore, lamport clock, ids, LWW merge, sync diff, attestation resolution | |
| Discovery indexer, `discovery.py` | `crawl_queue`, `visited_relays`, indexes in memory and sqlite | index, crawl, resolve, background crawl | relays (HTTP) |
| Mesh library, `implementations/mesh/` | tables, a cache of views | `append_log` by number, chain validation, fork detection, views | |
| Identity vault, `services/identity-vault/` | users, sessions, magic links, devices, encrypted keys | register, login, magic link, store keys, devices, recovery | mail |
| Payments, `services/payments/` | products, subscriptions, payouts | checkout, webhook, cancel, refund, onboarding, payout | Stripe |
| Media, `services/media/` | files on disk, rows, quota counters | upload, get, delete | |
| Notification, `services/notification/` | rows, `ConnectionManager.active` | create and deliver, mark read, websocket | clients |
| Moderation, `services/moderation/` | rows | label, revoke, trust a labeler, report, filter | |
| Web clients, `app/client/src/lib`, `identity-vault/client.py` | keys in memory | sign up, sign in, link a device: calls of the vault and the relay in turn | vault, relay |
| Legacy stores, `implementations/legacy/` | tables; a cache of views | identities, appends, versioned rows, channels, feed reduction, view execution | |
| Simulators, `simulators/legacy/` | stores in memory, what agents remember | ticks of agents, feeds and views with recomputation, replication with losses | |

### What is hard

*One connection, many handlers.* `aiosqlite` runs the statements of all
handlers one after the other in one thread, on one connection. There is no
transaction per handler: each statement sees what others have not committed,
and a commit by anyone makes durable half of what someone else is writing. A
crash returns to the last commit of anyone. Nearly every handler checks
something in one await and acts on it in a later one. `PROJECT.json` lists the
40 places where this or a lost, repeated or reordered call can bite ("hazards").

### What makes each part correct

* Log: an actor's events are one gapless chain, before and after a crash; what
  was answered is durable, at a place of its own; history only grows; the
  tables are what the log says.
* Export: what a peer was given stays true.
* Friends: nobody becomes a friend unasked; friendship is mutual.
* DAG: what was answered keeps its event, posts of two devices included; the DAG in
  memory agrees with the disk; no actor is locked out of its log.
* Groups: the only owner is the one on record, and gives the group away itself;
  who left, was kicked or banned is out until it comes back itself.
* Accounts: an entity at the relay can be taken up again from the vault; what the
  vault answered it keeps; a link gives one session; two entities of one handle
  were created at once.
* Logins (DAG server): a challenge opens one session; the right key gets in;
  devices that were added stay.
* Payments: who no longer pays has no access; the customer, cancellations and
  payouts are Stripe's.
* Publications: one active subscription; the paywall honours what was answered.
* Media: rows, files and quotas agree.
* Moderation: the filter honours labels, trust and revocations that were answered.
* Push: who listens is sent each event once; what was pushed is kept.
* Federation: what was removed stays removed; imports bring only what is public; a
  node knows the peers it has answered for.
* Reads: nobody is shown what was deleted, is private, or is between others.
* Crawler: a relay a crawl was asked for is visited.
* Stores and simulators: logs are chains, acknowledged writes last, and whoever
  recomputes a feed or a view gets what was claimed.

## Modules

| Module | Models |
|---|---|
| `AppendOnlyLog` | What either server promises of an actor's history: a sequence that grows only at its end. |
| `RelayLog` | The relay's write handlers and `append_log`. Implements `AppendOnlyLog`. |
| `RelaySync` | `RelayLog` composed with the peers that call `sync_entity`. |
| `RelayFriends` | The friend handlers. |
| `RelayGroups` | One group: founding, membership, roles, transfer, bans. |
| `DagLog` | The second server's write handlers, `append_event` and `DAGStore`. Implements `AppendOnlyLog`. |
| `RelayLogProofs`, `DagLogProofs`, `RelayFriendsProofs`, `RelayGroupsProofs`, `NetworkProofs`, `ServicesProofs`, `StoreProofs`, `PlatformProofs` | Theorems and proofs. |
| `Clients`, `Vault`, `RelayAuth` | Who calls for an account; the vault; the relay's challenges, sessions and handles. |
| `Accounts` | `Vault` composed with `RelayAuth` by the programs that clients run. |
| `DagUsers` | Logins and device keys of the second server. |
| `Payments` | The payments service with Stripe behind it. |
| `Media`, `Moderation` | The services of these names. |
| `RelaySim`, `ViewSim`, `HolonSim`, `ReplicaSim` | The simulators relay_v1.4.1, relay_v2, holon_v4 and holon_v3. |
| `StoreJobs` | Requests that share a store's connection, and what any store promises. |
| `Stores` | The stores of relay_v1.4.1, relay_v2 and mesh, and the engines that read them, over `StoreJobs`. |
| `Services` | One of accounts, second server, payments, media, moderation. |
| `Platform` | One simulator, one store or one of `Services`. |
| `RelayPublications` | Publications, the article, subscriptions, the paywall. |
| `RelayPush`, `Notification` | Pushes to sockets by the relay and by the notification service. |
| `Federation` | Imports between nodes; how nodes come to know each other. |
| `Crawler` | The indexer's crawl. |
| `RelayReads` | What the relay shows of what was posted. |
| `Network` | One of the parts of the last five lines. |
| `MC...` | Instances for TLC. |

### How a model follows the code

`db` is what every statement sees and `disk` what the last commit has covered.
`pc[r]` names the statement request `r` awaits next. One action is one awaited
statement, with the code that runs before the next await: its guard is the
handler's condition, an early `raise` a step to `"refused"` (4xx) or `"failed"`
(500). `BeginRequest` holds the handlers' first statements, `ContinueRequest`
the later ones, which handlers share where the code does (`CommitObject`,
`ReadHead`, ..., `CommitLog` end all of `create_content`, `create_link` and
`delete_link`). `CommitElsewhere` is the commit of any handler that is not
modelled, `update_entity` for one. `Crash` stops the process: `db` returns to
`disk`, requests under way are `"lost"`.

* `RelayLog`. An event id is `sha256(actor:seq)`, so the key of `log_events` is
  the pair, `prev` a seq, and a `log_heads` row one number. `prev[r]` and
  `seq[r]` are the handler's variables. Handles are left out.
* `DagLog`. An event id is a hash of actor, lamport and parents: the triple. The
  DAG changes in the event loop and the tables in the connection's thread, so
  `BuildEvent` and `IndexEvent` are steps of their own beside the statements.
  `LoadDag` is `_load_dag`, run at start-up.
* `RelayFriends`. A row tombstoned and a row absent are one (`INSERT OR
  REPLACE`). `mixed` is a history variable: pairs of users two of whose
  requests overlapped, or one of whose was cut off by a crash. Rows of these
  kinds are taken to be written by these handlers only, as the client does:
  `POST /api/links` accepts any kind, and federation imports links as they are.

* `RelayGroups`. One public group. `db.owner` is the owner in the profile, empty
  while there is no group; a member is a row with a state and a role, admin and
  moderator being one. A tombstoned row stays a row: it keeps its role, takes
  updates and refuses an insert. `mixed` says that a transfer overlapped another
  request of authority (promote, demote, transfer, kick, ban) or was cut off by
  a crash. A member's row is a link, which its user may also post and delete
  (`Link`, `Unlink`; `main.py:1066-1165`), as `specs/DISCOVERY_LAYER.md:579` has
  clients join: a tombstoned row is then revived with the role it had. Such a
  request is taken to carry no data, as there. `overtaken` names the kicks and bans
  that passed their check while their target, the owner, was away. Rows that
  imports bring are in `Federation`.

* `Accounts`. A caller is one run of a client that goes through a program
  (`signup`, `signin`, ...), stops at the first refusal, and may stop anywhere.
  A key is named by who made it. An id is a hash of a key, and which hash is
  kept: the web client's `vault.ts` cuts SHA-512 where `client.py` and the relay
  cut SHA-256.
* `DagUsers`. `dagChallenge[u]` is the one challenge of an entity. `visit[v]`
  keeps what request `v` has read, and which others it overlapped.
* `Payments`. A call of Stripe blocks the process, so it is one step with the code
  around it; `stripe` survives a crash. Events are delivered in any order, up
  to `MaxDeliveries` times each.
* `Media`. Files change in place; rows and quotas go with the transaction.
* `Moderation`. `Filter` reads first whom the viewer trusts and then the labels.
* `RelayPush`. The loop goes by position through the list of sockets, which
  others change while a send is awaited. `Notification` copies the set first.
* `Federation`. `todo[r]` is what an import has yet to look at; each item is a
  lookup and an insert of its own. The three ways of importing differ in what
  they take and in what they do with a key. For peers, `Tell` is the POST of one's
  own address: the other takes it or answers with an error, and `Told` goes on either
  way, as nobody looks at that answer's status (`main.py:2454-2461`; after the GET, 2442
  does); `TellFails` is a request or an answer lost. `told` holds who was answered
  "registered" or "connected", `met` whose registration was taken.
* `Crawler`. One step is one fetch with what its answer adds to the queue.
* `RelayReads`. `page` holds the rows a list's query found and that
  `get_content` has not yet been called for.
* `StoreJobs`. A request is a script, `job[r].todo`, of the statements it awaits;
  `At(r, s)` says that `s` comes next. What the script is, and what a statement
  does, is in `Stores`. `job[r].met` are requests that ran while `r` did. A view
  that is executed for another goes on top of `job[r].read`, with what is left to
  do for the other in `rest`.
* Simulators. They are one thread: a step is one act of an agent in a tick, or the
  turn of all agents where their order does not matter. Random draws are
  choices, and one execution or reduction of a view is one claim that is
  recomputed in every later state.

The parts of `Platform` and of `Network` share no state: each is a process
with a database of its own, or tables no other part reads. `service`, `library`
and `part` choose in the initial state which of them runs, and the rest stands
still, as in its initial state: a step of `Platform` is a step of `Services` or
leaves it alone, and the same of each simulator and of the stores (`PartsStep`). So one run checks each on its own, against the
property that is about it.

`RelayLog` and `DagLog` are about the rows their own handlers write. Friends,
groups and federation imports write `entities`, `content` and `links` too, never
`log_events`, and append no event: the properties of the log hold beside them,
while `StateIsDerived`, `NoUnloggedDelete` and the rows named in
`AckedIsDurable` are claims about posts, links and accounts that only the
modelled handlers touch. An import can bring a deleted content back, for one
(`main.py:2930`).

Ids that are hashes are taken to be collision-free. That a session belongs to
its user is assumed (`Authenticated` keeps the database check).

## Runs

| Run | Shows |
|---|---|
| `relay_contended` | Any interleaving of three requests of one user with several tabs, and of two registrations of another, with a crash: `ChainSound`, `HeadTrails`, `AckedIsDurable`, `AckedOwnPlace`, `NoUnloggedDelete`, and the refinement `AppendOnly`. |
| `relay_serial` | Two users who each wait for an answer before the next write: `StateIsDerived`, the log replays to the tables, and `HeadCatchesUp`, `log_heads` reaches every event. |
| `dag_contended` | Three requests and a crash on the DAG server: `SingleHead` (events on the same heads collide: see `both_posts`), `IndexFollowsDisk`, `AckedKeepsEvent`, `NeverStuck`, `AppendOnly`. |
| `friends` | Four of all the requests two users can send each other, one of them twice, and a crash: `Consented`, `FriendsAreMutual`, `OneStateOfAPair`, `CrashSparesAnswered`. |
| `groups` | Any three requests of a founder, a member and an outsider, their own links to the group included, from a group that exists (with or without an admin) or from none, and a crash: `OwnerOfRecord`, `OwnerResigns`, `ReturnsByOwnLink`. |
| `services` | Accounts and logins, each service, simulator and store by itself, with a crash: see below. |
| `network` | Publications, pushes, imports, peers, the crawl and the reads, each by itself: see below. |
| `every_write_logged` | violated: two overlapping posts, both contents committed, one event refused. |
| `events_immutable` | violated: a peer reads an uncommitted event; after a crash its id goes to another. |
| `friends_mutual` | violated: an accept and a remove overlap, one direction stays. |
| `rejoin` | violated: a member leaves, joins, is told "joined" and is none. |
| `both_posts` | violated: a user posts from two devices at once; the second event is refused and its post is in no log. |

`services` is an instance of `Platform` and checks:

* `EntityRecoverable`: the relay has no entity whose keys are nowhere, wherever a
  client stops and whatever crashes. `AnswersAreDurable`: accounts, logins, links,
  keys and logouts the vault has answered are kept.
* `LoginsHold`: a magic link gives one session and a challenge one; of those who
  log in to one entity at once somebody gets in; right keys log in; added devices
  stay; two entities of one handle were created at once.
* `BillingAgrees`: once the end of a subscription is answered there is no access
  by it; a subscriber is one customer; what is canceled here is not billed;
  payouts on record were transferred.
* `MediaIsConsistent`: rows are files and quotas their number.
  `FilterHonoursAnswers`: labels, revocations and trust answered before the
  filter was asked count, though it reads in two statements.
* `ClaimsRecompute`: feeds and views recompute to what was claimed, for as long as
  their boundary holds. `RecordsAgree`: what agents remember is in the store,
  actions have their request and commitment, replicas follow the primary.
* `StoresSurviveOverlap`: acknowledged writes last, versions rise, logs are chains,
  heads lead, channels have owners, caches are true, executions agree.

`network` checks:

* `ReaderGetsItsDue`: one active subscription, a paywall that honours what was
  answered, dated publication.
* `PushesArrive`: no socket is sent an event twice; sockets that stay get it, but
  for one for each that left the live list meanwhile; a notification heard of is
  stored; "undelivered" means that nobody got it.
* `NodesKeepTheirSay`: what a moderator removed or a user unlinked no import brings
  back; no import brings a post that is not public to a node it was not made at (this is
  about imports: `GET /api/federation/sync/{entity_id}` hands out an actor's events, and
  those carry private posts too); a node that answered "registered" knows the peer, and
  the peer knows it if it took the registration.
* `ReadsAreTrue`: nobody is shown what was deleted before it asked, nor another's
  message; lists have nothing removed or private.
* `SeedsAreCrawled`: a relay that a crawl was asked for is visited in the end,
  though a crawl that finds another running leaves the queue to it.

Where the code is known to break such a promise under overlap or a crash, a history
variable names exactly the requests concerned, and the property excludes them
and nothing else: `raced` (two openings of one link), `rivals` (two entities of
one handle at once), `expired`, `replayed` (events out of turn), `billedOn`
(Stripe refused to cancel), `tangled` (overlapping requests about one file or
owner), `clicked` (a click between another's look and insert), `leavers`, `met`,
`past` and `cut` (what a request overlapped, came after, and whether a crash cut
it off). `due` and `owed` keep what was answered when a read began.

The five violations are the "findings" of `PROJECT.json`, each with the line
of the repository that says otherwise.

Further things the models show. (1) A crash after a commit that came
between an event and its `log_heads` row (`HeadTrails` allows just this) leaves
the actor's head one behind, and every later append of the actor fails on the
taken place: nothing repairs it at start-up. (2) The protocol lets a log fork when a user writes from two devices, and
merges the heads (`specs/MESH_PROTOCOL_v1.1.md:287`, `server_v2.py:6`). In the
code two requests that build on the same heads build the same id, and one is refused
with a 500 while its content stays. So `SingleHead` holds, but for the wrong
reason: the run `both_posts` violates `BothPostsPreserved`, what the merge rules
promise of this case, and the branch of `merge_forks` that merges is never taken.
(3) Durability and order of the *answered* writes hold in spite of the shared
connection, because every handler ends with a commit of its own. (4) What keeps a kicked or banned user out of a group is the tombstone of its
membership row, and not the ban row, which no handler reads. Join does not get past the
tombstone and unban does not lift it, but `POST /api/links` by the user itself does
(`main.py:1090`), and the row has its old role again: `ReturnsByOwnLink` says that
this is the only way back. (5) The check of the owner and
the writes of a transfer are awaits apart. Two transfers that overlap can leave
two owners, and a kick that overlaps a transfer, or the owner's own return by a link,
can remove the owner:
`OwnerOfRecord` and `OwnerResigns` hold of everything else, and `mixed` and
`overtaken` exclude exactly this. What came up with the other parts is listed under "Observations".

### Bounds

`MaxRequests` bounds the requests started in one behaviour and `MaxCrashes` the
crashes. `Requests` is the set to choose from, so TLC tries every choice and
order. Three requests are one more than any race in these handlers needs: two
that race, and one more to commit for them or to come after the crash; the
friends need four, to become friends and then race. A group that is there from
the start, as well as none, leaves all three requests of `groups` to the races. One crash suffices because
the state after it is again an initial one with other tables. Two actors show
that logs are independent; one starts unregistered so that genesis events race
too.

`services` and `network` are unions of scenarios, each a small set of requests that
can race (`MCPlans`, `MCDagTraffic`, `MCPayTraffic`, `MCMediaTraffic`,
`MCModTraffic`, `MCStoreTraffic` and the scenarios of the simulators), in any
order and interleaving: up to five requests of which two make a race, and the
others come before or after it. Where a part is given all its requests, a
bound limits how many start: 3 for media, 4 for moderation (of two labelers one
only labels and is trusted), 5 and the read for publications (a founding, an article,
two subscriptions of two tiers, a cancellation and the paywalled read, or an edit for
one of the clicks; the article starts as one for paying readers, and edits
open it), `MaxActs` 3 for imports,
deletions and crashes between two nodes, `MaxReadActs` 4 for a read. Stores run
two requests at a time (`MaxTogether`): a third running one only repeats what
either of the others is to the first. Each part has one crash, peers two, since each node must be
able to stop once. Simulators run one or two ticks, which is an act and one
that builds on it, with logs and limits cut to one or two entries so that they
are reached. Three relays and depth 1 give the crawl a hint, a link and a gossip
to follow and one relay too deep.

`CHECK_DEADLOCK FALSE`: requests run out, and the model then stops.

### Fairness

Two properties need it. `HeadCatchesUp`: weak fairness of `ContinueRequest(r)` for each
request. `aiosqlite` takes statements from a queue in order, and these handlers
wait for nothing else, so a statement awaited is executed. Starting requests,
commits elsewhere and crashes are not fair. The run has no crash: after one
inside `append_log` the head never catches up (see above). `SeedsAreCrawled`:
`CrawlFairness`, weak fairness of the steps of each crawl. The event loop runs
every task that is ready, and a fetch answers, fails or times out. That a crawl
is triggered is not fair; that nothing is fetched twice (`visited`) ends it. As `asked`
and `visited` only grow, it is stated of the whole sets at once, which TLC checks faster.

## Proofs

For every set of actors, contents, requests and every bound:

* `RelayLogProofs`: types, `ChainSound`, `HeadTrails`, and `Spec => AppendOnly`.
  `ChainSound` is not inductive. `LogInv` adds that all places up to the head
  are taken, at most one beyond is, and only one request is about to write that
  head. The step that matters is `InsertEvent`: `append_log` compared the head
  some awaits ago, but an event beyond a stale head hits the primary key.
  The refinement maps a log to the sequence of its durable events and shows
  that every step publishes or stutters.
  There too `AckedOwnPlace`, `NoUnloggedDelete`, `AckedIsDurable`, from
  `AckInv` (where the event of a request is at each statement), `ObjectInv` (the
  same for the object) and `DeleteInv` (deleted rows stay away).
  `StateIsDerived`, up to the first crash, of users who wait for an answer before they
  write again (`SerialNext`), from `SerialInv`: of a user's objects at most the one
  its request is about has a row that is not what the log says, and `Midway` says,
  for each statement of the request, which of the two is ahead. That the head it has
  read stays the head is why nothing refuses the event after the row is written.
* `DagLogProofs`: types, `SingleHead` (which a collision of ids brings about, see above), `IndexFollowsDisk`, `AckedKeepsEvent`,
  `NeverStuck`, and `Spec => AppendOnly`. The invariant `DagInv` says that any event
  not yet in the DAG, drafted or inserted, was built on the present heads or has
  an id that is taken. It includes the shape of the DAG that makes `_load_dag`
  rebuild the same single head after a crash. For the refinement, `PlacesInv` says
  at which place each event is, so that a commit adds to the durable log the
  next place and nothing below it.
* `RelayGroupsProofs`: types and all three properties of the `groups` run.
  `OwnerOfRecord` is not inductive: `OwnerInv` says, for each statement a request
  waits for, who can own the group meanwhile (nobody between a transfer's two
  role updates, the old owner before them, the requester while a promotion is
  pending), and needs `GroupInv`, that nobody has authority before the founder's
  row is there. `OwnerResigns` follows from `OwnerInv`, `ReturnsByOwnLink` from
  `AwayInv`: a row that is tombstoned on the disk and not on the connection was
  revived by a link that has yet to commit.
* `RelayFriendsProofs`: types and all four properties of the `friends` run.
  For `Consented`, `ConsentInv` speaks of requests past their last chance of
  refusal (`Meant`) rather than of those answered, and holds of the disk too, to
  which a crash returns. The others are about pairs that are not `mixed`:
  `TurnsInv` says that at most one request of such a pair is at work, and which
  rows are there at each of its statements; `SavedInv`, that the disk has what the
  connection has when none is.
* `NetworkProofs`: all safety properties of the `network` run, from one invariant
  for each part (`NetInv`). `ReaderGetsItsDue`: two clicks not `clicked` cannot both be past
  their look (`PubInv`), and a row stays what its answer said. `PushesArrive`: a
  broadcast's position in the live list has passed over at most as many that stay as
  have left (`LossSound`); each removal shifts the tail by one, and
  whoever comes joins at the end (`PushInv`); for the notification service, what a socket that is
  up was promised has come or is still in the copied set (`NoticeInv`).
  `NodesKeepTheirSay`: whatever an import has yet to insert was made somewhere and
  is not private, and an item with a row is nothing to it (`FedInv`); a node that is
  about to tell another, or has told its client so, has noted it until it restarts
  (`PeerInv`). `ReadsAreTrue`: what was deleted
  when the read began is deleted when a row's lookup comes (`ReadInv`). The type
  invariant bounds the crawl's queue: `QueuedOnce`, a relay is queued at most once.
* `ServicesProofs`: `EntityRecoverable`, `AnswersAreDurable` and `LoginsHold` from
  `AccInv` (see below) and `DagUsersInv` (the challenge a login has found is one it was
  issued, and among those who overlap one still has it); `BillingAgrees` from
  `PayInv` (a row's state is what the history of its events says, and becomes active once);
  `MediaIsConsistent` from `MediaInv` (of files and owners that are not `tangled`
  one request at a time is between the file and its row, or the row and its quota;
  quotas are cardinalities); `FilterHonoursAnswers` from `ModInv`; and the types.
  `AccInv` is the invariant of clients, vault and relay together.
  The three properties it serves speak of calls that are over and need, for every
  statement a request can be at, what the database holds then: which call it is at
  work for (`StageInv`), whose account and row it has found (`UserInv`, `ArgInv`),
  which link is spent where (`LinkInv`), whose session it is (`SessionInv`), who
  else opens the same link (`RaceInv`), which keys are on the connection and on the
  disk (`KeyInv`), and that an entity's keys were stored first (`EntityInv`). That a
  client calls in the order of its program, and stops at the first refusal, is
  what carries the vault's answers over to the relay (`CallsInOrder`). The lemmas
  `Does...` and `Begin...` say what a statement and a call change, and each part
  of the invariant is shown from them.
* `StoreProofs`: `StoresSurviveOverlap`, of all three stores. Where a request is in
  its script is read from its end (`Left(r)` statements are to come), which makes
  one lemma per kind of request of what a statement does (`AppendsDo`, `PutsDo`, ...).
  `WriteInv` is about writes: an event is there from its insertion on, by an append
  that goes on, was answered or was lost (`EventsInv`); the disk has a log as it is
  when no append writes it (`SavedInv`); numbers handed out are used once (`CountsInv`);
  forks come of overlaps (`TipsInv`, `ForksInv`); in Mesh the head is at most one
  behind, and then an append is between its two writes or was lost there
  (`LeadInv`). `ReadInv` adds what was read: `Stands(rd)` says
  that a reading has of its logs everything but what an append under way or lost has put
  beyond the heads it saw. It is kept by every step, crashes included; what is
  collected is `FreshOf` its logs while no append overlaps, and stands from the
  moment it is complete. That of a kept result whose version is a row's the
  definition is the row's needs the same of every copy an execution holds (`VersInv`).
  The types (`StoresWellTyped`) need `EventsInv` too: the event is there before
  the head names it, on disk as well, for a commit saves the tables as they stand.
* `PlatformProofs`: the simulators, one inductive invariant each, and all of
  `Platform`.
  - `ReplicaSim` (`RepInv`): a store holds with a reaction what it is about, and a
    cursor that stands where its relay does has copied all of it (`RepCounted`;
    a replica's numbers count its objects); a list names only what has a
    live link (`OnRecord`).
  - `RelaySim` (`RelaySimInv`): logs are in the order of their timestamps, by which
    an actor is at most two ahead of the tick, so that an append changes the head
    and a claim whose heads are those of now saw these logs (`Bounded`);
    what an agent answers was asked for (`RequestsKept`).
  - `ViewSim` (`ViewSimInv`): the range of a claim ends at a time that is over
    (`ClaimsEnd`), and nothing that is logged later is in it. Views are over views,
    and what they collect is a recursive function: it has values
    (`Solvable`) and only one solution (`Determined`), because a view names views that
    were there before it.
  - `HolonSim` (`HolonInv`): what a view answers depends on the contents of its
    groups and on what is about them (`ClaimOK`); contents and links only grow, and
    growth that touches none of it keeps the rows (`RowsStay`) and their
    rank (`RankedAre`, `TopIdsAre`); a list an agent keeps is the targets of its links in
    order, without repetition (`Remembered`).
  - `ClaimsRecompute` and `RecordsAgree` follow, and with the types of services
    and stores `PlatformTypeOK`. `PartsRun`: a behaviour of `Platform` is one of
    `Services` and one of the stores, so their theorems hold of it
    (`ServicesHoldHere`, `StoresSurviveHere`).

Assumptions, each as the code has it:

* Requests are well formed (`RequestsAssumption`, `FederationAssumption`, ...): a user
  writes links from itself, nobody befriends himself, a group is founded once, the
  kinds of items are disjoint. `PushAssumption`, `CrawlerAssumption`: finitely many
  sockets and relays (the proofs count them). `PaymentsAssumption`, `MediaAssumption`: the
  value for "nobody" is no customer and no owner.
* `FreshContentIds`: a content id hashes author, body and microseconds, so that no
  two posts share one. `DagUsersAssumption`: a challenge is 32 random bytes
  (`secrets.token_hex`), so that no two logins of a user get the same; the root key is not
  among the keys that are added. `StoresAssumption`: what is asked of a store is of its
  kinds, and in Mesh an event's id is a hash of its actor and number.
* The simulators: finitely many actors and groups, feeds are numbered, the primary is
  not one of its replicas, no actor is a view (`RelaySimAssumption`, `ReplicaAssumption`,
  `ViewSimAssumption`). `HolonAssumption`: a group is created under one that exists
  (`run_simulation.py:67` looks the
  parent up among the groups created so far), so that `CreatedAs` rises from parent to child.
* `DistinctIds`: users, contents and links have ids of different shapes (`ent:` and
  a hash, hashes cut to 48 and to 32 digits).

TLC evaluates them all in the runs of their modules.

Some definitions were given another form for the proofs, with the same meaning: in the
simulators nested feeds (`Reduced`), views (`Collected`) and groups (`Generations`) as
recursive functions, a stable sort as an order on where things are come to (`Above`),
a log cut to its first events by counting those before (`ActorLog`);
`GetArticle` in `RelayPublications` (the branches of the paywall as IF), `Due` in
`Crawler` (the front of the queue as a subsequence), and in `Stores` the statements
that follow a definition (one for each source, which is followed by that of its head).

Model-checked only:

* `HeadCatchesUp` and `SeedsAreCrawled`: liveness, out of the prover's reach.
* What a crash may do to `StateIsDerived`: see the findings.

Every invariant of the runs that pass is stated by a theorem.

Induction over data is used only in one form. Feeds, collected views and
generations of groups are recursive functions over an order that is well founded
by the order things were created in. `LeastOf` (every set of
numbers has a least one, from `NaturalsInduction` and `WellFoundedInduction`) gives
that such a function satisfies its definition: look at the least argument
where no partial solution exists. What a fold or a sort computes for every input
is not proved, only what the properties need of it.

## Plan

The modelling planned is done, and so are the proofs. What could follow: the parts listed
under "Not modelled", and liveness once the prover reaches it.

## Observations

Met while modelling, and in the models unless stated otherwise.

* Vault. `vault.ts` declares `generateEntityId` twice, with SHA-512, so a web
  login on a second device asks for keys under an id the relay does not know. If the relay
  refuses the entity after the vault has stored its keys (handle taken), the
  account stays without entity. `revoke_device` deletes sessions by a
  `device_id` that `create_session` never sets.
* DAG server. Of two devices that post at once one gets a 500 (finding). A second challenge takes a login's away; a session whose challenge is
  gone raises after it was opened, and its token is lost. Two devices added at
  once lose one. Challenges never expire.
* Payments. A read of an uncommitted customer and a crash leave a session of a customer
  nobody knows (so `OneCustomer` is of behaviours without crash); `cancel`
  swallows Stripe's error; a webhook that is repeated makes a second active row.
* Media. Overlapping uploads exceed a quota; the second uploader of a file is
  told "exists" and does not own it; `delete` removes the file before it commits.
* Publications. Two clicks make two active subscriptions, and `get_article` reads
  whichever comes first. `stripe_webhook` (2359) has an untyped parameter and
  answers 422 always (not modelled).
* Federation. `POST /api/federation/sync` binds a dict for a content's body and
  fails; it stores an entity's key as text, on which the exports then fail. An
  author's deletion that overlaps a moderator's removal lets an import revive
  what was removed. `register_peer` answers "registered" though the peer refused the
  registration. `sync_entity` serves the events of private posts, whose payload is the
  whole content (912-928), while the content exports serve public ones only.
* Push. The list of sockets changes under the loop: a socket that leaves costs
  another its event.
* Reads. `get_notifications` does not look at tombstones of likes and follows.
  `get_feed` (1448) has fewer values than placeholders and raises always.
  `create_content` knows no access `friends` and stores it as `public` (890-894),
  though 83 says "Only visible to mutual friends" (`StoredAccess`).
* Indexer. It reads `groups` where the relay answers `items`. A failed relay stays
  `visited`. An entity turned private stays in the index. Nothing starts the
  periodic crawl.
* relay_v1.4.1's store. Appends that overlap fork a log, and so does a crash after
  another's commit; a channel whose creation was cut off has no owner for ever;
  an older version put at the same time can replace an acknowledged one.
* relay_v2's store. The boundary of a view over views names no heads, so its cached
  result stays after it is no longer true; `views.py:76` says "Same boundary + same
  definition = same result hash". An append between the read of a log and that
  of its head caches a wrong result.
* mesh. Ids hash actor and number, which excludes forks, but an event without its
  head after a crash shuts the actor out. Nothing sets a cache's expiry, so none
  is used. `detect_fork` compares those ids only, and nothing calls it.
* Simulators. In holon_v3 agents write to a primary that is down; leaving makes a
  second, tombstoned link and the first stays live. In relay_v2 reactions are events
  and engagement counts attestations, so "top posts" are in the order of time.
  In holon_v4 an agent that has verified all its platforms raises in its next
  attempt and ends the run.

## Not modelled

* Cryptography and user interfaces: libraries, and code that draws.
* Benchmarks and tools: they time and print.
* Search, profiles, statistics, suggestions, resolve over `known_nodes`, order and
  page limits of lists, the page limit of `sync_entity`: reads that relate to nothing
  else. Private groups and the moderation log of the relay; `update_entity`,
  but for its commit.
* `protocol.py` beyond what the server calls: topological sort, sync diff, view
  executor, encryption. Its resolution of attestations reads a trust table
  that no endpoint fills, and its LWW merge is not reached, as no second head
  arises (`SingleHead`).
* The payments service without Stripe, and its stub endpoints but for the refund.
* `broadcast_event` of relay_v1.4.1, wallets, labels and delegations (single rows);
  holon_v4's store, whose server refuses every POST of its client (no `sig`). The
  stores of relay_v2 and mesh have no server here: their requests are coroutines of
  one caller.
* Of the simulators: formulas over the machine's clock, reputation and other scores,
  some of holon_v4's suggestions (`similar_followers`, `mutuals`,
  `active_in_context`, `rising_stars`), its moderation view and search, nested feeds that name each other, identity and state puts of relay_v1.4.1, and functions nothing calls.

Each component is listed with its reason in `PROJECT.json`.
