------------------------------ MODULE RelayReads ------------------------------
(***************************************************************************)
(* What the relay shows of what was posted: the lists, the pages other     *)
(* nodes fetch, conversations, notifications and a user's feed             *)
(* (app/server/main.py).  A list is the answer to one query and then, row  *)
(* by row and each in an await of its own, what get_content makes of it;   *)
(* content is posted, deleted and removed in between.                      *)
(*                                                                         *)
(* A row is seen from its INSERT on; what a commit and a crash do to it is *)
(* in RelayLog.  Of an item only what decides who sees it is kept.  Order  *)
(* and the limit of a page are left out.  A read changes nothing, so there *)
(* is one in a behaviour.                                                  *)
(***************************************************************************)
EXTENDS Naturals, FiniteSets

CONSTANTS
  People,
  Posted,        \* what may be posted
  About,        \* About[i]: its author, kind, access asked for, parent, recipient
  MaxReadActs   \* bound: posts, deletions, removals, links in one behaviour

Nothing == "nothing"

ASSUME ReadsAssumption ==
  /\ About \in [Posted -> [author : People, kind : {"post", "reply", "dm"},
                          asked  : {"public", "friends", "private", "group"},
                          parent : Posted \cup {Nothing},
                          to     : People \cup {Nothing}]]
  /\ MaxReadActs \in Nat

Pages  == {"page"} \X People  \* the list of one author's content
Lists  == {<<"list">>, <<"peer">>, <<"sync">>} \cup Pages
Trending == <<"trending">>
Talks  == {"talk"} \X People \X People
Alerts == {"alerts"} \X People
Feeds  == {"feed"} \X People
Reads  == Lists \cup {Trending} \cup Talks \cup Alerts \cup Feeds

VARIABLES
  rows,     \* rows[i]: the row of item i, "taken" when tombstoned
  links,    \* the live links <<kind, source, target>>
  leaving,  \* items of which the deletion is executed and not yet answered
  reader,   \* the read
  readPc,   \* what it does next, or how it ended
  page,     \* rows its query found and that are not fetched yet
  shown,    \* what its answer holds
  before,   \* history: what had been deleted and removed when it began
  readActs  \* how many posts, deletions and removals there were

readVars ==
  <<rows, links, leaving, reader, readPc, page, shown, before, readActs>>

LinkRows == {"follow", "friend"} \X People \X People

ReadTypeOK ==
  /\ rows \in [Posted -> {"none", "live", "taken", "gone"}]
  /\ links \subseteq LinkRows
  /\ leaving \subseteq Posted
  /\ reader \in Reads
  /\ readPc \in {"idle", "fetch", "query", "done", "failed"}
  /\ page \subseteq Posted
  /\ shown \subseteq Posted
  /\ before \in [deleted : SUBSET Posted, removed : SUBSET Posted]
  /\ readActs \in 0 .. MaxReadActs

ReadInit ==
  /\ rows = [i \in Posted |-> "none"]
  /\ links = {}
  /\ leaving = {}
  /\ reader \in Reads
  /\ readPc = "idle"
  /\ page = {}
  /\ shown = {}
  /\ before = [deleted |-> {}, removed |-> {}]
  /\ readActs = 0

-----------------------------------------------------------------------------
\* The access a row gets.  create_content knows "private" and "group"; what it
\* does not know is public.  send_message makes every message private.
StoredAccess(i) ==
  IF About[i].kind = "dm" THEN "private"
  ELSE IF About[i].asked \in {"private", "group"} THEN About[i].asked
                                                  ELSE "public"

Change == /\ readActs < MaxReadActs
       /\ readActs' = readActs + 1
       /\ UNCHANGED <<reader, readPc, page, shown, before>>

\* create_content
Post(i) ==
  /\ About[i].kind # "dm"
  /\ rows[i] = "none"
  /\ Change
  /\ rows' = [rows EXCEPT ![i] = "live"]
  /\ UNCHANGED <<links, leaving>>

SendMessage(i) ==
  /\ About[i].kind = "dm"
  /\ rows[i] = "none"
  /\ Change
  /\ rows' = [rows EXCEPT ![i] = "live"]
  /\ UNCHANGED <<links, leaving>>

\* delete_content, by the author, when its event is in the log
Delete(i) ==
  /\ rows[i] = "live"
  /\ Change
  /\ rows' = [rows EXCEPT ![i] = "gone"]
  /\ leaving' = leaving \cup {i}
  /\ UNCHANGED links

DeleteAnswers(i) ==
  /\ i \in leaving
  /\ leaving' = leaving \ {i}
  /\ UNCHANGED <<rows, links, reader, readPc, page, shown, before, readActs>>

\* remove_group_content, by a moderator: the row stays, with a tombstone
TakeDown(i) ==
  /\ rows[i] = "live"
  /\ Change
  /\ rows' = [rows EXCEPT ![i] = "taken"]
  /\ leaving' = leaving \cup {i}
  /\ UNCHANGED links

ToggleLink(l) ==
  /\ l[2] # l[3]
  /\ Change
  /\ links' = IF l \in links THEN links \ {l} ELSE links \cup {l}
  /\ UNCHANGED <<rows, leaving>>

-----------------------------------------------------------------------------
HeldRows      == {i \in Posted : rows[i] \in {"live", "taken"}}
LiveRows      == {i \in Posted : rows[i] = "live"}
Public    == {i \in Posted : StoredAccess(i) = "public"}
Kind(k)   == {i \in Posted : About[i].kind = k}
TopLevel  == {i \in Posted : About[i].parent = Nothing}

\* get_messages: either way between the two
Between(u, v) ==
  {i \in Kind("dm") : \/ About[i].author = u /\ About[i].to = v
                      \/ About[i].author = v /\ About[i].to = u}

\* get_notifications: replies to what one has posted, tombstoned or not
RepliesTo(u) ==
  {i \in Kind("reply") : /\ About[i].parent \in HeldRows
                         /\ About[About[i].parent].author = u}

\* The query of each read
Rows(r) ==
  CASE r = <<"list">> -> HeldRows \cap Public \cap TopLevel
    [] r \in Pages -> HeldRows \cap Public \cap {i \in Posted : About[i].author = r[2]}
    [] r = <<"peer">> -> HeldRows \cap Public
    [] r = <<"sync">> -> LiveRows \cap Public
    [] r = Trending -> LiveRows \cap Public \cap Kind("post")
    [] r \in Talks -> HeldRows \cap Between(r[2], r[3])
    [] r \in Alerts -> HeldRows \cap RepliesTo(r[2])

\* Mistake: the row is fetched by its id alone.
FetchAny(i) ==
  /\ readPc = "fetch"
  /\ i \in page
  /\ page' = page \ {i}
  /\ shown' = IF i \in HeldRows THEN shown \cup {i} ELSE shown
  /\ UNCHANGED <<rows, links, leaving, reader, readPc, before, readActs>>

\* Storage.get_content, for the next row: nothing if it has a tombstone
Fetch(i) ==
  /\ readPc = "fetch"
  /\ i \in page
  /\ page' = page \ {i}
  /\ shown' = IF i \in LiveRows THEN shown \cup {i} ELSE shown
  /\ UNCHANGED <<rows, links, leaving, reader, readPc, before, readActs>>

Begin ==
  LET taken(how) == {i \in Posted : rows[i] = how} \ leaving
  IN  /\ readPc = "idle"
      /\ before' = [deleted |-> taken("gone"), removed |-> taken("taken")]
      /\ UNCHANGED <<rows, links, leaving, reader, readActs>>

\* list_content, federation_get_content and federation_sync_get
BeginList ==
  /\ reader \in Lists
  /\ Begin
  /\ readPc' = "fetch"
  /\ page' = Rows(reader)
  /\ UNCHANGED shown

EndList ==
  /\ readPc = "fetch" /\ page = {}
  /\ readPc' = "done"
  /\ UNCHANGED <<rows, links, leaving, reader, page, shown, before, readActs>>

\* get_trending, get_messages and get_notifications answer from their query.
Answer ==
  /\ reader \notin Lists \cup Feeds
  /\ Begin
  /\ readPc' = "done"
  /\ shown' = Rows(reader)
  /\ UNCHANGED page

\* get_feed: whom one follows, then one's friends, then the query.
BeginFeed ==
  /\ reader \in Feeds
  /\ Begin
  /\ readPc' = "query"
  /\ UNCHANGED <<page, shown>>

\* The query of the feed names those one follows (and oneself) twice and gets
\* them once: with n of them and f friends, 2n + f + 3 places and n + f + 3
\* values.
Places(n, f) == 2 * n + f + 3
Values(n, f) == n + f + 3

FeedQuery ==
  LET with(kind) == {p \in People : <<kind, reader[2], p>> \in links}
      n == Cardinality(with("follow")) + 1
      f == Cardinality(with("friend"))
  IN  /\ readPc = "query"
      /\ readPc' = IF Places(n, f) = Values(n, f) THEN "done" ELSE "failed"
      /\ UNCHANGED <<rows, links, leaving, reader, page, shown, before,
                     readActs>>

ReadNext ==
  \/ \E i \in Posted : \/ Post(i) \/ SendMessage(i) \/ TakeDown(i)
                       \/ Delete(i) \/ DeleteAnswers(i)
  \/ \E l \in LinkRows : ToggleLink(l)
  \/ BeginList \/ (\E i \in Posted : Fetch(i)) \/ EndList
  \/ Answer
  \/ BeginFeed \/ FeedQuery

ReadSpec == ReadInit /\ [][ReadNext]_readVars

-----------------------------------------------------------------------------
\* Whoever asks after a deletion was answered is not shown what was deleted,
\* nor, in a list of content, what was removed, whatever the awaits between
\* the query and its rows let through.
DeletedStaysUnseen ==
  /\ shown \cap before.deleted = {}
  /\ reader \in Lists \cup {Trending} => shown \cap before.removed = {}

\* A message is shown to the two it is between and in no list, and neither is
\* what was posted as private or to a group.
KeptFromLists ==
  \A i \in shown :
    /\ About[i].kind = "dm" => /\ reader \in Talks
                               /\ {About[i].author, About[i].to}
                                    = {reader[2], reader[3]}
    /\ About[i].asked \in {"private", "group"} =>
         reader \notin Lists \cup {Trending}

\* Both: what a read shows is what its reader may see.
ReadsAreTrue == DeletedStaysUnseen /\ KeptFromLists
=============================================================================
