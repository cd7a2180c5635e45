-------------------------- MODULE RelayPublications --------------------------
(***************************************************************************)
(* Publications of the relay, app/server/main.py: a handle, an article, a  *)
(* reader's subscriptions and the paywall between them.  Database, commit  *)
(* and crash are as in RelayLog.                                           *)
(*                                                                         *)
(* A subscription is named by the click that makes it; the publications    *)
(* founded here ask for one handle, and the article is in one of them.     *)
(***************************************************************************)
EXTENDS Naturals, FiniteSets

CONSTANTS
  Founders,       \* requests to found a publication
  Clicks,         \* the reader's requests to subscribe
  TierOf,         \* TierOf[c]: the tier that click asks for
  Accesses,       \* the access an article may be created with
  Edits,          \* the author's updates of the article
  MaxPubRequests, \* bound: requests started beside the read
  MaxPubCrashes   \* bound: crashes of the relay

Access == {"public", "subscribers", "paid"}
Status == {"draft", "published"}
Same   == "same"  \* what an update leaves alone

ASSUME PublicationsAssumption ==
  /\ TierOf \in [Clicks -> {"free", "paid"}]
  /\ Accesses \subseteq Access
  /\ Edits \subseteq [status : Status \cup {Same}, access : Access \cup {Same}]
  /\ MaxPubRequests \in Nat /\ MaxPubCrashes \in Nat

VARIABLES
  pubDb,      \* publications, subscriptions, the article
  pubDisk,
  pubPc,      \* pubPc[r]: what request r awaits, or its answer
  readAccess, \* the article's access as get_article read it
  readStatus, \* readStatus[e]: its status as update e read it
  pubCrashes,
  clicked,    \* history: clicks of which one looked before the other inserted
  owed        \* history, of when the article was asked for: subscriptions
              \* answered by then and never taken back, those taken back

pubVars == <<pubDb, pubDisk, pubPc, readAccess, readStatus, pubCrashes,
             clicked, owed>>

NoArticle == [status |-> "none", access |-> "public", dated |-> FALSE]
Articles  == {NoArticle}
               \cup [status : Status, access : Access, dated : BOOLEAN]

PubTables == [pubs    : SUBSET Founders,
              subs    : [Clicks -> {"none", "active", "canceled"}],
              article : Articles]

Read       == <<"read", "article">>
Writes     == {"write"} \X Status
PubRequest == ({"found"} \X Founders) \cup ({"subscribe", "cancel"} \X Clicks)
                \cup Writes \cup ({"edit"} \X Edits) \cup {Read}

PubSteps == {"found_insert", "write_insert", "edit_update", "subscribe_insert",
             "cancel_update", "read_subs", "commit"}

PubTypeOK ==
  /\ pubDb \in PubTables
  /\ pubDisk \in PubTables
  /\ pubPc \in [PubRequest -> PubSteps \cup {"idle", "ok", "no", "shown",
                                             "paywall"}]
  /\ readAccess \in Access
  /\ readStatus \in [Edits -> Status]
  /\ pubCrashes \in 0 .. MaxPubCrashes
  /\ clicked \subseteq SUBSET Clicks
  /\ owed \in [must : SUBSET Clicks, gone : SUBSET Clicks]

PubInit ==
  /\ pubDb = [pubs |-> {}, subs |-> [c \in Clicks |-> "none"],
              article |-> NoArticle]
  /\ pubDisk = pubDb
  /\ pubPc = [r \in PubRequest |-> "idle"]
  /\ readAccess = "public"
  /\ readStatus = [e \in Edits |-> "draft"]
  /\ pubCrashes = 0
  /\ clicked = {}
  /\ owed = [must |-> {}, gone |-> {}]

-----------------------------------------------------------------------------
PubGo(r, from, to) ==
  /\ pubPc[r] = from
  /\ from = "idle" /\ r # Read =>
       Cardinality({q \in PubRequest \ {Read} : pubPc[q] # "idle"})
         < MaxPubRequests
  /\ pubPc' = [pubPc EXCEPT ![r] = to]
  /\ UNCHANGED <<pubDisk, pubCrashes>>

ReadsAlone == UNCHANGED <<readAccess, readStatus, clicked, owed>>

PubLook(r, found, to) ==
  /\ PubGo(r, "idle", IF found THEN to ELSE "no")
  /\ UNCHANGED pubDb

PubWrite(r, from, table, rows) ==
  /\ PubGo(r, from, "commit")
  /\ pubDb' = [pubDb EXCEPT ![table] = rows]
  /\ ReadsAlone

PubCommit(r) ==
  /\ pubPc[r] = "commit"
  /\ pubPc' = [pubPc EXCEPT ![r] = "ok"]
  /\ pubDisk' = pubDb
  /\ UNCHANGED <<pubDb, pubCrashes>>
  /\ ReadsAlone

\* create_publication: is the handle free?
CreatePublication(f) ==
  /\ PubLook(<<"found", f>>, pubDb.pubs = {}, "found_insert")
  /\ ReadsAlone

\* The table has the handle UNIQUE: the second of two that found it free fails.
PublicationInsert(f) ==
  IF pubDb.pubs = {}
    THEN PubWrite(<<"found", f>>, "found_insert", "pubs", {f})
    ELSE /\ PubGo(<<"found", f>>, "found_insert", "no")
         /\ UNCHANGED pubDb
         /\ ReadsAlone

\* create_article, by the owner of a publication there is
CreateArticle(w) ==
  /\ \A v \in Writes : pubPc[v] = "idle"
  /\ PubLook(w, pubDb.pubs # {}, "write_insert")
  /\ ReadsAlone

ArticleInsert(w) ==
  \E a \in Accesses :
    PubWrite(w, "write_insert", "article",
             [status |-> w[2], access |-> a, dated |-> w[2] = "published"])

\* update_article, by its author
UpdateArticle(e) ==
  /\ PubLook(<<"edit", e>>, pubDb.article # NoArticle, "edit_update")
  /\ readStatus' = [readStatus EXCEPT ![e] =
                      IF pubDb.article = NoArticle THEN @
                                                   ELSE pubDb.article.status]
  /\ UNCHANGED <<readAccess, clicked, owed>>

Edited(e, dated) ==
  LET a == pubDb.article IN
    [status |-> IF e.status = Same THEN a.status ELSE e.status,
     access |-> IF e.access = Same THEN a.access ELSE e.access,
     dated  |-> dated]

\* The article is dated when it is published and was not: as it was read.
ArticleUpdate(e) ==
  PubWrite(<<"edit", e>>, "edit_update", "article",
           Edited(e, \/ pubDb.article.dated
                     \/ e.status = "published" /\ readStatus[e] # "published"))

-----------------------------------------------------------------------------
Active == {c \in Clicks : pubDb.subs[c] = "active"}

Clicking(c) == pubPc[<<"subscribe", c>>] = "subscribe_insert"

\* Mistake: the click before is not looked for.
SubscribeAgain(c) ==
  /\ PubLook(<<"subscribe", c>>, TRUE, "subscribe_insert")
  /\ clicked' = clicked \cup {{c, d} : d \in {k \in Clicks \ {c} : Clicking(k)}}
  /\ UNCHANGED <<readAccess, readStatus, owed>>

\* create_subscription: is there an active one?
CreateSubscription(c) ==
  /\ PubLook(<<"subscribe", c>>, Active = {}, "subscribe_insert")
  /\ clicked' = clicked \cup {{c, d} : d \in {k \in Clicks \ {c} : Clicking(k)}}
  /\ UNCHANGED <<readAccess, readStatus, owed>>

SubscriptionInsert(c) ==
  PubWrite(<<"subscribe", c>>, "subscribe_insert", "subs",
           [pubDb.subs EXCEPT ![c] = "active"])

\* cancel_subscription, whose id the reader has
CancelSubscription(c) ==
  /\ PubLook(<<"cancel", c>>, pubDb.subs[c] # "none", "cancel_update")
  /\ ReadsAlone

SubscriptionUpdate(c) ==
  PubWrite(<<"cancel", c>>, "cancel_update", "subs",
           [pubDb.subs EXCEPT ![c] = "canceled"])

-----------------------------------------------------------------------------
Asks(op, c)   == pubPc[<<op, c>>] # "idle"
Answered(op, c) == pubPc[<<op, c>>] = "ok"

\* get_article, first the article; list_articles asks the same of each
GetArticle ==
  /\ PubGo(Read, "idle",
           IF pubDb.article = NoArticle THEN "no"
           ELSE IF pubDb.article.access = "public" THEN "shown"
           ELSE "read_subs")
  /\ readAccess' = pubDb.article.access
  /\ owed' = [must |-> {c \in Clicks : /\ Answered("subscribe", c)
                                       /\ ~Asks("cancel", c)},
              gone |-> {c \in Clicks : Answered("cancel", c)}]
  /\ UNCHANGED <<pubDb, readStatus, clicked>>

Opens(c) == readAccess = "subscribers" \/ TierOf[c] = "paid"

\* then one active subscription of the reader's, whichever comes first
ReadSubscription ==
  /\ \/ Active = {} /\ PubGo(Read, "read_subs", "paywall")
     \/ \E c \in Active :
          PubGo(Read, "read_subs", IF Opens(c) THEN "shown" ELSE "paywall")
  /\ UNCHANGED pubDb
  /\ ReadsAlone

PubCrash ==
  /\ pubCrashes < MaxPubCrashes
  /\ pubCrashes' = pubCrashes + 1
  /\ pubDb' = pubDisk
  /\ pubPc' = [r \in PubRequest |-> IF pubPc[r] \in PubSteps THEN "no"
                                                             ELSE pubPc[r]]
  /\ UNCHANGED pubDisk
  /\ ReadsAlone

PubNext ==
  \/ \E f \in Founders : CreatePublication(f) \/ PublicationInsert(f)
  \/ \E w \in Writes : CreateArticle(w) \/ ArticleInsert(w)
  \/ \E e \in Edits : UpdateArticle(e) \/ ArticleUpdate(e)
  \/ \E c \in Clicks :
       \/ CreateSubscription(c) \/ SubscriptionInsert(c)
       \/ CancelSubscription(c) \/ SubscriptionUpdate(c)
  \/ GetArticle \/ ReadSubscription
  \/ \E r \in PubRequest : PubCommit(r)
  \/ PubCrash

-----------------------------------------------------------------------------
(***************************************************************************)
(* Properties.                                                             *)
(***************************************************************************)

\* Two subscriptions are active at once only if one click came between the
\* other's look and its insert.
OneActive ==
  \A c, d \in Active : c # d => {c, d} \in clicked

\* What is behind the paywall is shown to who has, then, a subscription of its
\* tier not taken back, and refused to nobody who was told he had one: unless
\* a second click hid it.
PaywallHonoursAnswers ==
  /\ pubPc[Read] = "shown" /\ readAccess # "public" =>
       \E c \in Clicks \ owed.gone : Opens(c) /\ Asks("subscribe", c)
  /\ pubPc[Read] = "paywall" =>
       \A c \in owed.must : \/ Asks("cancel", c) \/ ~Opens(c)
                            \/ \E pair \in clicked : c \in pair

\* An article is dated once it is published, though an update decides that by
\* a row it read earlier.
PublishedIsDated ==
  \A tables \in {pubDb, pubDisk} :
    tables.article.status = "published" => tables.article.dated

\* The reader gets what the clicks, cancellations and edits answered add up
\* to, whatever order they were served in and whatever a crash took.
ReaderGetsItsDue == OneActive /\ PaywallHonoursAnswers /\ PublishedIsDated
=============================================================================
