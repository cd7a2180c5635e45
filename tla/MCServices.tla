------------------------------ MODULE MCServices ------------------------------
(* Small instances of everything Platform composes; each part has scenarios   *)
(* of its own, and what those leave out is not asked for in a behaviour.      *)
EXTENDS Platform, TLC

-----------------------------------------------------------------------------
(* Accounts.  Two addresses: a, b and e of the first use client.py, c and d   *)
(* of the second the web client.  All ask for one handle.                     *)
CONSTANTS a, b, c, d, e

MCEmailOf  == [x \in Callers |-> IF x \in {c, d} THEN "second" ELSE "first"]
MCHandleOf == [x \in Callers |-> "ada"]
MCHashOf   == [x \in Callers |-> IF x \in {c, d} THEN "sha512" ELSE "sha256"]

\* x runs p, y runs q and z runs r.
Three(x, p, y, q, z, r) ==
  [w \in Callers |-> CASE w = x -> p [] w = y -> q [] w = z -> r [] OTHER -> "nothing"]

MCPlans ==
  {Three(a, "signup", b, p, e, "nothing") : p \in {"signup", "another", "forget", "settings"}}
    \cup {Three(a, "signup", c, "signup", e, "nothing"),
          Three(a, "signup", b, "link", e, "click"),
          Three(a, "signup", b, "signin", e, "signin"),
          Three(c, "signup", d, "signin", e, "nothing")}

-----------------------------------------------------------------------------
(* The second server.  One user logs in twice, or adds two devices, or adds   *)
(* one and logs in by it; the answer to a challenge is sent twice.            *)
CONSTANTS key1, key2

ToLog(op, t, k) == [op |-> op, user |-> "u", ticket |-> t, key |-> k]

MCDagTraffic ==
  {{ToLog("login", 1, "root"), ToLog("login", 2, "root"), ToLog("verify", 1, "root")},
   {ToLog("login", 1, "root"), ToLog("device", 0, key1), ToLog("device", 0, key2)},
   {ToLog("login", 1, "root"), ToLog("device", 0, key1), ToLog("login", 2, key1),
    ToLog("verify", 2, key1)}}

-----------------------------------------------------------------------------
(* Payments: two checkouts at once and a payout, or one subscription from its *)
(* checkout to its end.  Media: two owners and two files, of which one owner  *)
(* may have one.  Moderation: a labeler who may change their mind and one who *)
(* does not.                                                                  *)
CONSTANTS s1, s2, p1, o1, o2, f, g, ann, bob

Of(kinds, s) == kinds \X {s}
Product      == {<<"create", "product">>}

MCPayTraffic ==
  {Product \cup Of({"checkout"}, s1) \cup Of({"checkout"}, s2) \cup Of({"payout"}, p1),
   Product \cup Of({"onboard"}, o1) \cup Of({"onboard"}, o2) \cup Of({"payout"}, p1),
   Product \cup Of({"checkout", "completed", "cancel", "deleted"}, s1),
   Product \cup Of(EventTypes \cup {"checkout"}, s1),
   Product \cup Of({"completed", "deleted", "checkout", "refund"}, s1)}

File(n, o, x, u) == [id |-> n, op |-> o, file |-> x, owner |-> u]

MCMediaTraffic ==
  {File(1, "upload", f, ann), File(1, "upload", g, ann), File(1, "upload", f, bob),
   File(1, "delete", f, ann), File(2, "delete", f, ann), File(2, "upload", f, ann),
   File(1, "delete", f, bob)}

MCModTraffic == Of({"label", "revoke", "follow", "unfollow"}, ann) \cup Of({"label", "follow"}, bob)
             \cup Of({"report", "resolve", "filter"}, "content")

-----------------------------------------------------------------------------
(* The simulators.  A user and an agent, three groups of two generations, or  *)
(* a primary and a replica, for two ticks.                                    *)
CONSTANTS bot, own, buy, quote, v1, v2, u1, u2, u3, top, sub, low, site, g1, r0, r1, c1

MCSimScenarios ==
  {[acts |-> {"post", "feed"}, events |-> 2],
   [acts |-> {"post", "request"}, events |-> 5],
   [acts |-> {"follow", "channel"}, events |-> 3]}

MCViewScenarios ==
  {[acts |-> {"post", "view"}, ids |-> {1, 2, 3}],
   [acts |-> {"follow", "subscribe", "view"}, ids |-> {1}],
   [acts |-> {"post", "attest", "view"}, ids |-> {1}]}

MCParentOf ==
  [x \in HolonGroups |-> CASE x = top -> top [] x = sub -> top [] OTHER -> sub]

MCCreatedAs ==
  [x \in HolonGroups |-> CASE x = top -> 0 [] x = sub -> 1 [] OTHER -> 2]

MCHolonScenarios ==
  {[acts |-> {"follow"}, users |-> {u1, u2}, posts |-> 0, links |-> 4],
   [acts |-> {"follow", "join"}, users |-> {u1, u2}, posts |-> 0, links |-> 3],
   [acts |-> {"verify", "subscribe", "view"}, users |-> {u1, u2}, posts |-> 0, links |-> 2],
   [acts |-> {"post", "join"}, users |-> {u1}, posts |-> 2, links |-> 1],
   [acts |-> {"post", "react", "view"}, users |-> {u1}, posts |-> 2, links |-> 1]}

MCConnected == [x \in RepClients |-> RepRelays]

MCRepScenarios ==
  {[acts |-> {"post", "join"}, objects |-> 3],
   [acts |-> {"post", "react"}, objects |-> 2],
   [acts |-> {"follow"}, objects |-> 3],
   [acts |-> {"join", "rotate"}, objects |-> 2]}

-----------------------------------------------------------------------------
(* The stores.  Up to three requests, two of them at a time, and a crash:     *)
(* appends after one head, an append under a reduction or an execution, puts  *)
(* of several versions, a channel created twice, objects created beside.      *)
CONSTANTS al, be, e1, e2, e3, e4, st, fd, vw

MCEventIdOf ==
  (<<al, 1>> :> e1) @@ (<<al, 2>> :> e2) @@ (<<be, 1>> :> e3) @@ (<<al, 3>> :> e4)

Appended(n, i, p) == [op |-> "append", n |-> n, actor |-> al, id |-> i, prev |-> p]
Numbered(n, x, m, p) ==
  [op |-> "append", n |-> n, actor |-> x, seq |-> m, id |-> MCEventIdOf[x, m], prev |-> p]
Row(o, v, ss) ==
  [op |-> "put", actor |-> al, object |-> o, version |-> v, sources |-> ss, feed |-> o # st]
Channel(n)   == [op |-> "channel", n |-> n, actor |-> al, object |-> st]
Executed(n, o) == [op |-> "execute", n |-> n, object |-> o]
Without(xs)  == [op |-> "execute", object |-> vw, without |-> xs]
Created(k, x, y) ==
  [op |-> "create", object |-> [id |-> 1, kind |-> k, from |-> x, to |-> y, dead |-> FALSE]]

In(store, known, put, asks) == [store |-> store, known |-> known, put |-> put, asks |-> asks]

Feed == fd :> <<al>>
View == vw :> <<al>>

MCStoreTraffic ==
  {In("relay", {al}, << >>, {Appended(1, i, "none") : i \in {e1, e2, e3}}),
   In("relay", {}, << >>, {[op |-> "identity", actor |-> al],
                           Appended(1, e1, "none"), Appended(2, e1, "none")}),
   In("relay", {al}, << >>, {Appended(1, e1, "none"), Appended(2, e1, "none"),
                             Appended(1, e3, e1)}),
   In("relay", {al}, Feed @@ (vw :> <<fd, al>>),
      {Appended(1, e1, "none"), Appended(1, e2, e1), [op |-> "reduce", object |-> vw]}),
   In("relay", {al}, Feed,
      {Appended(1, e1, "none"), Row(fd, 2, <<be>>), [op |-> "reduce", object |-> fd]}),
   In("relay", {al}, << >>, {Row(st, n, << >>) : n \in 1 .. 3}),
   In("relay", {al}, << >>, {Row(st, 1, << >>), Channel(1), Channel(2)}),
   In("view", {}, View, {Appended(1, e1, "none"), Executed(1, vw), Executed(2, vw)}),
   In("view", {}, View, {Appended(1, e1, "none"), Appended(1, e2, "none"), Executed(1, vw)}),
   In("view", {}, View, {Row(vw, 2, <<al>>), Row(vw, 2, <<be>>), Executed(1, vw)}),
   In("view", {}, View @@ (fd :> <<vw, st>>),
      {Appended(1, e1, "none"), Executed(1, fd), Executed(1, st)}),
   In("mesh", {}, << >>, {Numbered(1, al, 1, "none"), Numbered(2, al, 1, "none"),
                          Numbered(1, al, 3, e1)}),
   In("mesh", {}, << >>, {Numbered(1, al, 1, "none"), Numbered(1, al, 2, e1),
                          Numbered(1, be, 1, "none")}),
   In("mesh", {}, vw :> <<be, <<"follows", be>>>>,
      {Numbered(1, al, 1, "none"), Created("follow", be, al), Without({})}),
   In("mesh", {}, vw :> <<al, be>>,
      {Numbered(1, al, 1, "none"), Numbered(1, be, 1, "none"), Without({be})}),
   In("mesh", {}, << >>, {Created("post", al, al), Created("follow", al, be), Without({})})}
=============================================================================
