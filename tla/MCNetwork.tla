------------------------------ MODULE MCNetwork ------------------------------
(***************************************************************************)
(* Publications: two founders of one handle, an article for paying         *)
(* subscribers, two clicks of two tiers, edits that publish it for all of  *)
(* them and withdraw it; five requests, and the read.  Push: three         *)
(* sockets, an event.  Notification: two notices, two sockets.             *)
(* Federation: a node imports, in three ways, a user, a public post, a     *)
(* private one and a link of another.  Peers: two nodes, each told of the  *)
(* other once.  Crawler: three relays, the second found by a hint or a     *)
(* link, the third by gossip.  Reads: two people, a public post and its    *)
(* answer, a private post and a message.                                   *)
(***************************************************************************)
EXTENDS Network

CONSTANTS f1, f2, c1, c2, s1, s2, s3, b1, n1, n2, l1, l2,
          A, B, ann, post, secret, likes, r1, r2, r3, bob, pat,
          open, whisper, answer, dm

Edit(s, a) == [status |-> s, access |-> a]

MCTierOf == (c1 :> "free") @@ (c2 :> "paid")
MCEdits  == {Edit("published", "subscribers"), Edit("draft", "public")}

MCHome == [i \in {ann, post, secret, likes} |-> A]

Import(o, n, m) == [op |-> o, at |-> n, from |-> m]

MCImports  == {Import("import", B, A), Import("direct", B, A),
               Import("sync", B, A)}
MCMarks == {All}

MCMeetings == {Import("peer", A, B), Import("connect", B, A)}

MCEntitiesAt == (r1 :> {ann}) @@ (r2 :> {bob}) @@ (r3 :> {pat})
MCHintsOf    == (ann :> {r1}) @@ (bob :> {r3}) @@ (pat :> {r2})
MCTargetsAt  == (r1 :> {bob}) @@ (r2 :> {ann}) @@ (r3 :> {})
MCPeersOf    == (r1 :> {r2}) @@ (r2 :> {r3}) @@ (r3 :> {r1})

Asked(who, k, access, p, u) ==
  [author |-> who, kind |-> k, asked |-> access, parent |-> p, to |-> u]

MCAbout ==
  (open    :> Asked(ann, "post", "public", Nothing, Nothing)) @@
  (whisper :> Asked(ann, "post", "private", Nothing, Nothing)) @@
  (answer  :> Asked(bob, "reply", "public", open, Nothing)) @@
  (dm      :> Asked(bob, "dm", "private", Nothing, ann))
=============================================================================
