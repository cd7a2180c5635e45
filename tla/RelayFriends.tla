----------------------------- MODULE RelayFriends -----------------------------
(***************************************************************************)
(* The friend handlers of the relay, app/server/main.py: send (which       *)
(* accepts when the other has asked already), accept, reject and remove.   *)
(*                                                                         *)
(* A friendship is TWO rows of links, one for each direction, and a        *)
(* request a third; a handler writes them one awaited statement at a time  *)
(* on the connection all handlers share.  db, disk and the meaning of a    *)
(* commit and a crash are those of RelayLog.                               *)
(*                                                                         *)
(* Links of these kinds are taken to be written by these handlers alone,   *)
(* as the client does: POST /api/links (RelayLog) takes any kind and asks  *)
(* for no consent, and federation imports links as they come.              *)
(***************************************************************************)
EXTENDS Naturals, FiniteSets

CONSTANTS
  Users,
  Requests,     \* the requests clients may send
  MaxRequests,  \* bound: requests started in one behaviour
  MaxCrashes    \* bound: crashes of the process in one behaviour

Ops == {"send", "accept", "reject", "remove"}

Request == [id : Nat, op : Ops, actor : Users, other : Users]

ASSUME RequestsAssumption ==
  /\ Requests \subseteq Request
  /\ \A r \in Requests : r.actor # r.other
  /\ MaxRequests \in Nat /\ MaxCrashes \in Nat

VARIABLES
  db,       \* the live links of the kinds friend and friend_request
  disk,     \* the same, as of the last commit
  pc,       \* pc[r]: the statement request r awaits next, or how it ended
  crashes,  \* how often the process has crashed
  mixed     \* history: pairs of users two of whose requests ever overlapped,
            \* or one of whose requests was cut off

vars == <<db, disk, pc, crashes, mixed>>

\* A row that is tombstoned and a row that is absent are one: INSERT OR
\* REPLACE writes over both and no query sees either.
Tables == [friend : SUBSET (Users \X Users), asked : SUBSET (Users \X Users)]

Ended == {"done", "refused", "lost"}

InFlight == {"check_sent", "check_pending", "insert_request", "befriend_me",
             "befriend_them", "clear_request", "unfriend_them", "commit"}

TypeOK ==
  /\ db \in Tables
  /\ disk \in Tables
  /\ pc \in [Requests -> {"idle"} \cup InFlight \cup Ended]
  /\ crashes \in 0 .. MaxCrashes
  /\ mixed \subseteq SUBSET Users

Init ==
  /\ db = [friend |-> {}, asked |-> {}]
  /\ disk = db
  /\ pc = [r \in Requests |-> "idle"]
  /\ crashes = 0
  /\ mixed = {}

-----------------------------------------------------------------------------
Pair(r) == {r.actor, r.other}

Mine(r)   == <<r.actor, r.other>>
Theirs(r) == <<r.other, r.actor>>

Step(r, from, to) == /\ pc[r] = from
                     /\ pc' = [pc EXCEPT ![r] = to]

Start(r, op, to) ==
  /\ r.op = op
  /\ Cardinality({s \in Requests : pc[s] # "idle"}) < MaxRequests
  /\ Step(r, "idle", to)
  /\ mixed' = IF \E s \in Requests : pc[s] \in InFlight /\ Pair(s) = Pair(r)
                THEN mixed \cup {Pair(r)} ELSE mixed

Go(r, from, to) == Step(r, from, to) /\ UNCHANGED <<crashes, mixed>>

\* send_friend_request, and its first question: are_friends
Send(r) ==
  /\ Start(r, "send",
           IF Mine(r) \in db.friend THEN "refused" ELSE "check_sent")
  /\ UNCHANGED <<db, disk, crashes>>

\* get_sent_friend_requests
CheckSent(r) ==
  /\ Go(r, "check_sent",
        IF Mine(r) \in db.asked THEN "refused" ELSE "check_pending")
  /\ UNCHANGED <<db, disk>>

\* get_pending_friend_requests: has the other asked already?
CheckPending(r) ==
  /\ Go(r, "check_pending",
        IF Theirs(r) \in db.asked THEN "befriend_me" ELSE "insert_request")
  /\ UNCHANGED <<db, disk>>

\* Mistake: the target alone bound to the row's two columns.
InsertRequestUnbound(r) ==
  /\ Go(r, "insert_request", "commit")
  /\ db' = [db EXCEPT !.asked = @ \cup {r.other}]
  /\ UNCHANGED disk

InsertRequest(r) ==
  /\ Go(r, "insert_request", "commit")
  /\ db' = [db EXCEPT !.asked = @ \cup {Mine(r)}]
  /\ UNCHANGED disk

\* Mistake: accept trusts from_id.
AcceptUnasked(r) ==
  /\ Start(r, "accept", "befriend_me")
  /\ UNCHANGED <<db, disk, crashes>>

\* accept_friend_request: there must be a request to this user.
Accept(r) ==
  /\ Start(r, "accept",
           IF Theirs(r) \in db.asked THEN "befriend_me" ELSE "refused")
  /\ UNCHANGED <<db, disk, crashes>>

\* The friendship, by accept and by send alike: a link each way, then the
\* request is taken away.
BefriendMe(r) ==
  /\ Go(r, "befriend_me", "befriend_them")
  /\ db' = [db EXCEPT !.friend = @ \cup {Mine(r)}]
  /\ UNCHANGED disk

BefriendThem(r) ==
  /\ Go(r, "befriend_them", "clear_request")
  /\ db' = [db EXCEPT !.friend = @ \cup {Theirs(r)}]
  /\ UNCHANGED disk

\* Mistake: the wrong direction.
ClearOwnRequest(r) ==
  /\ Go(r, "clear_request", "commit")
  /\ db' = [db EXCEPT !.asked = @ \ {Mine(r)}]
  /\ UNCHANGED disk

ClearRequest(r) ==
  /\ Go(r, "clear_request", "commit")
  /\ db' = [db EXCEPT !.asked = @ \ {Theirs(r)}]
  /\ UNCHANGED disk

\* reject_friend_request asks nothing first.
Reject(r) ==
  /\ Start(r, "reject", "commit")
  /\ db' = [db EXCEPT !.asked = @ \ {Theirs(r)}]
  /\ UNCHANGED <<disk, crashes>>

\* remove_friend asks nothing first.
Remove(r) ==
  /\ Start(r, "remove", "unfriend_them")
  /\ db' = [db EXCEPT !.friend = @ \ {Mine(r)}]
  /\ UNCHANGED <<disk, crashes>>

\* Mistake: remove_friend tombstones its own link twice.
UnfriendMe(r) ==
  /\ Go(r, "unfriend_them", "commit")
  /\ db' = [db EXCEPT !.friend = @ \ {Mine(r)}]
  /\ UNCHANGED disk

UnfriendThem(r) ==
  /\ Go(r, "unfriend_them", "commit")
  /\ db' = [db EXCEPT !.friend = @ \ {Theirs(r)}]
  /\ UNCHANGED disk

\* Mistake: the answer goes out before the rows are safe.
CommitLater(r) ==
  /\ Go(r, "commit", "done")
  /\ UNCHANGED <<db, disk>>

Commit(r) ==
  /\ Go(r, "commit", "done")
  /\ disk' = db
  /\ UNCHANGED db

\* Any other handler that writes commits the shared connection.
CommitElsewhere ==
  /\ disk # db
  /\ disk' = db
  /\ UNCHANGED <<db, pc, crashes, mixed>>

\* The process stops and is started again on the same file.
Crash ==
  /\ crashes < MaxCrashes
  /\ crashes' = crashes + 1
  /\ db' = disk
  /\ pc' = [r \in Requests |-> IF pc[r] \in InFlight THEN "lost" ELSE pc[r]]
  /\ mixed' = mixed \cup {Pair(r) : r \in {s \in Requests : pc[s] \in InFlight}}
  /\ UNCHANGED disk

BeginRequest(r) == Send(r) \/ Accept(r) \/ Reject(r) \/ Remove(r)

ContinueRequest(r) ==
  \/ CheckSent(r) \/ CheckPending(r) \/ InsertRequest(r)
  \/ BefriendMe(r) \/ BefriendThem(r) \/ ClearRequest(r)
  \/ UnfriendThem(r) \/ Commit(r)

Next == \/ \E r \in Requests : BeginRequest(r) \/ ContinueRequest(r)
        \/ CommitElsewhere
        \/ Crash

Spec == Init /\ [][Next]_vars

-----------------------------------------------------------------------------
(***************************************************************************)
(* Properties.                                                             *)
(***************************************************************************)

\* a has asked for the friendship with b, or agreed to it.
Wanted(a, b) == \E r \in Requests : /\ r.actor = a /\ r.other = b
                                    /\ r.op \in {"send", "accept"}
                                    /\ pc[r] \notin {"idle", "refused"}

\* Nobody becomes anybody's friend unasked: whatever overlaps or crashes, a
\* friend link in either direction means that both sides wanted it.
Consented == \A p \in db.friend : Wanted(p[1], p[2]) /\ Wanted(p[2], p[1])

Quiet(a, b) == \A r \in Requests : Pair(r) = {a, b} => pc[r] \notin InFlight

Mutual(a, b) == <<a, b>> \in db.friend <=> <<b, a>> \in db.friend

\* Two users whose requests never overlapped are friends in both directions
\* or in none.
FriendsAreMutual ==
  \A a, b \in Users : Quiet(a, b) /\ {a, b} \notin mixed => Mutual(a, b)

\* Of such a pair at most one thing is true: a asked b, b asked a, or they
\* are friends.
OneStateOfAPair ==
  \A a, b \in Users : a # b /\ Quiet(a, b) /\ {a, b} \notin mixed =>
    /\ <<a, b>> \in db.asked => <<b, a>> \notin db.asked
    /\ <<a, b>> \in db.asked => <<a, b>> \notin db.friend

\* A crash leaves a pair none of whose requests it cut off as it was.
CrashSparesAnswered ==
  [][\A a, b \in Users :
       crashes' # crashes /\ Quiet(a, b) =>
         \A p \in {<<a, b>>, <<b, a>>} : /\ p \in db.friend <=> p \in db'.friend
                                         /\ p \in db.asked <=> p \in db'.asked]_vars

\* The docstring of get_friends: "Get mutual friends (both parties have friend
\* link)."  It reads the links of one direction.
MutualFriends == \A a, b \in Users : Quiet(a, b) /\ crashes = 0 => Mutual(a, b)
=============================================================================
