----------------------------- MODULE RelayGroups ------------------------------
(***************************************************************************)
(* One group of the relay, app/server/main.py: creation, membership, roles *)
(* and bans.  A member is a row of links whose data holds the role; the    *)
(* group is a row of entities whose profile names the owner.               *)
(*                                                                         *)
(* Handlers check who may act in one awaited statement and write in later  *)
(* ones, on the connection all handlers share; db, disk, a commit and a    *)
(* crash are those of RelayLog.                                            *)
(*                                                                         *)
(* A member's row is a link like any other: its user may also post it and  *)
(* delete it (POST and DELETE /api/links), as the docs have clients join,  *)
(* with no data and so with no role.  Rows that imports bring are in       *)
(* Federation, and what links add to the logs is in RelayLog.              *)
(***************************************************************************)
EXTENDS Naturals, FiniteSets

CONSTANTS
  Users,
  Founder,      \* who creates the group, or has created it
  Members,      \* who else has joined a group there from the start
  Requests,     \* the requests clients may send
  MaxRequests,  \* bound: requests started in one behaviour
  MaxCrashes    \* bound: crashes of the process in one behaviour

Ops == {"create", "join", "leave", "promote", "demote", "transfer",
        "kick", "ban", "unban", "link", "unlink"}

Request == [id : Nat, op : Ops, actor : Users, other : Users]

\* The group is the one its creation request made: its id hashes the time.
ASSUME RequestsAssumption ==
  /\ Requests \subseteq Request
  /\ Founder \in Users /\ Members \subseteq Users
  /\ MaxRequests \in Nat /\ MaxCrashes \in Nat
  /\ \A r, s \in Requests : r.op = "create" /\ s.op = "create" => r = s
  /\ \A r \in Requests : r.op = "create" => r.actor = Founder

VARIABLES
  db,       \* the rows of the group as the shared connection sees them
  disk,     \* the rows as of the last commit
  pc,       \* pc[r]: the statement request r awaits next, or how it ended
  crashes,  \* how often the process has crashed
  mixed,    \* history: a transfer overlapped another use of authority, or
            \* was cut off by a crash
  overtaken \* history: kicks and bans that found their target away, who came
            \* back as the owner before they wrote

vars == <<db, disk, pc, crashes, mixed, overtaken>>

\* admin and moderator carry the same rights: one role here.
Roles == {"member", "admin", "owner"}

\* owner is the owner the profile names, and empty when there is no group.  A
\* tombstoned row keeps its role.
Tables == [owner : SUBSET Users,
           state : [Users -> {"absent", "live", "tombstoned"}],
           role  : [Users -> Roles],
           bans  : SUBSET Users]

Ended == {"done", "refused", "failed", "lost"}

InFlight == {"commit_group", "insert_owner", "insert_member", "set_role",
             "check_member", "demote_self", "crown", "write_profile",
             "check_target", "tombstone_target", "insert_ban", "lift_ban",
             "revive", "insert_link", "tombstone_own", "commit"}

TypeOK ==
  /\ db \in Tables
  /\ disk \in Tables
  /\ pc \in [Requests -> {"idle"} \cup InFlight \cup Ended]
  /\ crashes \in 0 .. MaxCrashes
  /\ mixed \in BOOLEAN
  /\ overtaken \subseteq Requests

NoGroup == [owner |-> {},
            state |-> [u \in Users |-> "absent"],
            role  |-> [u \in Users |-> "member"],
            bans  |-> {}]

\* The Founder has created the group, the Members have joined it, and the
\* admins among them have been appointed.
Founded(admins) ==
  [owner |-> {Founder},
   state |-> [u \in Users |-> IF u \in Members \cup {Founder}
                                THEN "live" ELSE "absent"],
   role  |-> [u \in Users |-> CASE u = Founder -> "owner"
                                [] u \in admins \ {Founder} -> "admin"
                                [] OTHER -> "member"],
   bans  |-> {}]

Init ==
  /\ db \in {NoGroup} \cup {Founded(admins) : admins \in SUBSET Members}
  /\ disk = db
  /\ pc = [r \in Requests |-> "idle"]
  /\ crashes = 0
  /\ mixed = FALSE
  /\ overtaken = {}

-----------------------------------------------------------------------------
(***************************************************************************)
(* Queries and updates.                                                    *)
(***************************************************************************)
IsOwner(d, u) == d.state[u] = "live" /\ d.role[u] = "owner"

IsAdmin(d, u) == d.state[u] = "live" /\ d.role[u] \in {"owner", "admin"}

\* An UPDATE of a row that is not there changes nothing; one of a tombstoned
\* row does.
WithRole(d, u, role) == IF d.state[u] = "absent"
                          THEN d ELSE [d EXCEPT !.role[u] = role]

WithTombstone(d, u) == IF d.state[u] = "absent"
                         THEN d ELSE [d EXCEPT !.state[u] = "tombstoned"]

(***************************************************************************)
(* Steps of a request.                                                     *)
(***************************************************************************)
Authority == {"promote", "demote", "transfer", "kick", "ban"}

Overlaps(r, s) == \/ r.op = "transfer" /\ s.op \in Authority
                  \/ r.op \in Authority /\ s.op = "transfer"

Step(r, from, to) == /\ pc[r] = from
                     /\ pc' = [pc EXCEPT ![r] = to]

Start(r, op, to) ==
  /\ r.op = op
  /\ Cardinality({s \in Requests : pc[s] # "idle"}) < MaxRequests
  /\ Step(r, "idle", to)
  /\ mixed' = (mixed \/ \E s \in Requests : pc[s] \in InFlight /\ Overlaps(r, s))
  /\ UNCHANGED <<disk, crashes, overtaken>>

Go(r, from, to) ==
  Step(r, from, to) /\ UNCHANGED <<disk, crashes, mixed, overtaken>>

\* create_group: the entity first.
Create(r) ==
  /\ db.owner = {}
  /\ Start(r, "create", "commit_group")
  /\ db' = [db EXCEPT !.owner = {r.actor}]

CommitGroup(r) ==
  /\ Step(r, "commit_group", "insert_owner")
  /\ disk' = db
  /\ UNCHANGED <<db, crashes, mixed, overtaken>>

\* Then the owner's row, unless the user has joined in between: the primary
\* key refuses a second row.
InsertOwner(r) ==
  /\ Go(r, "insert_owner",
        IF db.state[r.actor] = "absent" THEN "commit" ELSE "failed")
  /\ db' = IF db.state[r.actor] = "absent"
             THEN [db EXCEPT !.state[r.actor] = "live",
                             !.role[r.actor] = "owner"]
             ELSE db

\* join_group of a public group that exists.
Join(r) ==
  /\ Start(r, "join", IF db.owner # {} THEN "insert_member" ELSE "refused")
  /\ UNCHANGED db

\* Mistake: INSERT OR REPLACE.
InsertMemberOrReplace(r) ==
  /\ Go(r, "insert_member", "commit")
  /\ db' = [db EXCEPT !.state[r.actor] = "live", !.role[r.actor] = "member"]

\* The exception that refuses a second row, tombstoned or not, is swallowed:
\* the answer is "joined" either way.
InsertMember(r) ==
  /\ Go(r, "insert_member",
        IF db.state[r.actor] = "absent" THEN "commit" ELSE "done")
  /\ db' = IF db.state[r.actor] = "absent"
             THEN [db EXCEPT !.state[r.actor] = "live",
                             !.role[r.actor] = "member"]
             ELSE db

\* leave_group asks nothing.
Leave(r) ==
  /\ Start(r, "leave", "commit")
  /\ db' = WithTombstone(db, r.actor)

\* add_group_admin and remove_group_admin, by the owner.
Appoint(r) ==
  /\ \E op \in {"promote", "demote"} :
       Start(r, op, IF IsOwner(db, r.actor) THEN "set_role" ELSE "refused")
  /\ UNCHANGED db

SetRole(r) ==
  /\ Go(r, "set_role", "commit")
  /\ db' = WithRole(db, r.other,
                    IF r.op = "promote" THEN "admin" ELSE "member")

\* transfer_group_ownership: the owner, to a member.
Transfer(r) ==
  /\ Start(r, "transfer",
           IF IsOwner(db, r.actor) THEN "check_member" ELSE "refused")
  /\ UNCHANGED db

CheckMember(r) ==
  /\ Go(r, "check_member",
        IF db.state[r.other] = "live" THEN "demote_self" ELSE "refused")
  /\ UNCHANGED db

\* Mistake: the old owner stays one.
DemoteNobody(r) ==
  /\ Go(r, "demote_self", "crown")
  /\ UNCHANGED db

DemoteSelf(r) ==
  /\ Go(r, "demote_self", "crown")
  /\ db' = WithRole(db, r.actor, "admin")

\* Mistake: the user's id bound to the column data.
CrownWrongColumn(r) ==
  /\ Go(r, "crown", "write_profile")
  /\ db' = WithRole(db, r.other, r.other)

Crown(r) ==
  /\ Go(r, "crown", "write_profile")
  /\ db' = WithRole(db, r.other, "owner")

\* The profile is read, which matters only to the fields left out here, and
\* written back with the new owner.
WriteProfile(r) ==
  /\ Go(r, "write_profile", "commit")
  /\ db' = [db EXCEPT !.owner = IF @ = {} THEN {} ELSE {r.other}]

\* kick_from_group and ban_from_group, by an admin.
Expel(r) ==
  /\ \E op \in {"kick", "ban"} :
       Start(r, op, IF IsAdmin(db, r.actor) THEN "check_target" ELSE "refused")
  /\ UNCHANGED db

\* Mistake: an admin may remove anyone.
CheckNobody(r) ==
  /\ Go(r, "check_target", "tombstone_target")
  /\ UNCHANGED db

\* The owner cannot be removed.
CheckTarget(r) ==
  /\ Go(r, "check_target",
        IF IsOwner(db, r.other) THEN "refused" ELSE "tombstone_target")
  /\ UNCHANGED db

TombstoneTarget(r) ==
  /\ Go(r, "tombstone_target", IF r.op = "ban" THEN "insert_ban" ELSE "commit")
  /\ db' = WithTombstone(db, r.other)

InsertBan(r) ==
  /\ Go(r, "insert_ban", "commit")
  /\ db' = [db EXCEPT !.bans = @ \cup {r.other}]

\* unban_from_group, by an admin.
Unban(r) ==
  /\ Start(r, "unban", IF IsAdmin(db, r.actor) THEN "lift_ban" ELSE "refused")
  /\ UNCHANGED db

LiftBan(r) ==
  /\ Go(r, "lift_ban", "commit")
  /\ db' = [db EXCEPT !.bans = @ \ {r.other}]

\* create_link of the user's own row.  It asks whether there is a row and not
\* whether there is a group; but the group's id is a hash of the time of its
\* creation, which nobody can name before.
Named == db.owner # {} \/ \E r \in Requests : r.op = "create" /\ pc[r] # "idle"

Link(r) ==
  /\ Named
  /\ Start(r, "link", CASE db.state[r.actor] = "live"       -> "refused"
                       [] db.state[r.actor] = "tombstoned" -> "revive"
                       [] db.state[r.actor] = "absent"     -> "insert_link")
  /\ UNCHANGED db

\* A tombstoned row is live again, with the role it had.
Revive(r) ==
  /\ Step(r, "revive", "commit")
  /\ db' = IF db.state[r.actor] = "absent"
             THEN db ELSE [db EXCEPT !.state[r.actor] = "live"]
  /\ overtaken' = IF db.role[r.actor] = "owner"
                    THEN overtaken \cup {s \in Requests :
                           pc[s] = "tombstone_target" /\ s.other = r.actor}
                    ELSE overtaken
  /\ UNCHANGED <<disk, crashes, mixed>>

\* Where there was no row the primary key refuses a second one, and nothing
\* catches that.
InsertLink(r) ==
  /\ Go(r, "insert_link",
        IF db.state[r.actor] = "absent" THEN "commit" ELSE "failed")
  /\ db' = IF db.state[r.actor] = "absent"
             THEN [db EXCEPT !.state[r.actor] = "live",
                             !.role[r.actor] = "member"]
             ELSE db

\* delete_link of the user's own row, tombstoned or not
Unlink(r) ==
  /\ Start(r, "unlink",
           IF db.state[r.actor] = "absent" THEN "refused" ELSE "tombstone_own")
  /\ UNCHANGED db

TombstoneOwn(r) ==
  /\ Go(r, "tombstone_own", "commit")
  /\ db' = WithTombstone(db, r.actor)

Commit(r) ==
  /\ Step(r, "commit", "done")
  /\ disk' = db
  /\ UNCHANGED <<db, crashes, mixed, overtaken>>

\* Any other handler that writes commits the shared connection.
CommitElsewhere ==
  /\ disk # db
  /\ disk' = db
  /\ UNCHANGED <<db, pc, crashes, mixed, overtaken>>

\* The process stops and is started again on the same file.
Crash ==
  /\ crashes < MaxCrashes
  /\ crashes' = crashes + 1
  /\ db' = disk
  /\ pc' = [r \in Requests |-> IF pc[r] \in InFlight THEN "lost" ELSE pc[r]]
  /\ mixed' = (mixed \/ \E r \in Requests : /\ r.op = "transfer"
                                            /\ pc[r] \in InFlight)
  /\ UNCHANGED <<disk, overtaken>>

BeginRequest(r) == \/ Create(r) \/ Join(r) \/ Leave(r) \/ Appoint(r)
                   \/ Transfer(r) \/ Expel(r) \/ Unban(r)
                   \/ Link(r) \/ Unlink(r)

ContinueRequest(r) ==
  \/ CommitGroup(r) \/ InsertOwner(r) \/ InsertMember(r) \/ SetRole(r)
  \/ CheckMember(r) \/ DemoteSelf(r) \/ Crown(r) \/ WriteProfile(r)
  \/ CheckTarget(r) \/ TombstoneTarget(r) \/ InsertBan(r) \/ LiftBan(r)
  \/ Revive(r) \/ InsertLink(r) \/ TombstoneOwn(r) \/ Commit(r)

Next == \/ \E r \in Requests : BeginRequest(r) \/ ContinueRequest(r)
        \/ CommitElsewhere
        \/ Crash

Spec == Init /\ [][Next]_vars

-----------------------------------------------------------------------------
(***************************************************************************)
(* Properties.                                                             *)
(***************************************************************************)

Transferring == \E r \in Requests : r.op = "transfer" /\ pc[r] \in InFlight

\* As long as transfers do not overlap other uses of authority, the group has
\* at most one owner, and it is the one its profile names: also when the owner
\* left and came back by a link, or was removed and revived.
OwnerOfRecord ==
  ~ mixed /\ ~ Transferring =>
    \A u \in Users : IsOwner(db, u) => u \in db.owner

\* Nor does the owner lose the group except by a request of its own, or by a
\* kick or ban that was let through while the owner was away: its check is one
\* statement, and the owner's link may come before the next.
OwnerResigns ==
  [][\A u \in Users :
       /\ ~ mixed /\ crashes' = crashes
       /\ IsOwner(db, u) /\ ~ IsOwner(db', u)
       => \E r \in Requests :
            /\ pc'[r] # pc[r]
            /\ \/ /\ r.actor = u
                  /\ r.op \in {"leave", "promote", "demote", "transfer", "unlink"}
               \/ r \in overtaken /\ r.other = u]_vars

\* Who has left or was removed is out until it posts the link itself: join
\* finds the tombstoned row, lifting the ban does not touch it, and neither does
\* a crash or somebody else's commit.  The ban row, which nobody reads, is in
\* the way of none of it.
ReturnsByOwnLink ==
  [][\A u \in Users :
       disk.state[u] = "tombstoned" /\ disk'.state[u] # "tombstoned" =>
         \E r \in Requests :
           r.op = "link" /\ r.actor = u /\ pc[r] = "commit"]_vars

\* join_group answers "joined", and calls a refused INSERT "Already a member":
\* who is told so is a member then.
JoinedIsMember ==
  [][\A r \in Requests :
       r.op = "join" /\ pc[r] = "insert_member" /\ pc'[r] \in {"commit", "done"}
       => db'.state[r.actor] = "live"]_vars
=============================================================================
