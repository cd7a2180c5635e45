-------------------------- MODULE RelayGroupsProofs ---------------------------
(***************************************************************************)
(* Theorems about RelayGroups for every set of users and requests.         *)
(*                                                                         *)
(* Who owns the group follows from what the requests in progress have      *)
(* established and not yet acted on: OwnerInv says, for each statement a   *)
(* request waits for, who can be the owner while it waits.                 *)
(***************************************************************************)
EXTENDS RelayGroups, TLAPS

\* A request waits only for statements of its own handler.
PcMatchesOp ==
  \A r \in Requests :
    /\ pc[r] \in {"commit_group", "insert_owner"} => r.op = "create"
    /\ pc[r] = "insert_member" => r.op = "join"
    /\ pc[r] = "set_role" => r.op \in {"promote", "demote"}
    /\ pc[r] \in {"check_member", "demote_self", "crown", "write_profile"}
         => r.op = "transfer"
    /\ pc[r] \in {"check_target", "tombstone_target"} => r.op \in {"kick", "ban"}
    /\ pc[r] = "insert_ban" => r.op = "ban"
    /\ pc[r] = "lift_ban" => r.op = "unban"
    /\ pc[r] \in {"revive", "insert_link"} => r.op = "link"
    /\ pc[r] = "tombstone_own" => r.op = "unlink"

\* u's row, live or tombstoned, says owner.
Holds(d, u) == d.state[u] # "absent" /\ d.role[u] = "owner"

PlainRows(d) == \A u \in Users : d.state[u] # "absent" => d.role[u] = "member"

\* The profile names one owner.  Rows of a group that is not there, left over
\* when its creation was lost in a crash, say member.
Rooted(d) == /\ \A u, v \in d.owner : u = v
             /\ d.owner = {} => PlainRows(d)

\* Without a group only leaves and links can be under way.
NoGroupInv ==
  /\ Rooted(db) /\ Rooted(disk)
  /\ db.owner = {} => \A r \in Requests :
       pc[r] \in InFlight => r.op \in {"leave", "link", "unlink"}

\* Before the owner's row is there nobody has authority.
FoundInv ==
  \A r \in Requests : pc[r] \in {"commit_group", "insert_owner"} =>
    /\ r.actor \in db.owner
    /\ PlainRows(db)
    /\ \A s \in Requests : s.op \in Authority => pc[s] \notin InFlight

\* A row that is tombstoned on the disk and not on the connection was revived
\* by a link that has yet to commit.
AwayInv ==
  \A u \in Users :
    disk.state[u] = "tombstoned" /\ db.state[u] # "tombstoned" =>
      \E r \in Requests : r.op = "link" /\ r.actor = u /\ pc[r] = "commit"

GroupInv == NoGroupInv /\ FoundInv

Settled(d) == \A u \in Users : Holds(d, u) => u \in d.owner

TransferAt(S) == \E r \in Requests : r.op = "transfer" /\ pc[r] \in S

OwnerInv ==
  ~ mixed =>
    /\ \A r, s \in Requests :
         /\ r.op = "transfer" /\ s.op \in Authority
         /\ pc[r] \in InFlight /\ pc[s] \in InFlight
         => r = s
    /\ TransferAt({"crown", "write_profile"}) \/ Settled(db)
    /\ \/ TransferAt({"demote_self", "crown", "write_profile", "commit"})
       \/ Settled(disk)
    /\ \A r \in Requests :
         /\ pc[r] \in {"check_member", "demote_self"} => r.actor \in db.owner
         /\ pc[r] = "crown" => \A u \in Users : ~ Holds(db, u)
         /\ pc[r] = "write_profile" =>
              \A u \in Users : Holds(db, u) => u = r.other
         /\ pc[r] = "set_role" =>
              \A u \in Users : Holds(db, u) => u = r.actor
         /\ pc[r] = "tombstone_target" /\ r \notin overtaken => ~ IsOwner(db, r.other)

-----------------------------------------------------------------------------
(***************************************************************************)
(* Updates.                                                                *)
(***************************************************************************)

\* What an UPDATE of a role does to the tables.
LEMMA RoleEffect ==
  ASSUME NEW d \in Tables, NEW u \in Users, NEW x \in Roles
  PROVE  /\ WithRole(d, u, x) \in Tables
         /\ WithRole(d, u, x).owner = d.owner
         /\ WithRole(d, u, x).state = d.state
         /\ \A v \in Users : d.state[v] # "absent" =>
              WithRole(d, u, x).role[v] = IF v = u THEN x ELSE d.role[v]
BY DEF Tables, WithRole

\* What an UPDATE of a tombstone does to the tables.
LEMMA TombstoneEffect ==
  ASSUME NEW d \in Tables, NEW u \in Users
  PROVE  /\ WithTombstone(d, u) \in Tables
         /\ WithTombstone(d, u).owner = d.owner
         /\ WithTombstone(d, u).role = d.role
         /\ \A v \in Users :
              WithTombstone(d, u).state[v] =
                IF v = u /\ d.state[u] # "absent" THEN "tombstoned"
                                                 ELSE d.state[v]
BY DEF Tables, WithTombstone

(***************************************************************************)
(* Types and statements.                                                   *)
(***************************************************************************)
TypeInv == TypeOK /\ PcMatchesOp

\* Both initial databases are typed.
LEMMA InitTypeInv == Init => TypeInv
<1> SUFFICES ASSUME Init PROVE TypeInv
  OBVIOUS
<1>1. NoGroup \in Tables /\ \A A \in SUBSET Members : Founded(A) \in Tables
  BY RequestsAssumption DEF NoGroup, Founded, Tables, Roles
<1>2. crashes \in 0 .. MaxCrashes
  BY RequestsAssumption DEF Init
<1> QED
  BY <1>1, <1>2 DEF Init, TypeInv, TypeOK, PcMatchesOp

\* A first statement keeps the types.
LEMMA BeginTypeInv ==
  ASSUME TypeInv, NEW r \in Requests, BeginRequest(r)
  PROVE  TypeInv'
<1>0. r.actor \in Users /\ r.other \in Users
  BY RequestsAssumption DEF Request
<1> USE DEF TypeInv, TypeOK, PcMatchesOp, Start, Step, InFlight, Ended
<1>1. CASE Create(r)
  BY <1>0, <1>1 DEF Create, Tables
<1>2. CASE Join(r)
  BY <1>0, <1>2 DEF Join
<1>3. CASE Leave(r)
  BY <1>0, <1>3, TombstoneEffect DEF Leave
<1>4. CASE Appoint(r)
  BY <1>0, <1>4 DEF Appoint
<1>5. CASE Transfer(r)
  BY <1>0, <1>5 DEF Transfer
<1>6. CASE Expel(r)
  BY <1>0, <1>6 DEF Expel
<1>7. CASE Unban(r)
  BY <1>0, <1>7 DEF Unban
<1>8. CASE Link(r)
  <2>1. db.state[r.actor] \in {"absent", "live", "tombstoned"}
    BY <1>0 DEF Tables
  <2> QED
    BY <1>0, <1>8, <2>1 DEF Link
<1>9. CASE Unlink(r)
  BY <1>0, <1>9 DEF Unlink
<1> QED
  BY <1>1, <1>2, <1>3, <1>4, <1>5, <1>6, <1>7, <1>8, <1>9 DEF BeginRequest

\* So does every later one.
LEMMA ContinueTypeInv ==
  ASSUME TypeInv, NEW r \in Requests, ContinueRequest(r)
  PROVE  TypeInv'
<1>0. r.actor \in Users /\ r.other \in Users
  BY RequestsAssumption DEF Request
<1> USE DEF TypeInv, TypeOK, PcMatchesOp, Go, Step, InFlight, Ended
<1>1. CASE CommitGroup(r)
  BY <1>0, <1>1 DEF CommitGroup
<1>2. CASE InsertOwner(r)
  BY <1>0, <1>2 DEF InsertOwner, Tables, Roles
<1>3. CASE InsertMember(r)
  BY <1>0, <1>3 DEF InsertMember, Tables, Roles
<1>4. CASE SetRole(r)
  <2>1. db' \in Tables
    BY <1>0, <1>4, RoleEffect DEF SetRole, Roles
  <2> QED
    BY <1>0, <1>4, <2>1 DEF SetRole
<1>5. CASE CheckMember(r)
  BY <1>0, <1>5 DEF CheckMember
<1>6. CASE DemoteSelf(r)
  <2>1. db' \in Tables
    BY <1>0, <1>6, RoleEffect DEF DemoteSelf, Roles
  <2> QED
    BY <1>0, <1>6, <2>1 DEF DemoteSelf
<1>7. CASE Crown(r)
  <2>1. db' \in Tables
    BY <1>0, <1>7, RoleEffect DEF Crown, Roles
  <2> QED
    BY <1>0, <1>7, <2>1 DEF Crown
<1>8. CASE WriteProfile(r)
  BY <1>0, <1>8 DEF WriteProfile, Tables
<1>9. CASE CheckTarget(r)
  BY <1>0, <1>9 DEF CheckTarget
<1>10. CASE TombstoneTarget(r)
  BY <1>0, <1>10, TombstoneEffect DEF TombstoneTarget
<1>11. CASE InsertBan(r)
  BY <1>0, <1>11 DEF InsertBan, Tables
<1>12. CASE LiftBan(r)
  BY <1>0, <1>12 DEF LiftBan, Tables
<1>13. CASE Commit(r)
  BY <1>0, <1>13 DEF Commit
<1>14. CASE Revive(r)
  <2>1. db' \in Tables
    BY <1>0, <1>14 DEF Revive, Tables
  <2>2. overtaken' \subseteq Requests
    BY <1>14 DEF Revive
  <2> QED
    BY <1>0, <1>14, <2>1, <2>2 DEF Revive
<1>15. CASE InsertLink(r)
  BY <1>0, <1>15 DEF InsertLink, Tables, Roles
<1>16. CASE TombstoneOwn(r)
  BY <1>0, <1>16, TombstoneEffect DEF TombstoneOwn
<1> QED
  BY <1>1, <1>2, <1>3, <1>4, <1>5, <1>6, <1>7, <1>8, <1>9, <1>10, <1>11, <1>12, <1>13,
     <1>14, <1>15, <1>16
  DEF ContinueRequest

\* And the environment's moves, which copy tables and end requests.
LEMMA StepTypeInv == TypeInv /\ [Next]_vars => TypeInv'
<1> SUFFICES ASSUME TypeInv, [Next]_vars PROVE TypeInv'
  OBVIOUS
<1>1. CASE \E r \in Requests : BeginRequest(r) \/ ContinueRequest(r)
  BY <1>1, BeginTypeInv, ContinueTypeInv
<1>2. CASE CommitElsewhere
  BY <1>2 DEF CommitElsewhere, TypeInv, TypeOK, PcMatchesOp
<1>3. CASE Crash
  BY <1>3, RequestsAssumption
  DEF Crash, TypeInv, TypeOK, PcMatchesOp, InFlight, Ended
<1>4. CASE UNCHANGED vars
  BY <1>4 DEF vars, TypeInv, TypeOK, PcMatchesOp
<1> QED
  BY <1>1, <1>2, <1>3, <1>4 DEF Next

\* Types hold, and every request waits for a statement of its own handler.
THEOREM TypeCorrect == Spec => []TypeInv
BY InitTypeInv, StepTypeInv, PTL DEF Spec

\* Every reachable state is well typed.
COROLLARY GroupsWellTyped == Spec => []TypeOK
BY TypeCorrect, PTL DEF TypeInv

(***************************************************************************)
(* Tombstones.                                                             *)
(***************************************************************************)

\* Only the revival of a user's own link lifts a tombstone, and a commit copies
\* the shared view.
LEMMA RequestTombstones ==
  ASSUME TypeInv, NEW r \in Requests, BeginRequest(r) \/ ContinueRequest(r)
  PROVE  /\ \A u \in Users :
              db.state[u] = "tombstoned" /\ db'.state[u] # "tombstoned" =>
                u = r.actor /\ r.op = "link" /\ pc'[r] = "commit"
         /\ pc' = [pc EXCEPT ![r] = pc'[r]]
         /\ \/ disk' = disk /\ pc[r] # "commit"
            \/ disk' = db /\ db' = db
<1>0. /\ r.actor \in Users /\ r.other \in Users /\ db \in Tables
      /\ pc \in [Requests -> {"idle"} \cup InFlight \cup Ended]
  BY RequestsAssumption DEF Request, TypeInv, TypeOK
<1>1. CASE Join(r) \/ Appoint(r) \/ Transfer(r) \/ Expel(r) \/ Unban(r)
             \/ CheckMember(r) \/ CheckTarget(r) \/ Link(r) \/ Unlink(r)
  BY <1>0, <1>1
  DEF Join, Appoint, Transfer, Expel, Unban, CheckMember, CheckTarget, Link,
      Unlink, Start, Go, Step
<1>2. CASE CommitGroup(r) \/ Commit(r)
  BY <1>0, <1>2 DEF CommitGroup, Commit, Step
<1>3. CASE Leave(r) \/ TombstoneTarget(r) \/ TombstoneOwn(r)
  <2>1. PICK u \in Users : db' = WithTombstone(db, u)
    BY <1>0, <1>3 DEF Leave, TombstoneTarget, TombstoneOwn
  <2>2. \A v \in Users : db.state[v] = "tombstoned" => db'.state[v] = "tombstoned"
    BY <1>0, <2>1 DEF WithTombstone, Tables
  <2> QED
    BY <1>0, <1>3, <2>2
    DEF Leave, TombstoneTarget, TombstoneOwn, Start, Go, Step
<1>4. CASE SetRole(r) \/ DemoteSelf(r) \/ Crown(r)
  <2>1. PICK u \in Users, x \in Roles : db' = WithRole(db, u, x)
    BY <1>0, <1>4 DEF SetRole, DemoteSelf, Crown, Roles
  <2>2. db'.state = db.state
    BY <1>0, <2>1, RoleEffect
  <2> QED
    BY <1>0, <1>4, <2>2 DEF SetRole, DemoteSelf, Crown, Go, Step
<1>5. CASE Create(r) \/ WriteProfile(r) \/ InsertBan(r) \/ LiftBan(r)
  <2>1. db'.state = db.state
    BY <1>0, <1>5 DEF Create, WriteProfile, InsertBan, LiftBan, Tables
  <2> QED
    BY <1>0, <1>5, <2>1
    DEF Create, WriteProfile, InsertBan, LiftBan, Start, Go, Step
<1>6. CASE InsertOwner(r) \/ InsertMember(r) \/ InsertLink(r)
  <2>1. disk' = disk /\ pc[r] # "commit" /\ pc' = [pc EXCEPT ![r] = pc'[r]]
    BY <1>0, <1>6 DEF InsertOwner, InsertMember, InsertLink, Go, Step
  <2>2. \/ db' = db
        \/ /\ db.state[r.actor] = "absent"
           /\ db'.state = [db.state EXCEPT ![r.actor] = "live"]
    <3>1. CASE InsertOwner(r)
      BY <1>0, <3>1 DEF InsertOwner, Tables
    <3>2. CASE InsertMember(r)
      BY <1>0, <3>2 DEF InsertMember, Tables
    <3>3. CASE InsertLink(r)
      BY <1>0, <3>3 DEF InsertLink, Tables
    <3> QED
      BY <1>6, <3>1, <3>2, <3>3
  <2> QED
    BY <1>0, <2>1, <2>2 DEF Tables
<1>7. CASE Revive(r)
  <2>1. /\ pc[r] = "revive" /\ pc' = [pc EXCEPT ![r] = "commit"]
        /\ disk' = disk
        /\ \A u \in Users : u # r.actor => db'.state[u] = db.state[u]
    BY <1>0, <1>7 DEF Revive, Step, Tables
  <2>2. r.op = "link"
    BY <2>1 DEF TypeInv, PcMatchesOp
  <2> QED
    BY <1>0, <2>1, <2>2
<1> QED
  BY <1>1, <1>2, <1>3, <1>4, <1>5, <1>6, <1>7 DEF BeginRequest, ContinueRequest

\* AwayInv is inductive, and names the link whenever a tombstone on the disk is
\* lifted.
LEMMA StepAwayInv ==
  ASSUME TypeInv, AwayInv, [Next]_vars
  PROVE  /\ AwayInv'
         /\ \A u \in Users :
              disk.state[u] = "tombstoned" /\ disk'.state[u] # "tombstoned" =>
                \E r \in Requests :
                  r.op = "link" /\ r.actor = u /\ pc[r] = "commit"
<1>1. CASE \E r \in Requests : BeginRequest(r) \/ ContinueRequest(r)
  <2>1. PICK r \in Requests : BeginRequest(r) \/ ContinueRequest(r)
    BY <1>1
  <2>2. CASE disk' = db /\ db' = db
    BY <2>2 DEF AwayInv
  <2>3. CASE disk' = disk /\ pc[r] # "commit"
    <3>1. ASSUME NEW u \in Users, disk.state[u] = "tombstoned",
                 db'.state[u] # "tombstoned"
          PROVE  \E q \in Requests :
                   q.op = "link" /\ q.actor = u /\ pc'[q] = "commit"
      <4>1. CASE db.state[u] = "tombstoned"
        BY <2>1, <3>1, <4>1, RequestTombstones
      <4>2. CASE db.state[u] # "tombstoned"
        <5>1. PICK q \in Requests :
                q.op = "link" /\ q.actor = u /\ pc[q] = "commit"
          BY <3>1, <4>2 DEF AwayInv
        <5>2. pc' = [pc EXCEPT ![r] = pc'[r]] /\ q # r
          BY <2>1, <2>3, <5>1, RequestTombstones
        <5>3. pc'[q] = "commit"
          BY <5>1, <5>2 DEF TypeInv, TypeOK
        <5> QED
          BY <5>1, <5>3
      <4> QED
        BY <4>1, <4>2
    <3> QED
      BY <2>3, <3>1 DEF AwayInv
  <2> QED
    BY <2>1, <2>2, <2>3, RequestTombstones
<1>2. CASE CommitElsewhere
  BY <1>2 DEF CommitElsewhere, AwayInv
<1>3. CASE Crash
  BY <1>3 DEF Crash, AwayInv
<1>4. CASE UNCHANGED vars
  BY <1>4 DEF vars, AwayInv
<1> QED
  BY <1>1, <1>2, <1>3, <1>4 DEF Next

\* Who was removed comes back by a link of its own and not otherwise, whatever
\* the interleaving and the crashes.
THEOREM AlwaysReturnsByOwnLink == Spec => ReturnsByOwnLink
<1>1. Init => AwayInv
  BY DEF Init, AwayInv
<1>2. TypeInv /\ AwayInv /\ [Next]_vars => AwayInv'
  BY StepAwayInv
<1>3. TypeInv /\ AwayInv /\ [Next]_vars =>
        [\A u \in Users :
           disk.state[u] = "tombstoned" /\ disk'.state[u] # "tombstoned" =>
             \E r \in Requests :
               r.op = "link" /\ r.actor = u /\ pc[r] = "commit"]_vars
  BY StepAwayInv
<1> QED
  BY <1>1, <1>2, <1>3, TypeCorrect, PTL DEF Spec, ReturnsByOwnLink

(***************************************************************************)
(* The founding of the group.                                              *)
(***************************************************************************)
Founding == {"commit_group", "insert_owner"}

\* Requests that leave the group's owner and its rows' roles in place, but for
\* new members.
LEMMA FrameGroupInv ==
  ASSUME TypeInv, GroupInv, NEW r \in Requests, NEW to,
         pc' = [pc EXCEPT ![r] = to],
         to \notin Founding,
         r.op \in Authority /\ to \in InFlight =>
           pc[r] \in InFlight \/ \E u \in Users : IsAdmin(db, u),
         to \in InFlight => db.owner # {} \/ r.op \in {"leave", "link", "unlink"},
         db'.owner = db.owner,
         disk' = disk \/ disk' = db,
         (r.op \in Authority /\ pc[r] \in InFlight) \/
         \A u \in Users : db'.state[u] # "absent" =>
                           \/ db.state[u] # "absent" /\ db'.role[u] = db.role[u]
                           \/ db'.role[u] = "member"
  PROVE  GroupInv'
<1> USE DEF TypeInv, TypeOK, GroupInv
<1>1. Rooted(db)' /\ Rooted(disk)'
  BY DEF NoGroupInv, Rooted, PlainRows, Authority
<1>2. NoGroupInv'
  BY <1>1 DEF NoGroupInv
<1>3. FoundInv'
  <2> SUFFICES ASSUME NEW q \in Requests, pc'[q] \in Founding
               PROVE  /\ q.actor \in db'.owner
                      /\ PlainRows(db')
                      /\ \A s \in Requests :
                           s.op \in Authority => pc'[s] \notin InFlight
    BY DEF FoundInv, Founding, PlainRows
  <2>1. q # r /\ pc[q] \in Founding
    OBVIOUS
  <2>2. /\ q.actor \in db.owner
        /\ PlainRows(db)
        /\ \A s \in Requests : s.op \in Authority => pc[s] \notin InFlight
    BY <2>1 DEF FoundInv, Founding
  <2>3. \A u \in Users : ~ IsAdmin(db, u)
    BY <2>2 DEF IsAdmin, PlainRows
  <2>4. r.op \in Authority => to \notin InFlight /\ pc[r] \notin InFlight
    BY <2>2, <2>3
  <2> QED
    BY <2>1, <2>2, <2>4 DEF PlainRows
<1> QED
  BY <1>2, <1>3

\* The group comes into being, and has its owner's row one commit later.
LEMMA FounderGroupInv ==
  ASSUME TypeInv, GroupInv, NEW r \in Requests,
         Create(r) \/ CommitGroup(r) \/ InsertOwner(r)
  PROVE  GroupInv'
<1> USE DEF TypeInv, TypeOK, GroupInv
<1>0. r.actor \in Users
  BY RequestsAssumption DEF Request
<1>1. CASE Create(r)
  <2>1. /\ db'.owner = {r.actor} /\ db'.state = db.state /\ db'.role = db.role
        /\ disk' = disk /\ db.owner = {} /\ pc' = [pc EXCEPT ![r] = "commit_group"]
    BY <1>1 DEF Create, Start, Step, Tables
  <2>2. NoGroupInv'
    BY <2>1 DEF NoGroupInv, Rooted
  <2>3. \A s \in Requests : s.op \in Authority => pc'[s] \notin InFlight
    BY <1>1, <2>1 DEF NoGroupInv, Authority, Create, Start
  <2>4. PlainRows(db')
    BY <2>1 DEF NoGroupInv, Rooted, PlainRows
  <2>5. \A q \in Requests : pc[q] \notin Founding
    BY <2>1 DEF NoGroupInv, PcMatchesOp, Founding, InFlight
  <2> QED
    BY <2>1, <2>2, <2>3, <2>4, <2>5 DEF FoundInv, Founding, PlainRows
<1>2. CASE CommitGroup(r)
  <2>1. /\ db' = db /\ disk' = db /\ pc' = [pc EXCEPT ![r] = "insert_owner"]
        /\ pc[r] = "commit_group"
    BY <1>2 DEF CommitGroup, Step
  <2>2. r.op = "create"
    BY <2>1 DEF PcMatchesOp
  <2>3. NoGroupInv'
    BY <2>1 DEF NoGroupInv, Rooted, PlainRows, InFlight
  <2>4. FoundInv'
    BY <2>1, <2>2 DEF FoundInv, Authority, PlainRows
  <2> QED
    BY <2>3, <2>4
<1>3. CASE InsertOwner(r)
  <2>1. /\ db'.owner = db.owner /\ disk' = disk /\ pc[r] = "insert_owner"
        /\ pc' = [pc EXCEPT ![r] = pc'[r]]
        /\ pc'[r] \in {"commit", "failed"}
    BY <1>3 DEF InsertOwner, Go, Step, Tables
  <2>2. r.actor \in db.owner /\ r.op = "create"
    BY <2>1 DEF FoundInv, PcMatchesOp
  <2>3. NoGroupInv'
    BY <2>1, <2>2 DEF NoGroupInv, Rooted, InFlight
  <2>4. \A q \in Requests : pc'[q] \notin {"commit_group", "insert_owner"}
    BY <2>1, <2>2, RequestsAssumption DEF PcMatchesOp
  <2> QED
    BY <2>3, <2>4 DEF FoundInv
<1> QED
  BY <1>1, <1>2, <1>3

\* The other statements.
LEMMA RequestGroupInv ==
  ASSUME TypeInv, GroupInv, NEW r \in Requests,
         BeginRequest(r) \/ ContinueRequest(r)
  PROVE  GroupInv'
<1>0. /\ r.actor \in Users /\ r.other \in Users /\ db \in Tables
      /\ pc \in [Requests -> {"idle"} \cup InFlight \cup Ended]
  BY RequestsAssumption DEF Request, TypeInv, TypeOK
<1>a. pc[r] \in InFlight => db.owner # {} \/ r.op \in {"leave", "link", "unlink"}
  BY DEF GroupInv, NoGroupInv
<1>b. \A u \in Users : IsAdmin(db, u) => db.owner # {}
  BY DEF GroupInv, NoGroupInv, Rooted, PlainRows, IsAdmin
<1>1. CASE Create(r) \/ CommitGroup(r) \/ InsertOwner(r)
  BY <1>1, FounderGroupInv
<1>2. CASE Join(r) \/ Appoint(r) \/ Transfer(r) \/ Expel(r) \/ Unban(r)
  <2>1. /\ db' = db /\ disk' = disk /\ pc' = [pc EXCEPT ![r] = pc'[r]]
        /\ pc'[r] \in InFlight \cup {"refused"} /\ pc'[r] \notin Founding
    BY <1>0, <1>2 DEF Join, Appoint, Transfer, Expel, Unban, Start, Step,
                      InFlight, Founding
  <2>2. /\ r.op \in Authority /\ pc'[r] \in InFlight => IsAdmin(db, r.actor)
        /\ pc'[r] \in InFlight => db.owner # {} \/ IsAdmin(db, r.actor)
    BY <1>0, <1>2 DEF Join, Appoint, Transfer, Expel, Unban, Start, Step,
                      InFlight, Authority, IsAdmin, IsOwner
  <2> QED
    BY <1>0, <1>b, <2>1, <2>2, FrameGroupInv
<1>3. CASE Leave(r) \/ TombstoneOwn(r)
  <2>1. /\ db' = WithTombstone(db, r.actor) /\ disk' = disk
        /\ r.op \in {"leave", "unlink"}
        /\ pc' = [pc EXCEPT ![r] = "commit"]
    BY <1>3 DEF Leave, TombstoneOwn, Start, Go, Step, TypeInv, PcMatchesOp
  <2>2. /\ db'.owner = db.owner /\ db'.role = db.role
        /\ \A u \in Users : db'.state[u] # "absent" => db.state[u] # "absent"
    BY <1>0, <2>1, TombstoneEffect
  <2>3. "commit" \notin Founding /\ r.op \notin Authority
    BY <2>1 DEF Founding, Authority
  <2> QED
    BY <1>0, <2>1, <2>2, <2>3, FrameGroupInv
<1>4. CASE CheckMember(r) \/ CheckTarget(r) \/ Commit(r)
  <2>1. /\ db' = db /\ disk' \in {disk, db} /\ pc' = [pc EXCEPT ![r] = pc'[r]]
        /\ pc[r] \in InFlight /\ pc'[r] \notin Founding
    BY <1>0, <1>4 DEF CheckMember, CheckTarget, Commit, Go, Step, InFlight,
                      Founding
  <2> QED
    BY <1>0, <1>a, <2>1, FrameGroupInv
<1>5. CASE InsertMember(r) \/ InsertLink(r) \/ Revive(r)
  <2>1. /\ disk' = disk /\ pc' = [pc EXCEPT ![r] = pc'[r]]
        /\ pc[r] \in InFlight /\ pc'[r] \notin Founding
        /\ r.op \in {"join", "link"}
    BY <1>0, <1>5 DEF InsertMember, InsertLink, Revive, Go, Step, InFlight,
                      Founding, TypeInv, PcMatchesOp
  <2>2. /\ db'.owner = db.owner
        /\ \A u \in Users : db'.state[u] # "absent" =>
             \/ db.state[u] # "absent" /\ db'.role[u] = db.role[u]
             \/ db'.role[u] = "member"
    <3>1. CASE InsertMember(r)
      BY <1>0, <3>1 DEF InsertMember, Tables
    <3>2. CASE InsertLink(r)
      BY <1>0, <3>2 DEF InsertLink, Tables
    <3>3. CASE Revive(r)
      BY <1>0, <3>3 DEF Revive, Tables
    <3> QED
      BY <1>5, <3>1, <3>2, <3>3
  <2> QED
    BY <1>a, <2>1, <2>2, FrameGroupInv DEF Authority
<1>6. CASE SetRole(r) \/ DemoteSelf(r) \/ Crown(r) \/ TombstoneTarget(r)
  <2>1. /\ disk' = disk /\ pc' = [pc EXCEPT ![r] = pc'[r]]
        /\ pc[r] \in InFlight /\ pc'[r] \notin Founding
        /\ r.op \in Authority
    BY <1>0, <1>6 DEF SetRole, DemoteSelf, Crown, TombstoneTarget, Go, Step,
                      InFlight, Founding, TypeInv, PcMatchesOp, Authority
  <2>2. db'.owner = db.owner
    <3>1. CASE TombstoneTarget(r)
      BY <1>0, <3>1, TombstoneEffect DEF TombstoneTarget
    <3>2. CASE SetRole(r) \/ DemoteSelf(r) \/ Crown(r)
      <4>1. PICK u \in Users, x \in Roles : db' = WithRole(db, u, x)
        BY <1>0, <3>2 DEF SetRole, DemoteSelf, Crown, Roles
      <4> QED
        BY <1>0, <4>1, RoleEffect
    <3> QED
      BY <1>6, <3>1, <3>2
  <2>3. db.owner # {}
    BY <1>a, <2>1 DEF Authority
  <2> QED
    BY <1>a, <2>1, <2>2, <2>3, FrameGroupInv
<1>7. CASE InsertBan(r) \/ LiftBan(r)
  <2>1. /\ disk' = disk /\ pc' = [pc EXCEPT ![r] = pc'[r]]
        /\ pc[r] \in InFlight /\ pc'[r] \notin Founding
    BY <1>0, <1>7 DEF InsertBan, LiftBan, Go, Step, InFlight, Founding
  <2>2. db'.owner = db.owner /\ db'.state = db.state /\ db'.role = db.role
    BY <1>0, <1>7 DEF InsertBan, LiftBan, Tables
  <2> QED
    BY <1>a, <2>1, <2>2, FrameGroupInv
<1>8. CASE Link(r) \/ Unlink(r)
  <2>1. /\ db' = db /\ disk' = disk /\ pc' = [pc EXCEPT ![r] = pc'[r]]
        /\ pc'[r] \notin Founding /\ r.op \in {"link", "unlink"}
    <3>1. db.state[r.actor] \in {"absent", "live", "tombstoned"}
      BY <1>0 DEF Tables
    <3> QED
      BY <1>0, <1>8, <3>1 DEF Link, Unlink, Start, Step, Founding
  <2> QED
    BY <2>1, FrameGroupInv DEF Authority
<1>9. CASE WriteProfile(r)
  <2>1. /\ disk' = disk /\ pc' = [pc EXCEPT ![r] = "commit"]
        /\ pc[r] = "write_profile" /\ r.op = "transfer"
    BY <1>9 DEF WriteProfile, Go, Step, TypeInv, PcMatchesOp
  <2>2. db.owner # {}
    BY <1>a, <2>1 DEF InFlight
  <2>3. db'.owner = {r.other} /\ db'.state = db.state /\ db'.role = db.role
    BY <1>0, <1>9, <2>2 DEF WriteProfile, Tables
  <2>4. NoGroupInv'
    BY <2>1, <2>3 DEF GroupInv, NoGroupInv, Rooted
  <2>5. \A q \in Requests : pc[q] \notin Founding
    BY <2>1 DEF GroupInv, FoundInv, Founding, Authority, InFlight
  <2>6. FoundInv'
    BY <1>0, <2>1, <2>5 DEF FoundInv, Founding
  <2> QED
    BY <2>4, <2>6 DEF GroupInv
<1> QED
  BY <1>1, <1>2, <1>3, <1>4, <1>5, <1>6, <1>7, <1>8, <1>9
  DEF BeginRequest, ContinueRequest

\* GroupInv is inductive.
LEMMA StepGroupInv == TypeInv /\ GroupInv /\ [Next]_vars => GroupInv'
<1> SUFFICES ASSUME TypeInv, GroupInv, [Next]_vars PROVE GroupInv'
  OBVIOUS
<1>1. CASE \E r \in Requests : BeginRequest(r) \/ ContinueRequest(r)
  BY <1>1, RequestGroupInv
<1>2. CASE CommitElsewhere \/ UNCHANGED vars
  BY <1>2 DEF CommitElsewhere, vars, GroupInv, NoGroupInv, FoundInv, Rooted, PlainRows
<1>3. CASE Crash
  <2>1. \A r \in Requests : pc'[r] \notin InFlight
    BY <1>3 DEF Crash, InFlight
  <2> QED
    BY <1>3, <2>1 DEF Crash, GroupInv, NoGroupInv, FoundInv, Rooted, PlainRows,
                      InFlight
<1> QED
  BY <1>1, <1>2, <1>3 DEF Next

\* There is no group, or one with its founder's row, and nothing under way.
LEMMA InitGroupInv == Init => GroupInv
BY RequestsAssumption
DEF Init, NoGroup, Founded, GroupInv, NoGroupInv, FoundInv, Rooted, PlainRows,
    InFlight

(***************************************************************************)
(* The owner.                                                              *)
(***************************************************************************)

\* The founder is the only owner, and the one on record.
LEMMA InitOwnerInv == Init => OwnerInv
BY DEF Init, NoGroup, Founded, OwnerInv, Settled, Holds, InFlight

\* A statement that makes nobody an owner, of a request that is not between
\* the writes of a transfer, preserves OwnerInv.
LEMMA FrameOwnerInv ==
  ASSUME TypeInv, OwnerInv, ~ mixed, NEW r \in Requests, NEW to,
         pc' = [pc EXCEPT ![r] = to],
         r.op = "transfer" =>
           pc[r] \notin {"demote_self", "crown", "write_profile", "commit"},
         to \in InFlight => \/ pc[r] \in InFlight
                           \/ \A s \in Requests :
                                pc[s] \in InFlight => ~ Overlaps(r, s),
         to \in {"check_member", "demote_self"} => r.actor \in db.owner,
         to = "set_role" => \A u \in Users : Holds(db, u) => u = r.actor,
         to = "tombstone_target" => ~ IsOwner(db', r.other),
         to \notin {"crown", "write_profile"},
         db'.owner = db.owner,
         \A u \in Users : Holds(db', u) => Holds(db, u),
         \A u \in Users : IsOwner(db', u) =>
           \/ IsOwner(db, u)
           \/ \A q \in Requests :
                pc[q] = "tombstone_target" /\ q.other = u => q \in overtaken',
         overtaken \subseteq overtaken',
         disk' = disk \/ disk' = db
  PROVE  OwnerInv'
<1> USE DEF TypeInv, TypeOK
<1>0. r.other \in Users /\ \A q \in Requests : q.other \in Users
  BY RequestsAssumption DEF Request
<1>1. \A q, s \in Requests :
        /\ q.op = "transfer" /\ s.op \in Authority
        /\ pc'[q] \in InFlight /\ pc'[s] \in InFlight
        => q = s
  BY DEF OwnerInv, Overlaps, Authority
<1>2. \A S \in {{"crown", "write_profile"},
               {"demote_self", "crown", "write_profile", "commit"}} :
        TransferAt(S) => TransferAt(S)'
  BY DEF TransferAt, PcMatchesOp
<1>3. TransferAt({"crown", "write_profile"}) \/ Settled(db)
  BY DEF OwnerInv
<1>4. TransferAt({"crown", "write_profile"})' \/ Settled(db)'
  BY <1>2, <1>3 DEF Settled
<1>5. \/ TransferAt({"demote_self", "crown", "write_profile", "commit"})
      \/ Settled(disk')
  BY <1>3 DEF OwnerInv, Settled, TransferAt
<1>6. \/ TransferAt({"demote_self", "crown", "write_profile", "commit"})'
      \/ Settled(disk)'
  BY <1>2, <1>5 DEF Settled
<1>7. ASSUME NEW q \in Requests
      PROVE  /\ pc'[q] \in {"check_member", "demote_self"} => q.actor \in db'.owner
             /\ pc'[q] = "crown" => \A u \in Users : ~ Holds(db', u)
             /\ pc'[q] = "write_profile" =>
                  \A u \in Users : Holds(db', u) => u = q.other
             /\ pc'[q] = "set_role" =>
                  \A u \in Users : Holds(db', u) => u = q.actor
  BY <1>0 DEF OwnerInv
<1>8. ASSUME NEW q \in Requests, pc'[q] = "tombstone_target", q \notin overtaken',
             IsOwner(db', q.other)
      PROVE  FALSE
  <2>1. q \notin overtaken /\ q.other \in Users
    BY <1>0, <1>8
  <2>2. CASE pc[q] = "tombstone_target"
    <3>1. ~ IsOwner(db, q.other)
      BY <2>1, <2>2 DEF OwnerInv
    <3> QED
      BY <1>8, <2>1, <2>2, <3>1
  <2>3. CASE pc[q] # "tombstone_target"
    <3>1. q = r /\ to = "tombstone_target"
      BY <1>8, <2>3
    <3> QED
      BY <1>8, <3>1
  <2> QED
    BY <2>2, <2>3
<1> QED
  BY <1>1, <1>4, <1>6, <1>7, <1>8 DEF OwnerInv

\* The founding and the three writes of a transfer.
LEMMA OwnerChanges ==
  ASSUME TypeInv, GroupInv, OwnerInv, ~ mixed, ~ mixed', NEW r \in Requests,
         \/ Create(r) \/ InsertOwner(r) \/ DemoteSelf(r) \/ Crown(r)
         \/ WriteProfile(r) \/ (Commit(r) /\ r.op = "transfer")
  PROVE  OwnerInv'
<1> USE DEF TypeInv, TypeOK
<1>0. r.actor \in Users /\ r.other \in Users
  BY RequestsAssumption DEF Request
<1>1. CASE Create(r)
  <2>1. /\ db'.state = db.state /\ db'.role = db.role /\ disk' = disk
        /\ db.owner = {} /\ pc' = [pc EXCEPT ![r] = "commit_group"]
        /\ r.op = "create"
    BY <1>1 DEF Create, Start, Step, Tables
  <2>2. \A s \in Requests : s.op \in Authority => pc[s] \notin InFlight
    BY <2>1 DEF GroupInv, NoGroupInv, Authority
  <2>3. \A s \in Requests : s.op \in Authority => pc'[s] \notin InFlight
    BY <2>1, <2>2 DEF Authority
  <2>4. \A S \in SUBSET InFlight : ~ TransferAt(S)
    BY <2>2 DEF TransferAt, Authority
  <2>5. Settled(db)' /\ Settled(disk)'
    BY <2>1, <2>4 DEF OwnerInv, Settled, InFlight, Holds, GroupInv,
                      NoGroupInv, Rooted
  <2>6. \A q \in Requests :
          pc'[q] \notin {"check_member", "demote_self", "crown", "write_profile",
                        "set_role", "tombstone_target"}
    BY <2>1, <2>3 DEF PcMatchesOp, InFlight, Authority
  <2> QED
    BY <2>3, <2>5, <2>6 DEF OwnerInv, Authority
<1>2. CASE InsertOwner(r)
  <2>1. /\ disk' = disk /\ pc[r] = "insert_owner" /\ r.op = "create"
        /\ pc' = [pc EXCEPT ![r] = pc'[r]] /\ pc'[r] \in {"commit", "failed"}
        /\ r.actor \in db.owner /\ db'.owner = db.owner
    BY <1>2 DEF InsertOwner, Go, Step, Tables, PcMatchesOp, GroupInv, FoundInv
  <2>2. \A u \in Users : Holds(db', u) => Holds(db, u) \/ u = r.actor
    BY <1>0, <1>2 DEF InsertOwner, Holds, Tables
  <2>3. \A s \in Requests : s.op \in Authority => pc[s] \notin InFlight
    BY <2>1 DEF GroupInv, FoundInv
  <2>4. \A s \in Requests : s.op \in Authority => pc'[s] \notin InFlight
    BY <2>1, <2>3 DEF Authority
  <2>5. \A S \in SUBSET InFlight : ~ TransferAt(S)
    BY <2>3 DEF TransferAt, Authority
  <2>6. Settled(db)' /\ Settled(disk)'
    BY <2>1, <2>2, <2>5 DEF OwnerInv, Settled, InFlight
  <2>7. \A q \in Requests :
          pc'[q] \notin {"check_member", "demote_self", "crown", "write_profile",
                        "set_role", "tombstone_target"}
    BY <2>1, <2>4 DEF PcMatchesOp, InFlight, Authority
  <2> QED
    BY <2>4, <2>6, <2>7 DEF OwnerInv, Authority
<1>3. ASSUME NEW to \in {"crown", "write_profile", "commit", "done"},
             pc[r] \in InFlight, r.op = "transfer",
             pc' = [pc EXCEPT ![r] = to],
             to = "crown" => \A u \in Users : ~ Holds(db', u),
             to = "write_profile" =>
               \A u \in Users : Holds(db', u) => u = r.other,
             to \in {"commit", "done"} => Settled(db'),
             to = "done" => Settled(disk')
      PROVE  OwnerInv'
  \* The transfer is the only use of authority.
  <2>1. \A s \in Requests : s.op \in Authority /\ pc[s] \in InFlight => s = r
    BY <1>3 DEF OwnerInv
  <2>2. \A s \in Requests : s.op \in Authority /\ pc'[s] \in InFlight => s = r
    BY <1>3, <2>1
  <2>3. \A q \in Requests :
          pc'[q] \in {"check_member", "demote_self", "crown", "write_profile",
                     "set_role", "tombstone_target"} => q = r
    BY <1>3, <2>2 DEF PcMatchesOp, InFlight, Authority
  <2>4. pc'[r] = to
    BY <1>3
  <2>5. TransferAt({"crown", "write_profile"})' \/ Settled(db)'
    BY <1>3, <2>4 DEF TransferAt, Settled
  <2>6. \/ TransferAt({"demote_self", "crown", "write_profile", "commit"})'
        \/ Settled(disk)'
    BY <1>3, <2>4 DEF TransferAt, Settled
  <2>7. \A q, s \in Requests :
          /\ q.op = "transfer" /\ s.op \in Authority
          /\ pc'[q] \in InFlight /\ pc'[s] \in InFlight
          => q = s
    BY <2>2 DEF Authority
  <2> QED
    BY <1>3, <2>3, <2>4, <2>5, <2>6, <2>7 DEF OwnerInv
<1>4. CASE DemoteSelf(r)
  <2>1. /\ pc[r] = "demote_self" /\ r.op = "transfer"
        /\ pc' = [pc EXCEPT ![r] = "crown"]
        /\ db' = WithRole(db, r.actor, "admin") /\ "admin" \in Roles
    BY <1>4 DEF DemoteSelf, Go, Step, PcMatchesOp, Roles
  <2>2. \A s \in Requests : s.op \in Authority /\ pc[s] \in InFlight => s = r
    BY <2>1 DEF OwnerInv, InFlight
  <2>3. ~ TransferAt({"crown", "write_profile"})
    BY <2>1, <2>2 DEF TransferAt, Authority, InFlight
  <2>4. \A u \in Users : Holds(db, u) => u = r.actor
    BY <2>1, <2>3 DEF OwnerInv, Settled, GroupInv, NoGroupInv, Rooted
  <2>5. \A u \in Users : ~ Holds(db', u)
    <3>1. ASSUME NEW u \in Users, Holds(db', u) PROVE FALSE
      <4>1. db'.state = db.state
        BY <1>0, <2>1, RoleEffect
      <4>2. db.state[u] # "absent" /\ db'.role[u] = "owner"
        BY <3>1, <4>1 DEF Holds
      <4>3. db'.role[u] = IF u = r.actor THEN "admin" ELSE db.role[u]
        BY <1>0, <2>1, <4>2, RoleEffect
      <4> QED
        BY <2>4, <4>2, <4>3 DEF Holds
    <3> QED
      BY <3>1
  <2> QED
    BY <1>3, <2>1, <2>5 DEF InFlight
<1>5. CASE Crown(r)
  <2>1. /\ pc[r] = "crown" /\ r.op = "transfer"
        /\ pc' = [pc EXCEPT ![r] = "write_profile"]
        /\ db' = WithRole(db, r.other, "owner") /\ "owner" \in Roles
    BY <1>5 DEF Crown, Go, Step, PcMatchesOp, Roles
  <2>2. \A u \in Users : ~ Holds(db, u)
    BY <2>1 DEF OwnerInv
  <2>3. \A u \in Users : Holds(db', u) => u = r.other
    <3>1. ASSUME NEW u \in Users, Holds(db', u), u # r.other PROVE FALSE
      <4>1. db'.state = db.state
        BY <1>0, <2>1, RoleEffect
      <4>2. db.state[u] # "absent" /\ db'.role[u] = "owner"
        BY <3>1, <4>1 DEF Holds
      <4>3. db'.role[u] = db.role[u]
        BY <1>0, <2>1, <3>1, <4>2, RoleEffect
      <4> QED
        BY <2>2, <4>2, <4>3 DEF Holds
    <3> QED
      BY <3>1
  <2> QED
    BY <1>3, <2>1, <2>3 DEF InFlight
<1>6. CASE WriteProfile(r)
  <2>1. /\ pc[r] = "write_profile" /\ r.op = "transfer"
        /\ pc' = [pc EXCEPT ![r] = "commit"]
    BY <1>6 DEF WriteProfile, Go, Step, PcMatchesOp
  <2>2. db.owner # {}
    BY <2>1 DEF GroupInv, NoGroupInv, InFlight
  <2>3. db'.owner = {r.other} /\ db'.state = db.state /\ db'.role = db.role
    BY <1>6, <2>2 DEF WriteProfile, Tables
  <2>4. Settled(db')
    BY <2>1, <2>3 DEF OwnerInv, Settled, Holds
  <2> QED
    BY <1>3, <2>1, <2>4 DEF InFlight
<1>7. CASE Commit(r) /\ r.op = "transfer"
  <2>1. /\ pc[r] = "commit" /\ pc' = [pc EXCEPT ![r] = "done"]
        /\ db' = db /\ disk' = db
    BY <1>7 DEF Commit, Step
  <2>2. ~ TransferAt({"crown", "write_profile"})
    BY <1>7, <2>1 DEF OwnerInv, TransferAt, Authority, InFlight
  <2>3. Settled(db)
    BY <2>2 DEF OwnerInv
  <2> QED
    BY <1>3, <1>7, <2>1, <2>3 DEF InFlight
<1> QED
  BY <1>1, <1>2, <1>4, <1>5, <1>6, <1>7

\* Every request preserves OwnerInv.
LEMMA RequestOwnerInv ==
  ASSUME TypeInv, GroupInv, OwnerInv, ~ mixed, ~ mixed', NEW r \in Requests,
         BeginRequest(r) \/ ContinueRequest(r)
  PROVE  OwnerInv'
<1>0. r.actor \in Users /\ r.other \in Users /\ db \in Tables
  BY RequestsAssumption DEF Request, TypeInv, TypeOK
\* A request that starts now overlaps no other.
<1>1. ASSUME NEW op, NEW to, Start(r, op, to)
      PROVE  /\ pc[r] = "idle" /\ r.op = op
             /\ pc' = [pc EXCEPT ![r] = to]
             /\ disk' = disk /\ overtaken' = overtaken
             /\ \A s \in Requests : pc[s] \in InFlight => ~ Overlaps(r, s)
  BY <1>1 DEF Start, Step
\* The owner is the one on record when a use of authority starts.
<1>2. ASSUME NEW op \in {"promote", "demote", "transfer"}, NEW to, Start(r, op, to),
             IsOwner(db, r.actor)
      PROVE  /\ op = "transfer" => r.actor \in db.owner
             /\ \A u \in Users : Holds(db, u) => u = r.actor
  <2>1. ~ TransferAt({"crown", "write_profile"})
    BY <1>1, <1>2 DEF TransferAt, Overlaps, Authority, InFlight
  <2>2. Settled(db)
    BY <2>1 DEF OwnerInv
  <2> QED
    BY <1>0, <1>2, <2>2 DEF Settled, GroupInv, NoGroupInv, Rooted, Holds, IsOwner
<1>3. CASE Join(r) \/ Expel(r) \/ Unban(r) \/ Link(r) \/ Unlink(r)
  <2>1. PICK op \in {"join", "kick", "ban", "unban", "link", "unlink"},
             to \in {"insert_member", "check_target", "lift_ban", "refused",
                     "revive", "insert_link", "tombstone_own"} :
          Start(r, op, to) /\ db' = db
    <3>1. db.state[r.actor] \in {"absent", "live", "tombstoned"}
      BY <1>0 DEF Tables
    <3> QED
      BY <1>3, <3>1 DEF Join, Expel, Unban, Link, Unlink
  <2> QED
    BY <1>1, <2>1, FrameOwnerInv
<1>4. CASE Leave(r)
  <2>1. Start(r, "leave", "commit") /\ db' = WithTombstone(db, r.actor)
    BY <1>4 DEF Leave
  <2>2. /\ db'.owner = db.owner
        /\ \A u \in Users : /\ IsOwner(db', u) => IsOwner(db, u)
                            /\ Holds(db', u) => Holds(db, u)
    BY <1>0, <2>1, TombstoneEffect DEF IsOwner, Holds
  <2> QED
    BY <1>1, <2>1, <2>2, FrameOwnerInv
<1>5. CASE Appoint(r)
  <2>1. PICK op \in {"promote", "demote"} :
          Start(r, op, IF IsOwner(db, r.actor) THEN "set_role" ELSE "refused")
    BY <1>5 DEF Appoint
  <2>2. db' = db
    BY <1>5 DEF Appoint
  <2>3. CASE IsOwner(db, r.actor)
    <3>1. Start(r, op, "set_role")
      BY <2>1, <2>3
    <3> QED
      BY <1>1, <1>2, <2>2, <2>3, <3>1, FrameOwnerInv
  <2>4. CASE ~ IsOwner(db, r.actor)
    <3>1. Start(r, op, "refused")
      BY <2>1, <2>4
    <3> QED
      BY <1>1, <2>2, <3>1, FrameOwnerInv DEF InFlight
  <2> QED
    BY <2>3, <2>4
<1>6. CASE Transfer(r)
  <2>1. db' = db
    BY <1>6 DEF Transfer
  <2>2. CASE IsOwner(db, r.actor)
    <3>1. Start(r, "transfer", "check_member")
      BY <1>6, <2>2 DEF Transfer
    <3> QED
      BY <1>1, <1>2, <2>1, <2>2, <3>1, FrameOwnerInv
  <2>3. CASE ~ IsOwner(db, r.actor)
    <3>1. Start(r, "transfer", "refused")
      BY <1>6, <2>3 DEF Transfer
    <3> QED
      BY <1>1, <2>1, <3>1, FrameOwnerInv DEF InFlight
  <2> QED
    BY <2>2, <2>3
<1>7. CASE CommitGroup(r) \/ (Commit(r) /\ r.op # "transfer")
  <2>1. PICK to \in {"insert_owner", "done"} : pc' = [pc EXCEPT ![r] = to]
    BY <1>7 DEF CommitGroup, Commit, Step
  <2>2. /\ pc[r] \in {"commit_group", "commit"} /\ r.op # "transfer"
        /\ db' = db /\ disk' = db /\ overtaken' = overtaken
    BY <1>7 DEF CommitGroup, Commit, Step, TypeInv, PcMatchesOp
  <2> QED
    BY <2>1, <2>2, FrameOwnerInv DEF InFlight
<1>8. CASE InsertMember(r) \/ InsertLink(r)
  <2>1. PICK to \in {"commit", "done", "failed"} : pc' = [pc EXCEPT ![r] = to]
    BY <1>8 DEF InsertMember, InsertLink, Go, Step
  <2>2. /\ pc[r] \in {"insert_member", "insert_link"} /\ r.op # "transfer"
        /\ disk' = disk /\ overtaken' = overtaken
    BY <1>8 DEF InsertMember, InsertLink, Go, Step, TypeInv, PcMatchesOp
  <2>3. /\ db'.owner = db.owner
        /\ \A u \in Users : /\ IsOwner(db', u) => IsOwner(db, u)
                            /\ Holds(db', u) => Holds(db, u)
    <3>1. CASE InsertMember(r)
      BY <1>0, <3>1 DEF InsertMember, IsOwner, Holds, Tables
    <3>2. CASE InsertLink(r)
      BY <1>0, <3>2 DEF InsertLink, IsOwner, Holds, Tables
    <3> QED
      BY <1>8, <3>1, <3>2
  <2> QED
    BY <2>1, <2>2, <2>3, FrameOwnerInv DEF InFlight
<1>9. CASE SetRole(r)
  <2>1. PICK x \in {"admin", "member"} : db' = WithRole(db, r.other, x)
    BY <1>9 DEF SetRole
  <2>2. /\ pc[r] = "set_role" /\ disk' = disk /\ overtaken' = overtaken
        /\ pc' = [pc EXCEPT ![r] = "commit"]
    BY <1>9 DEF SetRole, Go, Step
  <2>3. /\ db'.owner = db.owner /\ db'.state = db.state
        /\ \A v \in Users : db.state[v] # "absent" =>
             db'.role[v] = IF v = r.other THEN x ELSE db.role[v]
    <3>1. x \in Roles
      BY DEF Roles
    <3> QED
      BY <1>0, <2>1, <3>1, RoleEffect
  <2>4. /\ db'.owner = db.owner
        /\ \A u \in Users : /\ IsOwner(db', u) => IsOwner(db, u)
                            /\ Holds(db', u) => Holds(db, u)
    BY <2>3 DEF IsOwner, Holds
  <2>5. pc[r] \in InFlight
    BY <2>2 DEF InFlight
  <2> QED
    BY <2>2, <2>4, <2>5, FrameOwnerInv
<1>10. CASE CheckMember(r)
  <2>1. PICK to \in {"demote_self", "refused"} : pc' = [pc EXCEPT ![r] = to]
    BY <1>10 DEF CheckMember, Go, Step
  <2>2. /\ pc[r] = "check_member" /\ db' = db /\ disk' = disk
        /\ overtaken' = overtaken
    BY <1>10 DEF CheckMember, Go, Step
  <2>3. r.actor \in db.owner
    BY <2>2 DEF OwnerInv
  <2> QED
    BY <2>1, <2>2, <2>3, FrameOwnerInv DEF InFlight
<1>11. CASE CheckTarget(r)
  <2>1. PICK to \in {"tombstone_target", "refused"} :
          /\ pc' = [pc EXCEPT ![r] = to]
          /\ to = "tombstone_target" => ~ IsOwner(db, r.other)
    BY <1>11 DEF CheckTarget, Go, Step
  <2>2. /\ pc[r] = "check_target" /\ db' = db /\ disk' = disk
        /\ overtaken' = overtaken
    BY <1>11 DEF CheckTarget, Go, Step
  <2> QED
    BY <2>1, <2>2, FrameOwnerInv DEF InFlight
<1>12. CASE TombstoneTarget(r) \/ TombstoneOwn(r)
  <2>1. PICK to \in {"insert_ban", "commit"}, gone \in Users :
          pc' = [pc EXCEPT ![r] = to] /\ db' = WithTombstone(db, gone)
    BY <1>0, <1>12 DEF TombstoneTarget, TombstoneOwn, Go, Step
  <2>2. /\ pc[r] \in {"tombstone_target", "tombstone_own"} /\ disk' = disk
        /\ overtaken' = overtaken
    BY <1>12 DEF TombstoneTarget, TombstoneOwn, Go, Step
  <2>3. /\ db'.owner = db.owner
        /\ \A u \in Users : /\ IsOwner(db', u) => IsOwner(db, u)
                            /\ Holds(db', u) => Holds(db, u)
    BY <1>0, <2>1 DEF WithTombstone, Tables, IsOwner, Holds
  <2>4. pc[r] \in InFlight
    BY <2>2 DEF InFlight
  <2> QED
    BY <2>1, <2>2, <2>3, <2>4, FrameOwnerInv
<1>13. CASE InsertBan(r) \/ LiftBan(r)
  <2>1. /\ pc[r] \in {"insert_ban", "lift_ban"} /\ disk' = disk
        /\ overtaken' = overtaken
        /\ pc' = [pc EXCEPT ![r] = "commit"]
    BY <1>13 DEF InsertBan, LiftBan, Go, Step
  <2>2. /\ db'.owner = db.owner
        /\ \A u \in Users : /\ IsOwner(db', u) => IsOwner(db, u)
                            /\ Holds(db', u) => Holds(db, u)
    BY <1>0, <1>13 DEF InsertBan, LiftBan, IsOwner, Holds, Tables
  <2>3. pc[r] \in InFlight
    BY <2>1 DEF InFlight
  <2> QED
    BY <2>1, <2>2, <2>3, FrameOwnerInv
<1>14. CASE \/ Create(r) \/ InsertOwner(r) \/ DemoteSelf(r) \/ Crown(r)
            \/ WriteProfile(r) \/ (Commit(r) /\ r.op = "transfer")
  BY <1>14, OwnerChanges
\* A removal that this row's owner overtakes is noted.
<1>15. CASE Revive(r)
  <2>1. /\ pc[r] = "revive" /\ pc' = [pc EXCEPT ![r] = "commit"]
        /\ disk' = disk /\ r.op = "link"
    BY <1>15 DEF Revive, Step, TypeInv, PcMatchesOp
  <2>2. /\ db'.owner = db.owner /\ db'.role = db.role
        /\ db.state[r.actor] = "absent" => db' = db
        /\ \A u \in Users : u # r.actor => db'.state[u] = db.state[u]
    BY <1>0, <1>15 DEF Revive, Tables
  <2>3. \A u \in Users : Holds(db', u) => Holds(db, u)
    BY <2>2 DEF Holds
  <2>4. /\ overtaken \subseteq overtaken'
        /\ db.role[r.actor] = "owner" =>
             \A q \in Requests :
               pc[q] = "tombstone_target" /\ q.other = r.actor => q \in overtaken'
    BY <1>15 DEF Revive
  <2>5. ASSUME NEW u \in Users, IsOwner(db', u), ~ IsOwner(db, u)
        PROVE  \A q \in Requests :
                 pc[q] = "tombstone_target" /\ q.other = u => q \in overtaken'
    <3>1. db.role[u] = "owner" /\ u = r.actor
      BY <2>2, <2>5 DEF IsOwner
    <3> QED
      BY <2>4, <3>1
  <2>6. pc[r] \in InFlight
    BY <2>1 DEF InFlight
  <2> QED
    <3>1. \A u \in Users : IsOwner(db', u) =>
            \/ IsOwner(db, u)
            \/ \A q \in Requests :
                 pc[q] = "tombstone_target" /\ q.other = u => q \in overtaken'
      BY <2>5
    <3>2. overtaken \subseteq overtaken' /\ db'.owner = db.owner
      BY <2>2, <2>4
    <3> QED
      BY <2>1, <2>3, <2>6, <3>1, <3>2, FrameOwnerInv
<1> QED
  BY <1>3, <1>4, <1>5, <1>6, <1>7, <1>8, <1>9, <1>10, <1>11, <1>12, <1>13,
     <1>14, <1>15
  DEF BeginRequest, ContinueRequest

\* So do a commit elsewhere, and a crash: what it loses was not settled yet.
LEMMA StepOwnerInv ==
  ASSUME TypeInv, GroupInv, OwnerInv, [Next]_vars
  PROVE  OwnerInv'
<1> SUFFICES ASSUME ~ mixed' PROVE OwnerInv'
  BY DEF OwnerInv
<1>1. CASE \E r \in Requests : BeginRequest(r) \/ ContinueRequest(r)
  <2>1. PICK r \in Requests : BeginRequest(r) \/ ContinueRequest(r)
    BY <1>1
  <2>2. ~ mixed
    BY <2>1 DEF BeginRequest, ContinueRequest, Create, Join, Leave, Appoint,
                Transfer, Expel, Unban, CommitGroup, InsertOwner, InsertMember,
                SetRole, CheckMember, DemoteSelf, Crown, WriteProfile,
                CheckTarget, TombstoneTarget, InsertBan, LiftBan, Commit,
                Link, Unlink, Revive, InsertLink, TombstoneOwn, Start, Go
  <2> QED
    BY <2>1, <2>2, RequestOwnerInv
<1>2. CASE CommitElsewhere
  <2>1. \/ TransferAt({"demote_self", "crown", "write_profile", "commit"})
        \/ Settled(db)
    BY <1>2 DEF CommitElsewhere, OwnerInv, TransferAt
  <2> QED
    BY <1>2, <2>1 DEF CommitElsewhere, OwnerInv, TransferAt, Settled
<1>3. CASE Crash
  <2>1. ~ mixed /\ ~ TransferAt(InFlight)
    BY <1>3 DEF Crash, TransferAt
  <2>2. Settled(disk)
    BY <2>1 DEF OwnerInv, TransferAt, InFlight
  <2>3. \A r \in Requests : pc'[r] \notin InFlight
    BY <1>3 DEF Crash, InFlight
  <2>4. Settled(db)' /\ Settled(disk)'
    BY <1>3, <2>2 DEF Crash, Settled
  <2> QED
    BY <2>3, <2>4 DEF OwnerInv, InFlight
<1>4. CASE UNCHANGED vars
  BY <1>4 DEF vars, OwnerInv, TransferAt, Settled
<1> QED
  BY <1>1, <1>2, <1>3, <1>4 DEF Next

\* While no transfer is mixed with other uses of authority, each request in
\* progress bounds who the owner is.
THEOREM OwnerInvariant == Spec => []OwnerInv
<1>1. Spec => []GroupInv
  BY InitGroupInv, StepGroupInv, TypeCorrect, PTL DEF Spec
<1>2. TypeInv /\ GroupInv /\ OwnerInv /\ [Next]_vars => OwnerInv'
  BY StepOwnerInv
<1> QED
  BY <1>1, <1>2, InitOwnerInv, TypeCorrect, PTL DEF Spec

\* Outside a transfer the only owner is the one on record.
THEOREM OwnerAlwaysOfRecord == Spec => []OwnerOfRecord
<1>1. OwnerInv => OwnerOfRecord
  BY DEF OwnerInv, OwnerOfRecord, TransferAt, Transferring, Settled, InFlight,
         IsOwner, Holds
<1> QED
  BY <1>1, OwnerInvariant, PTL

\* The statement that takes the group from its owner is one of the owner's.
LEMMA RequestTakesOwn ==
  ASSUME TypeInv, GroupInv, OwnerInv, ~ mixed, NEW r \in Requests,
         BeginRequest(r) \/ ContinueRequest(r),
         NEW u \in Users, IsOwner(db, u), ~ IsOwner(db', u)
  PROVE  /\ pc'[r] # pc[r]
         /\ \/ /\ r.actor = u
               /\ r.op \in {"leave", "promote", "demote", "transfer", "unlink"}
            \/ r \in overtaken /\ r.other = u
<1>0. /\ r.actor \in Users /\ r.other \in Users /\ db \in Tables
      /\ pc \in [Requests -> {"idle"} \cup InFlight \cup Ended]
  BY RequestsAssumption DEF Request, TypeInv, TypeOK
<1>1. CASE Leave(r) \/ TombstoneOwn(r)
  <2>1. /\ db' = WithTombstone(db, r.actor) /\ r.op \in {"leave", "unlink"}
        /\ pc[r] \in {"idle", "tombstone_own"} /\ pc' = [pc EXCEPT ![r] = "commit"]
    BY <1>1 DEF Leave, TombstoneOwn, Start, Go, Step, TypeInv, PcMatchesOp
  <2>2. u = r.actor
    BY <1>0, <2>1, TombstoneEffect DEF IsOwner
  <2> QED
    BY <1>0, <2>1, <2>2
<1>2. CASE SetRole(r)
  <2>1. PICK x \in {"admin", "member"} : db' = WithRole(db, r.other, x)
    BY <1>2 DEF SetRole
  <2>2. pc[r] = "set_role" /\ pc' = [pc EXCEPT ![r] = "commit"]
    BY <1>2 DEF SetRole, Go, Step
  <2>3. r.op \in {"promote", "demote"}
    BY <2>2 DEF TypeInv, PcMatchesOp
  <2>4. u = r.actor
    BY <2>2 DEF OwnerInv, Holds, IsOwner
  <2> QED
    BY <1>0, <2>2, <2>3, <2>4
<1>3. CASE DemoteSelf(r)
  <2>1. /\ db' = WithRole(db, r.actor, "admin") /\ "admin" \in Roles
        /\ pc[r] = "demote_self" /\ pc' = [pc EXCEPT ![r] = "crown"]
    BY <1>3 DEF DemoteSelf, Go, Step, Roles
  <2>2. r.op = "transfer"
    BY <2>1 DEF TypeInv, PcMatchesOp
  <2>3. /\ db'.state = db.state
        /\ db.state[u] # "absent" =>
             db'.role[u] = IF u = r.actor THEN "admin" ELSE db.role[u]
    BY <1>0, <2>1, RoleEffect
  <2>4. u = r.actor
    BY <2>3 DEF IsOwner
  <2> QED
    BY <1>0, <2>1, <2>2, <2>4
<1>4. CASE Crown(r)
  BY <1>4 DEF Crown, Go, Step, OwnerInv, Holds, IsOwner
<1>5. CASE TombstoneTarget(r)
  <2>1. pc[r] = "tombstone_target" /\ db' = WithTombstone(db, r.other)
    BY <1>5 DEF TombstoneTarget, Go, Step
  <2>2. u = r.other
    BY <1>0, <2>1, TombstoneEffect DEF IsOwner
  <2>3. r \in overtaken
    BY <2>1, <2>2 DEF OwnerInv
  <2>4. pc'[r] # pc[r]
    BY <1>0, <1>5 DEF TombstoneTarget, Go, Step
  <2> QED
    BY <2>2, <2>3, <2>4
<1>6. CASE InsertOwner(r) \/ InsertMember(r) \/ InsertLink(r)
  <2>1. \/ db' = db
        \/ db.state[r.actor] = "absent" /\ \A v \in Users \ {r.actor} :
             db'.state[v] = db.state[v] /\ db'.role[v] = db.role[v]
    <3>1. CASE InsertOwner(r)
      BY <1>0, <3>1 DEF InsertOwner, Tables
    <3>2. CASE InsertMember(r)
      BY <1>0, <3>2 DEF InsertMember, Tables
    <3>3. CASE InsertLink(r)
      BY <1>0, <3>3 DEF InsertLink, Tables
    <3> QED
      BY <1>6, <3>1, <3>2, <3>3
  <2> QED
    BY <2>1 DEF IsOwner
<1>7. CASE \/ Create(r) \/ Join(r) \/ Appoint(r) \/ Transfer(r) \/ Expel(r)
           \/ Unban(r) \/ Link(r) \/ Unlink(r) \/ CommitGroup(r) \/ CheckMember(r)
           \/ WriteProfile(r)
           \/ CheckTarget(r) \/ InsertBan(r) \/ LiftBan(r) \/ Commit(r)
  <2>1. db'.state = db.state /\ db'.role = db.role
    BY <1>0, <1>7
    DEF Create, Join, Appoint, Transfer, Expel, Unban, Link, Unlink, CommitGroup,
        CheckMember,
        WriteProfile, CheckTarget, InsertBan, LiftBan, Commit, Tables
  <2> QED
    BY <2>1 DEF IsOwner
<1>8. CASE Revive(r)
  <2>1. /\ db'.role = db.role
        /\ \A v \in Users : db.state[v] = "live" => db'.state[v] = "live"
    BY <1>0, <1>8 DEF Revive, Tables
  <2> QED
    BY <2>1 DEF IsOwner
<1> QED
  BY <1>1, <1>2, <1>3, <1>4, <1>5, <1>6, <1>7, <1>8 DEF BeginRequest, ContinueRequest

\* Nobody but the owner ends an ownership, short of a crash, of a transfer mixed
\* with other uses of authority, and of a removal the owner's return overtook.
THEOREM OwnerAlwaysResigns == Spec => OwnerResigns
<1>1. Spec => []GroupInv
  BY InitGroupInv, StepGroupInv, TypeCorrect, PTL DEF Spec
<1>2. TypeInv /\ GroupInv /\ OwnerInv /\ [Next]_vars =>
        [\A u \in Users :
           /\ ~ mixed /\ crashes' = crashes
           /\ IsOwner(db, u) /\ ~ IsOwner(db', u)
           => \E r \in Requests :
                /\ pc'[r] # pc[r]
                /\ \/ /\ r.actor = u
                      /\ r.op \in {"leave", "promote", "demote", "transfer",
                                   "unlink"}
                   \/ r \in overtaken /\ r.other = u]_vars
  <2> SUFFICES ASSUME TypeInv, GroupInv, OwnerInv, Next, NEW u \in Users,
                      ~ mixed, crashes' = crashes,
                      IsOwner(db, u), ~ IsOwner(db', u)
               PROVE  \E r \in Requests :
                        /\ pc'[r] # pc[r]
                        /\ \/ /\ r.actor = u
                              /\ r.op \in {"leave", "promote", "demote",
                                           "transfer", "unlink"}
                           \/ r \in overtaken /\ r.other = u
    OBVIOUS
  <2>1. CASE \E r \in Requests : BeginRequest(r) \/ ContinueRequest(r)
    BY <2>1, RequestTakesOwn
  <2>2. CASE CommitElsewhere
    BY <2>2 DEF CommitElsewhere
  <2>3. CASE Crash
    BY <2>3, RequestsAssumption DEF Crash, TypeInv, TypeOK
  <2> QED
    BY <2>1, <2>2, <2>3 DEF Next
<1> QED
  BY <1>1, <1>2, OwnerInvariant, TypeCorrect, PTL DEF Spec, OwnerResigns
=============================================================================
