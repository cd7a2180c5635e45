-------------------------- MODULE RelayFriendsProofs --------------------------
(***************************************************************************)
(* Theorems about RelayFriends for every set of users and requests.        *)
(*                                                                         *)
(* Consented is not inductive: what a handler has read and not yet acted   *)
(* on matters, and so does the disk a crash goes back to.                  *)
(***************************************************************************)
EXTENDS RelayFriends, TLAPS

Befriending == {"befriend_me", "befriend_them"}

Asking == {"check_sent", "check_pending", "insert_request"}

\* A request of a's for the friendship with b is past the point of refusal.
Meant(a, b) == \E r \in Requests :
                 /\ r.actor = a /\ r.other = b /\ r.op \in {"send", "accept"}
                 /\ pc[r] \notin {"idle", "refused", "check_sent", "check_pending"}

ConsentInv ==
  /\ TypeOK
  /\ \A d \in {db, disk} :
       /\ \A p \in d.asked : Meant(p[1], p[2])
       /\ \A p \in d.friend : Meant(p[1], p[2]) /\ Meant(p[2], p[1])
  /\ \A r \in Requests :
       /\ pc[r] \in Befriending => /\ r.op \in {"send", "accept"}
                                   /\ Meant(r.other, r.actor)
       /\ pc[r] \in Asking => r.op = "send"

\* No table holds a link yet.
LEMMA InitConsent == Init => ConsentInv
  BY RequestsAssumption DEF Init, ConsentInv, TypeOK, Tables, Befriending, Asking

\* What is past refusal stays so: a step of a request that is there leads on.
LEMMA MeantStays ==
  ASSUME TypeOK, NEW r \in Requests, NEW to,
         pc' = [pc EXCEPT ![r] = to],
         to \notin {"idle", "refused", "check_sent", "check_pending"}
           \/ pc[r] \in {"idle", "check_sent", "check_pending"},
         NEW a, NEW b, Meant(a, b)
  PROVE  Meant(a, b)'
<1>1. PICK s \in Requests :
        /\ s.actor = a /\ s.other = b /\ s.op \in {"send", "accept"}
        /\ pc[s] \notin {"idle", "refused", "check_sent", "check_pending"}
  BY DEF Meant
<1>2. pc'[s] \notin {"idle", "refused", "check_sent", "check_pending"}
  BY <1>1 DEF TypeOK
<1> QED
  BY <1>1, <1>2 DEF Meant

\* The steps that start a request.
LEMMA BeginConsent ==
  ASSUME ConsentInv, NEW r \in Requests, BeginRequest(r)
  PROVE  ConsentInv'
<1> USE DEF Start, Step
<1>0. TypeOK /\ r.actor \in Users /\ r.other \in Users /\ pc[r] = "idle"
  BY RequestsAssumption
  DEF ConsentInv, Request, BeginRequest, Send, Accept, Reject, Remove
<1>1. PICK to \in {"refused", "check_sent", "befriend_me", "commit",
                   "unfriend_them"} :
        /\ pc' = [pc EXCEPT ![r] = to]
        /\ to = "check_sent" => r.op = "send"
        /\ to = "befriend_me" => r.op = "accept" /\ Theirs(r) \in db.asked
  BY DEF BeginRequest, Send, Accept, Reject, Remove
<1>2. /\ disk' = disk /\ crashes' = crashes
      /\ db'.friend \subseteq db.friend /\ db'.asked \subseteq db.asked
      /\ db' \in Tables
  BY <1>0 DEF BeginRequest, Send, Accept, Reject, Remove, TypeOK, Tables
<1>3. mixed' \subseteq SUBSET Users
  BY <1>0 DEF BeginRequest, Send, Accept, Reject, Remove, Pair, TypeOK
<1>4. TypeOK'
  BY <1>0, <1>1, <1>2, <1>3 DEF TypeOK, Ended, InFlight
<1>5. \A a, b : Meant(a, b) => Meant(a, b)'
  BY <1>0, <1>1, MeantStays
<1>6. \A d \in {db', disk'} :
        /\ \A p \in d.asked : Meant(p[1], p[2])'
        /\ \A p \in d.friend : Meant(p[1], p[2])' /\ Meant(p[2], p[1])'
  BY <1>2, <1>5 DEF ConsentInv
<1>7. \A s \in Requests :
        /\ pc'[s] \in Befriending => /\ s.op \in {"send", "accept"}
                                     /\ Meant(s.other, s.actor)'
        /\ pc'[s] \in Asking => s.op = "send"
  <2> SUFFICES ASSUME NEW s \in Requests
               PROVE  /\ pc'[s] \in Befriending =>
                           s.op \in {"send", "accept"} /\ Meant(s.other, s.actor)'
                      /\ pc'[s] \in Asking => s.op = "send"
    OBVIOUS
  <2>1. CASE s # r
    BY <1>0, <1>1, <1>5, <2>1 DEF ConsentInv, TypeOK
  <2>2. CASE s = r /\ to = "befriend_me"
    <3>1. Meant(r.other, r.actor)
      BY <1>1, <2>2 DEF ConsentInv, Theirs
    <3> QED
      BY <1>0, <1>1, <1>5, <2>2, <3>1 DEF TypeOK, Asking
  <2>3. CASE s = r /\ to # "befriend_me"
    BY <1>0, <1>1, <2>3 DEF TypeOK, Asking, Befriending
  <2> QED
    BY <2>1, <2>2, <2>3
<1> QED
  BY <1>4, <1>6, <1>7 DEF ConsentInv

\* The steps that carry a request on.
LEMMA ContinueConsent ==
  ASSUME ConsentInv, NEW r \in Requests, ContinueRequest(r)
  PROVE  ConsentInv'
<1> USE DEF Go, Step
<1>0. TypeOK /\ r.actor \in Users /\ r.other \in Users
  BY RequestsAssumption DEF ConsentInv, Request
<1>1. PICK to \in {"refused", "check_pending", "befriend_me", "insert_request",
                   "commit", "befriend_them", "clear_request", "done"} :
        /\ pc' = [pc EXCEPT ![r] = to]
        /\ to \in {"refused", "check_pending"} => pc[r] = "check_sent"
        /\ to = "insert_request" => pc[r] = "check_pending"
        /\ to = "befriend_me" => pc[r] = "check_pending" /\ Theirs(r) \in db.asked
        /\ to = "befriend_them" => pc[r] = "befriend_me"
  BY DEF ContinueRequest, CheckSent, CheckPending, InsertRequest, BefriendMe,
         BefriendThem, ClearRequest, UnfriendThem, Commit
<1>2. crashes' = crashes /\ mixed' = mixed
  BY DEF ContinueRequest, CheckSent, CheckPending, InsertRequest, BefriendMe,
         BefriendThem, ClearRequest, UnfriendThem, Commit
<1>3. /\ db' \in Tables
      /\ disk' \in {disk, db}
      /\ \A p \in db'.asked \ db.asked : p = Mine(r) /\ pc[r] = "insert_request"
                                         /\ to = "commit"
      /\ \A p \in db'.friend \ db.friend :
           p \in {Mine(r), Theirs(r)} /\ pc[r] \in Befriending
             /\ to \in {"befriend_them", "clear_request"}
  BY <1>0, <1>1 DEF ContinueRequest, CheckSent, CheckPending, InsertRequest,
         BefriendMe, BefriendThem, ClearRequest, UnfriendThem, Commit,
         TypeOK, Tables, Mine, Theirs, Befriending
<1>4. TypeOK'
  BY <1>0, <1>1, <1>2, <1>3 DEF TypeOK, Ended, InFlight
<1>5. \A a, b : Meant(a, b) => Meant(a, b)'
  BY <1>0, <1>1, MeantStays
<1>6. pc[r] \in Befriending \cup {"insert_request"} => Meant(r.actor, r.other)
  BY DEF ConsentInv, Befriending, Asking, Meant
<1>7. pc[r] \in Befriending => Meant(r.other, r.actor)
  BY DEF ConsentInv
<1>8. \A d \in {db', disk'} :
        /\ \A p \in d.asked : Meant(p[1], p[2])'
        /\ \A p \in d.friend : Meant(p[1], p[2])' /\ Meant(p[2], p[1])'
  <2>1. \A p \in db'.asked : Meant(p[1], p[2])'
    BY <1>3, <1>5, <1>6 DEF ConsentInv, Mine
  <2>2. \A p \in db'.friend : Meant(p[1], p[2])' /\ Meant(p[2], p[1])'
    BY <1>3, <1>5, <1>6, <1>7 DEF ConsentInv, Mine, Theirs
  <2>3. /\ \A p \in disk'.asked : Meant(p[1], p[2])'
        /\ \A p \in disk'.friend : Meant(p[1], p[2])' /\ Meant(p[2], p[1])'
    BY <1>3, <1>5 DEF ConsentInv
  <2> QED
    BY <2>1, <2>2, <2>3
<1>9. \A s \in Requests :
        /\ pc'[s] \in Befriending => /\ s.op \in {"send", "accept"}
                                     /\ Meant(s.other, s.actor)'
        /\ pc'[s] \in Asking => s.op = "send"
  <2> SUFFICES ASSUME NEW s \in Requests
               PROVE  /\ pc'[s] \in Befriending =>
                           s.op \in {"send", "accept"} /\ Meant(s.other, s.actor)'
                      /\ pc'[s] \in Asking => s.op = "send"
    OBVIOUS
  <2>1. CASE s # r
    BY <1>0, <1>1, <1>5, <2>1 DEF ConsentInv, TypeOK
  <2>2. CASE s = r /\ to = "befriend_me"
    <3>1. Meant(r.other, r.actor) /\ r.op = "send"
      BY <1>1, <2>2 DEF ConsentInv, Theirs, Asking
    <3> QED
      BY <1>0, <1>1, <1>5, <2>2, <3>1 DEF TypeOK, Asking
  <2>3. CASE s = r /\ to = "befriend_them"
    BY <1>0, <1>1, <1>5, <1>7, <2>3 DEF ConsentInv, TypeOK, Asking, Befriending
  <2>4. CASE s = r /\ to \notin {"befriend_me", "befriend_them"}
    BY <1>0, <1>1, <2>4 DEF ConsentInv, TypeOK, Asking, Befriending
  <2> QED
    BY <2>1, <2>2, <2>3, <2>4
<1> QED
  BY <1>4, <1>8, <1>9 DEF ConsentInv

\* A crash goes back to links that were meant, and cuts off requests past
\* refusal without undoing that they were meant.
LEMMA CrashConsent ==
  ASSUME ConsentInv, Crash
  PROVE  ConsentInv'
<1>1. /\ db' = disk /\ disk' = disk
      /\ pc' = [r \in Requests |-> IF pc[r] \in InFlight THEN "lost" ELSE pc[r]]
      /\ TypeOK
  BY DEF Crash, ConsentInv
<1>2. mixed' \subseteq SUBSET Users /\ crashes' \in 0 .. MaxCrashes
  BY <1>1, RequestsAssumption DEF Crash, TypeOK, Pair, Request
<1>3. TypeOK'
  BY <1>1, <1>2 DEF TypeOK, Ended
<1>4. \A a, b : Meant(a, b) => Meant(a, b)'
  BY <1>1 DEF Meant
<1>5. \A r \in Requests : pc'[r] \notin InFlight
  BY <1>1 DEF InFlight
<1>6. \A d \in {db', disk'} :
        /\ \A p \in d.asked : Meant(p[1], p[2])'
        /\ \A p \in d.friend : Meant(p[1], p[2])' /\ Meant(p[2], p[1])'
  BY <1>1, <1>4 DEF ConsentInv
<1> QED
  BY <1>3, <1>5, <1>6 DEF ConsentInv, Befriending, Asking, InFlight

\* Every step keeps the invariant.
LEMMA StepConsent == ConsentInv /\ [Next]_vars => ConsentInv'
<1> SUFFICES ASSUME ConsentInv, [Next]_vars PROVE ConsentInv'
  OBVIOUS
<1>1. ASSUME NEW r \in Requests, BeginRequest(r) PROVE ConsentInv'
  BY <1>1, BeginConsent
<1>2. ASSUME NEW r \in Requests, ContinueRequest(r) PROVE ConsentInv'
  BY <1>2, ContinueConsent
<1>3. CASE CommitElsewhere
  BY <1>3 DEF CommitElsewhere, ConsentInv, TypeOK, Meant
<1>4. CASE Crash
  BY <1>4, CrashConsent
<1>5. CASE UNCHANGED vars
  BY <1>5 DEF vars, ConsentInv, TypeOK, Meant
<1> QED
  BY <1>1, <1>2, <1>3, <1>4, <1>5 DEF Next

\* Whatever overlaps and whenever the relay crashes, there is no friend link,
\* in either direction, that both sides have not wanted.
THEOREM AlwaysConsented == Spec => []Consented
<1>1. ConsentInv => Consented
  BY DEF ConsentInv, Consented, Meant, Wanted
<1> QED
  BY <1>1, InitConsent, StepConsent, PTL DEF Spec

\* The friend handlers keep their tables well typed.
COROLLARY FriendsWellTyped == Spec => []TypeOK
<1>1. ConsentInv => TypeOK
  BY DEF ConsentInv
<1> QED
  BY <1>1, InitConsent, StepConsent, PTL DEF Spec

-----------------------------------------------------------------------------
(***************************************************************************)
(* The second half: what two users are to each other.  Requests of a pair  *)
(* that never overlapped take turns; between two turns the pair is in one  *)
(* state, and what a turn has read holds until it is over.                 *)
(***************************************************************************)
\* Friends both ways or not at all, and at most one request that is open, from
\* and to somebody who is no friend.
InOneState(a, b) ==
  /\ Mutual(a, b)
  /\ ~(<<a, b>> \in db.asked /\ <<b, a>> \in db.asked)
  /\ <<a, b>> \in db.asked \/ <<b, a>> \in db.asked => <<a, b>> \notin db.friend

\* What r knows of its pair when nobody interferes.
Knows(r) ==
  /\ pc[r] \in Asking \cup {"befriend_me"} =>
       Mine(r) \notin db.friend /\ Theirs(r) \notin db.friend
  /\ pc[r] \in {"check_sent", "unfriend_them"} =>
       ~(Mine(r) \in db.asked /\ Theirs(r) \in db.asked)
  /\ pc[r] \in {"check_pending", "insert_request", "befriend_me", "befriend_them",
                "clear_request"} => Mine(r) \notin db.asked
  /\ pc[r] = "insert_request" => Theirs(r) \notin db.asked
  /\ pc[r] \in {"befriend_them", "clear_request"} => Mine(r) \in db.friend
  /\ pc[r] = "clear_request" => Theirs(r) \in db.friend
  /\ pc[r] = "unfriend_them" => Mine(r) \notin db.friend
  /\ pc[r] = "commit" => InOneState(r.actor, r.other)

\* Requests of a pair that never overlapped do not overlap.
TakeTurns ==
  \A r, s \in Requests :
    pc[r] \in InFlight /\ pc[s] \in InFlight /\ Pair(r) = Pair(s)
      /\ Pair(r) \notin mixed => r = s

TurnsInv ==
  /\ TypeOK
  /\ TakeTurns
  /\ \A r \in Requests : pc[r] \in InFlight /\ Pair(r) \notin mixed => Knows(r)
  /\ \A a, b \in Users :
       a # b /\ Quiet(a, b) /\ {a, b} \notin mixed => InOneState(a, b)

\* Statements a request has still to follow up with a commit.
Unsaved == {"befriend_them", "clear_request", "unfriend_them", "commit"}

SameRow(p) == /\ p \in db.friend <=> p \in disk.friend
              /\ p \in db.asked <=> p \in disk.asked

\* Unless a request of theirs has written and not committed, a pair's rows are
\* on disk as they are in db.
SavedInv ==
  \A a, b \in Users :
    (\A r \in Requests : Pair(r) = {a, b} => pc[r] \notin Unsaved) =>
      SameRow(<<a, b>>) /\ SameRow(<<b, a>>)

\* A request is between two users, and its pair has no rows but two of each
\* kind.
LEMMA RowsOfAPair ==
  ASSUME NEW r \in Requests
  PROVE  /\ r.actor \in Users /\ r.other \in Users /\ r.actor # r.other
         /\ Pair(r) = {r.actor, r.other}
         /\ \A a, b : a # b /\ {a, b} = Pair(r) =>
              (a = r.actor /\ b = r.other) \/ (a = r.other /\ b = r.actor)
         /\ \A a, b : {a, b} # Pair(r) =>
              <<a, b>> \notin {Mine(r), Theirs(r)} /\ <<b, a>> \notin {Mine(r), Theirs(r)}
  BY RequestsAssumption DEF Request, Pair, Mine, Theirs

RowsStay(p) == /\ p \in db'.friend <=> p \in db.friend
               /\ p \in db'.asked <=> p \in db.asked

\* A pair is in one state as long as its rows stay, and either way round.
LEMMA StateStays ==
  ASSUME NEW a, NEW b, RowsStay(<<a, b>>), RowsStay(<<b, a>>)
  PROVE  InOneState(a, b)' <=> InOneState(a, b)
  BY DEF RowsStay, InOneState, Mutual

LEMMA StateTurned ==
  ASSUME NEW a, NEW b
  PROVE  InOneState(a, b)' => InOneState(b, a)'
  BY DEF InOneState, Mutual

\* A step of a request moves nothing but the rows of its pair.
LEMMA OwnRowsOnly ==
  ASSUME TypeOK, NEW r \in Requests, BeginRequest(r) \/ ContinueRequest(r),
         NEW p, p \notin {Mine(r), Theirs(r)}
  PROVE  RowsStay(p)
  BY DEF BeginRequest, Send, Accept, Reject, Remove, ContinueRequest, CheckSent,
         CheckPending, InsertRequest, BefriendMe, BefriendThem, ClearRequest,
         UnfriendThem, Commit, TypeOK, Tables, RowsStay

\* What is left to show of a step: that the pair it is about is as it should be.
LEMMA TurnTaken ==
  ASSUME TurnsInv, TypeOK', NEW r \in Requests, NEW to,
         pc' = [pc EXCEPT ![r] = to], mixed \subseteq mixed',
         \A p : p \notin {Mine(r), Theirs(r)} => RowsStay(p),
         Pair(r) \notin mixed' =>
           /\ to \in InFlight => Knows(r)'
           /\ to \notin InFlight => InOneState(r.actor, r.other)'
           /\ \A s \in Requests : Pair(s) = Pair(r) /\ pc[s] \in InFlight => s = r
  PROVE  TurnsInv'
<1>0. /\ TakeTurns
      /\ \A s \in Requests : pc'[s] = IF s = r THEN to ELSE pc[s]
  BY DEF TurnsInv, TypeOK
<1>1. TakeTurns'
  <2> SUFFICES ASSUME NEW s \in Requests, NEW t \in Requests,
                      pc'[s] \in InFlight, pc'[t] \in InFlight,
                      Pair(s) = Pair(t), Pair(s) \notin mixed'
               PROVE  s = t
    BY DEF TakeTurns, Pair
  <2>1. CASE Pair(s) = Pair(r)
    BY <1>0, <2>1
  <2>2. CASE Pair(s) # Pair(r)
    <3>1. s # r /\ t # r
      BY <2>2
    <3> QED
      BY <1>0, <3>1 DEF TakeTurns
  <2> QED
    BY <2>1, <2>2
<1>2. ASSUME NEW s \in Requests, pc'[s] \in InFlight, Pair(s) \notin mixed'
      PROVE  Knows(s)'
  <2>1. CASE s = r
    BY <1>0, <1>2, <2>1
  <2>2. CASE s # r
    <3>1. pc'[s] = pc[s] /\ Pair(s) # Pair(r) /\ Knows(s)
      BY <1>0, <1>2, <2>2 DEF TurnsInv
    <3>2. /\ Mine(s) \notin {Mine(r), Theirs(r)} /\ Theirs(s) \notin {Mine(r), Theirs(r)}
          /\ Mine(s) = <<s.actor, s.other>> /\ Theirs(s) = <<s.other, s.actor>>
      BY <3>1, RowsOfAPair DEF Mine, Theirs
    <3>3. RowsStay(Mine(s)) /\ RowsStay(Theirs(s))
      BY <3>2
    <3>4. InOneState(s.actor, s.other)' <=> InOneState(s.actor, s.other)
      BY <3>2, <3>3, StateStays
    <3> QED
      BY <3>1, <3>3, <3>4 DEF Knows, RowsStay, Mine, Theirs
  <2> QED
    BY <2>1, <2>2
<1>3. ASSUME NEW a \in Users, NEW b \in Users, a # b, Quiet(a, b)',
             {a, b} \notin mixed'
      PROVE  InOneState(a, b)'
  <2>1. CASE {a, b} = Pair(r)
    <3>1. InOneState(r.actor, r.other)'
      BY <1>0, <1>3, <2>1 DEF Quiet, Pair
    <3> QED
      BY <1>3, <2>1, <3>1, RowsOfAPair, StateTurned
  <2>2. CASE {a, b} # Pair(r)
    <3>1. Quiet(a, b)
      BY <1>0, <1>3, <2>2 DEF Quiet, Pair
    <3>2. InOneState(a, b)
      BY <1>3, <3>1 DEF TurnsInv
    <3>3. RowsStay(<<a, b>>) /\ RowsStay(<<b, a>>)
      BY <2>2, RowsOfAPair
    <3> QED
      BY <3>2, <3>3, StateStays
  <2> QED
    BY <2>1, <2>2
<1> QED
  BY <1>1, <1>2, <1>3 DEF TurnsInv, Pair

\* A request that begins while its pair is quiet finds it in one state.
LEMMA BeginTurn ==
  ASSUME ConsentInv, TurnsInv, NEW r \in Requests, BeginRequest(r)
  PROVE  TurnsInv'
<1>0. TypeOK /\ TypeOK' /\ pc[r] = "idle"
  BY BeginConsent DEF ConsentInv, BeginRequest, Send, Accept, Reject, Remove,
                      Start, Step
<1>1. PICK to : /\ pc' = [pc EXCEPT ![r] = to]
                /\ to \in {"refused", "check_sent", "befriend_me", "commit",
                           "unfriend_them"}
  BY DEF BeginRequest, Send, Accept, Reject, Remove, Start, Step
<1>2. mixed' = IF \E s \in Requests : pc[s] \in InFlight /\ Pair(s) = Pair(r)
                 THEN mixed \cup {Pair(r)} ELSE mixed
  BY DEF BeginRequest, Send, Accept, Reject, Remove, Start
<1>3. ASSUME Pair(r) \notin mixed'
      PROVE  /\ to \in InFlight => Knows(r)'
             /\ to \notin InFlight => InOneState(r.actor, r.other)'
             /\ \A s \in Requests : Pair(s) = Pair(r) /\ pc[s] \in InFlight => s = r
  <2>1. /\ ~\E s \in Requests : pc[s] \in InFlight /\ Pair(s) = Pair(r)
        /\ Pair(r) \notin mixed
    BY <1>2, <1>3
  <2>2. InOneState(r.actor, r.other)
    <3>1. Quiet(r.actor, r.other)
      BY <2>1 DEF Quiet, Pair
    <3> QED
      BY <2>1, <3>1, RowsOfAPair DEF TurnsInv
  <2>3. pc'[r] = to
    BY <1>0, <1>1 DEF TypeOK
  <2>4. CASE Send(r)
    <3>1. db' = db /\ to = IF Mine(r) \in db.friend THEN "refused" ELSE "check_sent"
      BY <1>0, <2>3, <2>4 DEF Send, Start, Step, TypeOK
    <3> QED
      BY <2>1, <2>2, <2>3, <3>1
      DEF InOneState, Mutual, Knows, Mine, Theirs, Asking, InFlight
  <2>5. CASE Accept(r)
    <3>1. db' = db /\ to = IF Theirs(r) \in db.asked THEN "befriend_me" ELSE "refused"
      BY <1>0, <2>3, <2>5 DEF Accept, Start, Step, TypeOK
    <3> QED
      BY <2>1, <2>2, <2>3, <3>1
      DEF InOneState, Mutual, Knows, Mine, Theirs, Asking, InFlight
  <2>6. CASE Reject(r)
    <3>1. to = "commit" /\ db'.friend = db.friend /\ db'.asked = db.asked \ {Theirs(r)}
      BY <1>0, <2>3, <2>6 DEF Reject, Start, Step, TypeOK, Tables
    <3> QED
      BY <2>1, <2>2, <2>3, <3>1
      DEF InOneState, Mutual, Knows, Mine, Theirs, Asking, InFlight
  <2>7. CASE Remove(r)
    <3>1. /\ to = "unfriend_them"
          /\ db'.friend = db.friend \ {Mine(r)} /\ db'.asked = db.asked
      BY <1>0, <2>3, <2>7 DEF Remove, Start, Step, TypeOK, Tables
    <3> QED
      BY <2>1, <2>2, <2>3, <3>1
      DEF InOneState, Mutual, Knows, Mine, Theirs, Asking, InFlight
  <2> QED
    BY <2>4, <2>5, <2>6, <2>7 DEF BeginRequest
<1>4. \A p : p \notin {Mine(r), Theirs(r)} => RowsStay(p)
  BY <1>0, OwnRowsOnly
<1>5. mixed \subseteq mixed'
  BY <1>2
<1> QED
  BY <1>0, <1>1, <1>3, <1>4, <1>5, TurnTaken

\* A request that goes on finds what it knew, and knows what it did.
LEMMA ContinueTurn ==
  ASSUME ConsentInv, TurnsInv, NEW r \in Requests, ContinueRequest(r)
  PROVE  TurnsInv'
<1>0. TypeOK /\ TypeOK' /\ pc[r] \in InFlight /\ mixed' = mixed
  BY ContinueConsent
  DEF ConsentInv, ContinueRequest, CheckSent, CheckPending, InsertRequest,
      BefriendMe, BefriendThem, ClearRequest, UnfriendThem, Commit, Go, Step,
      InFlight
<1>1. PICK to : pc' = [pc EXCEPT ![r] = to]
  BY DEF ContinueRequest, CheckSent, CheckPending, InsertRequest, BefriendMe,
         BefriendThem, ClearRequest, UnfriendThem, Commit, Go, Step
<1>2. pc'[r] = to
  BY <1>0, <1>1 DEF TypeOK
<1>3. ASSUME Pair(r) \notin mixed'
      PROVE  /\ to \in InFlight => Knows(r)'
             /\ to \notin InFlight => InOneState(r.actor, r.other)'
             /\ \A s \in Requests : Pair(s) = Pair(r) /\ pc[s] \in InFlight => s = r
  <2>1. /\ \A s \in Requests : Pair(s) = Pair(r) /\ pc[s] \in InFlight => s = r
        /\ Knows(r)
    BY <1>0, <1>3 DEF TurnsInv, TakeTurns
  <2>2. /\ Mine(r) = <<r.actor, r.other>> /\ Theirs(r) = <<r.other, r.actor>>
        /\ Mine(r) # Theirs(r)
    BY RowsOfAPair DEF Mine, Theirs
  <2> DEFINE me == Mine(r)
             them == Theirs(r)
  <2>3. CASE CheckSent(r)
    <3>1. /\ db' = db /\ pc[r] = "check_sent"
          /\ to = IF me \in db.asked THEN "refused" ELSE "check_pending"
      BY <1>0, <1>2, <2>3 DEF CheckSent, Go, Step, TypeOK
    <3> QED
      BY <1>2, <2>1, <2>2, <3>1 DEF InOneState, Mutual, Knows, Mine, Theirs, Asking, InFlight
  <2>4. CASE CheckPending(r)
    <3>1. /\ db' = db /\ pc[r] = "check_pending"
          /\ to = IF them \in db.asked THEN "befriend_me" ELSE "insert_request"
      BY <1>0, <1>2, <2>4 DEF CheckPending, Go, Step, TypeOK
    <3> QED
      BY <1>2, <2>1, <2>2, <3>1 DEF InOneState, Mutual, Knows, Mine, Theirs, Asking, InFlight
  <2>5. CASE InsertRequest(r)
    <3>1. /\ pc[r] = "insert_request" /\ to = "commit"
          /\ db'.friend = db.friend /\ db'.asked = db.asked \cup {me}
      BY <1>0, <1>2, <2>5 DEF InsertRequest, Go, Step, TypeOK, Tables
    <3> QED
      BY <1>2, <2>1, <2>2, <3>1 DEF InOneState, Mutual, Knows, Mine, Theirs, Asking, InFlight
  <2>6. CASE BefriendMe(r)
    <3>1. /\ pc[r] = "befriend_me" /\ to = "befriend_them"
          /\ db'.friend = db.friend \cup {me} /\ db'.asked = db.asked
      BY <1>0, <1>2, <2>6 DEF BefriendMe, Go, Step, TypeOK, Tables
    <3> QED
      BY <1>2, <2>1, <2>2, <3>1 DEF InOneState, Mutual, Knows, Mine, Theirs, Asking, InFlight
  <2>7. CASE BefriendThem(r)
    <3>1. /\ pc[r] = "befriend_them" /\ to = "clear_request"
          /\ db'.friend = db.friend \cup {them} /\ db'.asked = db.asked
      BY <1>0, <1>2, <2>7 DEF BefriendThem, Go, Step, TypeOK, Tables
    <3> QED
      BY <1>2, <2>1, <2>2, <3>1 DEF InOneState, Mutual, Knows, Mine, Theirs, Asking, InFlight
  <2>8. CASE ClearRequest(r)
    <3>1. /\ pc[r] = "clear_request" /\ to = "commit"
          /\ db'.friend = db.friend /\ db'.asked = db.asked \ {them}
      BY <1>0, <1>2, <2>8 DEF ClearRequest, Go, Step, TypeOK, Tables
    <3> QED
      BY <1>2, <2>1, <2>2, <3>1 DEF InOneState, Mutual, Knows, Mine, Theirs, Asking, InFlight
  <2>9. CASE UnfriendThem(r)
    <3>1. /\ pc[r] = "unfriend_them" /\ to = "commit"
          /\ db'.friend = db.friend \ {them} /\ db'.asked = db.asked
      BY <1>0, <1>2, <2>9 DEF UnfriendThem, Go, Step, TypeOK, Tables
    <3> QED
      BY <1>2, <2>1, <2>2, <3>1 DEF InOneState, Mutual, Knows, Mine, Theirs, Asking, InFlight
  <2>10. CASE Commit(r)
    <3>1. pc[r] = "commit" /\ to = "done" /\ db' = db
      BY <1>0, <1>2, <2>10 DEF Commit, Go, Step, TypeOK
    <3> QED
      BY <1>2, <2>1, <2>2, <3>1 DEF InOneState, Mutual, Knows, Mine, Theirs, Asking, InFlight
  <2> QED
    BY <2>3, <2>4, <2>5, <2>6, <2>7, <2>8, <2>9, <2>10 DEF ContinueRequest
<1>4. \A p : p \notin {Mine(r), Theirs(r)} => RowsStay(p)
  BY <1>0, OwnRowsOnly
<1> QED
  BY <1>0, <1>1, <1>3, <1>4, TurnTaken

\* Of a request that has written, the pair is as on disk only after a commit.
LEMMA SavedStep ==
  ASSUME TypeOK, SavedInv, NEW r \in Requests, BeginRequest(r) \/ ContinueRequest(r)
  PROVE  SavedInv'
<1>1. PICK to : pc' = [pc EXCEPT ![r] = to]
  BY DEF BeginRequest, Send, Accept, Reject, Remove, Start, ContinueRequest,
         CheckSent, CheckPending, InsertRequest, BefriendMe, BefriendThem,
         ClearRequest, UnfriendThem, Commit, Go, Step
<1>2. \A s \in Requests : pc'[s] = IF s = r THEN to ELSE pc[s]
  BY <1>1 DEF TypeOK
<1>3. CASE db' = db /\ disk' = db
  BY <1>3 DEF SavedInv, SameRow
<1>4. CASE disk' = disk /\ (to \in Unsaved \/ (db' = db /\ pc[r] \notin Unsaved))
  <2> SUFFICES ASSUME NEW a \in Users, NEW b \in Users,
                      \A s \in Requests : Pair(s) = {a, b} => pc'[s] \notin Unsaved
               PROVE  SameRow(<<a, b>>)' /\ SameRow(<<b, a>>)'
    BY DEF SavedInv, Pair
  <2>1. CASE {a, b} = Pair(r)
    <3>1. db' = db /\ \A s \in Requests : Pair(s) = {a, b} => pc[s] \notin Unsaved
      BY <1>2, <1>4, <2>1
    <3> QED
      BY <1>4, <3>1 DEF SavedInv, SameRow
  <2>2. CASE {a, b} # Pair(r)
    <3>1. \A s \in Requests : Pair(s) = {a, b} => pc[s] \notin Unsaved
      BY <1>2, <2>2
    <3>2. RowsStay(<<a, b>>) /\ RowsStay(<<b, a>>)
      BY <2>2, RowsOfAPair, OwnRowsOnly
    <3>3. SameRow(<<a, b>>) /\ SameRow(<<b, a>>)
      BY <3>1 DEF SavedInv
    <3> QED
      BY <1>4, <3>2, <3>3 DEF SameRow, RowsStay
  <2> QED
    BY <2>1, <2>2
<1>5. \/ db' = db /\ disk' = db
      \/ disk' = disk /\ (to \in Unsaved \/ (db' = db /\ pc[r] \notin Unsaved))
  <2>1. pc'[r] = to
    BY <1>2
  <2> QED
    BY <2>1
    DEF BeginRequest, Send, Accept, Reject, Remove, Start, ContinueRequest,
        CheckSent, CheckPending, InsertRequest, BefriendMe, BefriendThem,
        ClearRequest, UnfriendThem, Commit, Go, Step, Unsaved, TypeOK
<1> QED
  BY <1>3, <1>4, <1>5

\* All of it: whose request may be on its way, what it knows, what is on disk.
FriendsInv == ConsentInv /\ TurnsInv /\ SavedInv

LEMMA FriendsStart == Init => FriendsInv
<1> SUFFICES ASSUME Init PROVE FriendsInv
  OBVIOUS
<1>1. ConsentInv /\ TypeOK
  BY InitConsent DEF ConsentInv
<1>2. /\ db = [friend |-> {}, asked |-> {}] /\ disk = db
      /\ \A r \in Requests : pc[r] \notin InFlight
  BY DEF Init, InFlight
<1>3. TurnsInv
  BY <1>1, <1>2 DEF TurnsInv, TakeTurns, InOneState, Mutual
<1>4. SavedInv
  BY <1>2 DEF SavedInv, SameRow
<1> QED
  BY <1>1, <1>3, <1>4 DEF FriendsInv

\* A crash cuts off the turn of a pair, which counts as mixed from then on, and
\* goes back to rows that are as they were of every pair that was quiet.
LEMMA CrashTurn ==
  ASSUME ConsentInv, TurnsInv, SavedInv, Crash
  PROVE  TurnsInv' /\ SavedInv'
<1>1. /\ db' = disk /\ disk' = disk
      /\ \A r \in Requests : pc'[r] = IF pc[r] \in InFlight THEN "lost" ELSE pc[r]
      /\ mixed' = mixed \cup {Pair(r) : r \in {s \in Requests : pc[s] \in InFlight}}
  BY DEF Crash
<1>2. TypeOK' /\ \A r \in Requests : pc'[r] \notin InFlight
  BY <1>1, CrashConsent DEF ConsentInv, InFlight
<1>3. SavedInv'
  BY <1>1 DEF SavedInv, SameRow
<1>4. ASSUME NEW a \in Users, NEW b \in Users, a # b, {a, b} \notin mixed'
      PROVE  InOneState(a, b)'
  <2>1. Quiet(a, b) /\ {a, b} \notin mixed
    BY <1>1, <1>4 DEF Quiet
  <2>2. SameRow(<<a, b>>) /\ SameRow(<<b, a>>)
    BY <2>1 DEF Quiet, SavedInv, Unsaved, InFlight
  <2>3. RowsStay(<<a, b>>) /\ RowsStay(<<b, a>>)
    BY <1>1, <2>2 DEF SameRow, RowsStay
  <2> QED
    BY <1>4, <2>1, <2>3, StateStays DEF TurnsInv
<1> QED
  BY <1>2, <1>3, <1>4 DEF TurnsInv, TakeTurns

\* Every step.
LEMMA FriendsStep == FriendsInv /\ [Next]_vars => FriendsInv'
<1> SUFFICES ASSUME FriendsInv, [Next]_vars PROVE FriendsInv'
  OBVIOUS
<1>0. ConsentInv /\ TurnsInv /\ SavedInv /\ TypeOK
  BY DEF FriendsInv, ConsentInv
<1>1. ConsentInv'
  BY <1>0, StepConsent
<1>2. ASSUME NEW r \in Requests, BeginRequest(r) \/ ContinueRequest(r)
      PROVE  FriendsInv'
  BY <1>0, <1>1, <1>2, BeginTurn, ContinueTurn, SavedStep DEF FriendsInv
<1>3. CASE CommitElsewhere
  <2>1. UNCHANGED <<db, pc, mixed>> /\ disk' = db
    BY <1>3 DEF CommitElsewhere
  <2>2. SavedInv'
    BY <2>1 DEF SavedInv, SameRow
  <2>3. TurnsInv'
    BY <1>0, <1>1, <2>1 DEF TurnsInv, ConsentInv, TakeTurns, Knows, InOneState,
                            Mutual, Quiet
  <2> QED
    BY <1>1, <2>2, <2>3 DEF FriendsInv
<1>4. CASE Crash
  BY <1>0, <1>1, <1>4, CrashTurn DEF FriendsInv
<1>5. CASE UNCHANGED vars
  <2>1. UNCHANGED <<db, disk, pc, mixed>>
    BY <1>5 DEF vars
  <2>2. TurnsInv'
    BY <1>0, <1>1, <2>1 DEF TurnsInv, ConsentInv, TakeTurns, Knows, InOneState,
                            Mutual, Quiet
  <2>3. SavedInv'
    BY <1>0, <2>1 DEF SavedInv, SameRow
  <2> QED
    BY <1>1, <2>2, <2>3 DEF FriendsInv
<1> QED
  BY <1>2, <1>3, <1>4, <1>5 DEF Next

\* Two users whose requests never overlapped, and none of which a crash cut
\* off, are friends both ways or not at all.
THEOREM FriendsStayMutual == Spec => []FriendsAreMutual
<1>1. FriendsInv => FriendsAreMutual
  BY DEF FriendsInv, TurnsInv, FriendsAreMutual, InOneState, Mutual
<1> QED
  BY <1>1, FriendsStart, FriendsStep, PTL DEF Spec

\* Of such a pair at most one thing is true: one has asked, the other has, or
\* they are friends.
THEOREM PairsHaveOneState == Spec => []OneStateOfAPair
<1>1. FriendsInv => OneStateOfAPair
  BY DEF FriendsInv, TurnsInv, OneStateOfAPair, InOneState, Mutual
<1> QED
  BY <1>1, FriendsStart, FriendsStep, PTL DEF Spec

\* A crash costs a pair none of whose requests was on its way nothing, mixed or
\* not.
THEOREM CrashesSpareAnswered == Spec => CrashSparesAnswered
<1> DEFINE Spared ==
      \A a, b \in Users :
        crashes' # crashes /\ Quiet(a, b) =>
          \A p \in {<<a, b>>, <<b, a>>} : /\ p \in db.friend <=> p \in db'.friend
                                          /\ p \in db.asked <=> p \in db'.asked
<1>1. FriendsInv /\ [Next]_vars => [Spared]_vars
  <2> SUFFICES ASSUME FriendsInv, Next, NEW a \in Users, NEW b \in Users,
                      crashes' # crashes, Quiet(a, b)
               PROVE  \A p \in {<<a, b>>, <<b, a>>} :
                        /\ p \in db.friend <=> p \in db'.friend
                        /\ p \in db.asked <=> p \in db'.asked
    OBVIOUS
  <2>1. Crash
    BY DEF Next, BeginRequest, Send, Accept, Reject, Remove, ContinueRequest,
           CheckSent, CheckPending, InsertRequest, BefriendMe, BefriendThem,
           ClearRequest, UnfriendThem, Commit, CommitElsewhere, Go
  <2>2. SameRow(<<a, b>>) /\ SameRow(<<b, a>>)
    BY DEF FriendsInv, SavedInv, Quiet, Unsaved, InFlight
  <2> QED
    BY <2>1, <2>2 DEF Crash, SameRow
<1> QED
  BY <1>1, FriendsStart, FriendsStep, PTL DEF Spec, CrashSparesAnswered
===============================================================================
