-------------------------------- MODULE DagUsers --------------------------------
(***************************************************************************)
(* How users of the second server, app/server/server_v2.py, log in, and    *)
(* give their entity the keys of their devices.  Challenges and sessions   *)
(* are dictionaries of the process, one challenge an entity; the keys are  *)
(* one column of its row, read, extended and written back as a whole.      *)
(*                                                                         *)
(* A visit is a request: "login" asks for a challenge and then shows it    *)
(* signed, "verify" shows a challenge that a login has asked for once more *)
(* (a client that sends its answer twice), "device" adds a key.  A         *)
(* signature is by the key the visit names.                                *)
(***************************************************************************)
EXTENDS Naturals

CONSTANTS
  DagTraffic,    \* sets of visits, those of one behaviour; a visit is a record
                 \* [op, user, ticket, key], and ticket names its challenge
  MaxDagCrashes  \* bound

\* Challenges are random: no two logins of a user have one ticket.  A device brings a
\* key of its own.
ASSUME DagUsersAssumption ==
  /\ MaxDagCrashes \in Nat
  /\ \A t \in DagTraffic : \A v, w \in t :
       /\ v.op \in {"login", "verify", "device"}
       /\ v.op = "login" => v.ticket # 0
       /\ v.op = "device" => v.key # "root"
       /\ v.op = "login" /\ w.op = "login" /\ v.user = w.user /\ v.ticket = w.ticket => v = w

VARIABLES
  visits,        \* the member of DagTraffic
  userDb,        \* userDb[u]: the device keys of the row of u
  userDisk,
  dagChallenge,  \* dagChallenge[u]: the ticket of the challenge that stands, or 0
  dagSessions,   \* tokens: whose, and of which visit
  visit,         \* visit[v]: where v is and what it has read; history: which visits
                 \* it overlapped, which were done when it began, and whether a
                 \* crash has cut it off between its two requests
  dagCrashes

dagUserVars == <<visits, userDb, userDisk, dagChallenge, dagSessions, visit, dagCrashes>>

DagUsersOf == {v.user : v \in UNION DagTraffic}
Devices    == {v.key : v \in UNION DagTraffic} \ {"root"}
Answers    == {"ok", "refused", "raised", "lost"}
UnderWay(v)   == visit[v].at \notin Answers \cup {"idle"}

DagUsersInit ==
  /\ visits \in DagTraffic
  /\ userDb = [u \in DagUsersOf |-> {}]
  /\ userDisk = userDb
  /\ dagChallenge = [u \in DagUsersOf |-> 0]
  /\ dagSessions = {}
  /\ visit = [v \in visits |-> [at |-> "idle", keys |-> {}, cut |-> FALSE,
                             met |-> {}, past |-> {}]]
  /\ dagCrashes = 0

DagUsersTypeOK ==
  /\ visits \in DagTraffic
  /\ DOMAIN visit = visits
  /\ userDb \in [DagUsersOf -> SUBSET Devices]
  /\ userDisk \in [DagUsersOf -> SUBSET Devices]
  /\ dagChallenge \in [DagUsersOf -> {0} \cup {v.ticket : v \in visits}]
  /\ \A s \in dagSessions : s.user = s.visit.user /\ s.visit.op # "device"
  /\ \A v \in visits :
       /\ visit[v].at \in {"idle", "asked", "entity", "session", "found", "keys", "write",
                           "commit"} \cup Answers
       /\ visit[v].keys \subseteq Devices
       /\ v \notin visit[v].met \cup visit[v].past
  /\ dagCrashes \in 0 .. MaxDagCrashes

-----------------------------------------------------------------------------
Enters(v, to) ==
  /\ visit[v].at = "idle"
  /\ visit' = [w \in visits |->
       IF w = v THEN [visit[v] EXCEPT !.at = to, !.met = {x \in visits : UnderWay(x)},
                                      !.past = {x \in visits : visit[x].at = "ok"}]
       ELSE IF UnderWay(w) /\ to \notin Answers THEN [visit[w] EXCEPT !.met = @ \cup {v}]
       ELSE visit[w]]
  /\ UNCHANGED <<visits, dagCrashes>>

Moves(v, from, to) ==
  /\ visit[v].at = from
  /\ visit' = [visit EXCEPT ![v].at = to]
  /\ UNCHANGED <<visits, dagCrashes>>

NoRowChange == UNCHANGED <<userDb, userDisk>>

\* auth_challenge: the newest challenge of an entity replaces the one before.
GiveChallenge(v) ==
  /\ v.op = "login"
  /\ Enters(v, "asked")
  /\ dagChallenge' = [dagChallenge EXCEPT ![v.user] = v.ticket]
  /\ UNCHANGED dagSessions
  /\ NoRowChange

\* auth_verify up to its only await
ShowChallenge(v) ==
  LET to == IF dagChallenge[v.user] = v.ticket THEN "entity" ELSE "refused"
  IN  /\ \/ v.op = "login" /\ Moves(v, "asked", to)
         \/ /\ v.op = "verify"
            /\ \E w \in visits :
                 w.op = "login" /\ w.ticket = v.ticket /\ visit[w].at # "idle"
            /\ Enters(v, to)
      /\ UNCHANGED <<dagChallenge, dagSessions>>
      /\ NoRowChange

ReadEntity(v, from, to) ==
  /\ visit[v].at = from
  /\ visit' = [visit EXCEPT ![v].at = to, ![v].keys = userDb[v.user]]
  /\ UNCHANGED <<visits, dagChallenge, dagSessions, dagCrashes>>
  /\ NoRowChange

Recognised(v) == v.key = "root" \/ v.key \in visit[v].keys

\* Mistake: the challenge is kept.
OpenDagSessionOnly(v) ==
  /\ Moves(v, "session", IF Recognised(v) THEN "ok" ELSE "refused")
  /\ dagSessions' = dagSessions \cup
       IF Recognised(v) THEN {[user |-> v.user, visit |-> v]} ELSE {}
  /\ UNCHANGED dagChallenge
  /\ NoRowChange

\* The rest of auth_verify: the challenge is deleted by entity, whichever it is now;
\* where there is none the session has been opened but its token is not answered.
OpenDagSession(v) ==
  \/ /\ Recognised(v)
     /\ Moves(v, "session", IF dagChallenge[v.user] = 0 THEN "raised" ELSE "ok")
     /\ dagSessions' = dagSessions \cup {[user |-> v.user, visit |-> v]}
     /\ dagChallenge' = [dagChallenge EXCEPT ![v.user] = 0]
     /\ NoRowChange
  \/ /\ ~Recognised(v)
     /\ Moves(v, "session", "refused")
     /\ UNCHANGED <<dagChallenge, dagSessions>>
     /\ NoRowChange

\* POST devices: only with a session of the entity
AddDevice(v) ==
  /\ v.op = "device"
  /\ Enters(v, IF \E s \in dagSessions : s.user = v.user THEN "found" ELSE "refused")
  /\ UNCHANGED <<dagChallenge, dagSessions>>
  /\ NoRowChange

\* add_device_key writes all keys back, the ones it has read and the new one.
WriteKeys(v) ==
  /\ Moves(v, "write", "commit")
  /\ userDb' = [userDb EXCEPT ![v.user] = visit[v].keys \cup {v.key}]
  /\ UNCHANGED <<userDisk, dagChallenge, dagSessions>>

CommitKeys(v) ==
  /\ Moves(v, "commit", "ok")
  /\ userDisk' = userDb
  /\ UNCHANGED <<userDb, dagChallenge, dagSessions>>

\* The process ends: challenges, sessions and what is not committed are gone.
DagUsersCrash ==
  /\ dagCrashes < MaxDagCrashes
  /\ dagCrashes' = dagCrashes + 1
  /\ visit' = [v \in visits |->
       IF visit[v].at = "asked" THEN [visit[v] EXCEPT !.cut = TRUE]
       ELSE IF UnderWay(v) THEN [visit[v] EXCEPT !.at = "lost"]
       ELSE visit[v]]
  /\ userDb' = userDisk
  /\ dagChallenge' = [u \in DagUsersOf |-> 0]
  /\ dagSessions' = {}
  /\ UNCHANGED <<visits, userDisk>>

DagUsersNext ==
  \/ \E v \in visits :
       \/ GiveChallenge(v)
       \/ ShowChallenge(v)
       \/ ReadEntity(v, "entity", "session")
       \/ OpenDagSession(v)
       \/ AddDevice(v)
       \/ ReadEntity(v, "found", "keys")  \* the handler's, and add_device_key's
       \/ ReadEntity(v, "keys", "write")
       \/ WriteKeys(v)
       \/ CommitKeys(v)
  \/ DagUsersCrash

-----------------------------------------------------------------------------
\* A challenge opens one session, or several for answers that were verified at the
\* same time.
OneSessionAChallenge ==
  \A s, t \in dagSessions :
    s # t /\ s.user = t.user /\ s.visit.ticket = t.visit.ticket =>
      s.visit \in visit[t.visit].met \/ t.visit \in visit[s.visit].met

\* Added alone: no other key of the entity was added at the same time.
AddedAlone(v) ==
  \A w \in visits \ {v} : w.op = "device" /\ w.user = v.user =>
    w \notin visit[v].met /\ v \notin visit[w].met

\* A device that was added stays, unless another was added at the same time.
DevicesAreKept ==
  \A v \in visits : v.op = "device" /\ visit[v].at = "ok" /\ AddedAlone(v)
                      => v.key \in userDisk[v.user] \cap userDb[v.user]

\* A login by the root key, or by a device added before it began, succeeds, unless
\* another of the entity overlapped it: that takes its challenge away.
RightKeysLogIn ==
  \A v \in visits :
    /\ v.op = "login" /\ visit[v].at \in {"refused", "raised"}
    /\ \/ v.key = "root"
       \/ \E w \in visit[v].past : w.op = "device" /\ w.user = v.user /\ w.key = v.key
                                    /\ AddedAlone(w)
    => visit[v].cut \/ \E w \in visit[v].met : w.op # "device" /\ w.user = v.user

DagLoginsHold == OneSessionAChallenge /\ DevicesAreKept /\ RightKeysLogIn
=============================================================================
