------------------------------ MODULE RelayAuth ------------------------------
(***************************************************************************)
(* How a user comes to and into the relay, app/server/main.py: entities    *)
(* with their handles are rows (db, disk and commits as in RelayLog),      *)
(* challenges and sessions are dictionaries of the process.                *)
(*                                                                         *)
(* A caller is one run of a client, with at most one request here at a     *)
(* time; an entity is named by the caller that made its key, and known to  *)
(* the relay under an id, the hash of the key.  A challenge is the caller  *)
(* it was given to.  A signature shown is a right one: the client signs    *)
(* with the key it names.                                                  *)
(***************************************************************************)
EXTENDS Clients

CONSTANTS
  MaxRelayCrashes  \* bound: crashes of the relay in one behaviour

ASSUME RelayAuthAssumption == MaxRelayCrashes \in Nat

VARIABLES
  relayDb,       \* entities, and those whose first event is logged
  relayDisk,
  relayPc,       \* relayPc[c]: what c's request awaits, or its answer
  challenges,    \* challenges[i]: the caller whose challenge stands for id i
  relaySessions, \* tokens, as who got one for which id
  relayCrashes,
  issued,        \* history: ids and the callers given a challenge for them
  expired,       \* history: ids one of whose challenges was seen expired
  rivals         \* history: entities created at once, of one handle

relayVars == <<relayDb, relayDisk, relayPc, challenges, relaySessions,
               relayCrashes, issued, expired, rivals>>

RelayTables == [entities : SUBSET Callers, logged : SUBSET Callers]

RelaySteps == {"create_handle", "create_insert", "create_commit", "create_log",
               "create_log_commit", "verify_get", "verify_found"}

RelayTypeOK ==
  /\ relayDb \in RelayTables
  /\ relayDisk \in RelayTables
  /\ relayPc \in [Callers -> RelaySteps \cup {"idle", "ok", "no"}]
  /\ challenges \in [Ids -> Callers \cup {None}]
  /\ relaySessions \subseteq Ids \X Callers
  /\ relayCrashes \in 0 .. MaxRelayCrashes
  /\ issued \subseteq Ids \X Callers
  /\ expired \subseteq Ids
  /\ rivals \subseteq SUBSET Callers

RelayInit ==
  /\ relayDb = [entities |-> {}, logged |-> {}]
  /\ relayDisk = relayDb
  /\ relayPc = [c \in Callers |-> "idle"]
  /\ challenges = [i \in Ids |-> None]
  /\ relaySessions = {}
  /\ relayCrashes = 0
  /\ issued = {} /\ expired = {} /\ rivals = {}

-----------------------------------------------------------------------------
RelayGo(c, from, to) ==
  /\ relayPc[c] = from
  /\ relayPc' = [relayPc EXCEPT ![c] = to]
  /\ UNCHANGED <<relayCrashes, issued>>

\* A request of a caller that waits for no answer
RelayBegin(c, to) ==
  /\ relayPc[c] \in {"idle", "ok"}
  /\ relayPc' = [relayPc EXCEPT ![c] = to]
  /\ UNCHANGED relayCrashes

AuthAlone   == UNCHANGED <<challenges, relaySessions, expired>>
EntityAlone == UNCHANGED <<relayDb, relayDisk, rivals>>

Creating(c) == relayPc[c] \in {"create_handle", "create_insert"}

HandleTaken(c) == \E k \in relayDb.entities : HandleOf[k] = HandleOf[c]

\* create_entity of c's own key, and its first question: is the id taken?
CreateEntity(c) ==
  /\ RelayBegin(c,
             IF c \in relayDb.entities THEN "no" ELSE "create_handle")
  /\ rivals' = rivals \cup {{c, d} : d \in {e \in Callers \ {c} :
                             Creating(e) /\ HandleOf[e] = HandleOf[c]}}
  /\ UNCHANGED <<relayDb, relayDisk, issued>>
  /\ AuthAlone

\* Mistake: handles are looked up among entities with a logged event.
CreateHandleStale(c) ==
  /\ RelayGo(c, "create_handle",
             IF \E k \in relayDb.logged : HandleOf[k] = HandleOf[c]
               THEN "no" ELSE "create_insert")
  /\ EntityAlone /\ AuthAlone

CreateHandle(c) ==
  /\ RelayGo(c, "create_handle",
             IF HandleTaken(c) THEN "no" ELSE "create_insert")
  /\ EntityAlone /\ AuthAlone

CreateInsert(c) ==
  /\ RelayGo(c, "create_insert", "create_commit")
  /\ relayDb' = [relayDb EXCEPT !.entities = @ \cup {c}]
  /\ UNCHANGED <<relayDisk, rivals>>
  /\ AuthAlone

CreateCommit(c, from, to) ==
  /\ RelayGo(c, from, to)
  /\ relayDisk' = relayDb
  /\ UNCHANGED <<relayDb, rivals>>
  /\ AuthAlone

\* append_log of the entity's first event; what it asks of the log's heads is
\* RelayLog's.
CreateLog(c) ==
  /\ RelayGo(c, "create_log", "create_log_commit")
  /\ relayDb' = [relayDb EXCEPT !.logged = @ \cup {c}]
  /\ UNCHANGED <<relayDisk, rivals>>
  /\ AuthAlone

-----------------------------------------------------------------------------
\* auth_challenge awaits nothing.  A newer challenge replaces the older.
AuthChallenge(c, i) ==
  /\ RelayBegin(c, "ok")
  /\ challenges' = [challenges EXCEPT ![i] = c]
  /\ issued' = issued \cup {<<i, c>>}
  /\ UNCHANGED <<relaySessions, expired>>
  /\ EntityAlone

\* Mistake: a challenge that is not the one asked about is thrown away too.
AuthVerifyStrict(c, i) ==
  /\ RelayBegin(c, IF challenges[i] = c THEN "verify_get" ELSE "no")
  /\ challenges' = [challenges EXCEPT ![i] = IF @ = c THEN @ ELSE None]
  /\ UNCHANGED <<relaySessions, expired, issued>>
  /\ EntityAlone

\* auth_verify up to its only await
AuthVerify(c, i) ==
  /\ RelayBegin(c, IF challenges[i] = c THEN "verify_get" ELSE "no")
  /\ UNCHANGED issued
  /\ EntityAlone /\ AuthAlone

\* Five minutes have passed.
AuthVerifyLate(c, i) ==
  /\ challenges[i] # None
  /\ RelayBegin(c, "no")
  /\ challenges' = [challenges EXCEPT ![i] = None]
  /\ expired' = expired \cup {i}
  /\ UNCHANGED <<relaySessions, issued>>
  /\ EntityAlone

AuthGetEntity(c, i) ==
  /\ RelayGo(c, "verify_get",
             IF \E k \in relayDb.entities : RelayId(k) = i
               THEN "verify_found" ELSE "no")
  /\ EntityAlone /\ AuthAlone

\* Mistake: the session holds the entity, not its id.
AuthSessionRaw(c, i) ==
  /\ RelayGo(c, "verify_found", IF challenges[i] = None THEN "no" ELSE "ok")
  /\ challenges' = [challenges EXCEPT ![i] = None]
  /\ relaySessions' = relaySessions \cup {<<c, c>>}
  /\ UNCHANGED expired
  /\ EntityAlone

\* After the await: the challenge that stands is deleted, whosever it is; if
\* there is none, the handler fails there, before the session is made.
AuthSession(c, i) ==
  /\ RelayGo(c, "verify_found", IF challenges[i] = None THEN "no" ELSE "ok")
  /\ challenges' = [challenges EXCEPT ![i] = None]
  /\ relaySessions' = IF challenges[i] = None THEN relaySessions
                        ELSE relaySessions \cup {<<i, c>>}
  /\ UNCHANGED expired
  /\ EntityAlone

-----------------------------------------------------------------------------
RelayCommitElsewhere ==
  /\ relayDisk # relayDb
  /\ relayDisk' = relayDb
  /\ UNCHANGED <<relayDb, relayPc, relayCrashes, issued, rivals>>
  /\ AuthAlone

\* The process stops: its dictionaries are gone, and what was not committed.
RelayCrash ==
  /\ relayCrashes < MaxRelayCrashes
  /\ relayCrashes' = relayCrashes + 1
  /\ relayDb' = relayDisk
  /\ relayPc' = [c \in Callers |->
                   IF relayPc[c] \in RelaySteps THEN "no" ELSE relayPc[c]]
  /\ challenges' = [i \in Ids |-> None]
  /\ relaySessions' = {}
  /\ UNCHANGED <<relayDisk, issued, expired, rivals>>

\* What the relay does with a request it has begun, for an entity of id i.
RelayContinue(c, i) ==
  \/ CreateHandle(c) \/ CreateInsert(c)
  \/ CreateCommit(c, "create_commit", "create_log")
  \/ CreateLog(c)
  \/ CreateCommit(c, "create_log_commit", "ok")
  \/ AuthGetEntity(c, i) \/ AuthSession(c, i)
=============================================================================
