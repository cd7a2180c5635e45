----------------------------- MODULE Notification -----------------------------
(***************************************************************************)
(* The notification service, services/notification/main.py: a row for each *)
(* notification, and a push of it to the recipient's sockets, taken from a *)
(* copy of the set.  Database, commit and crash are as in RelayLog; a      *)
(* crash closes the sockets.                                               *)
(*                                                                         *)
(* One recipient is shown, and each notice is created by one request.      *)
(***************************************************************************)
EXTENDS Naturals, FiniteSets

CONSTANTS
  Notices,
  Listeners,       \* sockets of the recipient
  Marks,           \* bound: the notices marked read, and All for all
  MaxNoticeCrashes \* bound: crashes of the service

All == "all"

ASSUME NotificationAssumption ==
  Marks \subseteq Notices \cup {All} /\ MaxNoticeCrashes \in Nat

VARIABLES
  noticeDb,      \* rows, and those that are marked read
  noticeDisk,
  noticePc,      \* noticePc[n]: what create_notification awaits, or its answer
  marking,       \* the same of mark_read, for a notice, and mark_all_read
  active,        \* manager.active of the recipient
  known,         \* whether it has the recipient at all
  listening,     \* sockets that are up
  toSend,        \* toSend[n]: the sockets of the copy not yet sent to
  got,           \* history: got[n], the sockets n came to
  promised,      \* history: promised[n], those up and registered for all of it
  noticeCrashes

noticeVars == <<noticeDb, noticeDisk, noticePc, marking, active, known,
                listening, toSend, got, promised, noticeCrashes>>

NoticeTables == [rows : SUBSET Notices, read : SUBSET Notices]

NoticeTypeOK ==
  /\ noticeDb \in NoticeTables
  /\ noticeDisk \in NoticeTables
  /\ noticePc \in [Notices -> {"idle", "commit", "send", "no",
                               "delivered", "undelivered"}]
  /\ marking \in [Marks -> {"idle", "commit", "ok", "no"}]
  /\ active \subseteq Listeners
  /\ known \in BOOLEAN
  /\ listening \subseteq Listeners
  /\ toSend \in [Notices -> SUBSET Listeners]
  /\ got \in [Notices -> SUBSET Listeners]
  /\ promised \in [Notices -> SUBSET Listeners]
  /\ noticeCrashes \in 0 .. MaxNoticeCrashes

NoticeInit ==
  /\ noticeDb = [rows |-> {}, read |-> {}]
  /\ noticeDisk = noticeDb
  /\ noticePc = [n \in Notices |-> "idle"]
  /\ marking = [m \in Marks |-> "idle"]
  /\ active = {} /\ known = FALSE /\ listening = {}
  /\ toSend = [n \in Notices |-> {}]
  /\ got = [n \in Notices |-> {}]
  /\ promised = [n \in Notices |-> {}]
  /\ noticeCrashes = 0

-----------------------------------------------------------------------------
SocketsAlone == UNCHANGED <<active, known, listening, promised>>
RowsAlone    == UNCHANGED <<noticeDb, noticeDisk, marking>>

NoticeGo(n, from, to) ==
  /\ noticePc[n] = from
  /\ noticePc' = [noticePc EXCEPT ![n] = to]
  /\ UNCHANGED noticeCrashes

\* create_notification inserts its row,
CreateNotification(n) ==
  /\ NoticeGo(n, "idle", "commit")
  /\ noticeDb' = [noticeDb EXCEPT !.rows = @ \cup {n}]
  /\ UNCHANGED <<noticeDisk, marking, toSend, got>>
  /\ SocketsAlone

\* Mistake: the sockets first, the row's commit after.
NoticePushFirst(n) ==
  /\ NoticeGo(n, "commit", "send")
  /\ toSend' = [toSend EXCEPT ![n] = active]
  /\ promised' = [promised EXCEPT ![n] = active \cap listening]
  /\ UNCHANGED <<noticeDb, noticeDisk, marking, active, known, listening, got>>

\* commits it, and copies the recipient's sockets,
NoticeCommit(n) ==
  /\ NoticeGo(n, "commit", "send")
  /\ noticeDisk' = noticeDb
  /\ toSend' = [toSend EXCEPT ![n] = active]
  /\ promised' = [promised EXCEPT ![n] = active \cap listening]
  /\ UNCHANGED <<noticeDb, marking, active, known, listening, got>>

\* sends to each, and discards a socket that fails,
NoticeSend(n, s) ==
  /\ NoticeGo(n, "send", "send")
  /\ s \in toSend[n]
  /\ toSend' = [toSend EXCEPT ![n] = @ \ {s}]
  /\ IF s \in listening
       THEN /\ got' = [got EXCEPT ![n] = @ \cup {s}]
            /\ UNCHANGED active
       ELSE /\ active' = active \ {s}
            /\ UNCHANGED got
  /\ UNCHANGED <<known, listening, promised>>
  /\ RowsAlone

\* and calls it delivered if the recipient ever had a socket.
NoticeAnswer(n) ==
  /\ toSend[n] = {}
  /\ NoticeGo(n, "send", IF known THEN "delivered" ELSE "undelivered")
  /\ UNCHANGED <<toSend, got>>
  /\ RowsAlone /\ SocketsAlone

-----------------------------------------------------------------------------
\* mark_read and mark_all_read
MarkRead(m) ==
  /\ marking[m] = "idle"
  /\ marking' = [marking EXCEPT ![m] = "commit"]
  /\ noticeDb' = [noticeDb EXCEPT !.read =
                    @ \cup IF m = All THEN noticeDb.rows
                                      ELSE {m} \cap noticeDb.rows]
  /\ UNCHANGED <<noticeDisk, noticePc, toSend, got, noticeCrashes>>
  /\ SocketsAlone

MarkCommit(m) ==
  /\ marking[m] = "commit"
  /\ marking' = [marking EXCEPT ![m] = "ok"]
  /\ noticeDisk' = noticeDb
  /\ UNCHANGED <<noticeDb, noticePc, toSend, got, noticeCrashes>>
  /\ SocketsAlone

-----------------------------------------------------------------------------
Listen(s) ==
  /\ s \notin active \cup listening \cup UNION {toSend[n] : n \in Notices}
  /\ active' = active \cup {s}
  /\ known' = TRUE
  /\ listening' = listening \cup {s}
  /\ UNCHANGED <<noticePc, toSend, got, promised, noticeCrashes>>
  /\ RowsAlone

\* The peer is gone,
ListenerGone(s) ==
  /\ s \in listening
  /\ listening' = listening \ {s}
  /\ promised' = [n \in Notices |-> promised[n] \ {s}]
  /\ UNCHANGED <<noticePc, toSend, got, active, known, noticeCrashes>>
  /\ RowsAlone

\* and the endpoint hears of it.
ListenerDisconnect(s) ==
  /\ s \in active \ listening
  /\ active' = active \ {s}
  /\ UNCHANGED <<noticePc, toSend, got, known, listening, promised,
                 noticeCrashes>>
  /\ RowsAlone

NoticeCrash ==
  /\ noticeCrashes < MaxNoticeCrashes
  /\ noticeCrashes' = noticeCrashes + 1
  /\ noticeDb' = noticeDisk
  /\ noticePc' = [n \in Notices |-> IF noticePc[n] \in {"commit", "send"}
                                      THEN "no" ELSE noticePc[n]]
  /\ marking' = [m \in Marks |->
                   IF marking[m] = "commit" THEN "no" ELSE marking[m]]
  /\ active' = {} /\ known' = FALSE /\ listening' = {}
  /\ toSend' = [n \in Notices |-> {}]
  /\ promised' = [n \in Notices |-> {}]
  /\ UNCHANGED <<noticeDisk, got>>

NoticeNext ==
  \/ \E n \in Notices :
       \/ CreateNotification(n) \/ NoticeCommit(n) \/ NoticeAnswer(n)
       \/ \E s \in Listeners : NoticeSend(n, s)
  \/ \E m \in Marks : MarkRead(m) \/ MarkCommit(m)
  \/ \E s \in Listeners : Listen(s) \/ ListenerGone(s) \/ ListenerDisconnect(s)
  \/ NoticeCrash

-----------------------------------------------------------------------------
(***************************************************************************)
(* Properties.                                                             *)
(***************************************************************************)

\* What came to a socket or was answered is there after a restart: the client
\* that heard of a notification can fetch it.
PushedIsStored ==
  \A n \in Notices :
    (got[n] # {} \/ noticePc[n] \in {"delivered", "undelivered"}) =>
      n \in noticeDisk.rows

\* Each socket registered when the push began, and up ever since, was sent the
\* notice by the time the request is answered, and "undelivered" means that no
\* socket was.
ListenersHear ==
  \A n \in Notices :
    /\ noticePc[n] \in {"delivered", "undelivered"} => promised[n] \subseteq got[n]
    /\ noticePc[n] = "undelivered" => got[n] = {}

\* A notification is stored, and heard by whoever listens.
NoticesArrive == PushedIsStored /\ ListenersHear
=============================================================================
