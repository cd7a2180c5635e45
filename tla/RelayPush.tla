------------------------------ MODULE RelayPush ------------------------------
(***************************************************************************)
(* What the relay pushes, app/server/main.py: websocket_endpoint keeps the *)
(* sockets of a user in a list, in the order they came, and                *)
(* broadcast_event goes through the lists of an actor's followers and      *)
(* awaits a send for each socket.  The list it goes through is the live    *)
(* one.                                                                    *)
(*                                                                         *)
(* One follower is shown: the lists of two have nothing in common.         *)
(***************************************************************************)
EXTENDS Sequences, FiniteSets, SequencesExt

CONSTANTS
  Sockets,     \* connections of the follower, each made once at most
  Broadcasts   \* events of those the user follows

ASSUME PushAssumption == IsFiniteSet(Sockets)

VARIABLES
  connections, \* websocket_connections of the user
  sockets,     \* sockets[s]: "new", "open", "gone" or "removed"
  at,          \* at[b]: the position broadcast b takes next, 0 if not in its loop
  sending,     \* sending[b]: the socket b awaits a send to
  begun,       \* broadcasts begun
  heard,       \* history: heard[b], the sockets b's event came to, in order
  audience,    \* history: audience[b], the list when b's loop began
  leavers      \* history: leavers[b], those removed during b's loop

pushVars == <<connections, sockets, at, sending, begun, heard, audience,
              leavers>>

NoSocket == "no socket"

PushTypeOK ==
  /\ connections \in Seq(Sockets)
  /\ sockets \in [Sockets -> {"new", "open", "gone", "removed"}]
  /\ at \in [Broadcasts -> 0 .. Cardinality(Sockets) + 1]
  /\ sending \in [Broadcasts -> Sockets \cup {NoSocket}]
  /\ begun \subseteq Broadcasts
  /\ heard \in [Broadcasts -> Seq(Sockets)]
  /\ audience \in [Broadcasts -> SUBSET Sockets]
  /\ leavers \in [Broadcasts -> SUBSET Sockets]

PushInit ==
  /\ connections = <<>>
  /\ sockets = [s \in Sockets |-> "new"]
  /\ at = [b \in Broadcasts |-> 0]
  /\ sending = [b \in Broadcasts |-> NoSocket]
  /\ begun = {}
  /\ heard = [b \in Broadcasts |-> <<>>]
  /\ audience = [b \in Broadcasts |-> {}]
  /\ leavers = [b \in Broadcasts |-> {}]

-----------------------------------------------------------------------------
LoopsAlone == UNCHANGED <<at, sending, begun, heard, audience, leavers>>

InLoop(b) == at[b] > 0

\* A socket is accepted, its token is one of the user's sessions.
Connect(s) ==
  /\ sockets[s] = "new"
  /\ sockets' = [sockets EXCEPT ![s] = "open"]
  /\ connections' = Append(connections, s)
  /\ LoopsAlone

\* The peer is gone; sends fail from here on, and nobody knows yet.
PeerGone(s) ==
  /\ sockets[s] = "open"
  /\ sockets' = [sockets EXCEPT ![s] = "gone"]
  /\ UNCHANGED connections
  /\ LoopsAlone

\* receive_json raises WebSocketDisconnect and the socket is taken off the list.
\* It may never come to that: a message that is no JSON raises another error,
\* and the socket stays on the list.
Disconnect(s) ==
  /\ sockets[s] = "gone"
  /\ sockets' = [sockets EXCEPT ![s] = "removed"]
  /\ connections' = RemoveFirst(connections, s)
  /\ leavers' = [b \in Broadcasts |-> IF InLoop(b) THEN leavers[b] \cup {s}
                                                   ELSE leavers[b]]
  /\ UNCHANGED <<at, sending, begun, heard, audience>>

\* The loop's next turn: the socket at a position of the list as it is now
Turn(b, i) ==
  IF i > Len(connections)
    THEN /\ at' = [at EXCEPT ![b] = 0]
         /\ sending' = [sending EXCEPT ![b] = NoSocket]
    ELSE /\ at' = [at EXCEPT ![b] = i + 1]
         /\ sending' = [sending EXCEPT ![b] = connections[i]]

\* broadcast_event, its followers read
BroadcastBegin(b) ==
  /\ b \notin begun
  /\ begun' = begun \cup {b}
  /\ audience' = [audience EXCEPT ![b] = ToSet(connections)]
  /\ Turn(b, 1)
  /\ UNCHANGED <<connections, sockets, heard, leavers>>

Reached(b) ==
  IF sockets[sending[b]] = "open" THEN Append(heard[b], sending[b]) ELSE heard[b]

\* Mistake: a failed send is tried again from the first socket.
BroadcastRestart(b) ==
  /\ InLoop(b)
  /\ heard' = [heard EXCEPT ![b] = Reached(b)]
  /\ Turn(b, IF sockets[sending[b]] = "removed" THEN 1 ELSE at[b])
  /\ UNCHANGED <<connections, sockets, begun, audience, leavers>>

\* The send returns, or fails and is forgotten.
BroadcastSend(b) ==
  /\ InLoop(b)
  /\ heard' = [heard EXCEPT ![b] = Reached(b)]
  /\ Turn(b, at[b])
  /\ UNCHANGED <<connections, sockets, begun, audience, leavers>>

PushNext ==
  \/ \E s \in Sockets : Connect(s) \/ PeerGone(s) \/ Disconnect(s)
  \/ \E b \in Broadcasts : BroadcastBegin(b) \/ BroadcastSend(b)

-----------------------------------------------------------------------------
(***************************************************************************)
(* Properties.                                                             *)
(***************************************************************************)

\* No socket is sent an event twice, though the list moves under the loop.
HeardOnce == \A b \in Broadcasts : IsInjective(heard[b])

Missed(b) ==
  {s \in audience[b] : sockets[s] = "open"} \ ToSet(heard[b])

\* Whoever was connected when the loop began, and still is when it has ended,
\* was sent the event, but for at most one socket for each that left the list
\* meanwhile.
LeaversCostOne ==
  \A b \in begun : ~InLoop(b) => Cardinality(Missed(b)) <= Cardinality(leavers[b])

\* A broadcast reaches its audience, and nobody twice.
AudienceIsReached == HeardOnce /\ LeaversCostOne
=============================================================================
