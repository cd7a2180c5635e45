--------------------------- MODULE MCRelayFriends ---------------------------
(* Two users, each of whom may send every kind of request; one may ask twice. *)
EXTENDS RelayFriends

CONSTANTS a, b

Req(i, o, u, v) == [id |-> i, op |-> o, actor |-> u, other |-> v]

MCRequests ==
  {Req(1, o, p[1], p[2]) : o \in Ops, p \in {<<a, b>>, <<b, a>>}}
    \cup {Req(2, "send", a, b)}
=============================================================================
