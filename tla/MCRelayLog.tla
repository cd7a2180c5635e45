----------------------------- MODULE MCRelayLog ------------------------------
(***************************************************************************)
(* Small instances of RelayLog for TLC.                                    *)
(***************************************************************************)
EXTENDS RelayLog

CONSTANTS a1, a2,   \* actors
          c1, c2,   \* contents
          t1        \* what is linked to

Req(i, op, a, o) == [id |-> i, op |-> op, actor |-> a, obj |-> o]

\* One registered user with several tabs, and one user registering twice.
ContendedRequests ==
  { Req(1, "create_content", a1, c1), Req(1, "create_content", a1, c2),
    Req(1, "delete_content", a1, c1),
    Req(1, "create_link", a1, <<a1, t1>>), Req(2, "create_link", a1, <<a1, t1>>),
    Req(1, "delete_link", a1, <<a1, t1>>),
    Req(1, "create_entity", a2, a2), Req(2, "create_entity", a2, a2) }

\* Two users, one of them not registered yet, each with one client.
SerialRequests ==
  { Req(1, "create_content", a1, c1), Req(1, "delete_content", a1, c1),
    Req(1, "create_link", a1, <<a1, t1>>), Req(2, "create_link", a1, <<a1, t1>>),
    Req(1, "delete_link", a1, <<a1, t1>>),
    Req(1, "create_entity", a2, a2), Req(1, "create_content", a2, c2),
    Req(2, "create_link", a2, <<a2, t1>>), Req(1, "delete_link", a2, <<a1, t1>>) }

\* Two posts of one user.
TwoPosts == { Req(1, "create_content", a1, c1), Req(1, "create_content", a1, c2) }
=============================================================================
