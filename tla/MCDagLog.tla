------------------------------- MODULE MCDagLog -------------------------------
(***************************************************************************)
(* A registered user on several devices, and one who registers twice and   *)
(* posts before the registration has logged its genesis event.             *)
(***************************************************************************)
EXTENDS DagLog

CONSTANTS a1, a2,      \* actors
          c1, c2, l1   \* contents and a link

Req(i, op, a, o) == [id |-> i, op |-> op, actor |-> a, obj |-> o]

Devices ==
  { Req(1, "create_content", a1, c1), Req(2, "create_content", a1, c2),
    Req(1, "create_link", a1, l1), Req(2, "create_link", a1, l1),
    Req(1, "delete_link", a1, l1), Req(1, "merge", a1, a1),
    Req(1, "create_entity", a2, a2), Req(2, "create_entity", a2, a2),
    Req(1, "create_content", a2, c2), Req(1, "create_dm", a2, c1) }

\* A post from the phone, one from the laptop, and a link.
PhoneAndLaptop ==
  { Req(1, "create_content", a1, c1), Req(2, "create_content", a1, c2),
    Req(1, "create_link", a1, l1) }
=============================================================================
