----------------------------- MODULE MCRelaySync -----------------------------
(***************************************************************************)
(* Two posts of one user, a peer that syncs, a crash.                      *)
(***************************************************************************)
EXTENDS RelaySync

CONSTANTS a1, c1, c2, t1

Post(c) == [id |-> 1, op |-> "create_content", actor |-> a1, obj |-> c]

TwoPosts == {Post(c1), Post(c2)}
=============================================================================
