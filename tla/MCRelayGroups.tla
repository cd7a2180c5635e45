---------------------------- MODULE MCRelayGroups -----------------------------
(* A founder a, a member b, and c who is no member yet.                    *)
EXTENDS RelayGroups

CONSTANTS a, b, c

Req(o, u, v) == [id |-> 1, op |-> o, actor |-> u, other |-> v]

MCRequests ==
  { Req("create", a, a), Req("join", a, a), Req("join", b, b), Req("join", c, c),
    Req("leave", a, a), Req("leave", b, b),
    Req("promote", a, b), Req("demote", a, a),
    Req("transfer", a, b), Req("transfer", a, c), Req("transfer", b, a),
    Req("kick", a, b), Req("kick", b, a),
    Req("ban", a, b), Req("unban", a, b),
    Req("link", a, a), Req("link", b, b), Req("link", c, c),
    Req("unlink", a, a), Req("unlink", b, b) }

\* A member who leaves and comes back.
Rejoin == { Req("join", b, b), Req("leave", b, b) }
=============================================================================
