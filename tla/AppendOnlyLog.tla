---------------------------- MODULE AppendOnlyLog ----------------------------
(***************************************************************************)
(* What the relay promises of an actor's history, with nothing said of how *)
(* it is stored: a sequence that only ever grows at its end.               *)
(*                                                                         *)
(* RelayLog implements it: the sequence is what the last commit left of    *)
(* the actor's rows of the table log_events.                               *)
(***************************************************************************)
EXTENDS Naturals, Sequences

CONSTANTS Actors,  \* the entities whose history is kept
          Entries  \* what one place of a history can hold

VARIABLE log       \* log[a]: the durable history of actor a

TypeOK == log \in [Actors -> Seq(Entries)]

\* t is s, or s followed by more.
Extends(s, t) == /\ Len(s) <= Len(t)
                 /\ \A i \in 1 .. Len(s) : t[i] = s[i]

\* A relay may start with some histories already on its disk.
Init == TypeOK

\* One commit may make several pending events durable, of several actors.
Publish == /\ TypeOK'
           /\ \A a \in Actors : Extends(log[a], log'[a])

Spec == Init /\ [][Publish]_log
=============================================================================
