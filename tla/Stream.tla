------------------------------- MODULE Stream -------------------------------
(***************************************************************************)
(* What a proxy owes to the directions of its sessions: the far end of     *)
(* each is handed the bytes that were sent, each once and in order; how    *)
(* far it gets is not said.  The bytes of a direction are numbered from 1. *)
(***************************************************************************)
EXTENDS Naturals, Sequences

CONSTANT Lines   \* the directions

VARIABLES
  sent,   \* how many bytes have been sent
  got     \* the bytes that have been handed on

vars == <<sent, got>>

Init == /\ sent = [l \in Lines |-> 0]
        /\ got = [l \in Lines |-> <<>>]

Send(l) == sent' = [sent EXCEPT ![l] = @ + 1] /\ UNCHANGED got

HandOn(l) == /\ \E n \in Len(got[l]) + 1 .. sent[l] :
                  got' = [got EXCEPT ![l] = [k \in 1 .. n |-> k]]
             /\ UNCHANGED sent

\* A new session begins on some lines.
Restart(L) == /\ sent' = [l \in Lines |-> IF l \in L THEN 0 ELSE sent[l]]
              /\ got' = [l \in Lines |-> IF l \in L THEN <<>> ELSE got[l]]

Next == \/ \E l \in Lines : Send(l) \/ HandOn(l)
        \/ \E L \in SUBSET Lines : Restart(L)

Spec == Init /\ [][Next]_vars
=============================================================================
