----------------------------- MODULE Membership -----------------------------
(***************************************************************************)
(* What the self-detecting application promises: the list of live copies   *)
(* holds whoever has been heard, and only a copy that has been silent for  *)
(* more than the limit is taken off it.                                    *)
(***************************************************************************)
EXTENDS Naturals

CONSTANTS Copies, Limit, MaxAge

VARIABLES
  listed,   \* the copies on the list
  silence   \* the seconds since each copy was last heard, up to MaxAge

vars == <<listed, silence>>

Init == /\ listed = {}
        /\ silence = [e \in Copies |-> MaxAge]

Hear(e) == /\ listed' = listed \cup {e}
           /\ silence' = [silence EXCEPT ![e] = 0]

Forget(e) == /\ e \in listed
             /\ silence[e] > Limit
             /\ listed' = listed \ {e}
             /\ UNCHANGED silence

Tick == /\ silence' = [e \in Copies |-> IF silence[e] < MaxAge
                                        THEN silence[e] + 1 ELSE MaxAge]
        /\ UNCHANGED listed

Next == Tick \/ \E e \in Copies : Hear(e) \/ Forget(e)

Spec == Init /\ [][Next]_vars
=============================================================================
