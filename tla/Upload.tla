------------------------------- MODULE Upload -------------------------------
(***************************************************************************)
(* What the FTPv2 server promises: an upload that is reported a success    *)
(* has put its whole file in the directory under its name, one that is     *)
(* reported a failure has left no file there, and once it is reported an   *)
(* upload does not touch the directory any more.                           *)
(***************************************************************************)
CONSTANTS Uploads, NameOf

VARIABLES
  file,   \* per name: "none", "partial", or the upload whose file it is
  told    \* what has been reported of each upload

vars == <<file, told>>

Names == {NameOf[u] : u \in Uploads}

Init == /\ file = [n \in Names |-> "none"]
        /\ told = [u \in Uploads |-> "none"]

\* An upload opens its file, writes to it or deletes it.
Change(u) == /\ told[u] = "none"
             /\ \E f \in {"none", "partial", u} :
                  file' = [file EXCEPT ![NameOf[u]] = f]
             /\ UNCHANGED told

Report(u) == /\ told[u] = "none"
             /\ \/ /\ file[NameOf[u]] = u
                   /\ told' = [told EXCEPT ![u] = "Success"]
                \/ /\ file[NameOf[u]] = "none"
                   /\ told' = [told EXCEPT ![u] = "Failure"]
             /\ UNCHANGED file

Next == \E u \in Uploads : Change(u) \/ Report(u)

Spec == Init /\ [][Next]_vars
=============================================================================
