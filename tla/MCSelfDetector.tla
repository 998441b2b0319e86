--------------------------- MODULE MCSelfDetector ---------------------------
(***************************************************************************)
(* The self-detector for TLC.  The threads are alike; the copies are not,  *)
(* one of them is this copy itself.                                        *)
(***************************************************************************)
EXTENDS SelfDetector, TLC

Symmetry == Permutations(Threads)
=============================================================================
