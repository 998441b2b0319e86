---------------------------- MODULE MCFtpServer ----------------------------
(***************************************************************************)
(* The upload server for TLC: uploads of different files, and of one.      *)
(***************************************************************************)
EXTENDS FtpServer, TLC

Distinct == [u \in Uploads |-> <<"file", u>>]
OneName  == [u \in Uploads |-> "file"]

Symmetry == Permutations(Uploads)
=============================================================================
