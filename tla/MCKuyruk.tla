------------------------------ MODULE MCKuyruk ------------------------------
(***************************************************************************)
(* Instances of Kuyruk for TLC.                                            *)
(***************************************************************************)
EXTENDS Kuyruk

TwoJobs == 1..2
OneJob == {1}
=============================================================================
