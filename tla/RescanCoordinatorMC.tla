------------------------ MODULE RescanCoordinatorMC ------------------------
(***************************************************************************)
(* TLC instance of RescanCoordinator: background threads are alike, so a   *)
(* run that checks no liveness identifies the states that differ only in   *)
(* which thread is which.                                                  *)
(***************************************************************************)
EXTENDS RescanCoordinator, TLC

JobSymmetry == Permutations(Jobs)
=============================================================================
