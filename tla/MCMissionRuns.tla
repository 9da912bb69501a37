---------------------------- MODULE MCMissionRuns ----------------------------
(***************************************************************************)
(* Small instances of MissionRuns.  An occurrence meets another only in    *)
(* the misfire policy and in the choice of the one to claim or to join, so *)
(* one occurrence has every race of its row, its job and its run; the      *)
(* theorems of MissionRunsProofs hold for any number of them.              *)
(***************************************************************************)
EXTENDS MissionRuns, TLC
=============================================================================
