---------------------------- MODULE MCParkedRuns ----------------------------
(***************************************************************************)
(* Small instances of ParkedRuns: two cards, so that a run that went on    *)
(* can park again while an old answer or an old timeout is on its way.     *)
(***************************************************************************)
EXTENDS ParkedRuns
=============================================================================
