----------------------------- MODULE MCJobQueue -----------------------------
(***************************************************************************)
(* Small instances of JobQueue.  Jobs meet only in the hand of a worker,   *)
(* so one job and two boots have every race of the statements; the         *)
(* theorems of JobQueueProofs hold for any number of either.               *)
(***************************************************************************)
EXTENDS JobQueue, TLC

\* Boots differ by nothing but their id.
BootSymmetry == Permutations(Workers)

\* Bound: no tool is called.  The fence does not depend on what a run did, and
\* two overlapping serves already have every order of their statements.
NoToolCalls == \A w \in Workers : pc[w] # "calling"
=============================================================================
