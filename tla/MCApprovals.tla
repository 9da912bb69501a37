---------------------------- MODULE MCApprovals ----------------------------
(***************************************************************************)
(* Small instances of Approvals.  Actions share nothing but the standing   *)
(* permission, which a settings screen gives as well, so one action has    *)
(* every race; three callers are two that contend and one that comes late. *)
(***************************************************************************)
EXTENDS Approvals, TLC

\* Actions and callers differ by nothing but their id.
GateSymmetry == Permutations(Actions) \cup Permutations(Callers)
=============================================================================
