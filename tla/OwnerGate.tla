----------------------------- MODULE OwnerGate -----------------------------
(***************************************************************************)
(* What the approval machinery promises, without surfaces, statements or   *)
(* crashes: an effect lands only after it was asked for and allowed and    *)
(* after the intent was on record, a refusal is a promise that it did not  *)
(* happen, and a success one that it did.  "unsure" is the honest third    *)
(* answer: from then on the effect may still land, and nobody retries it.  *)
(***************************************************************************)
CONSTANT Actions

VARIABLES
  stage,      \* what the record says of each action
  landed      \* the actions whose effect happened

gate == <<stage, landed>>

Stage == {"unasked", "asked", "allowed", "acting", "refused", "done", "failed", "unsure"}

Init ==
  /\ stage = [a \in Actions |-> "unasked"]
  /\ landed = {}

Move(a, from, to) ==
  /\ stage[a] \in from
  /\ stage' = [stage EXCEPT ![a] = to]
  /\ UNCHANGED landed

Ask(a) == Move(a, {"unasked"}, "asked")
Allow(a) == Move(a, {"asked"}, "allowed")
\* The owner said no, time ran out, or what was allowed is no longer what would run.
Refuse(a) == Move(a, {"asked", "allowed"}, "refused")
Act(a) == Move(a, {"allowed"}, "acting")
Land(a) ==
  /\ stage[a] \in {"acting", "unsure"} /\ a \notin landed
  /\ landed' = landed \cup {a}
  /\ UNCHANGED stage
Report(a) ==
  \/ a \in landed /\ Move(a, {"acting"}, "done")
  \/ a \notin landed /\ Move(a, {"acting"}, "failed")
  \/ Move(a, {"acting"}, "unsure")

\* A request may lapse for many actions in one statement.
Lapse(S) ==
  /\ \A a \in S : stage[a] = "asked"
  /\ stage' = [a \in Actions |-> IF a \in S THEN "refused" ELSE stage[a]]
  /\ UNCHANGED landed

Next ==
  \/ \E a \in Actions : Ask(a) \/ Allow(a) \/ Refuse(a) \/ Act(a) \/ Land(a) \/ Report(a)
  \/ \E S \in SUBSET Actions : Lapse(S)

Spec == Init /\ [][Next]_gate
=============================================================================
