---------------------------- MODULE JobLifecycle ----------------------------
(***************************************************************************)
(* What the queue is to those who use it, without workers, leases or       *)
(* processes: the life of a job, and who may move it.  A finished job is   *)
(* finished; a run ends once; a failure waits for the owner, aloud until   *)
(* the owner dismisses that very failure, and only the owner revives or    *)
(* drops it.                                                               *)
(***************************************************************************)
CONSTANT Jobs

VARIABLE life

Life == {"none", "waiting", "running", "parked", "done", "failed", "dismissed", "dropped"}

TypeOK == life \in [Jobs -> Life]

Init == life = [j \in Jobs |-> "none"]

Become(j, l) == life' = [life EXCEPT ![j] = l]

\* A caller asks for the work.
Accept(j) == life[j] = "none" /\ Become(j, "waiting")

\* A worker takes it.
Take(j) == life[j] = "waiting" /\ Become(j, "running")

\* The run ends: done, parked until someone answers, back in line, or failed.
\* It is also how a run whose process died ends.
End(j) ==
  /\ life[j] = "running"
  /\ \E l \in {"done", "parked", "waiting", "failed"} : Become(j, l)

\* The answer a parked run waited for.
Wake(j) == life[j] = "parked" /\ Become(j, "waiting")

\* The owner's moves.
Drop(j) ==
  /\ life[j] \in {"waiting", "running", "parked", "failed", "dismissed"}
  /\ Become(j, "dropped")

Revive(S) ==
  /\ \A j \in S : life[j] \in {"failed", "dismissed", "dropped", "parked"}
  /\ life' = [j \in Jobs |-> IF j \in S THEN "waiting" ELSE life[j]]

Dismiss(j) == life[j] = "failed" /\ Become(j, "dismissed")
Undismiss(j) == life[j] = "dismissed" /\ Become(j, "failed")

Next ==
  \/ \E j \in Jobs : \/ Accept(j) \/ Take(j) \/ End(j) \/ Wake(j)
                     \/ Drop(j) \/ Dismiss(j) \/ Undismiss(j)
  \/ \E S \in SUBSET Jobs : Revive(S)

Spec == Init /\ [][Next]_life
=============================================================================
