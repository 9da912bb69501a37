---------------------------- MODULE OccurrenceLife ----------------------------
(***************************************************************************)
(* What the scheduler promises of an occurrence, whoever writes its row:   *)
(* it appears once, it is taken before it is closed, and what was closed   *)
(* or skipped stays so.  A taken occurrence may be given back and taken    *)
(* again; the claims, the queue and the runs behind it are hidden.         *)
(***************************************************************************)
CONSTANT Occs

VARIABLE life

Life == {"none", "waiting", "taken", "done", "failed", "skipped"}
Closed == {"done", "failed", "skipped"}

Init == life = [o \in Occs |-> "none"]

MoveAll(S, to) == life' = [o \in Occs |-> IF o \in S THEN to ELSE life[o]]

\* The instants of a catch-up window: some will run, the others are on record.
Appear(waiting, skipped) ==
  /\ waiting \cap skipped = {}
  /\ \A o \in waiting \cup skipped : life[o] = "none"
  /\ life' = [o \in Occs |-> IF o \in waiting THEN "waiting"
                             ELSE IF o \in skipped THEN "skipped" ELSE life[o]]

StartNow(o) == life[o] = "none" /\ MoveAll({o}, "taken")
Take(o) == life[o] = "waiting" /\ MoveAll({o}, "taken")
GiveBack(S) == (\A o \in S : life[o] = "taken") /\ MoveAll(S, "waiting")
Close(o, to) == life[o] = "taken" /\ to \in {"done", "failed"} /\ MoveAll({o}, to)
Skip(S) == (\A o \in S : life[o] = "waiting") /\ MoveAll(S, "skipped")

Next ==
  \/ \E W, S \in SUBSET Occs : Appear(W, S)
  \/ \E o \in Occs : StartNow(o) \/ Take(o)
  \/ \E S \in SUBSET Occs : GiveBack(S) \/ Skip(S)
  \/ \E o \in Occs, to \in {"done", "failed"} : Close(o, to)

Spec == Init /\ [][Next]_life
=============================================================================
