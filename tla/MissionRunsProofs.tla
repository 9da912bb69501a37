------------------------- MODULE MissionRunsProofs -------------------------
(***************************************************************************)
(* What holds of a mission's occurrences and their jobs for any number of  *)
(* occurrences, schedulers, surfaces and workers, any policy and any       *)
(* budget: no finding is dropped, one run is open under latest-only, and   *)
(* the machinery implements OccurrenceLife, and moves the jobs only as     *)
(* JobLifecycle says.                                                      *)
(***************************************************************************)
EXTENDS MissionRuns, TLAPS

-----------------------------------------------------------------------------
(* Types                                                                   *)

\* The initial state is well typed.
LEMMA InitType == Init => TypeOK
<1> SUFFICES ASSUME Init PROVE TypeOK
  OBVIOUS
<1> QED
  BY DEF Init, TypeOK, OccState, JobState, Step, Fate

\* finishOccurrence keeps the type of the rows.
LEMMA ClosedType ==
  ASSUME TypeOK, NEW o \in Occs, NEW to \in OccState
  PROVE  ClosedAs(o, to) \in [Occs -> OccState]
BY DEF TypeOK, ClosedAs

\* What applies to none of the occurrences that may run is not in the window.
LEMMA RunsInWindow ==
  ASSUME NEW S \in SUBSET Occs, NEW newest \in Occs, NEW late \in SUBSET Occs
  PROVE  Runs(S, newest, late) \subseteq S
BY DEF Runs

\* The scheduler, the surfaces and the sweep keep the types.
LEMMA ScheduleType ==
  ASSUME TypeOK, ScheduleStep
  PROVE  TypeOK'
<1>1. ASSUME NEW s \in Schedulers, SelectSpecs(s) PROVE TypeOK'
  BY <1>1 DEF TypeOK, SelectSpecs, rowVars, jobVars, runVars, histVars
<1>2. ASSUME NEW s \in Schedulers, NEW S \in SUBSET Occs, NEW newest \in Occs, NEW late \in SUBSET Occs,
             Materialize(s, S, newest, late)
      PROVE  TypeOK'
  <2>1. occ' \in [Occs -> OccState]
    BY <1>2 DEF TypeOK, Materialize, OccState
  <2> QED
    BY <1>2, <2>1 DEF TypeOK, Materialize, jobVars, runVars, histVars
<1>3. ASSUME NEW s \in Schedulers, NEW o \in Occs, ClaimNext(s, o) PROVE TypeOK'
  <2>1. s \in Hands /\ "claimed" \in OccState
    BY DEF Hands, OccState
  <2> QED
    BY <1>3, <2>1 DEF TypeOK, ClaimNext, jobVars, runVars, histVars
<1>4. ASSUME NEW h \in Surfaces, NEW o \in Occs, RunNow(h, o) PROVE TypeOK'
  <2>1. h \in Hands /\ "claimed" \in OccState
    BY DEF Hands, OccState
  <2> QED
    BY <1>4, <2>1 DEF TypeOK, RunNow, jobVars, runVars, histVars
<1>5. ASSUME NEW h \in Hands, HandOver(h) PROVE TypeOK'
  <2>1. "pending" \in JobState
    BY DEF JobState
  <2> QED
    BY <1>5, <2>1 DEF TypeOK, HandOver, rowVars, runVars, histVars
<1>6. ASSUME NEW s \in Schedulers, HandOverFails(s) PROVE TypeOK'
  <2>1. s \in Hands /\ "failed" \in OccState /\ hand[s] \in Occs
    BY <1>6 DEF Hands, OccState, TypeOK, HandOverFails
  <2>2. occ' \in [Occs -> OccState]
    BY <1>6, <2>1, ClosedType DEF HandOverFails
  <2> QED
    BY <1>6, <2>1, <2>2 DEF TypeOK, HandOverFails, jobVars, runVars, histVars
<1>7. ASSUME NEW h \in Hands, DropHand(h) PROVE TypeOK'
  BY <1>7 DEF TypeOK, DropHand, rowVars, jobVars, runVars, histVars
<1>8. ASSUME NEW S \in SUBSET Occs, SweepStale(S) PROVE TypeOK'
  <2>1. occ' \in [Occs -> OccState]
    BY <1>8 DEF TypeOK, SweepStale, OccState
  <2> QED
    BY <1>8, <2>1 DEF TypeOK, SweepStale, handVars, jobVars, runVars, histVars
<1> QED
  BY <1>1, <1>2, <1>3, <1>4, <1>5, <1>6, <1>7, <1>8 DEF ScheduleStep

\* So do the clock, the owner's switch, plugins and watchers,
LEMMA WorldType ==
  ASSUME TypeOK, WorldStep
  PROVE  TypeOK'
<1>1. ASSUME NEW o \in Occs, NearsDue(o) \/ DueElapses(o) \/ WaitElapses(o) PROVE TypeOK'
  BY <1>1 DEF TypeOK, NearsDue, DueElapses, WaitElapses, jobVars, handVars, runVars, histVars
<1>2. ASSUME NEW to \in {"on", "off"}, SetServing(to) PROVE TypeOK'
  BY <1>2 DEF TypeOK, SetServing, rowVars, jobVars, handVars, runVars, histVars
<1>3. CASE PausePlugin
  BY <1>3 DEF TypeOK, PausePlugin, rowVars, jobVars, handVars, runVars, histVars
<1>4. CASE SkipWaiting
  <2>1. occ' \in [Occs -> OccState]
    BY <1>4 DEF TypeOK, SkipWaiting, OccState
  <2> QED
    BY <1>4, <2>1 DEF TypeOK, SkipWaiting, jobVars, handVars, runVars, histVars
<1>5. ASSUME NEW o \in Occs, Join(o) PROVE TypeOK'
  <2>1. carries' \in [Occs -> Nat]
    BY <1>5 DEF TypeOK, Join
  <2>2. due' \subseteq Occs
    BY <1>5 DEF TypeOK, Join, DueAfterJoin
  <2> QED
    BY <1>5, <2>1, <2>2 DEF TypeOK, Join, jobVars, handVars, runVars
<1>6. ASSUME NEW o \in Occs, NEW c \in BOOLEAN, Wake(o, c) PROVE TypeOK'
  <2>1. "pending" \in OccState
    BY DEF OccState
  <2> QED
    BY <1>6, <2>1 DEF TypeOK, Wake, jobVars, handVars, runVars, histVars
<1> QED
  BY <1>1, <1>2, <1>3, <1>4, <1>5, <1>6 DEF WorldStep

\* the queue,
LEMMA QueueType ==
  ASSUME TypeOK, QueueStep
  PROVE  TypeOK'
<1>0. {"pending", "failed", "cancelled"} \subseteq JobState /\ "failed" \in OccState
  BY DEF JobState, OccState
<1>1. ASSUME NEW o \in Occs, CancelJob(o) PROVE TypeOK'
  BY <1>0, <1>1 DEF TypeOK, CancelJob, rowVars, handVars, runVars, histVars
<1>2. ASSUME NEW o \in Occs, RetryJob(o) PROVE TypeOK'
  BY <1>0, <1>2 DEF TypeOK, RetryJob, rowVars, handVars, runVars
<1>3. ASSUME NEW o \in Occs, ResumeJob(o) PROVE TypeOK'
  <2>1. attempts' \in [Occs -> Nat]
    BY <1>3 DEF TypeOK, ResumeJob
  <2> QED
    BY <1>0, <1>3, <2>1 DEF TypeOK, ResumeJob, rowVars, handVars, runVars, histVars
<1>4. ASSUME NEW o \in Occs, NEW back \in BOOLEAN, NEW gone \in BOOLEAN, Interrupt(o, back, gone) PROVE TypeOK'
  <2>1. occ' \in [Occs -> OccState]
    BY <1>0, <1>4, ClosedType DEF TypeOK, Interrupt
  <2>2. job' \in [Occs -> JobState] /\ requeued' \subseteq Occs
    BY <1>0, <1>4 DEF TypeOK, Interrupt
  <2> QED
    BY <1>4, <2>1, <2>2 DEF TypeOK, Interrupt, handVars, runVars, histVars
<1> QED
  BY <1>1, <1>2, <1>3, <1>4 DEF QueueStep

\* a run that moves on,
LEMMA GoesType ==
  ASSUME TypeOK, NEW w \in Workers, NEW to \in Step, NEW f \in Fate, Goes(w, to, f)
  PROVE  step' \in [Workers -> Step] /\ fate' \in [Workers -> Fate]
BY DEF TypeOK, Goes

\* or leaves,
LEMMA LeavesType ==
  ASSUME TypeOK, NEW w \in Workers, Leaves(w)
  PROVE  /\ step' \in [Workers -> Step] /\ fate' \in [Workers -> Fate]
         /\ cur' \in [Workers -> Occs \cup {None}] /\ reads' \in [Workers -> Nat]
         /\ last' \subseteq Workers
<1>1. "idle" \in Step /\ "none" \in Fate
  BY DEF Step, Fate
<1> QED
  BY <1>1 DEF TypeOK, Leaves, Goes

\* or was told all there is,
LEMMA HearsType ==
  ASSUME TypeOK, NEW w \in Workers, cur[w] \in Occs, Hears(w)
  PROVE  handed' \in [Occs -> Nat] /\ reads' \in [Workers -> Nat]
BY DEF TypeOK, Hears

\* A worker at work has an occurrence in hand.
LEMMA BusyHasOcc ==
  ASSUME MissionInv, NEW w \in Workers, step[w] # "idle"
  PROVE  cur[w] \in Occs
BY DEF MissionInv, RunFits

\* and every statement of the handler.
LEMMA RunType ==
  ASSUME MissionInv, NEW w \in Workers, RunStep(w)
  PROVE  TypeOK'
<1> USE DEF MissionInv
<1>0. /\ Step = {"idle", "reading", "running", "sending", "sent", "closing", "reporting"}
      /\ Fate = {"none", "complete", "park", "retry", "giveUp"}
  BY DEF Step, Fate
<1>1. CASE ReadOccurrence(w)
  <2>1. cur[w] \in Occs
    BY <1>1, BusyHasOcc DEF ReadOccurrence
  <2>2. reads' \in [Workers -> Nat]
    BY <1>1, <2>1 DEF TypeOK, ReadOccurrence
  <2>3. step' \in [Workers -> Step] /\ fate' \in [Workers -> Fate]
    BY <1>0, <1>1, GoesType DEF ReadOccurrence
  <2> QED
    BY <1>1, <2>2, <2>3 DEF TypeOK, ReadOccurrence, rowVars, jobVars, handVars, histVars
<1>2. CASE WaitForOwner(w) \/ EndSilent(w)
  <2>1. cur[w] \in Occs
    BY <1>2, BusyHasOcc DEF WaitForOwner, EndSilent
  <2>2. step' \in [Workers -> Step] /\ fate' \in [Workers -> Fate]
    BY <1>0, <1>2, GoesType DEF WaitForOwner, EndSilent
  <2>3. handed' \in [Occs -> Nat] /\ reads' \in [Workers -> Nat]
    BY <1>2, <2>1, HearsType DEF WaitForOwner, EndSilent
  <2> QED
    BY <1>2, <2>2, <2>3 DEF TypeOK, WaitForOwner, EndSilent, rowVars, jobVars, handVars
<1>3. CASE CloseOccurrence(w)
  <2>1. cur[w] \in Occs
    BY <1>3, BusyHasOcc DEF CloseOccurrence
  <2>2. occ' \in [Occs -> OccState]
    <3>1. (IF fate[w] = "complete" THEN "succeeded" ELSE "failed") \in OccState
      BY DEF OccState
    <3> QED
      BY <1>3, <2>1, <3>1, ClosedType DEF CloseOccurrence
  <2>3. step' \in [Workers -> Step] /\ fate' \in [Workers -> Fate]
    <3>1. fate[w] \in Fate
      BY DEF TypeOK
    <3> QED
      BY <1>0, <1>3, <3>1, GoesType DEF CloseOccurrence
  <2> QED
    BY <1>3, <2>2, <2>3 DEF TypeOK, CloseOccurrence, jobVars, handVars, histVars
<1>4. CASE Deliver(w)
  <2>1. cur[w] \in Occs
    BY <1>4, BusyHasOcc DEF Deliver
  <2>2. step' \in [Workers -> Step] /\ fate' \in [Workers -> Fate]
    BY <1>0, <1>4, GoesType DEF Deliver
  <2>3. spoke' \in [Occs -> Nat]
    BY <1>4, <2>1 DEF TypeOK, Deliver, Says
  <2> QED
    BY <1>4, <2>2, <2>3 DEF TypeOK, Deliver, rowVars, jobVars, handVars
<1>5. CASE Abandon(w)
  <2>1. cur[w] \in Occs
    BY <1>5, BusyHasOcc DEF Abandon, InRun
  <2>2. unsaid' \subseteq Occs
    BY <1>5, <2>1 DEF TypeOK, Abandon
  <2> QED
    BY <1>5, <2>2, LeavesType DEF TypeOK, Abandon, rowVars, jobVars, handVars
<1>6. ASSUME NEW o \in Occs, ClaimJob(w, o) PROVE TypeOK'
  <2>1. "leased" \in JobState /\ "reading" \in Step
    BY DEF JobState, Step
  <2> QED
    BY <1>6, <2>1 DEF TypeOK, ClaimJob, rowVars, handVars, histVars
<1>7. CASE CallReport(w)
  <2>1. cur[w] \in Occs
    BY <1>7, BusyHasOcc DEF CallReport
  <2>2. step' \in [Workers -> Step] /\ fate' \in [Workers -> Fate]
    BY <1>0, <1>7, GoesType DEF CallReport
  <2>3. acted' \subseteq Occs
    BY <1>7, <2>1 DEF TypeOK, CallReport, OnRecord
  <2> QED
    BY <1>7, <2>2, <2>3 DEF TypeOK, CallReport, rowVars, handVars, histVars
<1>8. ASSUME NEW b \in BOOLEAN, RunFails(w, b) \/ EndFails(w, b) PROVE TypeOK'
  <2>1. cur[w] \in Occs
    BY <1>8, BusyHasOcc DEF RunFails, EndFails
  <2>2. step' \in [Workers -> Step] /\ fate' \in [Workers -> Fate]
    BY <1>0, <1>8, GoesType DEF RunFails, EndFails, Throws
  <2>3. reads' \in [Workers -> Nat]
    BY <1>8 DEF TypeOK, RunFails, EndFails, Throws
  <2>4. amends' \in [Occs -> Nat]
    BY <1>8, <2>1 DEF TypeOK, RunFails, EndFails, histVars
  <2> QED
    BY <1>8, <2>2, <2>3, <2>4 DEF TypeOK, RunFails, EndFails, rowVars, jobVars, handVars, histVars
<1>9. ASSUME NEW b \in BOOLEAN, Report(w, b) PROVE TypeOK'
  <2>1. cur[w] \in Occs
    BY <1>9, BusyHasOcc DEF Report
  <2>2. Told(fate[w], cur[w]) \in JobState
    BY DEF Told, JobState
  <2>3. /\ job' \in [Occs -> JobState] /\ holder' \in [Occs -> Workers \cup {None}]
        /\ acted' \subseteq Occs /\ decided' \subseteq Occs
    BY <1>9, <2>1, <2>2 DEF TypeOK, Report, Holds
  <2> QED
    BY <1>9, <2>3, LeavesType DEF TypeOK, Report, Holds, rowVars, handVars, histVars
<1>10. CASE RecordDelivery(w)
  <2>1. cur[w] \in Occs
    BY <1>10, BusyHasOcc DEF RecordDelivery
  <2>2. step' \in [Workers -> Step] /\ fate' \in [Workers -> Fate]
    BY <1>0, <1>10, GoesType DEF RecordDelivery
  <2>3. handed' \in [Occs -> Nat] /\ reads' \in [Workers -> Nat]
    BY <1>10, <2>1, HearsType DEF RecordDelivery
  <2>4. acted' \subseteq Occs
    BY <1>10, <2>1 DEF TypeOK, RecordDelivery, OnRecord
  <2> QED
    BY <1>10, <2>2, <2>3, <2>4 DEF TypeOK, RecordDelivery, rowVars, handVars
<1> QED
  BY <1>1, <1>2, <1>3, <1>4, <1>5, <1>6, <1>7, <1>8, <1>9, <1>10 DEF RunStep

-----------------------------------------------------------------------------
(* Rows, hands and runs                                                    *)

\* What the invariant says beside the types.
RestInv ==
  /\ \A o \in Occs : RowFits(o)
  /\ \A h \in Hands : HandFits(h)
  /\ \A w \in Workers : RunFits(w)
  /\ \A o \in Occs \ rejoined : FindingsKept(o)

\* The scheduler, the surfaces and the sweep keep the invariant.
LEMMA ScheduleRest ==
  ASSUME TypeOK, RestInv, ScheduleStep
  PROVE  RestInv'
<1> USE DEF RestInv
<1>1. ASSUME NEW s \in Schedulers, SelectSpecs(s) PROVE RestInv'
  <2>1. \A p \in Occs : RowFits(p)'
    BY <1>1 DEF RowFits, TypeOK, SelectSpecs, rowVars, jobVars, runVars, histVars
  <2>2. \A g \in Hands : HandFits(g)'
    BY <1>1 DEF HandFits, Hands, TypeOK, SelectSpecs, rowVars, jobVars, runVars, histVars
  <2>3. \A w \in Workers : RunFits(w)'
    BY <1>1 DEF RunFits, TypeOK, SelectSpecs, rowVars, jobVars, runVars, histVars
  <2>4. \A p \in Occs \ rejoined' : FindingsKept(p)'
    BY <1>1 DEF RowFits, FindingsKept, RunIsTold, AllHanded, TypeOK, SelectSpecs, rowVars, jobVars, runVars, histVars
  <2> QED
    BY <2>1, <2>2, <2>3, <2>4 DEF RestInv
<1>2. ASSUME NEW s \in Schedulers, NEW S \in SUBSET Occs, NEW newest \in Occs, NEW late \in SUBSET Occs,
             Materialize(s, S, newest, late) PROVE RestInv'
  <2>1. \A p \in Occs : RowFits(p)'
    BY <1>2 DEF RowFits, TypeOK, Materialize, jobVars, runVars, histVars
  <2>2. \A g \in Hands : HandFits(g)'
    BY <1>2 DEF HandFits, Hands, TypeOK, Materialize, jobVars, runVars, histVars
  <2>3. \A w \in Workers : RunFits(w)'
    BY <1>2 DEF RunFits, TypeOK, Materialize, jobVars, runVars, histVars
  <2>4. \A p \in Occs \ rejoined' : FindingsKept(p)'
    BY <1>2 DEF RowFits, FindingsKept, RunIsTold, AllHanded, TypeOK, Materialize, jobVars, runVars, histVars
  <2> QED
    BY <2>1, <2>2, <2>3, <2>4 DEF RestInv
<1>3. ASSUME NEW s \in Schedulers, NEW o \in Occs, ClaimNext(s, o) PROVE RestInv'
  <2>1. \A p \in Occs : RowFits(p)'
    BY <1>3 DEF RowFits, TypeOK, ClaimNext, jobVars, runVars, histVars
  <2>2. \A g \in Hands : HandFits(g)'
    BY <1>3 DEF HandFits, Hands, TypeOK, ClaimNext, jobVars, runVars, histVars
  <2>3. \A w \in Workers : RunFits(w)'
    BY <1>3 DEF RunFits, TypeOK, ClaimNext, jobVars, runVars, histVars
  <2>4. \A p \in Occs \ rejoined' : FindingsKept(p)'
    BY <1>3 DEF RowFits, FindingsKept, RunIsTold, AllHanded, TypeOK, ClaimNext, jobVars, runVars, histVars
  <2> QED
    BY <2>1, <2>2, <2>3, <2>4 DEF RestInv
<1>4. ASSUME NEW h \in Surfaces, NEW o \in Occs, RunNow(h, o) PROVE RestInv'
  <2>1. \A p \in Occs : RowFits(p)'
    BY <1>4 DEF RowFits, TypeOK, RunNow, jobVars, runVars, histVars
  <2>2. \A g \in Hands : HandFits(g)'
    BY <1>4 DEF HandFits, Hands, TypeOK, RunNow, jobVars, runVars, histVars
  <2>3. \A w \in Workers : RunFits(w)'
    BY <1>4 DEF RunFits, TypeOK, RunNow, jobVars, runVars, histVars
  <2>4. \A p \in Occs \ rejoined' : FindingsKept(p)'
    BY <1>4 DEF RowFits, FindingsKept, RunIsTold, AllHanded, TypeOK, RunNow, jobVars, runVars, histVars
  <2> QED
    BY <2>1, <2>2, <2>3, <2>4 DEF RestInv
<1>5. ASSUME NEW h \in Hands, HandOver(h) PROVE RestInv'
  <2>1. \A p \in Occs : RowFits(p)'
    BY <1>5 DEF RowFits, HandFits, TypeOK, HandOver, rowVars, runVars, histVars
  <2>2. \A g \in Hands : HandFits(g)'
    BY <1>5 DEF HandFits, Hands, TypeOK, HandOver, rowVars, runVars, histVars
  <2>3. \A w \in Workers : RunFits(w)'
    BY <1>5 DEF RunFits, TypeOK, HandOver, rowVars, runVars, histVars
  <2>4. \A p \in Occs \ rejoined' : FindingsKept(p)'
    BY <1>5 DEF RowFits, FindingsKept, RunIsTold, AllHanded, TypeOK, HandOver, rowVars, runVars, histVars
  <2> QED
    BY <2>1, <2>2, <2>3, <2>4 DEF RestInv
<1>6. ASSUME NEW s \in Schedulers, HandOverFails(s) PROVE RestInv'
  <2>1. \A p \in Occs : RowFits(p)'
    BY <1>6 DEF RowFits, TypeOK, HandOverFails, ClosedAs, jobVars, runVars, histVars
  <2>2. \A g \in Hands : HandFits(g)'
    BY <1>6 DEF HandFits, Hands, TypeOK, HandOverFails, ClosedAs, jobVars, runVars, histVars
  <2>3. \A w \in Workers : RunFits(w)'
    BY <1>6 DEF RunFits, TypeOK, HandOverFails, ClosedAs, jobVars, runVars, histVars
  <2>4. \A p \in Occs \ rejoined' : FindingsKept(p)'
    BY <1>6 DEF RowFits, FindingsKept, RunIsTold, AllHanded, TypeOK, HandOverFails, ClosedAs, jobVars, runVars, histVars
  <2> QED
    BY <2>1, <2>2, <2>3, <2>4 DEF RestInv
<1>7. ASSUME NEW h \in Hands, DropHand(h) PROVE RestInv'
  <2>1. \A p \in Occs : RowFits(p)'
    BY <1>7 DEF RowFits, TypeOK, DropHand, rowVars, jobVars, runVars, histVars
  <2>2. \A g \in Hands : HandFits(g)'
    BY <1>7 DEF HandFits, Hands, TypeOK, DropHand, rowVars, jobVars, runVars, histVars
  <2>3. \A w \in Workers : RunFits(w)'
    BY <1>7 DEF RunFits, TypeOK, DropHand, rowVars, jobVars, runVars, histVars
  <2>4. \A p \in Occs \ rejoined' : FindingsKept(p)'
    BY <1>7 DEF RowFits, FindingsKept, RunIsTold, AllHanded, TypeOK, DropHand, rowVars, jobVars, runVars, histVars
  <2> QED
    BY <2>1, <2>2, <2>3, <2>4 DEF RestInv
<1>8. ASSUME NEW S \in SUBSET Occs, SweepStale(S) PROVE RestInv'
  <2>1. \A p \in Occs : RowFits(p)'
    BY <1>8 DEF RowFits, TypeOK, SweepStale, Aged, handVars, jobVars, runVars, histVars
  <2>2. \A g \in Hands : HandFits(g)'
    BY <1>8 DEF HandFits, Hands, TypeOK, SweepStale, Aged, handVars, jobVars, runVars, histVars
  <2>3. \A w \in Workers : RunFits(w)'
    BY <1>8 DEF RunFits, TypeOK, SweepStale, Aged, handVars, jobVars, runVars, histVars
  <2>4. \A p \in Occs \ rejoined' : FindingsKept(p)'
    BY <1>8 DEF RowFits, FindingsKept, RunIsTold, AllHanded, TypeOK, SweepStale, Aged, handVars, jobVars, runVars, histVars
  <2> QED
    BY <2>1, <2>2, <2>3, <2>4 DEF RestInv
<1> QED
  BY <1>1, <1>2, <1>3, <1>4, <1>5, <1>6, <1>7, <1>8 DEF ScheduleStep

\* So do the clock, the owner's switch, plugins and watchers: a run that is joined has
\* no job yet, or was given back.
LEMMA WorldRest ==
  ASSUME TypeOK, RestInv, WorldStep
  PROVE  RestInv'
<1> USE DEF RestInv
<1>1. ASSUME NEW o \in Occs, NearsDue(o) \/ DueElapses(o) \/ WaitElapses(o) PROVE RestInv'
  <2>1. \A p \in Occs : RowFits(p)'
    BY <1>1 DEF RowFits, TypeOK, NearsDue, DueElapses, WaitElapses, jobVars, handVars, runVars, histVars
  <2>2. \A g \in Hands : HandFits(g)'
    BY <1>1 DEF HandFits, Hands, TypeOK, NearsDue, DueElapses, WaitElapses, jobVars, handVars, runVars, histVars
  <2>3. \A w \in Workers : RunFits(w)'
    BY <1>1 DEF RunFits, TypeOK, NearsDue, DueElapses, WaitElapses, jobVars, handVars, runVars, histVars
  <2>4. \A p \in Occs \ rejoined' : FindingsKept(p)'
    BY <1>1 DEF RowFits, FindingsKept, RunIsTold, AllHanded, TypeOK, NearsDue, DueElapses, WaitElapses, jobVars, handVars, runVars, histVars
  <2> QED
    BY <2>1, <2>2, <2>3, <2>4 DEF RestInv
<1>2. ASSUME NEW to \in {"on", "off"}, SetServing(to) PROVE RestInv'
  <2>1. \A p \in Occs : RowFits(p)'
    BY <1>2 DEF RowFits, TypeOK, SetServing, rowVars, jobVars, handVars, runVars, histVars
  <2>2. \A g \in Hands : HandFits(g)'
    BY <1>2 DEF HandFits, Hands, TypeOK, SetServing, rowVars, jobVars, handVars, runVars, histVars
  <2>3. \A w \in Workers : RunFits(w)'
    BY <1>2 DEF RunFits, TypeOK, SetServing, rowVars, jobVars, handVars, runVars, histVars
  <2>4. \A p \in Occs \ rejoined' : FindingsKept(p)'
    BY <1>2 DEF RowFits, FindingsKept, RunIsTold, AllHanded, TypeOK, SetServing, rowVars, jobVars, handVars, runVars, histVars
  <2> QED
    BY <2>1, <2>2, <2>3, <2>4 DEF RestInv
<1>3. ASSUME PausePlugin PROVE RestInv'
  <2>1. \A p \in Occs : RowFits(p)'
    BY <1>3 DEF RowFits, TypeOK, PausePlugin, rowVars, jobVars, handVars, runVars, histVars
  <2>2. \A g \in Hands : HandFits(g)'
    BY <1>3 DEF HandFits, Hands, TypeOK, PausePlugin, rowVars, jobVars, handVars, runVars, histVars
  <2>3. \A w \in Workers : RunFits(w)'
    BY <1>3 DEF RunFits, TypeOK, PausePlugin, rowVars, jobVars, handVars, runVars, histVars
  <2>4. \A p \in Occs \ rejoined' : FindingsKept(p)'
    BY <1>3 DEF RowFits, FindingsKept, RunIsTold, AllHanded, TypeOK, PausePlugin, rowVars, jobVars, handVars, runVars, histVars
  <2> QED
    BY <2>1, <2>2, <2>3, <2>4 DEF RestInv
<1>4. ASSUME SkipWaiting PROVE RestInv'
  <2>1. \A p \in Occs : RowFits(p)'
    BY <1>4 DEF RowFits, TypeOK, SkipWaiting, jobVars, handVars, runVars, histVars
  <2>2. \A g \in Hands : HandFits(g)'
    BY <1>4 DEF HandFits, Hands, TypeOK, SkipWaiting, jobVars, handVars, runVars, histVars
  <2>3. \A w \in Workers : RunFits(w)'
    BY <1>4 DEF RunFits, TypeOK, SkipWaiting, jobVars, handVars, runVars, histVars
  <2>4. \A p \in Occs \ rejoined' : FindingsKept(p)'
    BY <1>4 DEF RowFits, FindingsKept, RunIsTold, AllHanded, TypeOK, SkipWaiting, jobVars, handVars, runVars, histVars
  <2> QED
    BY <2>1, <2>2, <2>3, <2>4 DEF RestInv
<1>5. ASSUME NEW o \in Occs, Join(o) PROVE RestInv'
  <2>1. \A p \in Occs : RowFits(p)'
    BY <1>5 DEF RowFits, TypeOK, Join, Joinable, jobVars, handVars, runVars
  <2>2. \A g \in Hands : HandFits(g)'
    BY <1>5 DEF HandFits, Hands, TypeOK, Join, Joinable, jobVars, handVars, runVars
  <2>3. \A w \in Workers : RunFits(w)'
    BY <1>5 DEF RunFits, TypeOK, Join, Joinable, jobVars, handVars, runVars
  <2>4. \A p \in Occs \ rejoined' : FindingsKept(p)'
    BY <1>5 DEF RowFits, FindingsKept, RunIsTold, AllHanded, TypeOK, Join, Joinable, jobVars, handVars, runVars
  <2> QED
    BY <2>1, <2>2, <2>3, <2>4 DEF RestInv
<1>6. ASSUME NEW o \in Occs, NEW c \in BOOLEAN, Wake(o, c) PROVE RestInv'
  <2>1. \A p \in Occs : RowFits(p)'
    BY <1>6 DEF RowFits, TypeOK, Wake, jobVars, handVars, runVars, histVars
  <2>2. \A g \in Hands : HandFits(g)'
    BY <1>6 DEF HandFits, Hands, TypeOK, Wake, jobVars, handVars, runVars, histVars
  <2>3. \A w \in Workers : RunFits(w)'
    BY <1>6 DEF RunFits, TypeOK, Wake, jobVars, handVars, runVars, histVars
  <2>4. \A p \in Occs \ rejoined' : FindingsKept(p)'
    BY <1>6 DEF RowFits, FindingsKept, RunIsTold, AllHanded, TypeOK, Wake, jobVars, handVars, runVars, histVars
  <2> QED
    BY <2>1, <2>2, <2>3, <2>4 DEF RestInv
<1> QED
  BY <1>1, <1>2, <1>3, <1>4, <1>5, <1>6 DEF WorldStep

\* The queue: a job that waits for the owner was told all there is.
LEMMA QueueRest ==
  ASSUME TypeOK, RestInv, QueueStep
  PROVE  RestInv'
<1> USE DEF RestInv
<1>1. ASSUME NEW o \in Occs, CancelJob(o) PROVE RestInv'
  <2>1. \A p \in Occs : RowFits(p)'
    BY <1>1 DEF RowFits, TypeOK, CancelJob, rowVars, handVars, runVars, histVars
  <2>2. \A g \in Hands : HandFits(g)'
    BY <1>1 DEF HandFits, Hands, TypeOK, CancelJob, rowVars, handVars, runVars, histVars
  <2>3. \A w \in Workers : RunFits(w)'
    BY <1>1 DEF RunFits, TypeOK, CancelJob, rowVars, handVars, runVars, histVars
  <2>4. \A p \in Occs \ rejoined' : FindingsKept(p)'
    BY <1>1 DEF RowFits, FindingsKept, RunIsTold, AllHanded, TypeOK, CancelJob, rowVars, handVars, runVars, histVars
  <2> QED
    BY <2>1, <2>2, <2>3, <2>4 DEF RestInv
<1>2. ASSUME NEW o \in Occs, RetryJob(o) PROVE RestInv'
  <2>1. \A p \in Occs : RowFits(p)'
    BY <1>2 DEF RowFits, TypeOK, RetryJob, rowVars, handVars, runVars
  <2>2. \A g \in Hands : HandFits(g)'
    BY <1>2 DEF HandFits, Hands, TypeOK, RetryJob, rowVars, handVars, runVars
  <2>3. \A w \in Workers : RunFits(w)'
    BY <1>2 DEF RunFits, TypeOK, RetryJob, rowVars, handVars, runVars
  <2>4. \A p \in Occs \ rejoined' : FindingsKept(p)'
    BY <1>2 DEF RowFits, FindingsKept, RunIsTold, AllHanded, TypeOK, RetryJob, rowVars, handVars, runVars
  <2> QED
    BY <2>1, <2>2, <2>3, <2>4 DEF RestInv
<1>3. ASSUME NEW o \in Occs, ResumeJob(o) PROVE RestInv'
  <2>1. \A p \in Occs : RowFits(p)'
    BY <1>3 DEF RowFits, TypeOK, ResumeJob, rowVars, handVars, runVars, histVars
  <2>2. \A g \in Hands : HandFits(g)'
    BY <1>3 DEF HandFits, Hands, TypeOK, ResumeJob, rowVars, handVars, runVars, histVars
  <2>3. \A w \in Workers : RunFits(w)'
    BY <1>3 DEF RunFits, TypeOK, ResumeJob, rowVars, handVars, runVars, histVars
  <2>4. \A p \in Occs \ rejoined' : FindingsKept(p)'
    BY <1>3 DEF RowFits, FindingsKept, RunIsTold, AllHanded, TypeOK, ResumeJob, rowVars, handVars, runVars, histVars
  <2> QED
    BY <2>1, <2>2, <2>3, <2>4 DEF RestInv
<1>4. ASSUME NEW o \in Occs, NEW back \in BOOLEAN, NEW gone \in BOOLEAN, Interrupt(o, back, gone) PROVE RestInv'
  <2>1. \A p \in Occs : RowFits(p)'
    BY <1>4 DEF RowFits, TypeOK, Interrupt, ClosedAs, handVars, runVars, histVars
  <2>2. \A g \in Hands : HandFits(g)'
    BY <1>4 DEF HandFits, Hands, TypeOK, Interrupt, ClosedAs, handVars, runVars, histVars
  <2>3. \A w \in Workers : RunFits(w)'
    BY <1>4 DEF RunFits, TypeOK, Interrupt, ClosedAs, handVars, runVars, histVars
  <2>4. \A p \in Occs \ rejoined' : FindingsKept(p)'
    BY <1>4 DEF RowFits, FindingsKept, RunIsTold, AllHanded, TypeOK, Interrupt, ClosedAs, handVars, runVars, histVars
  <2> QED
    BY <2>1, <2>2, <2>3, <2>4 DEF RestInv
<1> QED
  BY <1>1, <1>2, <1>3, <1>4 DEF QueueStep

\* The handler: a run that ends was told everything its occurrence carries, and so was
\* a run that comes back from the owner.
LEMMA RunRest ==
  ASSUME TypeOK, RestInv, NEW w \in Workers, RunStep(w)
  PROVE  RestInv'
<1> USE MissionAssumption DEF RestInv
<1>1. CASE ReadOccurrence(w)
  <2>1. \A p \in Occs : RowFits(p)'
    BY <1>1 DEF RowFits, RunFits, TypeOK, ReadOccurrence, Goes, rowVars, jobVars, handVars, histVars
  <2>2. \A g \in Hands : HandFits(g)'
    BY <1>1 DEF HandFits, Hands, RunFits, TypeOK, ReadOccurrence, Goes, rowVars, jobVars, handVars, histVars
  <2>3. \A v \in Workers : RunFits(v)'
    BY <1>1 DEF RunFits, TypeOK, ReadOccurrence, Goes, rowVars, jobVars, handVars, histVars
  <2>4. \A p \in Occs \ rejoined' : FindingsKept(p)'
    BY <1>1 DEF RunFits, RowFits, FindingsKept, RunIsTold, AllHanded, TypeOK, ReadOccurrence, Goes, rowVars, jobVars, handVars, histVars
  <2> QED
    BY <2>1, <2>2, <2>3, <2>4 DEF RestInv
<1>2. CASE WaitForOwner(w) \/ EndSilent(w)
  <2>1. \A p \in Occs : RowFits(p)'
    BY <1>2 DEF RowFits, RunFits, TypeOK, WaitForOwner, EndSilent, Hears, Goes, rowVars, jobVars, handVars
  <2>2. \A g \in Hands : HandFits(g)'
    BY <1>2 DEF HandFits, Hands, RunFits, TypeOK, WaitForOwner, EndSilent, Hears, Goes, rowVars, jobVars, handVars
  <2>3. \A v \in Workers : RunFits(v)'
    BY <1>2 DEF RunFits, TypeOK, WaitForOwner, EndSilent, Hears, Goes, rowVars, jobVars, handVars
  <2>4. \A p \in Occs \ rejoined' : FindingsKept(p)'
    BY <1>2 DEF RunFits, RowFits, FindingsKept, RunIsTold, AllHanded, TypeOK, WaitForOwner, EndSilent, Hears, Goes, rowVars, jobVars, handVars
  <2> QED
    BY <2>1, <2>2, <2>3, <2>4 DEF RestInv
<1>3. CASE CloseOccurrence(w)
  <2>1. \A p \in Occs : RowFits(p)'
    BY <1>3 DEF RowFits, RunFits, TypeOK, CloseOccurrence, ClosedAs, Goes, jobVars, handVars, histVars
  <2>2. \A g \in Hands : HandFits(g)'
    BY <1>3 DEF HandFits, Hands, RunFits, TypeOK, CloseOccurrence, ClosedAs, Goes, jobVars, handVars, histVars
  <2>3. \A v \in Workers : RunFits(v)'
    BY <1>3 DEF RunFits, TypeOK, CloseOccurrence, ClosedAs, Goes, jobVars, handVars, histVars
  <2>4. \A p \in Occs \ rejoined' : FindingsKept(p)'
    <3> SUFFICES ASSUME NEW o \in Occs \ rejoined' PROVE FindingsKept(o)'
      OBVIOUS
    <3>1. /\ UNCHANGED <<carries, job, decided, cur, reads, handed, rejoined>>
          /\ step[w] = "closing" /\ step' = [step EXCEPT ![w] = "reporting"]
          /\ fate' = [fate EXCEPT ![w] = fate[w]] /\ cur[w] \in Occs
      BY <1>3 DEF CloseOccurrence, Goes, jobVars, histVars, RunFits
    <3>2. FindingsKept(o)
      BY <3>1
    <3>3. occ'[o] = "succeeded" => AllHanded(o)
      <4>1. CASE occ[o] = "succeeded"
        BY <3>2, <4>1 DEF FindingsKept
      <4>2. CASE occ[o] # "succeeded"
        BY <1>3, <3>1, <3>2, <4>2 DEF CloseOccurrence, ClosedAs, FindingsKept, RunIsTold, TypeOK
      <4> QED
        BY <4>1, <4>2
    <3>4. ASSUME NEW v \in Workers, cur[v] = o PROVE RunIsTold(v, o)'
      <4>1. RunIsTold(v, o)
        BY <3>2, <3>4 DEF FindingsKept
      <4> QED
        BY <3>1, <4>1 DEF RunIsTold, AllHanded, TypeOK
    <3> QED
      BY <3>1, <3>2, <3>3, <3>4 DEF FindingsKept, AllHanded
  <2> QED
    BY <2>1, <2>2, <2>3, <2>4 DEF RestInv
<1>4. CASE Deliver(w)
  <2>1. \A p \in Occs : RowFits(p)'
    BY <1>4 DEF RowFits, RunFits, TypeOK, Deliver, Says, Goes, rowVars, jobVars, handVars
  <2>2. \A g \in Hands : HandFits(g)'
    BY <1>4 DEF HandFits, Hands, RunFits, TypeOK, Deliver, Says, Goes, rowVars, jobVars, handVars
  <2>3. \A v \in Workers : RunFits(v)'
    BY <1>4 DEF RunFits, TypeOK, Deliver, Says, Goes, rowVars, jobVars, handVars
  <2>4. \A p \in Occs \ rejoined' : FindingsKept(p)'
    BY <1>4 DEF RunFits, RowFits, FindingsKept, RunIsTold, AllHanded, TypeOK, Deliver, Says, Goes, rowVars, jobVars, handVars
  <2> QED
    BY <2>1, <2>2, <2>3, <2>4 DEF RestInv
<1>5. CASE Abandon(w)
  <2>1. \A p \in Occs : RowFits(p)'
    BY <1>5 DEF RowFits, RunFits, TypeOK, Abandon, Leaves, Goes, rowVars, jobVars, handVars, histVars
  <2>2. \A g \in Hands : HandFits(g)'
    BY <1>5 DEF HandFits, Hands, RunFits, TypeOK, Abandon, Leaves, Goes, rowVars, jobVars, handVars, histVars
  <2>3. \A v \in Workers : RunFits(v)'
    BY <1>5 DEF RunFits, TypeOK, Abandon, Leaves, Goes, rowVars, jobVars, handVars, histVars
  <2>4. \A p \in Occs \ rejoined' : FindingsKept(p)'
    BY <1>5 DEF RunFits, RowFits, FindingsKept, RunIsTold, AllHanded, TypeOK, Abandon, Leaves, Goes, rowVars, jobVars, handVars, histVars
  <2> QED
    BY <2>1, <2>2, <2>3, <2>4 DEF RestInv
<1>6. ASSUME NEW o \in Occs, ClaimJob(w, o) PROVE RestInv'
  <2>1. \A p \in Occs : RowFits(p)'
    BY <1>6 DEF RowFits, RunFits, TypeOK, ClaimJob, rowVars, handVars, histVars
  <2>2. \A g \in Hands : HandFits(g)'
    BY <1>6 DEF HandFits, Hands, RunFits, TypeOK, ClaimJob, rowVars, handVars, histVars
  <2>3. \A v \in Workers : RunFits(v)'
    BY <1>6 DEF RunFits, TypeOK, ClaimJob, rowVars, handVars, histVars
  <2>4. \A p \in Occs \ rejoined' : FindingsKept(p)'
    BY <1>6 DEF RunFits, RowFits, FindingsKept, RunIsTold, AllHanded, TypeOK, ClaimJob, rowVars, handVars, histVars
  <2> QED
    BY <2>1, <2>2, <2>3, <2>4 DEF RestInv
<1>7. CASE CallReport(w)
  <2>1. \A p \in Occs : RowFits(p)'
    BY <1>7 DEF RowFits, RunFits, TypeOK, CallReport, OnRecord, Goes, rowVars, handVars, histVars
  <2>2. \A g \in Hands : HandFits(g)'
    BY <1>7 DEF HandFits, Hands, RunFits, TypeOK, CallReport, OnRecord, Goes, rowVars, handVars, histVars
  <2>3. \A v \in Workers : RunFits(v)'
    BY <1>7 DEF RunFits, TypeOK, CallReport, OnRecord, Goes, rowVars, handVars, histVars
  <2>4. \A p \in Occs \ rejoined' : FindingsKept(p)'
    BY <1>7 DEF RunFits, RowFits, FindingsKept, RunIsTold, AllHanded, TypeOK, CallReport, OnRecord, Goes, rowVars, handVars, histVars
  <2> QED
    BY <2>1, <2>2, <2>3, <2>4 DEF RestInv
<1>8. ASSUME NEW b \in BOOLEAN, RunFails(w, b) \/ EndFails(w, b) PROVE RestInv'
  <2>1. \A p \in Occs : RowFits(p)'
    BY <1>8 DEF RowFits, RunFits, TypeOK, RunFails, EndFails, Throws, Goes, rowVars, jobVars, handVars, histVars
  <2>2. \A g \in Hands : HandFits(g)'
    BY <1>8 DEF HandFits, Hands, RunFits, TypeOK, RunFails, EndFails, Throws, Goes, rowVars, jobVars, handVars, histVars
  <2>3. \A v \in Workers : RunFits(v)'
    BY <1>8 DEF RunFits, TypeOK, RunFails, EndFails, Throws, Goes, rowVars, jobVars, handVars, histVars
  <2>4. \A p \in Occs \ rejoined' : FindingsKept(p)'
    BY <1>8 DEF RunFits, RowFits, FindingsKept, RunIsTold, AllHanded, TypeOK, RunFails, EndFails, Throws, Goes, rowVars, jobVars, handVars, histVars
  <2> QED
    BY <2>1, <2>2, <2>3, <2>4 DEF RestInv
<1>9. ASSUME NEW b \in BOOLEAN, Report(w, b) PROVE RestInv'
  <2>1. \A p \in Occs : RowFits(p)'
    BY <1>9 DEF RowFits, RunFits, TypeOK, Report, Holds, Told, Leaves, Goes, rowVars, handVars, histVars
  <2>2. \A g \in Hands : HandFits(g)'
    BY <1>9 DEF HandFits, Hands, RunFits, TypeOK, Report, Holds, Told, Leaves, Goes, rowVars, handVars, histVars
  <2>3. \A v \in Workers : RunFits(v)'
    BY <1>9 DEF RunFits, TypeOK, Report, Holds, Told, Leaves, Goes, rowVars, handVars, histVars
  <2>4. \A p \in Occs \ rejoined' : FindingsKept(p)'
    BY <1>9 DEF RunFits, RowFits, FindingsKept, RunIsTold, AllHanded, TypeOK, Report, Holds, Told, Leaves, Goes, rowVars, handVars, histVars
  <2> QED
    BY <2>1, <2>2, <2>3, <2>4 DEF RestInv
<1>10. CASE RecordDelivery(w)
  <2>1. \A p \in Occs : RowFits(p)'
    BY <1>10 DEF RowFits, RunFits, TypeOK, RecordDelivery, Hears, OnRecord, Goes, rowVars, handVars
  <2>2. \A g \in Hands : HandFits(g)'
    BY <1>10 DEF HandFits, Hands, RunFits, TypeOK, RecordDelivery, Hears, OnRecord, Goes, rowVars, handVars
  <2>3. \A v \in Workers : RunFits(v)'
    BY <1>10 DEF RunFits, TypeOK, RecordDelivery, Hears, OnRecord, Goes, rowVars, handVars
  <2>4. \A p \in Occs \ rejoined' : FindingsKept(p)'
    BY <1>10 DEF RunFits, RowFits, FindingsKept, RunIsTold, AllHanded, TypeOK, RecordDelivery, Hears, OnRecord, Goes, rowVars, handVars
  <2> QED
    BY <2>1, <2>2, <2>3, <2>4 DEF RestInv
<1> QED
  BY <1>1, <1>2, <1>3, <1>4, <1>5, <1>6, <1>7, <1>8, <1>9, <1>10 DEF RunStep

\* The initial state has the invariant.
LEMMA InitInv == Init => MissionInv
<1> SUFFICES ASSUME Init PROVE MissionInv
  OBVIOUS
<1>1. TypeOK
  BY InitType
<1>2. RestInv
  BY MissionAssumption
     DEF Init, RestInv, RowFits, HandFits, RunFits, FindingsKept, RunIsTold, AllHanded
<1> QED
  BY <1>1, <1>2 DEF MissionInv, RestInv

\* Every step keeps it.
LEMMA InvStep ==
  ASSUME MissionInv, [Next]_vars
  PROVE  MissionInv'
<1>0. TypeOK /\ RestInv
  BY DEF MissionInv, RestInv
<1>1. CASE ScheduleStep
  BY <1>0, <1>1, ScheduleType, ScheduleRest DEF MissionInv, RestInv
<1>2. CASE WorldStep
  BY <1>0, <1>2, WorldType, WorldRest DEF MissionInv, RestInv
<1>3. CASE QueueStep
  BY <1>0, <1>3, QueueType, QueueRest DEF MissionInv, RestInv
<1>4. ASSUME NEW w \in Workers, RunStep(w) PROVE MissionInv'
  BY <1>0, <1>4, RunType, RunRest DEF MissionInv, RestInv
<1>5. CASE UNCHANGED vars
  <2>1. TypeOK'
    BY <1>0, <1>5 DEF TypeOK, vars, rowVars, jobVars, handVars, runVars, histVars
  <2>2. RestInv'
    BY <1>0, <1>5 DEF RestInv, RowFits, HandFits, RunFits, FindingsKept, RunIsTold, AllHanded,
                     vars, rowVars, jobVars, handVars, runVars, histVars
  <2> QED
    BY <2>1, <2>2 DEF MissionInv, RestInv
<1> QED
  BY <1>1, <1>2, <1>3, <1>4, <1>5 DEF Next

\* A run has a job and a job a row, whoever dies between the statements.
THEOREM MissionInvariant == Spec => []MissionInv
<1> QED
  BY InitInv, InvStep, PTL DEF Spec

\* Every variable keeps its type, for any occurrences, workers and bounds.
THEOREM TypesHold == Spec => []TypeOK
<1>1. MissionInv => TypeOK
  BY DEF MissionInv
<1> QED
  BY <1>1, MissionInvariant, PTL

\* No finding is dropped: an occurrence that succeeded had all it carries in a run, if no
\* finding joined it after it was given back with a job there already.
THEOREM FindingsReachARun == Spec => []NoFindingDropped
<1>1. MissionInv => NoFindingDropped
  BY DEF MissionInv, FindingsKept, AllHanded, NoFindingDropped
<1> QED
  BY <1>1, MissionInvariant, PTL

-----------------------------------------------------------------------------
(* One run at a time                                                       *)

\* What is open after a step was open before it, with what it carried, unless the step
\* opened it.
LEMMA OpenStays ==
  ASSUME TypeOK, OneRunOpen,
         \A o \in Occs : occ'[o] \in {"pending", "claimed"} /\ carries'[o] = 0
                        => occ[o] \in {"pending", "claimed"} /\ carries[o] = 0
  PROVE  OneRunOpen'
BY DEF OneRunOpen, Open

\* Steps that only close rows, move open ones or make a run carry more.
LEMMA OpenKept ==
  ASSUME MissionInv, OneRunOpen,
         \A o \in Occs : occ'[o] \in {"pending", "claimed"} => occ[o] \in {"pending", "claimed"},
         UNCHANGED carries
  PROVE  OneRunOpen'
BY OpenStays DEF MissionInv

\* Materialization and Run now look for an open run before they open one, under the
\* same lock; every other step opens none that a watcher did not ask for.
LEMMA OneRunStep ==
  ASSUME MissionInv, OneRunOpen, [Next]_vars
  PROVE  OneRunOpen'
<1>0. TypeOK
  BY DEF MissionInv
<1>1. CASE UNCHANGED <<occ, carries>>
  BY <1>1, OpenKept
<1>2. CASE ScheduleStep
  <2>1. ASSUME NEW s \in Schedulers, NEW S \in SUBSET Occs, NEW newest \in Occs, NEW late \in SUBSET Occs,
               Materialize(s, S, newest, late)
        PROVE  OneRunOpen'
    <3>1. SUFFICES ASSUME Policy = "latest-only" PROVE OneRunOpen'
      BY DEF OneRunOpen
    <3>2. Runs(S, newest, late) \subseteq IF Open # {} THEN {} ELSE {newest}
      BY <3>1 DEF Runs, Busy
    <3>3. /\ \A o \in Occs : occ'[o] \in {"pending", "claimed"} =>
                 o \in Runs(S, newest, late) \/ occ[o] \in {"pending", "claimed"}
          /\ UNCHANGED carries
      BY <2>1 DEF Materialize
    <3>4. CASE Open # {}
      BY <3>2, <3>3, <3>4, OpenKept
    <3>5. CASE Open = {}
      <4>1. \A o \in Occs : occ[o] \notin {"pending", "claimed"}
        BY <3>5 DEF Open
      <4> QED
        BY <3>2, <3>3, <3>5, <4>1 DEF OneRunOpen, Open
    <3> QED
      BY <3>4, <3>5
  <2>2. ASSUME NEW h \in Surfaces, NEW o \in Occs, RunNow(h, o) PROVE OneRunOpen'
    <3>1. \A p \in Occs : occ[p] \notin {"pending", "claimed"}
      BY <2>2 DEF RunNow, Busy, Open
    <3> QED
      BY <1>0, <2>2, <3>1 DEF RunNow, OneRunOpen, Open, TypeOK
  <2>3. ASSUME NEW s \in Schedulers, NEW o \in Occs, ClaimNext(s, o) PROVE OneRunOpen'
    BY <1>0, <2>3, OpenKept DEF ClaimNext, TypeOK
  <2>4. ASSUME NEW s \in Schedulers, HandOverFails(s) PROVE OneRunOpen'
    BY <1>0, <2>4, OpenKept DEF HandOverFails, ClosedAs, TypeOK
  <2>5. ASSUME NEW S \in SUBSET Occs, SweepStale(S) PROVE OneRunOpen'
    BY <1>0, <2>5, OpenKept DEF SweepStale, Aged
  <2>6. ASSUME NEW h \in Hands, HandOver(h) \/ DropHand(h) PROVE OneRunOpen'
    BY <1>1, <2>6 DEF HandOver, DropHand, rowVars
  <2>7. ASSUME NEW s \in Schedulers, SelectSpecs(s) PROVE OneRunOpen'
    BY <1>1, <2>7 DEF SelectSpecs, rowVars
  <2> QED
    BY <1>2, <2>1, <2>2, <2>3, <2>4, <2>5, <2>6, <2>7 DEF ScheduleStep
<1>3. CASE WorldStep
  <2>1. ASSUME NEW o \in Occs, Join(o) PROVE OneRunOpen'
    <3>1. \A p \in Occs : carries'[p] = 0 => carries[p] = 0
      BY <1>0, <2>1, MissionAssumption DEF Join, TypeOK
    <3> QED
      BY <1>0, <2>1, <3>1, OpenStays DEF Join
  <2>2. ASSUME NEW o \in Occs, NEW c \in BOOLEAN, Wake(o, c) PROVE OneRunOpen'
    BY <1>0, <2>2, OpenStays DEF Wake, TypeOK
  <2>3. CASE SkipWaiting
    BY <2>3, OpenKept DEF SkipWaiting
  <2>4. ASSUME NEW o \in Occs, NearsDue(o) \/ DueElapses(o) \/ WaitElapses(o) PROVE OneRunOpen'
    BY <1>1, <2>4 DEF NearsDue, DueElapses, WaitElapses
  <2>5. ASSUME NEW to \in {"on", "off"}, SetServing(to) PROVE OneRunOpen'
    BY <1>1, <2>5 DEF SetServing, rowVars
  <2>6. CASE PausePlugin
    BY <1>1, <2>6 DEF PausePlugin, rowVars
  <2> QED
    BY <1>3, <2>1, <2>2, <2>3, <2>4, <2>5, <2>6 DEF WorldStep
<1>4. CASE QueueStep
  <2>1. ASSUME NEW o \in Occs, NEW back \in BOOLEAN, NEW gone \in BOOLEAN, Interrupt(o, back, gone)
        PROVE  OneRunOpen'
    BY <1>0, <2>1, OpenKept DEF Interrupt, ClosedAs, TypeOK
  <2>2. ASSUME NEW o \in Occs, CancelJob(o) \/ RetryJob(o) \/ ResumeJob(o) PROVE OneRunOpen'
    BY <1>1, <2>2 DEF CancelJob, RetryJob, ResumeJob, rowVars
  <2> QED
    BY <1>4, <2>1, <2>2 DEF QueueStep
<1>5. ASSUME NEW w \in Workers, RunStep(w) PROVE OneRunOpen'
  <2>1. CASE CloseOccurrence(w)
    <3>1. cur[w] \in Occs
      BY <2>1, BusyHasOcc DEF CloseOccurrence
    <3> QED
      BY <1>0, <2>1, <3>1, OpenKept DEF CloseOccurrence, ClosedAs, TypeOK
  <2>2. CASE \/ ReadOccurrence(w) \/ CallReport(w) \/ Deliver(w) \/ RecordDelivery(w)
             \/ EndSilent(w) \/ WaitForOwner(w) \/ Abandon(w)
    BY <1>1, <2>2 DEF ReadOccurrence, CallReport, Deliver, RecordDelivery, EndSilent, WaitForOwner, Abandon, rowVars
  <2>3. ASSUME NEW o \in Occs, ClaimJob(w, o) PROVE OneRunOpen'
    BY <1>1, <2>3 DEF ClaimJob, rowVars
  <2>4. ASSUME NEW b \in BOOLEAN, RunFails(w, b) \/ EndFails(w, b) \/ Report(w, b) PROVE OneRunOpen'
    BY <1>1, <2>4 DEF RunFails, EndFails, Report, rowVars
  <2> QED
    BY <1>5, <2>1, <2>2, <2>3, <2>4 DEF RunStep
<1>6. CASE UNCHANGED vars
  BY <1>1, <1>6 DEF vars, rowVars
<1> QED
  BY <1>2, <1>3, <1>4, <1>5, <1>6 DEF Next

\* Under latest-only a schedule and its Run now keep one run open at most, for any number
\* of schedulers and requests and whatever the sweep gives back.
THEOREM OneRunAtATime == Spec => []OneRunOpen
<1>1. Init => OneRunOpen
  BY DEF Init, OneRunOpen, Open
<1> QED
  BY <1>1, OneRunStep, MissionInvariant, PTL DEF Spec

-----------------------------------------------------------------------------
(* The refinement                                                          *)

\* A step that writes no row is hidden.
LEMMA LifeHidden ==
  ASSUME UNCHANGED occ
  PROVE  [Life!Next]_[o \in Occs |-> LifeOf(o)]
BY DEF LifeOf

\* The rows of a set of occurrences get one state, the others keep theirs.
LEMMA LifeMoves ==
  ASSUME NEW S \in SUBSET Occs, NEW to,
         \A o \in S : LifeOf(o)' = to,
         \A o \in Occs \ S : occ'[o] = occ[o]
  PROVE  Life!MoveAll(S, to)
<1>1. ASSUME NEW o \in Occs PROVE LifeOf(o)' = IF o \in S THEN to ELSE LifeOf(o)
  BY DEF LifeOf
<1> QED
  BY <1>1 DEF Life!MoveAll

\* finishOccurrence closes what was taken, or does nothing.
LEMMA LifeCloses ==
  ASSUME TypeOK, NEW o \in Occs, NEW to \in {"succeeded", "failed"}, occ' = ClosedAs(o, to)
  PROVE  [Life!Next]_[p \in Occs |-> LifeOf(p)]
<1> DEFINE end == IF to = "succeeded" THEN "done" ELSE "failed"
<1>1. CASE occ[o] = "claimed"
  <2>1. occ'[o] = to /\ \A p \in Occs \ {o} : occ'[p] = occ[p]
    BY <1>1 DEF ClosedAs, TypeOK
  <2>2. \A p \in {o} : LifeOf(p)' = end
    BY <2>1 DEF LifeOf
  <2>3. Life!MoveAll({o}, end)
    BY <2>1, <2>2, LifeMoves
  <2>4. [p \in Occs |-> LifeOf(p)][o] = "taken" /\ end \in {"done", "failed"}
    BY <1>1 DEF LifeOf
  <2>5. Life!Close(o, end)
    BY <2>3, <2>4 DEF Life!Close
  <2> QED
    BY <2>4, <2>5 DEF Life!Next
<1>2. CASE occ[o] # "claimed"
  <2>1. \A p \in Occs : occ'[p] = occ[p]
    BY <1>2 DEF ClosedAs, TypeOK
  <2> QED
    BY <2>1 DEF LifeOf
<1> QED
  BY <1>1, <1>2

\* The scheduler, the surfaces and the sweep.
LEMMA LifeSchedules ==
  ASSUME TypeOK, ScheduleStep
  PROVE  [Life!Next]_[o \in Occs |-> LifeOf(o)]
<1>1. ASSUME NEW s \in Schedulers, NEW S \in SUBSET Occs, NEW newest \in Occs, NEW late \in SUBSET Occs,
             Materialize(s, S, newest, late)
      PROVE  [Life!Next]_[o \in Occs |-> LifeOf(o)]
  <2> DEFINE W == Runs(S, newest, late)
  <2>1. W \subseteq S
    BY RunsInWindow
  <2>2. \A o \in Occs : occ'[o] = IF o \in W THEN "pending" ELSE IF o \in S THEN "skipped" ELSE occ[o]
    BY <1>1 DEF Materialize
  <2>3. \A o \in S : [p \in Occs |-> LifeOf(p)][o] = "none"
    BY <1>1 DEF Materialize, LifeOf
  <2> HIDE DEF W
  <2>4. ASSUME NEW o \in Occs
        PROVE  LifeOf(o)' = IF o \in W THEN "waiting" ELSE IF o \in S \ W THEN "skipped" ELSE LifeOf(o)
    BY <2>1, <2>2 DEF LifeOf
  <2>5. Life!Appear(W, S \ W)
    BY <2>1, <2>3, <2>4 DEF Life!Appear
  <2> QED
    BY <2>1, <2>5 DEF Life!Next
<1>2. ASSUME NEW s \in Schedulers, NEW o \in Occs, ClaimNext(s, o)
      PROVE  [Life!Next]_[p \in Occs |-> LifeOf(p)]
  <2>1. occ'[o] = "claimed" /\ \A p \in Occs \ {o} : occ'[p] = occ[p]
    BY <1>2 DEF ClaimNext, TypeOK
  <2>2. \A p \in {o} : LifeOf(p)' = "taken"
    BY <2>1 DEF LifeOf
  <2>3. [p \in Occs |-> LifeOf(p)][o] = "waiting"
    BY <1>2 DEF ClaimNext, LifeOf
  <2>4. Life!Take(o)
    BY <2>1, <2>2, <2>3, LifeMoves DEF Life!Take
  <2> QED
    BY <2>4 DEF Life!Next
<1>3. ASSUME NEW h \in Surfaces, NEW o \in Occs, RunNow(h, o)
      PROVE  [Life!Next]_[p \in Occs |-> LifeOf(p)]
  <2>1. occ'[o] = "claimed" /\ \A p \in Occs \ {o} : occ'[p] = occ[p]
    BY <1>3 DEF RunNow, TypeOK
  <2>2. \A p \in {o} : LifeOf(p)' = "taken"
    BY <2>1 DEF LifeOf
  <2>3. [p \in Occs |-> LifeOf(p)][o] = "none"
    BY <1>3 DEF RunNow, LifeOf
  <2>4. Life!StartNow(o)
    BY <2>1, <2>2, <2>3, LifeMoves DEF Life!StartNow
  <2> QED
    BY <2>4 DEF Life!Next
<1>4. ASSUME NEW s \in Schedulers, HandOverFails(s)
      PROVE  [Life!Next]_[o \in Occs |-> LifeOf(o)]
  <2>1. hand[s] \in Occs
    BY <1>4 DEF HandOverFails, TypeOK, Hands
  <2> QED
    BY <1>4, <2>1, LifeCloses DEF HandOverFails
<1>5. ASSUME NEW S \in SUBSET Occs, SweepStale(S)
      PROVE  [Life!Next]_[o \in Occs |-> LifeOf(o)]
  <2>1. \A o \in Occs : occ'[o] = IF o \in S THEN "pending" ELSE occ[o]
    BY <1>5 DEF SweepStale
  <2>2. \A o \in S : LifeOf(o)' = "waiting"
    BY <2>1 DEF LifeOf
  <2>3. \A o \in S : [p \in Occs |-> LifeOf(p)][o] = "taken"
    BY <1>5 DEF SweepStale, Aged, LifeOf
  <2>4. Life!GiveBack(S)
    BY <2>1, <2>2, <2>3, LifeMoves DEF Life!GiveBack
  <2> QED
    BY <2>4 DEF Life!Next
<1>6. ASSUME NEW h \in Hands, HandOver(h) \/ DropHand(h)
      PROVE  [Life!Next]_[o \in Occs |-> LifeOf(o)]
  BY <1>6, LifeHidden DEF HandOver, DropHand, rowVars
<1>7. ASSUME NEW s \in Schedulers, SelectSpecs(s)
      PROVE  [Life!Next]_[o \in Occs |-> LifeOf(o)]
  BY <1>7, LifeHidden DEF SelectSpecs, rowVars
<1> QED
  BY <1>1, <1>2, <1>3, <1>4, <1>5, <1>6, <1>7 DEF ScheduleStep

\* Watchers, plugins and the clock.
LEMMA LifeInWorld ==
  ASSUME TypeOK, WorldStep
  PROVE  [Life!Next]_[o \in Occs |-> LifeOf(o)]
<1>1. ASSUME NEW o \in Occs, NEW c \in BOOLEAN, Wake(o, c)
      PROVE  [Life!Next]_[p \in Occs |-> LifeOf(p)]
  <2>1. occ'[o] = "pending" /\ \A p \in Occs \ {o} : occ'[p] = occ[p]
    BY <1>1 DEF Wake, TypeOK
  <2>2. [p \in Occs |-> LifeOf(p)][o] = "none"
    BY <1>1 DEF Wake, LifeOf
  <2>3. ASSUME NEW p \in Occs
        PROVE  LifeOf(p)' = IF p \in {o} THEN "waiting" ELSE IF p \in {} THEN "skipped" ELSE LifeOf(p)
    BY <2>1 DEF LifeOf
  <2>4. Life!Appear({o}, {})
    BY <2>2, <2>3 DEF Life!Appear
  <2> QED
    BY <2>4 DEF Life!Next
<1>2. CASE SkipWaiting
  <2> DEFINE S == {o \in Occs : occ[o] = "pending"}
  <2>1. \A o \in Occs : occ'[o] = IF o \in S THEN "skipped" ELSE occ[o]
    BY <1>2 DEF SkipWaiting
  <2>2. \A o \in S : [p \in Occs |-> LifeOf(p)][o] = "waiting"
    BY DEF LifeOf
  <2>3. S \in SUBSET Occs
    OBVIOUS
  <2> HIDE DEF S
  <2>4. \A o \in S : LifeOf(o)' = "skipped"
    BY <2>1, <2>3 DEF LifeOf
  <2>5. Life!Skip(S)
    BY <2>1, <2>2, <2>3, <2>4, LifeMoves DEF Life!Skip
  <2> QED
    BY <2>3, <2>5 DEF Life!Next
<1>3. ASSUME NEW o \in Occs, Join(o) \/ NearsDue(o) \/ DueElapses(o) \/ WaitElapses(o)
      PROVE  [Life!Next]_[p \in Occs |-> LifeOf(p)]
  BY <1>3, LifeHidden DEF Join, NearsDue, DueElapses, WaitElapses
<1>4. ASSUME PausePlugin \/ \E to \in {"on", "off"} : SetServing(to)
      PROVE  [Life!Next]_[o \in Occs |-> LifeOf(o)]
  BY <1>4, LifeHidden DEF PausePlugin, SetServing, rowVars
<1> QED
  BY <1>1, <1>2, <1>3, <1>4 DEF WorldStep

\* Every step is a step of the occurrence's life or hidden from it.
LEMMA LifeStep ==
  ASSUME MissionInv, [Next]_vars
  PROVE  [Life!Next]_[o \in Occs |-> LifeOf(o)]
<1>0. TypeOK
  BY DEF MissionInv
<1>1. CASE ScheduleStep
  BY <1>0, <1>1, LifeSchedules
<1>2. CASE WorldStep
  BY <1>0, <1>2, LifeInWorld
<1>3. CASE QueueStep
  <2>1. ASSUME NEW o \in Occs, NEW back \in BOOLEAN, NEW gone \in BOOLEAN, Interrupt(o, back, gone)
        PROVE  [Life!Next]_[p \in Occs |-> LifeOf(p)]
    BY <1>0, <2>1, LifeHidden, LifeCloses DEF Interrupt
  <2>2. ASSUME NEW o \in Occs, CancelJob(o) \/ RetryJob(o) \/ ResumeJob(o)
        PROVE  [Life!Next]_[p \in Occs |-> LifeOf(p)]
    BY <2>2, LifeHidden DEF CancelJob, RetryJob, ResumeJob, rowVars
  <2> QED
    BY <1>3, <2>1, <2>2 DEF QueueStep
<1>4. ASSUME NEW w \in Workers, RunStep(w)
      PROVE  [Life!Next]_[o \in Occs |-> LifeOf(o)]
  <2>1. CASE CloseOccurrence(w)
    <3>1. cur[w] \in Occs
      BY <2>1, BusyHasOcc DEF CloseOccurrence
    <3> QED
      BY <1>0, <2>1, <3>1, LifeCloses DEF CloseOccurrence
  <2>2. CASE \/ ReadOccurrence(w) \/ CallReport(w) \/ Deliver(w) \/ RecordDelivery(w)
             \/ EndSilent(w) \/ WaitForOwner(w) \/ Abandon(w)
    BY <2>2, LifeHidden DEF ReadOccurrence, CallReport, Deliver, RecordDelivery, EndSilent, WaitForOwner, Abandon, rowVars
  <2>3. ASSUME NEW o \in Occs, ClaimJob(w, o) PROVE [Life!Next]_[p \in Occs |-> LifeOf(p)]
    BY <2>3, LifeHidden DEF ClaimJob, rowVars
  <2>4. ASSUME NEW b \in BOOLEAN, RunFails(w, b) \/ EndFails(w, b) \/ Report(w, b)
        PROVE  [Life!Next]_[p \in Occs |-> LifeOf(p)]
    BY <2>4, LifeHidden DEF RunFails, EndFails, Report, rowVars
  <2> QED
    BY <1>4, <2>1, <2>2, <2>3, <2>4 DEF RunStep
<1>5. CASE UNCHANGED vars
  BY <1>5, LifeHidden DEF vars, rowVars
<1> QED
  BY <1>1, <1>2, <1>3, <1>4, <1>5 DEF Next

\* Every behaviour of schedulers, surfaces, watchers, sweeps, interruptions and late runs
\* is one of OccurrenceLife: what was closed or skipped stays so.
THEOREM LifeIsImplemented == Spec => ImplementsLife
<1>1. Init => Life!Init
  <2> SUFFICES ASSUME Init PROVE Life!Init
    OBVIOUS
  <2>1. \A o \in Occs : LifeOf(o) = "none"
    BY DEF Init, LifeOf
  <2> QED
    BY <2>1 DEF Life!Init
<1>2. MissionInv /\ [Next]_vars => [Life!Next]_[o \in Occs |-> LifeOf(o)]
  BY LifeStep
<1> QED
  BY <1>1, <1>2, MissionInvariant, PTL DEF Spec, ImplementsLife, Life!Spec

-----------------------------------------------------------------------------
(* The queue, seen from outside, keeps to the life of a job                *)

\* A step that leaves the jobs alone is hidden.
LEMMA JobsHidden ==
  ASSUME job' = job
  PROVE  [Queue!Next]_[o \in Occs |-> JobLifeOf(o)]
BY DEF JobLifeOf, JobLife

\* One job at a time changes its state.
LEMMA JobMoves ==
  ASSUME TypeOK, NEW o \in Occs, NEW s, job' = [job EXCEPT ![o] = s]
  PROVE  Queue!Become(o, JobLifeOf(o)')
<1>1. \A p \in Occs \ {o} : JobLifeOf(p)' = JobLifeOf(p)
  BY DEF JobLifeOf, JobLife, TypeOK
<1> QED
  BY <1>1 DEF Queue!Become

\* The life a job comes to when its state becomes s.
LEMMA LifeIn ==
  ASSUME TypeOK, NEW o \in Occs, NEW s \in JobState, job' = [job EXCEPT ![o] = s]
  PROVE  JobLifeOf(o)' = JobLife[s]
BY DEF JobLifeOf, TypeOK

\* The end of a run, however it comes, is an end.
LEMMA JobEnds ==
  ASSUME TypeOK, NEW o \in Occs, job[o] = "leased",
         NEW s \in {"pending", "suspended", "succeeded", "failed"}, job' = [job EXCEPT ![o] = s]
  PROVE  [Queue!Next]_[p \in Occs |-> JobLifeOf(p)]
<1>1. [p \in Occs |-> JobLifeOf(p)][o] = "running"
  BY DEF JobLifeOf, JobLife
<1>2. JobLifeOf(o)' \in {"done", "parked", "waiting", "failed"}
  BY LifeIn DEF JobState, JobLife
<1>3. Queue!End(o)
  BY <1>1, <1>2, JobMoves DEF Queue!End
<1> QED
  BY <1>3 DEF Queue!Next

\* A second handoff, a late run and a sweep revive no job that is over; only the owner does.
LEMMA QueueSeenFromOutside ==
  ASSUME MissionInv, [Next]_vars
  PROVE  [Queue!Next]_[o \in Occs |-> JobLifeOf(o)]
<1>0. TypeOK /\ \A w \in Workers : RunFits(w)
  BY DEF MissionInv
<1>1. ASSUME NEW h \in Hands, HandOver(h) PROVE [Queue!Next]_[o \in Occs |-> JobLifeOf(o)]
  <2>1. PICK o \in Occs : o = hand[h]
    BY <1>0, <1>1 DEF HandOver, TypeOK
  <2>2. CASE job[o] = "none"
    <3>1. job' = [job EXCEPT ![o] = "pending"]
      BY <1>1, <2>1, <2>2 DEF HandOver
    <3>2. [p \in Occs |-> JobLifeOf(p)][o] = "none"
      BY <2>2 DEF JobLifeOf, JobLife
    <3>3. JobLifeOf(o)' = "waiting"
      BY <1>0, <3>1, LifeIn DEF JobState, JobLife
    <3>4. Queue!Accept(o)
      BY <1>0, <3>1, <3>2, <3>3, JobMoves DEF Queue!Accept
    <3> QED
      BY <3>4 DEF Queue!Next
  <2>3. CASE job[o] # "none"
    BY <1>0, <1>1, <2>1, <2>3, JobsHidden DEF HandOver, TypeOK
  <2> QED
    BY <2>2, <2>3
<1>3. CASE ScheduleStep
  <2>1. job' = job \/ \E h \in Hands : HandOver(h)
    BY <1>3 DEF ScheduleStep, SelectSpecs, HandOverFails, Materialize, ClaimNext, RunNow, DropHand, SweepStale, jobVars
  <2> QED
    BY <1>1, <2>1, JobsHidden
<1>4. CASE WorldStep
  <2>1. job' = job
    BY <1>4 DEF WorldStep, NearsDue, DueElapses, WaitElapses, SetServing, PausePlugin, SkipWaiting, Join, Wake, jobVars
  <2> QED
    BY <2>1, JobsHidden
<1>5. CASE QueueStep
  <2>1. ASSUME NEW o \in Occs, NEW back \in BOOLEAN, NEW gone \in BOOLEAN, Interrupt(o, back, gone)
        PROVE  [Queue!Next]_[p \in Occs |-> JobLifeOf(p)]
    BY <1>0, <2>1, JobEnds DEF Interrupt
  <2>2. ASSUME NEW o \in Occs, CancelJob(o) PROVE [Queue!Next]_[p \in Occs |-> JobLifeOf(p)]
    <3>1. [p \in Occs |-> JobLifeOf(p)][o] \in {"waiting", "running", "parked", "failed"}
      BY <2>2 DEF CancelJob, JobLifeOf, JobLife
    <3>2. JobLifeOf(o)' = "dropped"
      BY <1>0, <2>2, LifeIn DEF JobState, JobLife, CancelJob
    <3>3. Queue!Drop(o)
      BY <1>0, <2>2, <3>1, <3>2, JobMoves DEF CancelJob, Queue!Drop
    <3> QED
      BY <3>3 DEF Queue!Next
  <2>3. ASSUME NEW o \in Occs, RetryJob(o) PROVE [Queue!Next]_[p \in Occs |-> JobLifeOf(p)]
    <3>1. [p \in Occs |-> JobLifeOf(p)][o] \in {"failed", "dropped", "parked"}
      BY <2>3 DEF RetryJob, JobLifeOf, JobLife
    <3>2. JobLifeOf(o)' = "waiting"
      BY <1>0, <2>3, LifeIn DEF JobState, JobLife, RetryJob
    <3>3. \A p \in Occs \ {o} : JobLifeOf(p)' = JobLifeOf(p)
      BY <1>0, <2>3 DEF RetryJob, JobLifeOf, JobLife, TypeOK
    <3>4. Queue!Revive({o})
      BY <3>1, <3>2, <3>3 DEF Queue!Revive
    <3> QED
      BY <3>4 DEF Queue!Next
  <2>4. ASSUME NEW o \in Occs, ResumeJob(o) PROVE [Queue!Next]_[p \in Occs |-> JobLifeOf(p)]
    <3>1. [p \in Occs |-> JobLifeOf(p)][o] = "parked"
      BY <2>4 DEF ResumeJob, JobLifeOf, JobLife
    <3>2. JobLifeOf(o)' = "waiting"
      BY <1>0, <2>4, LifeIn DEF JobState, JobLife, ResumeJob
    <3>3. Queue!Wake(o)
      BY <1>0, <2>4, <3>1, <3>2, JobMoves DEF ResumeJob, Queue!Wake
    <3> QED
      BY <3>3 DEF Queue!Next
  <2> QED
    BY <1>5, <2>1, <2>2, <2>3, <2>4 DEF QueueStep
<1>6. ASSUME NEW w \in Workers, RunStep(w) PROVE [Queue!Next]_[o \in Occs |-> JobLifeOf(o)]
  <2>1. ASSUME NEW o \in Occs, ClaimJob(w, o) PROVE [Queue!Next]_[p \in Occs |-> JobLifeOf(p)]
    <3>1. [p \in Occs |-> JobLifeOf(p)][o] = "waiting"
      BY <2>1 DEF ClaimJob, JobLifeOf, JobLife
    <3>2. JobLifeOf(o)' = "running"
      BY <1>0, <2>1, LifeIn DEF JobState, JobLife, ClaimJob
    <3>3. Queue!Take(o)
      BY <1>0, <2>1, <3>1, <3>2, JobMoves DEF ClaimJob, Queue!Take
    <3> QED
      BY <3>3 DEF Queue!Next
  <2>2. ASSUME NEW keeps \in BOOLEAN, Report(w, keeps) PROVE [Queue!Next]_[o \in Occs |-> JobLifeOf(o)]
    <3>1. PICK o \in Occs : o = cur[w]
      BY <1>0, <2>2 DEF Report, RunFits
    <3>2. Told(fate[w], o) \in {"pending", "suspended", "succeeded", "failed"}
      BY DEF Told
    <3>3. CASE Holds(w, o)
      BY <1>0, <2>2, <3>1, <3>2, <3>3, JobEnds DEF Report, Holds
    <3>4. CASE ~Holds(w, o)
      BY <2>2, <3>1, <3>4, JobsHidden DEF Report
    <3> QED
      BY <3>3, <3>4
  <2>3. CASE \/ ReadOccurrence(w) \/ CallReport(w) \/ Deliver(w) \/ RecordDelivery(w) \/ EndSilent(w)
             \/ WaitForOwner(w) \/ CloseOccurrence(w) \/ Abandon(w)
             \/ \E b \in BOOLEAN : RunFails(w, b) \/ EndFails(w, b)
    BY <2>3, JobsHidden DEF ReadOccurrence, CallReport, Deliver, RecordDelivery, EndSilent, WaitForOwner,
       CloseOccurrence, Abandon, RunFails, EndFails, jobVars
  <2> QED
    BY <1>6, <2>1, <2>2, <2>3 DEF RunStep
<1>7. CASE UNCHANGED vars
  BY <1>7, JobsHidden DEF vars, jobVars
<1> QED
  BY <1>3, <1>4, <1>5, <1>6, <1>7 DEF Next

\* The queue as the missions see it and the queue as it is have one contract: every behaviour
\* here is one of JobLifecycle, which JobQueue is shown to implement.
THEOREM MissionsKeepJobLifecycle == Spec => KeepsJobLifecycle
<1>1. Init => Queue!Init
  <2> SUFFICES ASSUME Init PROVE Queue!Init
    OBVIOUS
  <2>1. \A o \in Occs : JobLifeOf(o) = "none"
    BY DEF Init, JobLifeOf, JobLife
  <2> QED
    BY <2>1 DEF Queue!Init
<1>2. MissionInv /\ [Next]_vars => [Queue!Next]_[o \in Occs |-> JobLifeOf(o)]
  BY QueueSeenFromOutside
<1> QED
  BY <1>1, <1>2, MissionInvariant, PTL DEF Spec, KeepsJobLifecycle, Queue!Spec
=============================================================================
