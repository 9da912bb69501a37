-------------------------- MODULE ParkedRunsProofs --------------------------
(***************************************************************************)
(* What holds of a parked run for any number of questions, conversations   *)
(* and clocks: an answer a run took is kept for it, the owner is not       *)
(* contradicted, an answer is never replaced, a mission is started over    *)
(* only after something went wrong, and its job moves as JobLifecycle says.*)
(***************************************************************************)
EXTENDS ParkedRuns, TLAPS, FiniteSetTheorems

\* The steps of a run, in three groups.
StartStep ==
  StartSkipped \/ StartTimedOut \/ StartAnswered \/ StartDecided \/ \E c \in Convs : StartFresh(c)
MissionStep ==
  \/ Finish \/ TakeOver \/ Tie \/ StopAtGate \/ TellOwner \/ NobodyToTell \/ CloseOccurrence
  \/ \E b \in BOOLEAN : EndInVain(b) \/ \E q \in Cards : Ask(q, b)
  \/ \E to \in Step, f \in Fate : RunFails(to, f)
ReportStep == ReportEnd \/ ReportGate \/ ReportPark \/ ReportLost \/ Abandon

-----------------------------------------------------------------------------
(* The invariant                                                           *)

\* It holds at the start.
LEMMA InitInv == Init => ParkInv
<1> SUFFICES ASSUME Init PROVE ParkInv
  OBVIOUS
<1>1. TypeOK
  BY ParkAssumption DEF Init, TypeOK, NoAnswer, Answers, CardState, JobState, Step, Fate, Surf, Waits
<1>2. RowFits /\ (\A q \in Cards : CardFits(q)) /\ WaitFits
  BY ParkAssumption DEF Init, RowFits, CardFits, WaitFits, NoAnswer, Waits, InMission
<1>3. TiedFits /\ AnswerKept /\ NoContradiction
  BY ParkAssumption DEF Init, TiedFits, Untied, AnswerKept, NoContradiction, NoAnswer, Waits
<1>4. TellFits /\ ToldOnce
  BY DEF Init, TellFits, ToldOnce, InMission
<1> QED
  BY <1>1, <1>2, <1>3, <1>4 DEF ParkInv

\* The surfaces and the owner keep the invariant,
LEMMA OwnerKeeps ==
  ASSUME ParkInv, OwnerStep
  PROVE  ParkInv'
<1>1. ASSUME NEW q \in Cards, AnswerCard(q) PROVE ParkInv'
  <2>1. TypeOK'
    BY ParkAssumption, <1>1 DEF ParkInv, TypeOK, Answers, NoAnswer, CardState, JobState, Step, Fate, Surf, RowFits, CardFits, WaitFits, Waits, InMission, AnswerCard, Open, cardVars, jobVars, runVars, seenVars, saidVars
  <2>2. RowFits'
    BY ParkAssumption, <1>1 DEF ParkInv, TypeOK, RowFits, WaitFits, TiedFits, Untied, NoAnswer, Answers, Waits, InMission, AnswerCard, Open, cardVars, jobVars, runVars, seenVars, saidVars
  <2>3. \A p \in Cards : CardFits(p)'
    BY ParkAssumption, <1>1 DEF ParkInv, TypeOK, CardFits, RowFits, WaitFits, Waits, InMission, AnswerCard, Open, cardVars, jobVars, runVars, seenVars, saidVars
  <2>4. WaitFits'
    BY ParkAssumption, <1>1 DEF ParkInv, TypeOK, RowFits, CardFits, WaitFits, TiedFits, Untied, NoAnswer, Waits, InMission, AnswerCard, Open, cardVars, jobVars, runVars, seenVars, saidVars
  <2>5. TiedFits'
    BY ParkAssumption, <1>1 DEF ParkInv, TypeOK, RowFits, CardFits, WaitFits, TiedFits, Untied, AnswerKept, Answers, NoAnswer, Waits, InMission, AnswerCard, Open, cardVars, jobVars, runVars, seenVars, saidVars
  <2>6. AnswerKept'
    BY ParkAssumption, <1>1 DEF ParkInv, TypeOK, RowFits, WaitFits, TiedFits, Untied, AnswerKept, NoAnswer, Waits, InMission, AnswerCard, Open, cardVars, jobVars, runVars, seenVars, saidVars
  <2>7. NoContradiction'
    BY ParkAssumption, <1>1 DEF ParkInv, TypeOK, RowFits, WaitFits, TiedFits, Untied, AnswerKept, NoContradiction, Answers, Waits, InMission, AnswerCard, Open, cardVars, jobVars, runVars, seenVars, saidVars
  <2>8. TellFits'
    BY ParkAssumption, <1>1 DEF ParkInv, TypeOK, RowFits, WaitFits, TellFits, Answered, NoAnswer, Answers, Waits, InMission, AnswerCard, Open, cardVars, jobVars, runVars, seenVars, saidVars
  <2>9. ToldOnce'
    BY ParkAssumption, <1>1 DEF ParkInv, TypeOK, RowFits, WaitFits, TellFits, ToldOnce, Answered, NoAnswer, Answers, Waits, InMission, AnswerCard, Open, cardVars, jobVars, runVars, seenVars, saidVars
  <2> QED
    BY <2>1, <2>2, <2>3, <2>4, <2>5, <2>6, <2>7, <2>8, <2>9 DEF ParkInv
<1>2. ASSUME NEW q \in Cards, WakeWithAnswer(q) PROVE ParkInv'
  <2>1. TypeOK'
    BY ParkAssumption, <1>2 DEF ParkInv, TypeOK, Answers, NoAnswer, CardState, JobState, Step, Fate, Surf, RowFits, CardFits, WaitFits, Waits, InMission, WakeWithAnswer, HandAnswer, Wakes, Matches, cardVars, jobVars, runVars, seenVars, saidVars
  <2>2. RowFits'
    BY ParkAssumption, <1>2 DEF ParkInv, TypeOK, RowFits, WaitFits, TiedFits, Untied, NoAnswer, Answers, Waits, InMission, WakeWithAnswer, HandAnswer, Wakes, Matches, cardVars, jobVars, runVars, seenVars, saidVars
  <2>3. \A p \in Cards : CardFits(p)'
    BY ParkAssumption, <1>2 DEF ParkInv, TypeOK, CardFits, RowFits, WaitFits, Waits, InMission, WakeWithAnswer, HandAnswer, Wakes, Matches, cardVars, jobVars, runVars, seenVars, saidVars
  <2>4. WaitFits'
    BY ParkAssumption, <1>2 DEF ParkInv, TypeOK, RowFits, CardFits, WaitFits, TiedFits, Untied, NoAnswer, Waits, InMission, WakeWithAnswer, HandAnswer, Wakes, Matches, cardVars, jobVars, runVars, seenVars, saidVars
  <2>5. TiedFits'
    BY ParkAssumption, <1>2 DEF ParkInv, TypeOK, RowFits, CardFits, WaitFits, TiedFits, Untied, AnswerKept, Answers, NoAnswer, Waits, InMission, WakeWithAnswer, HandAnswer, Wakes, Matches, cardVars, jobVars, runVars, seenVars, saidVars
  <2>6. AnswerKept'
    BY ParkAssumption, <1>2 DEF ParkInv, TypeOK, RowFits, WaitFits, TiedFits, Untied, AnswerKept, NoAnswer, Waits, InMission, WakeWithAnswer, HandAnswer, Wakes, Matches, cardVars, jobVars, runVars, seenVars, saidVars
  <2>7. NoContradiction'
    BY ParkAssumption, <1>2 DEF ParkInv, TypeOK, RowFits, WaitFits, TiedFits, Untied, AnswerKept, NoContradiction, Answers, Waits, InMission, WakeWithAnswer, HandAnswer, Wakes, Matches, cardVars, jobVars, runVars, seenVars, saidVars
  <2>8. TellFits'
    BY ParkAssumption, <1>2 DEF ParkInv, TypeOK, RowFits, WaitFits, TellFits, Answered, NoAnswer, Answers, Waits, InMission, WakeWithAnswer, HandAnswer, Wakes, Matches, cardVars, jobVars, runVars, seenVars, saidVars
  <2>9. ToldOnce'
    BY ParkAssumption, <1>2 DEF ParkInv, TypeOK, RowFits, WaitFits, TellFits, ToldOnce, Answered, NoAnswer, Answers, Waits, InMission, WakeWithAnswer, HandAnswer, Wakes, Matches, cardVars, jobVars, runVars, seenVars, saidVars
  <2> QED
    BY <2>1, <2>2, <2>3, <2>4, <2>5, <2>6, <2>7, <2>8, <2>9 DEF ParkInv
<1>3. ASSUME NEW q \in Cards, WakeFails(q) PROVE ParkInv'
  <2>1. TypeOK'
    BY ParkAssumption, <1>3 DEF ParkInv, TypeOK, Answers, NoAnswer, CardState, JobState, Step, Fate, Surf, RowFits, CardFits, WaitFits, Waits, InMission, WakeFails, cardVars, jobVars, runVars, seenVars, saidVars
  <2>2. RowFits'
    BY ParkAssumption, <1>3 DEF ParkInv, TypeOK, RowFits, WaitFits, TiedFits, Untied, NoAnswer, Answers, Waits, InMission, WakeFails, cardVars, jobVars, runVars, seenVars, saidVars
  <2>3. \A p \in Cards : CardFits(p)'
    BY ParkAssumption, <1>3 DEF ParkInv, TypeOK, CardFits, RowFits, WaitFits, Waits, InMission, WakeFails, cardVars, jobVars, runVars, seenVars, saidVars
  <2>4. WaitFits'
    BY ParkAssumption, <1>3 DEF ParkInv, TypeOK, RowFits, CardFits, WaitFits, TiedFits, Untied, NoAnswer, Waits, InMission, WakeFails, cardVars, jobVars, runVars, seenVars, saidVars
  <2>5. TiedFits'
    BY ParkAssumption, <1>3 DEF ParkInv, TypeOK, RowFits, CardFits, WaitFits, TiedFits, Untied, AnswerKept, Answers, NoAnswer, Waits, InMission, WakeFails, cardVars, jobVars, runVars, seenVars, saidVars
  <2>6. AnswerKept'
    BY ParkAssumption, <1>3 DEF ParkInv, TypeOK, RowFits, WaitFits, TiedFits, Untied, AnswerKept, NoAnswer, Waits, InMission, WakeFails, cardVars, jobVars, runVars, seenVars, saidVars
  <2>7. NoContradiction'
    BY ParkAssumption, <1>3 DEF ParkInv, TypeOK, RowFits, WaitFits, TiedFits, Untied, AnswerKept, NoContradiction, Answers, Waits, InMission, WakeFails, cardVars, jobVars, runVars, seenVars, saidVars
  <2>8. TellFits'
    BY ParkAssumption, <1>3 DEF ParkInv, TypeOK, RowFits, WaitFits, TellFits, Answered, NoAnswer, Answers, Waits, InMission, WakeFails, cardVars, jobVars, runVars, seenVars, saidVars
  <2>9. ToldOnce'
    BY ParkAssumption, <1>3 DEF ParkInv, TypeOK, RowFits, WaitFits, TellFits, ToldOnce, Answered, NoAnswer, Answers, Waits, InMission, WakeFails, cardVars, jobVars, runVars, seenVars, saidVars
  <2> QED
    BY <2>1, <2>2, <2>3, <2>4, <2>5, <2>6, <2>7, <2>8, <2>9 DEF ParkInv
<1>4. ASSUME NEW c \in Convs, NEW dies \in BOOLEAN, GiveBack(c, dies) PROVE ParkInv'
  <2>1. TypeOK'
    BY ParkAssumption, <1>4 DEF ParkInv, TypeOK, Answers, NoAnswer, CardState, JobState, Step, Fate, Surf, RowFits, CardFits, WaitFits, Waits, InMission, GiveBack, Closed, HandAnswer, Wakes, Matches, cardVars, jobVars, runVars, seenVars, saidVars
  <2>2. RowFits'
    BY ParkAssumption, <1>4 DEF ParkInv, TypeOK, RowFits, WaitFits, TiedFits, Untied, NoAnswer, Answers, Waits, InMission, GiveBack, Closed, HandAnswer, Wakes, Matches, cardVars, jobVars, runVars, seenVars, saidVars
  <2>3. \A p \in Cards : CardFits(p)'
    BY ParkAssumption, <1>4 DEF ParkInv, TypeOK, CardFits, RowFits, WaitFits, Waits, InMission, GiveBack, Closed, HandAnswer, Wakes, Matches, cardVars, jobVars, runVars, seenVars, saidVars
  <2>4. WaitFits'
    BY ParkAssumption, <1>4 DEF ParkInv, TypeOK, RowFits, CardFits, WaitFits, TiedFits, Untied, NoAnswer, Waits, InMission, GiveBack, Closed, HandAnswer, Wakes, Matches, cardVars, jobVars, runVars, seenVars, saidVars
  <2>5. TiedFits'
    BY ParkAssumption, <1>4 DEF ParkInv, TypeOK, RowFits, CardFits, WaitFits, TiedFits, Untied, AnswerKept, Answers, NoAnswer, Waits, InMission, GiveBack, Closed, HandAnswer, Wakes, Matches, cardVars, jobVars, runVars, seenVars, saidVars
  <2>6. AnswerKept'
    BY ParkAssumption, <1>4 DEF ParkInv, TypeOK, RowFits, WaitFits, TiedFits, Untied, AnswerKept, NoAnswer, Waits, InMission, GiveBack, Closed, HandAnswer, Wakes, Matches, cardVars, jobVars, runVars, seenVars, saidVars
  <2>7. NoContradiction'
    BY ParkAssumption, <1>4 DEF ParkInv, TypeOK, RowFits, WaitFits, TiedFits, Untied, AnswerKept, NoContradiction, Answers, Waits, InMission, GiveBack, Closed, HandAnswer, Wakes, Matches, cardVars, jobVars, runVars, seenVars, saidVars
  <2>8. TellFits'
    BY ParkAssumption, <1>4 DEF ParkInv, TypeOK, RowFits, WaitFits, TellFits, Answered, NoAnswer, Answers, Waits, InMission, GiveBack, Closed, HandAnswer, Wakes, Matches, cardVars, jobVars, runVars, seenVars, saidVars
  <2>9. ToldOnce'
    BY ParkAssumption, <1>4 DEF ParkInv, TypeOK, RowFits, WaitFits, TellFits, ToldOnce, Answered, NoAnswer, Answers, Waits, InMission, GiveBack, Closed, HandAnswer, Wakes, Matches, cardVars, jobVars, runVars, seenVars, saidVars
  <2> QED
    BY <2>1, <2>2, <2>3, <2>4, <2>5, <2>6, <2>7, <2>8, <2>9 DEF ParkInv
<1>5. CASE Decide
  <2>1. TypeOK'
    <3>1. upsets' \in Nat
      BY <1>5 DEF ParkInv, TypeOK, Decide
    <3>2. job' \in JobState /\ reason' \in Waits \cup {None, Gate}
      BY <1>5 DEF ParkInv, TypeOK, JobState, Decide, Wakes
    <3>3. approved' \in BOOLEAN /\ gate' \in BOOLEAN
      BY <1>5, Zenon DEF ParkInv, TypeOK, Decide
    <3>4. UNCHANGED <<saidVars, cardVars, occ, parked, answer, awaits, runVars, clock, surf, seenVars>>
      BY <1>5 DEF Decide
    <3> QED
      BY <3>1, <3>2, <3>3, <3>4 DEF ParkInv, TypeOK, cardVars, runVars, seenVars, saidVars
  <2>2. RowFits'
    BY ParkAssumption, <1>5 DEF ParkInv, TypeOK, RowFits, WaitFits, TiedFits, Untied, NoAnswer, Answers, Waits, InMission, Decide, Wakes, cardVars, jobVars, runVars, seenVars, saidVars
  <2>3. \A p \in Cards : CardFits(p)'
    BY ParkAssumption, <1>5 DEF ParkInv, TypeOK, CardFits, RowFits, WaitFits, Waits, InMission, Decide, Wakes, cardVars, jobVars, runVars, seenVars, saidVars
  <2>4. WaitFits'
    BY ParkAssumption, <1>5 DEF ParkInv, TypeOK, RowFits, CardFits, WaitFits, TiedFits, Untied, NoAnswer, Waits, InMission, Decide, Wakes, cardVars, jobVars, runVars, seenVars, saidVars
  <2>5. TiedFits'
    BY ParkAssumption, <1>5 DEF ParkInv, TypeOK, RowFits, CardFits, WaitFits, TiedFits, Untied, AnswerKept, Answers, NoAnswer, Waits, InMission, Decide, Wakes, cardVars, jobVars, runVars, seenVars, saidVars
  <2>6. AnswerKept'
    BY ParkAssumption, <1>5 DEF ParkInv, TypeOK, RowFits, WaitFits, TiedFits, Untied, AnswerKept, NoAnswer, Waits, InMission, Decide, Wakes, cardVars, jobVars, runVars, seenVars, saidVars
  <2>7. NoContradiction'
    BY ParkAssumption, <1>5 DEF ParkInv, TypeOK, RowFits, WaitFits, TiedFits, Untied, AnswerKept, NoContradiction, Answers, Waits, InMission, Decide, Wakes, cardVars, jobVars, runVars, seenVars, saidVars
  <2>8. TellFits'
    BY ParkAssumption, <1>5 DEF ParkInv, TypeOK, RowFits, WaitFits, TellFits, Answered, NoAnswer, Answers, Waits, InMission, Decide, Wakes, cardVars, jobVars, runVars, seenVars, saidVars
  <2>9. ToldOnce'
    BY ParkAssumption, <1>5 DEF ParkInv, TypeOK, RowFits, WaitFits, TellFits, ToldOnce, Answered, NoAnswer, Answers, Waits, InMission, Decide, Wakes, cardVars, jobVars, runVars, seenVars, saidVars
  <2> QED
    BY <2>1, <2>2, <2>3, <2>4, <2>5, <2>6, <2>7, <2>8, <2>9 DEF ParkInv
<1> QED
  BY <1>1, <1>2, <1>3, <1>4, <1>5 DEF OwnerStep

\* So do the clocks,
LEMMA ClockKeeps ==
  ASSUME ParkInv, \E k \in Clocks : ClockStep(k)
  PROVE  ParkInv'
<1>1. ASSUME NEW k \in Clocks, FindExpired(k) PROVE ParkInv'
  <2>1. TypeOK'
    BY ParkAssumption, <1>1 DEF ParkInv, TypeOK, Answers, NoAnswer, CardState, JobState, Step, Fate, Surf, RowFits, CardFits, WaitFits, Waits, InMission, FindExpired, Closed, cardVars, jobVars, runVars, seenVars, saidVars
  <2>2. RowFits'
    BY ParkAssumption, <1>1 DEF ParkInv, TypeOK, RowFits, WaitFits, TiedFits, Untied, NoAnswer, Answers, Waits, InMission, FindExpired, Closed, cardVars, jobVars, runVars, seenVars, saidVars
  <2>3. \A p \in Cards : CardFits(p)'
    BY ParkAssumption, <1>1 DEF ParkInv, TypeOK, CardFits, RowFits, WaitFits, Waits, InMission, FindExpired, Closed, cardVars, jobVars, runVars, seenVars, saidVars
  <2>4. WaitFits'
    BY ParkAssumption, <1>1 DEF ParkInv, TypeOK, RowFits, CardFits, WaitFits, TiedFits, Untied, NoAnswer, Waits, InMission, FindExpired, Closed, cardVars, jobVars, runVars, seenVars, saidVars
  <2>5. TiedFits'
    BY ParkAssumption, <1>1 DEF ParkInv, TypeOK, RowFits, CardFits, WaitFits, TiedFits, Untied, AnswerKept, Answers, NoAnswer, Waits, InMission, FindExpired, Closed, cardVars, jobVars, runVars, seenVars, saidVars
  <2>6. AnswerKept'
    BY ParkAssumption, <1>1 DEF ParkInv, TypeOK, RowFits, WaitFits, TiedFits, Untied, AnswerKept, NoAnswer, Waits, InMission, FindExpired, Closed, cardVars, jobVars, runVars, seenVars, saidVars
  <2>7. NoContradiction'
    BY ParkAssumption, <1>1 DEF ParkInv, TypeOK, RowFits, WaitFits, TiedFits, Untied, AnswerKept, NoContradiction, Answers, Waits, InMission, FindExpired, Closed, cardVars, jobVars, runVars, seenVars, saidVars
  <2>8. TellFits'
    BY ParkAssumption, <1>1 DEF ParkInv, TypeOK, RowFits, WaitFits, TellFits, Answered, NoAnswer, Answers, Waits, InMission, FindExpired, Closed, cardVars, jobVars, runVars, seenVars, saidVars
  <2>9. ToldOnce'
    BY ParkAssumption, <1>1 DEF ParkInv, TypeOK, RowFits, WaitFits, TellFits, ToldOnce, Answered, NoAnswer, Answers, Waits, InMission, FindExpired, Closed, cardVars, jobVars, runVars, seenVars, saidVars
  <2> QED
    BY <2>1, <2>2, <2>3, <2>4, <2>5, <2>6, <2>7, <2>8, <2>9 DEF ParkInv
<1>2. ASSUME NEW k \in Clocks, WakeExpired(k) PROVE ParkInv'
  <2>1. TypeOK'
    BY ParkAssumption, <1>2 DEF ParkInv, TypeOK, Answers, NoAnswer, CardState, JobState, Step, Fate, Surf, RowFits, CardFits, WaitFits, Waits, InMission, WakeExpired, Wakes, cardVars, jobVars, runVars, seenVars, saidVars
  <2>2. RowFits'
    BY ParkAssumption, <1>2 DEF ParkInv, TypeOK, RowFits, WaitFits, TiedFits, Untied, NoAnswer, Answers, Waits, InMission, WakeExpired, Wakes, cardVars, jobVars, runVars, seenVars, saidVars
  <2>3. \A p \in Cards : CardFits(p)'
    BY ParkAssumption, <1>2 DEF ParkInv, TypeOK, CardFits, RowFits, WaitFits, Waits, InMission, WakeExpired, Wakes, cardVars, jobVars, runVars, seenVars, saidVars
  <2>4. WaitFits'
    BY ParkAssumption, <1>2 DEF ParkInv, TypeOK, RowFits, CardFits, WaitFits, TiedFits, Untied, NoAnswer, Waits, InMission, WakeExpired, Wakes, cardVars, jobVars, runVars, seenVars, saidVars
  <2>5. TiedFits'
    BY ParkAssumption, <1>2 DEF ParkInv, TypeOK, RowFits, CardFits, WaitFits, TiedFits, Untied, AnswerKept, Answers, NoAnswer, Waits, InMission, WakeExpired, Wakes, cardVars, jobVars, runVars, seenVars, saidVars
  <2>6. AnswerKept'
    BY ParkAssumption, <1>2 DEF ParkInv, TypeOK, RowFits, WaitFits, TiedFits, Untied, AnswerKept, NoAnswer, Waits, InMission, WakeExpired, Wakes, cardVars, jobVars, runVars, seenVars, saidVars
  <2>7. NoContradiction'
    BY ParkAssumption, <1>2 DEF ParkInv, TypeOK, RowFits, WaitFits, TiedFits, Untied, AnswerKept, NoContradiction, Answers, Waits, InMission, WakeExpired, Wakes, cardVars, jobVars, runVars, seenVars, saidVars
  <2>8. TellFits'
    BY ParkAssumption, <1>2 DEF ParkInv, TypeOK, RowFits, WaitFits, TellFits, Answered, NoAnswer, Answers, Waits, InMission, WakeExpired, Wakes, cardVars, jobVars, runVars, seenVars, saidVars
  <2>9. ToldOnce'
    BY ParkAssumption, <1>2 DEF ParkInv, TypeOK, RowFits, WaitFits, TellFits, ToldOnce, Answered, NoAnswer, Answers, Waits, InMission, WakeExpired, Wakes, cardVars, jobVars, runVars, seenVars, saidVars
  <2> QED
    BY <2>1, <2>2, <2>3, <2>4, <2>5, <2>6, <2>7, <2>8, <2>9 DEF ParkInv
<1>3. ASSUME NEW k \in Clocks, ClockDies(k) PROVE ParkInv'
  <2>1. TypeOK'
    BY ParkAssumption, <1>3 DEF ParkInv, TypeOK, Answers, NoAnswer, CardState, JobState, Step, Fate, Surf, RowFits, CardFits, WaitFits, Waits, InMission, ClockDies, cardVars, jobVars, runVars, seenVars, saidVars
  <2>2. RowFits'
    BY ParkAssumption, <1>3 DEF ParkInv, TypeOK, RowFits, WaitFits, TiedFits, Untied, NoAnswer, Answers, Waits, InMission, ClockDies, cardVars, jobVars, runVars, seenVars, saidVars
  <2>3. \A p \in Cards : CardFits(p)'
    BY ParkAssumption, <1>3 DEF ParkInv, TypeOK, CardFits, RowFits, WaitFits, Waits, InMission, ClockDies, cardVars, jobVars, runVars, seenVars, saidVars
  <2>4. WaitFits'
    BY ParkAssumption, <1>3 DEF ParkInv, TypeOK, RowFits, CardFits, WaitFits, TiedFits, Untied, NoAnswer, Waits, InMission, ClockDies, cardVars, jobVars, runVars, seenVars, saidVars
  <2>5. TiedFits'
    BY ParkAssumption, <1>3 DEF ParkInv, TypeOK, RowFits, CardFits, WaitFits, TiedFits, Untied, AnswerKept, Answers, NoAnswer, Waits, InMission, ClockDies, cardVars, jobVars, runVars, seenVars, saidVars
  <2>6. AnswerKept'
    BY ParkAssumption, <1>3 DEF ParkInv, TypeOK, RowFits, WaitFits, TiedFits, Untied, AnswerKept, NoAnswer, Waits, InMission, ClockDies, cardVars, jobVars, runVars, seenVars, saidVars
  <2>7. NoContradiction'
    BY ParkAssumption, <1>3 DEF ParkInv, TypeOK, RowFits, WaitFits, TiedFits, Untied, AnswerKept, NoContradiction, Answers, Waits, InMission, ClockDies, cardVars, jobVars, runVars, seenVars, saidVars
  <2>8. TellFits'
    BY ParkAssumption, <1>3 DEF ParkInv, TypeOK, RowFits, WaitFits, TellFits, Answered, NoAnswer, Answers, Waits, InMission, ClockDies, cardVars, jobVars, runVars, seenVars, saidVars
  <2>9. ToldOnce'
    BY ParkAssumption, <1>3 DEF ParkInv, TypeOK, RowFits, WaitFits, TellFits, ToldOnce, Answered, NoAnswer, Answers, Waits, InMission, ClockDies, cardVars, jobVars, runVars, seenVars, saidVars
  <2> QED
    BY <2>1, <2>2, <2>3, <2>4, <2>5, <2>6, <2>7, <2>8, <2>9 DEF ParkInv
<1> QED
  BY <1>1, <1>2, <1>3 DEF ClockStep

\* The queue, the scheduler and time,
LEMMA QueueKeeps ==
  ASSUME ParkInv, QueueStep \/ \E w \in Waits : Passes(w)
  PROVE  ParkInv'
<1>1. CASE CancelJob
  <2>1. TypeOK'
    BY ParkAssumption, <1>1 DEF ParkInv, TypeOK, Answers, NoAnswer, CardState, JobState, Step, Fate, Surf, RowFits, CardFits, WaitFits, Waits, InMission, CancelJob, cardVars, jobVars, runVars, seenVars, saidVars
  <2>2. RowFits'
    BY ParkAssumption, <1>1 DEF ParkInv, TypeOK, RowFits, WaitFits, TiedFits, Untied, NoAnswer, Answers, Waits, InMission, CancelJob, cardVars, jobVars, runVars, seenVars, saidVars
  <2>3. \A p \in Cards : CardFits(p)'
    BY ParkAssumption, <1>1 DEF ParkInv, TypeOK, CardFits, RowFits, WaitFits, Waits, InMission, CancelJob, cardVars, jobVars, runVars, seenVars, saidVars
  <2>4. WaitFits'
    BY ParkAssumption, <1>1 DEF ParkInv, TypeOK, RowFits, CardFits, WaitFits, TiedFits, Untied, NoAnswer, Waits, InMission, CancelJob, cardVars, jobVars, runVars, seenVars, saidVars
  <2>5. TiedFits'
    BY ParkAssumption, <1>1 DEF ParkInv, TypeOK, RowFits, CardFits, WaitFits, TiedFits, Untied, AnswerKept, Answers, NoAnswer, Waits, InMission, CancelJob, cardVars, jobVars, runVars, seenVars, saidVars
  <2>6. AnswerKept'
    BY ParkAssumption, <1>1 DEF ParkInv, TypeOK, RowFits, WaitFits, TiedFits, Untied, AnswerKept, NoAnswer, Waits, InMission, CancelJob, cardVars, jobVars, runVars, seenVars, saidVars
  <2>7. NoContradiction'
    BY ParkAssumption, <1>1 DEF ParkInv, TypeOK, RowFits, WaitFits, TiedFits, Untied, AnswerKept, NoContradiction, Answers, Waits, InMission, CancelJob, cardVars, jobVars, runVars, seenVars, saidVars
  <2>8. TellFits'
    BY ParkAssumption, <1>1 DEF ParkInv, TypeOK, RowFits, WaitFits, TellFits, Answered, NoAnswer, Answers, Waits, InMission, CancelJob, cardVars, jobVars, runVars, seenVars, saidVars
  <2>9. ToldOnce'
    BY ParkAssumption, <1>1 DEF ParkInv, TypeOK, RowFits, WaitFits, TellFits, ToldOnce, Answered, NoAnswer, Answers, Waits, InMission, CancelJob, cardVars, jobVars, runVars, seenVars, saidVars
  <2> QED
    BY <2>1, <2>2, <2>3, <2>4, <2>5, <2>6, <2>7, <2>8, <2>9 DEF ParkInv
<1>2. CASE RetryJob
  <2>1. TypeOK'
    BY ParkAssumption, <1>2 DEF ParkInv, TypeOK, Answers, NoAnswer, CardState, JobState, Step, Fate, Surf, RowFits, CardFits, WaitFits, Waits, InMission, RetryJob, Wakes, cardVars, jobVars, runVars, seenVars, saidVars
  <2>2. RowFits'
    BY ParkAssumption, <1>2 DEF ParkInv, TypeOK, RowFits, WaitFits, TiedFits, Untied, NoAnswer, Answers, Waits, InMission, RetryJob, Wakes, cardVars, jobVars, runVars, seenVars, saidVars
  <2>3. \A p \in Cards : CardFits(p)'
    BY ParkAssumption, <1>2 DEF ParkInv, TypeOK, CardFits, RowFits, WaitFits, Waits, InMission, RetryJob, Wakes, cardVars, jobVars, runVars, seenVars, saidVars
  <2>4. WaitFits'
    BY ParkAssumption, <1>2 DEF ParkInv, TypeOK, RowFits, CardFits, WaitFits, TiedFits, Untied, NoAnswer, Waits, InMission, RetryJob, Wakes, cardVars, jobVars, runVars, seenVars, saidVars
  <2>5. TiedFits'
    BY ParkAssumption, <1>2 DEF ParkInv, TypeOK, RowFits, CardFits, WaitFits, TiedFits, Untied, AnswerKept, Answers, NoAnswer, Waits, InMission, RetryJob, Wakes, cardVars, jobVars, runVars, seenVars, saidVars
  <2>6. AnswerKept'
    BY ParkAssumption, <1>2 DEF ParkInv, TypeOK, RowFits, WaitFits, TiedFits, Untied, AnswerKept, NoAnswer, Waits, InMission, RetryJob, Wakes, cardVars, jobVars, runVars, seenVars, saidVars
  <2>7. NoContradiction'
    BY ParkAssumption, <1>2 DEF ParkInv, TypeOK, RowFits, WaitFits, TiedFits, Untied, AnswerKept, NoContradiction, Answers, Waits, InMission, RetryJob, Wakes, cardVars, jobVars, runVars, seenVars, saidVars
  <2>8. TellFits'
    BY ParkAssumption, <1>2 DEF ParkInv, TypeOK, RowFits, WaitFits, TellFits, Answered, NoAnswer, Answers, Waits, InMission, RetryJob, Wakes, cardVars, jobVars, runVars, seenVars, saidVars
  <2>9. ToldOnce'
    BY ParkAssumption, <1>2 DEF ParkInv, TypeOK, RowFits, WaitFits, TellFits, ToldOnce, Answered, NoAnswer, Answers, Waits, InMission, RetryJob, Wakes, cardVars, jobVars, runVars, seenVars, saidVars
  <2> QED
    BY <2>1, <2>2, <2>3, <2>4, <2>5, <2>6, <2>7, <2>8, <2>9 DEF ParkInv
<1>3. CASE Release
  <2>1. TypeOK'
    BY ParkAssumption, <1>3 DEF ParkInv, TypeOK, Answers, NoAnswer, CardState, JobState, Step, Fate, Surf, RowFits, CardFits, WaitFits, Waits, InMission, Release, cardVars, jobVars, runVars, seenVars, saidVars
  <2>2. RowFits'
    BY ParkAssumption, <1>3 DEF ParkInv, TypeOK, RowFits, WaitFits, TiedFits, Untied, NoAnswer, Answers, Waits, InMission, Release, cardVars, jobVars, runVars, seenVars, saidVars
  <2>3. \A p \in Cards : CardFits(p)'
    BY ParkAssumption, <1>3 DEF ParkInv, TypeOK, CardFits, RowFits, WaitFits, Waits, InMission, Release, cardVars, jobVars, runVars, seenVars, saidVars
  <2>4. WaitFits'
    BY ParkAssumption, <1>3 DEF ParkInv, TypeOK, RowFits, CardFits, WaitFits, TiedFits, Untied, NoAnswer, Waits, InMission, Release, cardVars, jobVars, runVars, seenVars, saidVars
  <2>5. TiedFits'
    BY ParkAssumption, <1>3 DEF ParkInv, TypeOK, RowFits, CardFits, WaitFits, TiedFits, Untied, AnswerKept, Answers, NoAnswer, Waits, InMission, Release, cardVars, jobVars, runVars, seenVars, saidVars
  <2>6. AnswerKept'
    BY ParkAssumption, <1>3 DEF ParkInv, TypeOK, RowFits, WaitFits, TiedFits, Untied, AnswerKept, NoAnswer, Waits, InMission, Release, cardVars, jobVars, runVars, seenVars, saidVars
  <2>7. NoContradiction'
    BY ParkAssumption, <1>3 DEF ParkInv, TypeOK, RowFits, WaitFits, TiedFits, Untied, AnswerKept, NoContradiction, Answers, Waits, InMission, Release, cardVars, jobVars, runVars, seenVars, saidVars
  <2>8. TellFits'
    BY ParkAssumption, <1>3 DEF ParkInv, TypeOK, RowFits, WaitFits, TellFits, Answered, NoAnswer, Answers, Waits, InMission, Release, cardVars, jobVars, runVars, seenVars, saidVars
  <2>9. ToldOnce'
    BY ParkAssumption, <1>3 DEF ParkInv, TypeOK, RowFits, WaitFits, TellFits, ToldOnce, Answered, NoAnswer, Answers, Waits, InMission, Release, cardVars, jobVars, runVars, seenVars, saidVars
  <2> QED
    BY <2>1, <2>2, <2>3, <2>4, <2>5, <2>6, <2>7, <2>8, <2>9 DEF ParkInv
<1>4. CASE ClaimAgain
  <2>1. TypeOK'
    BY ParkAssumption, <1>4 DEF ParkInv, TypeOK, Answers, NoAnswer, CardState, JobState, Step, Fate, Surf, RowFits, CardFits, WaitFits, Waits, InMission, ClaimAgain, cardVars, jobVars, runVars, seenVars, saidVars
  <2>2. RowFits'
    BY ParkAssumption, <1>4 DEF ParkInv, TypeOK, RowFits, WaitFits, TiedFits, Untied, NoAnswer, Answers, Waits, InMission, ClaimAgain, cardVars, jobVars, runVars, seenVars, saidVars
  <2>3. \A p \in Cards : CardFits(p)'
    BY ParkAssumption, <1>4 DEF ParkInv, TypeOK, CardFits, RowFits, WaitFits, Waits, InMission, ClaimAgain, cardVars, jobVars, runVars, seenVars, saidVars
  <2>4. WaitFits'
    BY ParkAssumption, <1>4 DEF ParkInv, TypeOK, RowFits, CardFits, WaitFits, TiedFits, Untied, NoAnswer, Waits, InMission, ClaimAgain, cardVars, jobVars, runVars, seenVars, saidVars
  <2>5. TiedFits'
    BY ParkAssumption, <1>4 DEF ParkInv, TypeOK, RowFits, CardFits, WaitFits, TiedFits, Untied, AnswerKept, Answers, NoAnswer, Waits, InMission, ClaimAgain, cardVars, jobVars, runVars, seenVars, saidVars
  <2>6. AnswerKept'
    BY ParkAssumption, <1>4 DEF ParkInv, TypeOK, RowFits, WaitFits, TiedFits, Untied, AnswerKept, NoAnswer, Waits, InMission, ClaimAgain, cardVars, jobVars, runVars, seenVars, saidVars
  <2>7. NoContradiction'
    BY ParkAssumption, <1>4 DEF ParkInv, TypeOK, RowFits, WaitFits, TiedFits, Untied, AnswerKept, NoContradiction, Answers, Waits, InMission, ClaimAgain, cardVars, jobVars, runVars, seenVars, saidVars
  <2>8. TellFits'
    BY ParkAssumption, <1>4 DEF ParkInv, TypeOK, RowFits, WaitFits, TellFits, Answered, NoAnswer, Answers, Waits, InMission, ClaimAgain, cardVars, jobVars, runVars, seenVars, saidVars
  <2>9. ToldOnce'
    BY ParkAssumption, <1>4 DEF ParkInv, TypeOK, RowFits, WaitFits, TellFits, ToldOnce, Answered, NoAnswer, Answers, Waits, InMission, ClaimAgain, cardVars, jobVars, runVars, seenVars, saidVars
  <2> QED
    BY <2>1, <2>2, <2>3, <2>4, <2>5, <2>6, <2>7, <2>8, <2>9 DEF ParkInv
<1>5. ASSUME NEW back \in BOOLEAN, Interrupt(back) PROVE ParkInv'
  <2>1. TypeOK'
    BY ParkAssumption, <1>5 DEF ParkInv, TypeOK, Answers, NoAnswer, CardState, JobState, Step, Fate, Surf, RowFits, CardFits, WaitFits, Waits, InMission, Interrupt, cardVars, jobVars, runVars, seenVars, saidVars
  <2>2. RowFits'
    BY ParkAssumption, <1>5 DEF ParkInv, TypeOK, RowFits, WaitFits, TiedFits, Untied, NoAnswer, Answers, Waits, InMission, Interrupt, cardVars, jobVars, runVars, seenVars, saidVars
  <2>3. \A p \in Cards : CardFits(p)'
    BY ParkAssumption, <1>5 DEF ParkInv, TypeOK, CardFits, RowFits, WaitFits, Waits, InMission, Interrupt, cardVars, jobVars, runVars, seenVars, saidVars
  <2>4. WaitFits'
    BY ParkAssumption, <1>5 DEF ParkInv, TypeOK, RowFits, CardFits, WaitFits, TiedFits, Untied, NoAnswer, Waits, InMission, Interrupt, cardVars, jobVars, runVars, seenVars, saidVars
  <2>5. TiedFits'
    BY ParkAssumption, <1>5 DEF ParkInv, TypeOK, RowFits, CardFits, WaitFits, TiedFits, Untied, AnswerKept, Answers, NoAnswer, Waits, InMission, Interrupt, cardVars, jobVars, runVars, seenVars, saidVars
  <2>6. AnswerKept'
    BY ParkAssumption, <1>5 DEF ParkInv, TypeOK, RowFits, WaitFits, TiedFits, Untied, AnswerKept, NoAnswer, Waits, InMission, Interrupt, cardVars, jobVars, runVars, seenVars, saidVars
  <2>7. NoContradiction'
    BY ParkAssumption, <1>5 DEF ParkInv, TypeOK, RowFits, WaitFits, TiedFits, Untied, AnswerKept, NoContradiction, Answers, Waits, InMission, Interrupt, cardVars, jobVars, runVars, seenVars, saidVars
  <2>8. TellFits'
    BY ParkAssumption, <1>5 DEF ParkInv, TypeOK, RowFits, WaitFits, TellFits, Answered, NoAnswer, Answers, Waits, InMission, Interrupt, cardVars, jobVars, runVars, seenVars, saidVars
  <2>9. ToldOnce'
    BY ParkAssumption, <1>5 DEF ParkInv, TypeOK, RowFits, WaitFits, TellFits, ToldOnce, Answered, NoAnswer, Answers, Waits, InMission, Interrupt, cardVars, jobVars, runVars, seenVars, saidVars
  <2> QED
    BY <2>1, <2>2, <2>3, <2>4, <2>5, <2>6, <2>7, <2>8, <2>9 DEF ParkInv
<1>6. ASSUME NEW w \in Waits, Passes(w) PROVE ParkInv'
  <2>1. TypeOK'
    BY ParkAssumption, <1>6 DEF ParkInv, TypeOK, Answers, NoAnswer, CardState, JobState, Step, Fate, Surf, RowFits, CardFits, WaitFits, Waits, InMission, Passes, cardVars, jobVars, runVars, seenVars, saidVars
  <2>2. RowFits'
    BY ParkAssumption, <1>6 DEF ParkInv, TypeOK, RowFits, WaitFits, TiedFits, Untied, NoAnswer, Answers, Waits, InMission, Passes, cardVars, jobVars, runVars, seenVars, saidVars
  <2>3. \A p \in Cards : CardFits(p)'
    BY ParkAssumption, <1>6 DEF ParkInv, TypeOK, CardFits, RowFits, WaitFits, Waits, InMission, Passes, cardVars, jobVars, runVars, seenVars, saidVars
  <2>4. WaitFits'
    BY ParkAssumption, <1>6 DEF ParkInv, TypeOK, RowFits, CardFits, WaitFits, TiedFits, Untied, NoAnswer, Waits, InMission, Passes, cardVars, jobVars, runVars, seenVars, saidVars
  <2>5. TiedFits'
    BY ParkAssumption, <1>6 DEF ParkInv, TypeOK, RowFits, CardFits, WaitFits, TiedFits, Untied, AnswerKept, Answers, NoAnswer, Waits, InMission, Passes, cardVars, jobVars, runVars, seenVars, saidVars
  <2>6. AnswerKept'
    BY ParkAssumption, <1>6 DEF ParkInv, TypeOK, RowFits, WaitFits, TiedFits, Untied, AnswerKept, NoAnswer, Waits, InMission, Passes, cardVars, jobVars, runVars, seenVars, saidVars
  <2>7. NoContradiction'
    BY ParkAssumption, <1>6 DEF ParkInv, TypeOK, RowFits, WaitFits, TiedFits, Untied, AnswerKept, NoContradiction, Answers, Waits, InMission, Passes, cardVars, jobVars, runVars, seenVars, saidVars
  <2>8. TellFits'
    BY ParkAssumption, <1>6 DEF ParkInv, TypeOK, RowFits, WaitFits, TellFits, Answered, NoAnswer, Answers, Waits, InMission, Passes, cardVars, jobVars, runVars, seenVars, saidVars
  <2>9. ToldOnce'
    BY ParkAssumption, <1>6 DEF ParkInv, TypeOK, RowFits, WaitFits, TellFits, ToldOnce, Answered, NoAnswer, Answers, Waits, InMission, Passes, cardVars, jobVars, runVars, seenVars, saidVars
  <2> QED
    BY <2>1, <2>2, <2>3, <2>4, <2>5, <2>6, <2>7, <2>8, <2>9 DEF ParkInv
<1> QED
  BY <1>1, <1>2, <1>3, <1>4, <1>5, <1>6 DEF QueueStep

\* A run that starts,
LEMMA StartKeeps ==
  ASSUME ParkInv, StartStep
  PROVE  ParkInv'
<1>1. CASE StartSkipped
  <2>1. TypeOK'
    BY ParkAssumption, <1>1 DEF ParkInv, TypeOK, Answers, NoAnswer, CardState, JobState, Step, Fate, Surf, RowFits, CardFits, WaitFits, Waits, InMission, StartSkipped, Starts, Goes, GoesAstray, Answered, Decided, cardVars, jobVars, runVars, seenVars, saidVars
  <2>2. RowFits'
    BY ParkAssumption, <1>1 DEF ParkInv, TypeOK, RowFits, WaitFits, TiedFits, Untied, NoAnswer, Answers, Waits, InMission, StartSkipped, Starts, Goes, GoesAstray, Answered, Decided, cardVars, jobVars, runVars, seenVars, saidVars
  <2>3. \A p \in Cards : CardFits(p)'
    BY ParkAssumption, <1>1 DEF ParkInv, TypeOK, CardFits, RowFits, WaitFits, Waits, InMission, StartSkipped, Starts, Goes, GoesAstray, Answered, Decided, cardVars, jobVars, runVars, seenVars, saidVars
  <2>4. WaitFits'
    BY ParkAssumption, <1>1 DEF ParkInv, TypeOK, RowFits, CardFits, WaitFits, TiedFits, Untied, NoAnswer, Waits, InMission, StartSkipped, Starts, Goes, GoesAstray, Answered, Decided, cardVars, jobVars, runVars, seenVars, saidVars
  <2>5. TiedFits'
    BY ParkAssumption, <1>1 DEF ParkInv, TypeOK, RowFits, CardFits, WaitFits, TiedFits, Untied, AnswerKept, Answers, NoAnswer, Waits, InMission, StartSkipped, Starts, Goes, GoesAstray, Answered, Decided, cardVars, jobVars, runVars, seenVars, saidVars
  <2>6. AnswerKept'
    BY ParkAssumption, <1>1 DEF ParkInv, TypeOK, RowFits, WaitFits, TiedFits, Untied, AnswerKept, NoAnswer, Waits, InMission, StartSkipped, Starts, Goes, GoesAstray, Answered, Decided, cardVars, jobVars, runVars, seenVars, saidVars
  <2>7. NoContradiction'
    BY ParkAssumption, <1>1 DEF ParkInv, TypeOK, RowFits, WaitFits, TiedFits, Untied, AnswerKept, NoContradiction, Answers, Waits, InMission, StartSkipped, Starts, Goes, GoesAstray, Answered, Decided, cardVars, jobVars, runVars, seenVars, saidVars
  <2>8. TellFits'
    BY ParkAssumption, <1>1 DEF ParkInv, TypeOK, RowFits, WaitFits, TellFits, Answered, NoAnswer, Answers, Waits, InMission, StartSkipped, Starts, Goes, GoesAstray, Answered, Decided, cardVars, jobVars, runVars, seenVars, saidVars
  <2>9. ToldOnce'
    BY ParkAssumption, <1>1 DEF ParkInv, TypeOK, RowFits, WaitFits, TellFits, ToldOnce, Answered, NoAnswer, Answers, Waits, InMission, StartSkipped, Starts, Goes, GoesAstray, Answered, Decided, cardVars, jobVars, runVars, seenVars, saidVars
  <2> QED
    BY <2>1, <2>2, <2>3, <2>4, <2>5, <2>6, <2>7, <2>8, <2>9 DEF ParkInv
<1>2. CASE StartTimedOut
  <2>1. TypeOK'
    BY ParkAssumption, <1>2 DEF ParkInv, TypeOK, Answers, NoAnswer, CardState, JobState, Step, Fate, Surf, RowFits, CardFits, WaitFits, Waits, InMission, StartTimedOut, Home, Starts, Goes, GoesAstray, Answered, Decided, cardVars, jobVars, runVars, seenVars, saidVars
  <2>2. RowFits'
    BY ParkAssumption, <1>2 DEF ParkInv, TypeOK, RowFits, WaitFits, TiedFits, Untied, NoAnswer, Answers, Waits, InMission, StartTimedOut, Home, Starts, Goes, GoesAstray, Answered, Decided, cardVars, jobVars, runVars, seenVars, saidVars
  <2>3. \A p \in Cards : CardFits(p)'
    BY ParkAssumption, <1>2 DEF ParkInv, TypeOK, CardFits, RowFits, WaitFits, Waits, InMission, StartTimedOut, Home, Starts, Goes, GoesAstray, Answered, Decided, cardVars, jobVars, runVars, seenVars, saidVars
  <2>4. WaitFits'
    BY ParkAssumption, <1>2 DEF ParkInv, TypeOK, RowFits, CardFits, WaitFits, TiedFits, Untied, NoAnswer, Waits, InMission, StartTimedOut, Home, Starts, Goes, GoesAstray, Answered, Decided, cardVars, jobVars, runVars, seenVars, saidVars
  <2>5. TiedFits'
    BY ParkAssumption, <1>2 DEF ParkInv, TypeOK, RowFits, CardFits, WaitFits, TiedFits, Untied, AnswerKept, Answers, NoAnswer, Waits, InMission, StartTimedOut, Home, Starts, Goes, GoesAstray, Answered, Decided, cardVars, jobVars, runVars, seenVars, saidVars
  <2>6. AnswerKept'
    BY ParkAssumption, <1>2 DEF ParkInv, TypeOK, RowFits, WaitFits, TiedFits, Untied, AnswerKept, NoAnswer, Waits, InMission, StartTimedOut, Home, Starts, Goes, GoesAstray, Answered, Decided, cardVars, jobVars, runVars, seenVars, saidVars
  <2>7. NoContradiction'
    BY ParkAssumption, <1>2 DEF ParkInv, TypeOK, RowFits, WaitFits, TiedFits, Untied, AnswerKept, NoContradiction, Answers, Waits, InMission, StartTimedOut, Home, Starts, Goes, GoesAstray, Answered, Decided, cardVars, jobVars, runVars, seenVars, saidVars
  <2>8. TellFits'
    BY ParkAssumption, <1>2 DEF ParkInv, TypeOK, RowFits, WaitFits, TellFits, Answered, NoAnswer, Answers, Waits, InMission, StartTimedOut, Home, Starts, Goes, GoesAstray, Answered, Decided, cardVars, jobVars, runVars, seenVars, saidVars
  <2>9. ToldOnce'
    BY ParkAssumption, <1>2 DEF ParkInv, TypeOK, RowFits, WaitFits, TellFits, ToldOnce, Answered, NoAnswer, Answers, Waits, InMission, StartTimedOut, Home, Starts, Goes, GoesAstray, Answered, Decided, cardVars, jobVars, runVars, seenVars, saidVars
  <2> QED
    BY <2>1, <2>2, <2>3, <2>4, <2>5, <2>6, <2>7, <2>8, <2>9 DEF ParkInv
<1>3. CASE StartAnswered
  <2>1. TypeOK'
    BY ParkAssumption, <1>3 DEF ParkInv, TypeOK, Answers, NoAnswer, CardState, JobState, Step, Fate, Surf, RowFits, CardFits, WaitFits, Waits, InMission, StartAnswered, Home, Starts, Goes, GoesAstray, Answered, Decided, cardVars, jobVars, runVars, seenVars, saidVars
  <2>2. RowFits'
    BY ParkAssumption, <1>3 DEF ParkInv, TypeOK, RowFits, WaitFits, TiedFits, Untied, NoAnswer, Answers, Waits, InMission, StartAnswered, Home, Starts, Goes, GoesAstray, Answered, Decided, cardVars, jobVars, runVars, seenVars, saidVars
  <2>3. \A p \in Cards : CardFits(p)'
    BY ParkAssumption, <1>3 DEF ParkInv, TypeOK, CardFits, RowFits, WaitFits, Waits, InMission, StartAnswered, Home, Starts, Goes, GoesAstray, Answered, Decided, cardVars, jobVars, runVars, seenVars, saidVars
  <2>4. WaitFits'
    BY ParkAssumption, <1>3 DEF ParkInv, TypeOK, RowFits, CardFits, WaitFits, TiedFits, Untied, NoAnswer, Waits, InMission, StartAnswered, Home, Starts, Goes, GoesAstray, Answered, Decided, cardVars, jobVars, runVars, seenVars, saidVars
  <2>5. TiedFits'
    BY ParkAssumption, <1>3 DEF ParkInv, TypeOK, RowFits, CardFits, WaitFits, TiedFits, Untied, AnswerKept, Answers, NoAnswer, Waits, InMission, StartAnswered, Home, Starts, Goes, GoesAstray, Answered, Decided, cardVars, jobVars, runVars, seenVars, saidVars
  <2>6. AnswerKept'
    BY ParkAssumption, <1>3 DEF ParkInv, TypeOK, RowFits, WaitFits, TiedFits, Untied, AnswerKept, NoAnswer, Waits, InMission, StartAnswered, Home, Starts, Goes, GoesAstray, Answered, Decided, cardVars, jobVars, runVars, seenVars, saidVars
  <2>7. NoContradiction'
    BY ParkAssumption, <1>3 DEF ParkInv, TypeOK, RowFits, WaitFits, TiedFits, Untied, AnswerKept, NoContradiction, Answers, Waits, InMission, StartAnswered, Home, Starts, Goes, GoesAstray, Answered, Decided, cardVars, jobVars, runVars, seenVars, saidVars
  <2>8. TellFits'
    BY ParkAssumption, <1>3 DEF ParkInv, TypeOK, RowFits, WaitFits, TellFits, Answered, NoAnswer, Answers, Waits, InMission, StartAnswered, Home, Starts, Goes, GoesAstray, Answered, Decided, cardVars, jobVars, runVars, seenVars, saidVars
  <2>9. ToldOnce'
    BY ParkAssumption, <1>3 DEF ParkInv, TypeOK, RowFits, WaitFits, TellFits, ToldOnce, Answered, NoAnswer, Answers, Waits, InMission, StartAnswered, Home, Starts, Goes, GoesAstray, Answered, Decided, cardVars, jobVars, runVars, seenVars, saidVars
  <2> QED
    BY <2>1, <2>2, <2>3, <2>4, <2>5, <2>6, <2>7, <2>8, <2>9 DEF ParkInv
<1>4. CASE StartDecided
  <2>1. TypeOK'
    BY ParkAssumption, <1>4 DEF ParkInv, TypeOK, Answers, NoAnswer, CardState, JobState, Step, Fate, Surf, RowFits, CardFits, WaitFits, Waits, InMission, StartDecided, Starts, Goes, GoesAstray, Answered, Decided, cardVars, jobVars, runVars, seenVars, saidVars
  <2>2. RowFits'
    BY ParkAssumption, <1>4 DEF ParkInv, TypeOK, RowFits, WaitFits, TiedFits, Untied, NoAnswer, Answers, Waits, InMission, StartDecided, Starts, Goes, GoesAstray, Answered, Decided, cardVars, jobVars, runVars, seenVars, saidVars
  <2>3. \A p \in Cards : CardFits(p)'
    BY ParkAssumption, <1>4 DEF ParkInv, TypeOK, CardFits, RowFits, WaitFits, Waits, InMission, StartDecided, Starts, Goes, GoesAstray, Answered, Decided, cardVars, jobVars, runVars, seenVars, saidVars
  <2>4. WaitFits'
    BY ParkAssumption, <1>4 DEF ParkInv, TypeOK, RowFits, CardFits, WaitFits, TiedFits, Untied, NoAnswer, Waits, InMission, StartDecided, Starts, Goes, GoesAstray, Answered, Decided, cardVars, jobVars, runVars, seenVars, saidVars
  <2>5. TiedFits'
    BY ParkAssumption, <1>4 DEF ParkInv, TypeOK, RowFits, CardFits, WaitFits, TiedFits, Untied, AnswerKept, Answers, NoAnswer, Waits, InMission, StartDecided, Starts, Goes, GoesAstray, Answered, Decided, cardVars, jobVars, runVars, seenVars, saidVars
  <2>6. AnswerKept'
    BY ParkAssumption, <1>4 DEF ParkInv, TypeOK, RowFits, WaitFits, TiedFits, Untied, AnswerKept, NoAnswer, Waits, InMission, StartDecided, Starts, Goes, GoesAstray, Answered, Decided, cardVars, jobVars, runVars, seenVars, saidVars
  <2>7. NoContradiction'
    BY ParkAssumption, <1>4 DEF ParkInv, TypeOK, RowFits, WaitFits, TiedFits, Untied, AnswerKept, NoContradiction, Answers, Waits, InMission, StartDecided, Starts, Goes, GoesAstray, Answered, Decided, cardVars, jobVars, runVars, seenVars, saidVars
  <2>8. TellFits'
    BY ParkAssumption, <1>4 DEF ParkInv, TypeOK, RowFits, WaitFits, TellFits, Answered, NoAnswer, Answers, Waits, InMission, StartDecided, Starts, Goes, GoesAstray, Answered, Decided, cardVars, jobVars, runVars, seenVars, saidVars
  <2>9. ToldOnce'
    BY ParkAssumption, <1>4 DEF ParkInv, TypeOK, RowFits, WaitFits, TellFits, ToldOnce, Answered, NoAnswer, Answers, Waits, InMission, StartDecided, Starts, Goes, GoesAstray, Answered, Decided, cardVars, jobVars, runVars, seenVars, saidVars
  <2> QED
    BY <2>1, <2>2, <2>3, <2>4, <2>5, <2>6, <2>7, <2>8, <2>9 DEF ParkInv
<1>5. ASSUME NEW c \in Convs, StartFresh(c) PROVE ParkInv'
  <2>1. TypeOK'
    BY ParkAssumption, <1>5 DEF ParkInv, TypeOK, JobState, Step, Fate, Waits, StartFresh, Starts, Goes, GoesAstray, Answered, Decided, cardVars, jobVars, runVars, seenVars, saidVars
  <2>2. RowFits'
    BY ParkAssumption, <1>5 DEF ParkInv, TypeOK, RowFits, WaitFits, TiedFits, Untied, NoAnswer, Answers, Waits, InMission, StartFresh, Starts, Goes, GoesAstray, Answered, Decided, cardVars, jobVars, runVars, seenVars, saidVars
  <2>3. \A p \in Cards : CardFits(p)'
    BY ParkAssumption, <1>5 DEF ParkInv, TypeOK, CardFits, RowFits, WaitFits, Waits, InMission, StartFresh, Starts, Goes, GoesAstray, Answered, Decided, cardVars, jobVars, runVars, seenVars, saidVars
  <2>4. WaitFits'
    BY ParkAssumption, <1>5 DEF ParkInv, TypeOK, RowFits, CardFits, WaitFits, TiedFits, Untied, NoAnswer, Waits, InMission, StartFresh, Starts, Goes, GoesAstray, Answered, Decided, cardVars, jobVars, runVars, seenVars, saidVars
  <2>5. TiedFits'
    BY ParkAssumption, <1>5 DEF ParkInv, TypeOK, RowFits, CardFits, WaitFits, TiedFits, Untied, AnswerKept, Answers, NoAnswer, Waits, InMission, StartFresh, Starts, Goes, GoesAstray, Answered, Decided, cardVars, jobVars, runVars, seenVars, saidVars
  <2>6. AnswerKept'
    BY ParkAssumption, <1>5 DEF ParkInv, TypeOK, RowFits, WaitFits, TiedFits, Untied, AnswerKept, NoAnswer, Waits, InMission, StartFresh, Starts, Goes, GoesAstray, Answered, Decided, cardVars, jobVars, runVars, seenVars, saidVars
  <2>7. NoContradiction'
    BY ParkAssumption, <1>5 DEF ParkInv, TypeOK, RowFits, WaitFits, TiedFits, Untied, AnswerKept, NoContradiction, Answers, Waits, InMission, StartFresh, Starts, Goes, GoesAstray, Answered, Decided, cardVars, jobVars, runVars, seenVars, saidVars
  <2>8. TellFits'
    BY ParkAssumption, <1>5 DEF ParkInv, TypeOK, RowFits, WaitFits, TellFits, Answered, NoAnswer, Answers, Waits, InMission, StartFresh, Starts, Goes, GoesAstray, Answered, Decided, cardVars, jobVars, runVars, seenVars, saidVars
  <2>9. ToldOnce'
    BY ParkAssumption, <1>5 DEF ParkInv, TypeOK, RowFits, WaitFits, TellFits, ToldOnce, Answered, NoAnswer, Answers, Waits, InMission, StartFresh, Starts, Goes, GoesAstray, Answered, Decided, cardVars, jobVars, runVars, seenVars, saidVars
  <2> QED
    BY <2>1, <2>2, <2>3, <2>4, <2>5, <2>6, <2>7, <2>8, <2>9 DEF ParkInv
<1> QED
  BY <1>1, <1>2, <1>3, <1>4, <1>5 DEF StartStep

\* The mission it runs,
LEMMA MissionKeeps ==
  ASSUME ParkInv, MissionStep
  PROVE  ParkInv'
<1>1. CASE Finish
  <2>1. TypeOK'
    BY ParkAssumption, <1>1 DEF ParkInv, TypeOK, Answers, NoAnswer, CardState, JobState, Step, Fate, Surf, RowFits, CardFits, WaitFits, Waits, InMission, Finish, Goes, cardVars, jobVars, runVars, seenVars, saidVars
  <2>2. RowFits'
    BY ParkAssumption, <1>1 DEF ParkInv, TypeOK, RowFits, WaitFits, TiedFits, Untied, NoAnswer, Answers, Waits, InMission, Finish, Goes, cardVars, jobVars, runVars, seenVars, saidVars
  <2>3. \A p \in Cards : CardFits(p)'
    BY ParkAssumption, <1>1 DEF ParkInv, TypeOK, CardFits, RowFits, WaitFits, Waits, InMission, Finish, Goes, cardVars, jobVars, runVars, seenVars, saidVars
  <2>4. WaitFits'
    BY ParkAssumption, <1>1 DEF ParkInv, TypeOK, RowFits, CardFits, WaitFits, TiedFits, Untied, NoAnswer, Waits, InMission, Finish, Goes, cardVars, jobVars, runVars, seenVars, saidVars
  <2>5. TiedFits'
    BY ParkAssumption, <1>1 DEF ParkInv, TypeOK, RowFits, CardFits, WaitFits, TiedFits, Untied, AnswerKept, Answers, NoAnswer, Waits, InMission, Finish, Goes, cardVars, jobVars, runVars, seenVars, saidVars
  <2>6. AnswerKept'
    BY ParkAssumption, <1>1 DEF ParkInv, TypeOK, RowFits, WaitFits, TiedFits, Untied, AnswerKept, NoAnswer, Waits, InMission, Finish, Goes, cardVars, jobVars, runVars, seenVars, saidVars
  <2>7. NoContradiction'
    BY ParkAssumption, <1>1 DEF ParkInv, TypeOK, RowFits, WaitFits, TiedFits, Untied, AnswerKept, NoContradiction, Answers, Waits, InMission, Finish, Goes, cardVars, jobVars, runVars, seenVars, saidVars
  <2>8. TellFits'
    BY ParkAssumption, <1>1 DEF ParkInv, TypeOK, RowFits, WaitFits, TellFits, Answered, NoAnswer, Answers, Waits, InMission, Finish, Goes, cardVars, jobVars, runVars, seenVars, saidVars
  <2>9. ToldOnce'
    BY ParkAssumption, <1>1 DEF ParkInv, TypeOK, RowFits, WaitFits, TellFits, ToldOnce, Answered, NoAnswer, Answers, Waits, InMission, Finish, Goes, cardVars, jobVars, runVars, seenVars, saidVars
  <2> QED
    BY <2>1, <2>2, <2>3, <2>4, <2>5, <2>6, <2>7, <2>8, <2>9 DEF ParkInv
<1>2. ASSUME NEW q \in Cards, NEW b \in BOOLEAN, Ask(q, b) PROVE ParkInv'
  <2>1. TypeOK'
    BY ParkAssumption, <1>2 DEF ParkInv, TypeOK, Answers, NoAnswer, CardState, JobState, Step, Fate, Surf, RowFits, CardFits, WaitFits, Waits, InMission, Ask, Goes, cardVars, jobVars, runVars, seenVars, saidVars
  <2>2. RowFits'
    BY ParkAssumption, <1>2 DEF ParkInv, TypeOK, RowFits, WaitFits, TiedFits, Untied, NoAnswer, Answers, Waits, InMission, Ask, Goes, cardVars, jobVars, runVars, seenVars, saidVars
  <2>3. \A p \in Cards : CardFits(p)'
    BY ParkAssumption, <1>2 DEF ParkInv, TypeOK, CardFits, RowFits, WaitFits, Waits, InMission, Ask, Goes, cardVars, jobVars, runVars, seenVars, saidVars
  <2>4. WaitFits'
    BY ParkAssumption, <1>2 DEF ParkInv, TypeOK, RowFits, CardFits, WaitFits, TiedFits, Untied, NoAnswer, Waits, InMission, Ask, Goes, cardVars, jobVars, runVars, seenVars, saidVars
  <2>5. TiedFits'
    BY ParkAssumption, <1>2 DEF ParkInv, TypeOK, RowFits, CardFits, WaitFits, TiedFits, Untied, AnswerKept, Answers, NoAnswer, Waits, InMission, Ask, Goes, cardVars, jobVars, runVars, seenVars, saidVars
  <2>6. AnswerKept'
    BY ParkAssumption, <1>2 DEF ParkInv, TypeOK, RowFits, WaitFits, TiedFits, Untied, AnswerKept, NoAnswer, Waits, InMission, Ask, Goes, cardVars, jobVars, runVars, seenVars, saidVars
  <2>7. NoContradiction'
    BY ParkAssumption, <1>2 DEF ParkInv, TypeOK, RowFits, WaitFits, TiedFits, Untied, AnswerKept, NoContradiction, Answers, Waits, InMission, Ask, Goes, cardVars, jobVars, runVars, seenVars, saidVars
  <2>8. TellFits'
    BY ParkAssumption, <1>2 DEF ParkInv, TypeOK, RowFits, WaitFits, TellFits, Answered, NoAnswer, Answers, Waits, InMission, Ask, Goes, cardVars, jobVars, runVars, seenVars, saidVars
  <2>9. ToldOnce'
    BY ParkAssumption, <1>2 DEF ParkInv, TypeOK, RowFits, WaitFits, TellFits, ToldOnce, Answered, NoAnswer, Answers, Waits, InMission, Ask, Goes, cardVars, jobVars, runVars, seenVars, saidVars
  <2> QED
    BY <2>1, <2>2, <2>3, <2>4, <2>5, <2>6, <2>7, <2>8, <2>9 DEF ParkInv
<1>3. CASE TakeOver
  <2>1. TypeOK'
    BY ParkAssumption, <1>3 DEF ParkInv, TypeOK, Answers, NoAnswer, CardState, JobState, Step, Fate, Surf, RowFits, CardFits, WaitFits, Waits, InMission, TakeOver, Goes, cardVars, jobVars, runVars, seenVars, saidVars
  <2>2. RowFits'
    BY ParkAssumption, <1>3 DEF ParkInv, TypeOK, RowFits, WaitFits, TiedFits, Untied, NoAnswer, Answers, Waits, InMission, TakeOver, Goes, cardVars, jobVars, runVars, seenVars, saidVars
  <2>3. \A p \in Cards : CardFits(p)'
    BY ParkAssumption, <1>3 DEF ParkInv, TypeOK, CardFits, RowFits, WaitFits, Waits, InMission, TakeOver, Goes, cardVars, jobVars, runVars, seenVars, saidVars
  <2>4. WaitFits'
    BY ParkAssumption, <1>3 DEF ParkInv, TypeOK, RowFits, CardFits, WaitFits, TiedFits, Untied, NoAnswer, Waits, InMission, TakeOver, Goes, cardVars, jobVars, runVars, seenVars, saidVars
  <2>5. TiedFits'
    BY ParkAssumption, <1>3 DEF ParkInv, TypeOK, RowFits, CardFits, WaitFits, TiedFits, Untied, AnswerKept, Answers, NoAnswer, Waits, InMission, TakeOver, Goes, cardVars, jobVars, runVars, seenVars, saidVars
  <2>6. AnswerKept'
    BY ParkAssumption, <1>3 DEF ParkInv, TypeOK, RowFits, WaitFits, TiedFits, Untied, AnswerKept, NoAnswer, Waits, InMission, TakeOver, Goes, cardVars, jobVars, runVars, seenVars, saidVars
  <2>7. NoContradiction'
    BY ParkAssumption, <1>3 DEF ParkInv, TypeOK, RowFits, WaitFits, TiedFits, Untied, AnswerKept, NoContradiction, Answers, Waits, InMission, TakeOver, Goes, cardVars, jobVars, runVars, seenVars, saidVars
  <2>8. TellFits'
    BY ParkAssumption, <1>3 DEF ParkInv, TypeOK, RowFits, WaitFits, TellFits, Answered, NoAnswer, Answers, Waits, InMission, TakeOver, Goes, cardVars, jobVars, runVars, seenVars, saidVars
  <2>9. ToldOnce'
    BY ParkAssumption, <1>3 DEF ParkInv, TypeOK, RowFits, WaitFits, TellFits, ToldOnce, Answered, NoAnswer, Answers, Waits, InMission, TakeOver, Goes, cardVars, jobVars, runVars, seenVars, saidVars
  <2> QED
    BY <2>1, <2>2, <2>3, <2>4, <2>5, <2>6, <2>7, <2>8, <2>9 DEF ParkInv
<1>4. CASE Tie
  <2>1. TypeOK'
    BY ParkAssumption, <1>4 DEF ParkInv, TypeOK, Answers, NoAnswer, CardState, JobState, Step, Fate, Surf, RowFits, CardFits, WaitFits, Waits, InMission, Tie, Goes, cardVars, jobVars, runVars, seenVars, saidVars
  <2>2. RowFits'
    BY ParkAssumption, <1>4 DEF ParkInv, TypeOK, RowFits, WaitFits, TiedFits, Untied, NoAnswer, Answers, Waits, InMission, Tie, Goes, cardVars, jobVars, runVars, seenVars, saidVars
  <2>3. \A p \in Cards : CardFits(p)'
    BY ParkAssumption, <1>4 DEF ParkInv, TypeOK, CardFits, RowFits, WaitFits, Waits, InMission, Tie, Goes, cardVars, jobVars, runVars, seenVars, saidVars
  <2>4. WaitFits'
    BY ParkAssumption, <1>4 DEF ParkInv, TypeOK, RowFits, CardFits, WaitFits, TiedFits, Untied, NoAnswer, Waits, InMission, Tie, Goes, cardVars, jobVars, runVars, seenVars, saidVars
  <2>5. TiedFits'
    BY ParkAssumption, <1>4 DEF ParkInv, TypeOK, RowFits, CardFits, WaitFits, TiedFits, Untied, AnswerKept, Answers, NoAnswer, Waits, InMission, Tie, Goes, cardVars, jobVars, runVars, seenVars, saidVars
  <2>6. AnswerKept'
    BY ParkAssumption, <1>4 DEF ParkInv, TypeOK, RowFits, WaitFits, TiedFits, Untied, AnswerKept, NoAnswer, Waits, InMission, Tie, Goes, cardVars, jobVars, runVars, seenVars, saidVars
  <2>7. NoContradiction'
    BY ParkAssumption, <1>4 DEF ParkInv, TypeOK, RowFits, WaitFits, TiedFits, Untied, AnswerKept, NoContradiction, Answers, Waits, InMission, Tie, Goes, cardVars, jobVars, runVars, seenVars, saidVars
  <2>8. TellFits'
    BY ParkAssumption, <1>4 DEF ParkInv, TypeOK, RowFits, WaitFits, TellFits, Answered, NoAnswer, Answers, Waits, InMission, Tie, Goes, cardVars, jobVars, runVars, seenVars, saidVars
  <2>9. ToldOnce'
    BY ParkAssumption, <1>4 DEF ParkInv, TypeOK, RowFits, WaitFits, TellFits, ToldOnce, Answered, NoAnswer, Answers, Waits, InMission, Tie, Goes, cardVars, jobVars, runVars, seenVars, saidVars
  <2> QED
    BY <2>1, <2>2, <2>3, <2>4, <2>5, <2>6, <2>7, <2>8, <2>9 DEF ParkInv
<1>5. CASE StopAtGate
  <2>1. TypeOK'
    BY ParkAssumption, <1>5 DEF ParkInv, TypeOK, Answers, NoAnswer, CardState, JobState, Step, Fate, Surf, RowFits, CardFits, WaitFits, Waits, InMission, StopAtGate, Goes, cardVars, jobVars, runVars, seenVars, saidVars
  <2>2. RowFits'
    BY ParkAssumption, <1>5 DEF ParkInv, TypeOK, RowFits, WaitFits, TiedFits, Untied, NoAnswer, Answers, Waits, InMission, StopAtGate, Goes, cardVars, jobVars, runVars, seenVars, saidVars
  <2>3. \A p \in Cards : CardFits(p)'
    BY ParkAssumption, <1>5 DEF ParkInv, TypeOK, CardFits, RowFits, WaitFits, Waits, InMission, StopAtGate, Goes, cardVars, jobVars, runVars, seenVars, saidVars
  <2>4. WaitFits'
    BY ParkAssumption, <1>5 DEF ParkInv, TypeOK, RowFits, CardFits, WaitFits, TiedFits, Untied, NoAnswer, Waits, InMission, StopAtGate, Goes, cardVars, jobVars, runVars, seenVars, saidVars
  <2>5. TiedFits'
    BY ParkAssumption, <1>5 DEF ParkInv, TypeOK, RowFits, CardFits, WaitFits, TiedFits, Untied, AnswerKept, Answers, NoAnswer, Waits, InMission, StopAtGate, Goes, cardVars, jobVars, runVars, seenVars, saidVars
  <2>6. AnswerKept'
    BY ParkAssumption, <1>5 DEF ParkInv, TypeOK, RowFits, WaitFits, TiedFits, Untied, AnswerKept, NoAnswer, Waits, InMission, StopAtGate, Goes, cardVars, jobVars, runVars, seenVars, saidVars
  <2>7. NoContradiction'
    BY ParkAssumption, <1>5 DEF ParkInv, TypeOK, RowFits, WaitFits, TiedFits, Untied, AnswerKept, NoContradiction, Answers, Waits, InMission, StopAtGate, Goes, cardVars, jobVars, runVars, seenVars, saidVars
  <2>8. TellFits'
    BY ParkAssumption, <1>5 DEF ParkInv, TypeOK, RowFits, WaitFits, TellFits, Answered, NoAnswer, Answers, Waits, InMission, StopAtGate, Goes, cardVars, jobVars, runVars, seenVars, saidVars
  <2>9. ToldOnce'
    BY ParkAssumption, <1>5 DEF ParkInv, TypeOK, RowFits, WaitFits, TellFits, ToldOnce, Answered, NoAnswer, Answers, Waits, InMission, StopAtGate, Goes, cardVars, jobVars, runVars, seenVars, saidVars
  <2> QED
    BY <2>1, <2>2, <2>3, <2>4, <2>5, <2>6, <2>7, <2>8, <2>9 DEF ParkInv
<1>6. ASSUME NEW b \in BOOLEAN, EndInVain(b) PROVE ParkInv'
  <2>1. TypeOK'
    <3>1. /\ card' \in [Cards -> CardState] /\ home' \in [Cards -> Convs \cup {None}]
              /\ past' \subseteq Waits /\ posted' \subseteq Cards
              /\ occ' \in {"claimed", "pending", "closed"}
      BY ParkAssumption, <1>6 DEF ParkInv, TypeOK, CardState, EndInVain, Note, Folded, Goes, Closed, cardVars, jobVars, runVars, seenVars, saidVars
    <3>2. /\ job' \in JobState /\ reason' \in Waits \cup {None, Gate}
              /\ parked' \in Waits \cup {None} /\ answer' \in Answers
              /\ awaits' \in Convs \cup {None}
      BY ParkAssumption, <1>6 DEF ParkInv, TypeOK, JobState, WaitFits, EndInVain, Note, Folded, Goes, Closed, cardVars, jobVars, runVars, seenVars, saidVars
    <3>3. /\ approved' \in BOOLEAN /\ gate' \in BOOLEAN
      BY ParkAssumption, <1>6 DEF ParkInv, TypeOK, EndInVain, Note, Folded, Goes, Closed, cardVars, jobVars, runVars, seenVars, saidVars
    <3>4. /\ step' \in Step /\ conv' \in Convs \cup {None} /\ wait' \in Waits \cup {None} /\ fate' \in Fate
              /\ clock' \in [Clocks -> Waits \cup {None}] /\ surf' \in [Cards -> Surf]
              /\ used' \subseteq Convs /\ heard' \subseteq Cards /\ astray' \subseteq Cards /\ upsets' \in Nat
      BY ParkAssumption, <1>6 DEF ParkInv, TypeOK, Step, Fate, EndInVain, Note, Folded, Goes, Closed, cardVars, jobVars, runVars, seenVars, saidVars
    <3>5. /\ noted' \subseteq Waits /\ told' \subseteq Waits /\ cut' \subseteq Waits /\ blind' \subseteq Waits
      BY ParkAssumption, <1>6 DEF ParkInv, TypeOK, TellFits, EndInVain, Note, Folded, Goes, Closed, cardVars, jobVars, runVars, seenVars, saidVars
    <3> QED
      BY <3>1, <3>2, <3>3, <3>4, <3>5 DEF TypeOK
  <2>2. RowFits'
    BY ParkAssumption, <1>6 DEF ParkInv, TypeOK, RowFits, WaitFits, TiedFits, Untied, NoAnswer, Answers, Waits, InMission, EndInVain, Note, Folded, Goes, Closed, cardVars, jobVars, runVars, seenVars, saidVars
  <2>3. \A p \in Cards : CardFits(p)'
    BY ParkAssumption, <1>6 DEF ParkInv, TypeOK, CardFits, RowFits, WaitFits, Waits, InMission, EndInVain, Note, Folded, Goes, Closed, cardVars, jobVars, runVars, seenVars, saidVars
  <2>4. WaitFits'
    BY ParkAssumption, <1>6 DEF ParkInv, TypeOK, RowFits, CardFits, WaitFits, TiedFits, Untied, NoAnswer, Waits, InMission, EndInVain, Note, Folded, Goes, Closed, cardVars, jobVars, runVars, seenVars, saidVars
  <2>5. TiedFits'
    BY ParkAssumption, <1>6 DEF ParkInv, TypeOK, RowFits, CardFits, WaitFits, TiedFits, Untied, AnswerKept, Answers, NoAnswer, Waits, InMission, EndInVain, Note, Folded, Goes, Closed, cardVars, jobVars, runVars, seenVars, saidVars
  <2>6. AnswerKept'
    BY ParkAssumption, <1>6 DEF ParkInv, TypeOK, RowFits, WaitFits, TiedFits, Untied, AnswerKept, NoAnswer, Waits, InMission, EndInVain, Note, Folded, Goes, Closed, cardVars, jobVars, runVars, seenVars, saidVars
  <2>7. NoContradiction'
    BY ParkAssumption, <1>6 DEF ParkInv, TypeOK, RowFits, WaitFits, TiedFits, Untied, AnswerKept, NoContradiction, Answers, Waits, InMission, EndInVain, Note, Folded, Goes, Closed, cardVars, jobVars, runVars, seenVars, saidVars
  <2>8. TellFits'
    BY ParkAssumption, <1>6 DEF ParkInv, TypeOK, RowFits, WaitFits, TellFits, Answered, NoAnswer, Answers, Waits, InMission, EndInVain, Note, Folded, Goes, Closed, cardVars, jobVars, runVars, seenVars, saidVars
  <2>9. ToldOnce'
    BY ParkAssumption, <1>6 DEF ParkInv, TypeOK, RowFits, WaitFits, TellFits, ToldOnce, Answered, NoAnswer, Answers, Waits, InMission, EndInVain, Note, Folded, Goes, Closed, cardVars, jobVars, runVars, seenVars, saidVars
  <2> QED
    BY <2>1, <2>2, <2>3, <2>4, <2>5, <2>6, <2>7, <2>8, <2>9 DEF ParkInv
<1>7. CASE TellOwner
  <2>1. TypeOK'
    <3>1. /\ card' \in [Cards -> CardState] /\ home' \in [Cards -> Convs \cup {None}]
              /\ past' \subseteq Waits /\ posted' \subseteq Cards
              /\ occ' \in {"claimed", "pending", "closed"}
      BY ParkAssumption, <1>7 DEF ParkInv, TypeOK, CardState, TellOwner, Goes, cardVars, jobVars, runVars, seenVars, saidVars
    <3>2. /\ job' \in JobState /\ reason' \in Waits \cup {None, Gate}
              /\ parked' \in Waits \cup {None} /\ answer' \in Answers
              /\ awaits' \in Convs \cup {None}
      BY ParkAssumption, <1>7 DEF ParkInv, TypeOK, JobState, WaitFits, TellOwner, Goes, cardVars, jobVars, runVars, seenVars, saidVars
    <3>3. /\ approved' \in BOOLEAN /\ gate' \in BOOLEAN
      BY ParkAssumption, <1>7 DEF ParkInv, TypeOK, TellOwner, Goes, cardVars, jobVars, runVars, seenVars, saidVars
    <3>4. /\ step' \in Step /\ conv' \in Convs \cup {None} /\ wait' \in Waits \cup {None} /\ fate' \in Fate
              /\ clock' \in [Clocks -> Waits \cup {None}] /\ surf' \in [Cards -> Surf]
              /\ used' \subseteq Convs /\ heard' \subseteq Cards /\ astray' \subseteq Cards /\ upsets' \in Nat
      BY ParkAssumption, <1>7 DEF ParkInv, TypeOK, Step, Fate, TellOwner, Goes, cardVars, jobVars, runVars, seenVars, saidVars
    <3>5. /\ noted' \subseteq Waits /\ told' \subseteq Waits /\ cut' \subseteq Waits /\ blind' \subseteq Waits
      BY ParkAssumption, <1>7 DEF ParkInv, TypeOK, TellFits, TellOwner, Goes, cardVars, jobVars, runVars, seenVars, saidVars
    <3> QED
      BY <3>1, <3>2, <3>3, <3>4, <3>5 DEF TypeOK
  <2>2. RowFits'
    BY ParkAssumption, <1>7 DEF ParkInv, TypeOK, RowFits, WaitFits, TiedFits, Untied, NoAnswer, Answers, Waits, InMission, TellOwner, Goes, cardVars, jobVars, runVars, seenVars, saidVars
  <2>3. \A p \in Cards : CardFits(p)'
    BY ParkAssumption, <1>7 DEF ParkInv, TypeOK, CardFits, RowFits, WaitFits, Waits, InMission, TellOwner, Goes, cardVars, jobVars, runVars, seenVars, saidVars
  <2>4. WaitFits'
    BY ParkAssumption, <1>7 DEF ParkInv, TypeOK, RowFits, CardFits, WaitFits, TiedFits, Untied, NoAnswer, Waits, InMission, TellOwner, Goes, cardVars, jobVars, runVars, seenVars, saidVars
  <2>5. TiedFits'
    BY ParkAssumption, <1>7 DEF ParkInv, TypeOK, RowFits, CardFits, WaitFits, TiedFits, Untied, AnswerKept, Answers, NoAnswer, Waits, InMission, TellOwner, Goes, cardVars, jobVars, runVars, seenVars, saidVars
  <2>6. AnswerKept'
    BY ParkAssumption, <1>7 DEF ParkInv, TypeOK, RowFits, WaitFits, TiedFits, Untied, AnswerKept, NoAnswer, Waits, InMission, TellOwner, Goes, cardVars, jobVars, runVars, seenVars, saidVars
  <2>7. NoContradiction'
    BY ParkAssumption, <1>7 DEF ParkInv, TypeOK, RowFits, WaitFits, TiedFits, Untied, AnswerKept, NoContradiction, Answers, Waits, InMission, TellOwner, Goes, cardVars, jobVars, runVars, seenVars, saidVars
  <2>8. TellFits'
    <3>1. told' \subseteq noted'
      BY <1>7 DEF ParkInv, TypeOK, TellFits, TellOwner
    <3>2. \A w \in noted' : w \in told' \cup cut'
      BY <1>7 DEF ParkInv, TellFits, TellOwner
    <3>3. step' = "closing"
      BY <1>7 DEF TellOwner, Goes
    <3> QED
      BY <3>1, <3>2, <3>3 DEF TellFits, InMission
  <2>9. ToldOnce'
    BY ParkAssumption, <1>7 DEF ParkInv, TypeOK, RowFits, WaitFits, TellFits, ToldOnce, Answered, NoAnswer, Answers, Waits, InMission, TellOwner, Goes, cardVars, jobVars, runVars, seenVars, saidVars
  <2> QED
    BY <2>1, <2>2, <2>3, <2>4, <2>5, <2>6, <2>7, <2>8, <2>9 DEF ParkInv
<1>10. CASE NobodyToTell
  <2>1. TypeOK'
    <3>1. /\ card' \in [Cards -> CardState] /\ home' \in [Cards -> Convs \cup {None}]
              /\ past' \subseteq Waits /\ posted' \subseteq Cards
              /\ occ' \in {"claimed", "pending", "closed"}
      BY ParkAssumption, <1>10 DEF ParkInv, TypeOK, CardState, NobodyToTell, Goes, cardVars, jobVars, runVars, seenVars, saidVars
    <3>2. /\ job' \in JobState /\ reason' \in Waits \cup {None, Gate}
              /\ parked' \in Waits \cup {None} /\ answer' \in Answers
              /\ awaits' \in Convs \cup {None}
      BY ParkAssumption, <1>10 DEF ParkInv, TypeOK, JobState, WaitFits, NobodyToTell, Goes, cardVars, jobVars, runVars, seenVars, saidVars
    <3>3. /\ approved' \in BOOLEAN /\ gate' \in BOOLEAN
      BY ParkAssumption, <1>10 DEF ParkInv, TypeOK, NobodyToTell, Goes, cardVars, jobVars, runVars, seenVars, saidVars
    <3>4. /\ step' \in Step /\ conv' \in Convs \cup {None} /\ wait' \in Waits \cup {None} /\ fate' \in Fate
              /\ clock' \in [Clocks -> Waits \cup {None}] /\ surf' \in [Cards -> Surf]
              /\ used' \subseteq Convs /\ heard' \subseteq Cards /\ astray' \subseteq Cards /\ upsets' \in Nat
      BY ParkAssumption, <1>10 DEF ParkInv, TypeOK, Step, Fate, NobodyToTell, Goes, cardVars, jobVars, runVars, seenVars, saidVars
    <3>5. /\ noted' \subseteq Waits /\ told' \subseteq Waits /\ cut' \subseteq Waits /\ blind' \subseteq Waits
      BY ParkAssumption, <1>10 DEF ParkInv, TypeOK, TellFits, NobodyToTell, Goes, cardVars, jobVars, runVars, seenVars, saidVars
    <3> QED
      BY <3>1, <3>2, <3>3, <3>4, <3>5 DEF TypeOK
  <2>2. RowFits'
    BY ParkAssumption, <1>10 DEF ParkInv, TypeOK, RowFits, WaitFits, TiedFits, Untied, NoAnswer, Answers, Waits, InMission, NobodyToTell, Goes, cardVars, jobVars, runVars, seenVars, saidVars
  <2>3. \A p \in Cards : CardFits(p)'
    BY ParkAssumption, <1>10 DEF ParkInv, TypeOK, CardFits, RowFits, WaitFits, Waits, InMission, NobodyToTell, Goes, cardVars, jobVars, runVars, seenVars, saidVars
  <2>4. WaitFits'
    BY ParkAssumption, <1>10 DEF ParkInv, TypeOK, RowFits, CardFits, WaitFits, TiedFits, Untied, NoAnswer, Waits, InMission, NobodyToTell, Goes, cardVars, jobVars, runVars, seenVars, saidVars
  <2>5. TiedFits'
    BY ParkAssumption, <1>10 DEF ParkInv, TypeOK, RowFits, CardFits, WaitFits, TiedFits, Untied, AnswerKept, Answers, NoAnswer, Waits, InMission, NobodyToTell, Goes, cardVars, jobVars, runVars, seenVars, saidVars
  <2>6. AnswerKept'
    BY ParkAssumption, <1>10 DEF ParkInv, TypeOK, RowFits, WaitFits, TiedFits, Untied, AnswerKept, NoAnswer, Waits, InMission, NobodyToTell, Goes, cardVars, jobVars, runVars, seenVars, saidVars
  <2>7. NoContradiction'
    BY ParkAssumption, <1>10 DEF ParkInv, TypeOK, RowFits, WaitFits, TiedFits, Untied, AnswerKept, NoContradiction, Answers, Waits, InMission, NobodyToTell, Goes, cardVars, jobVars, runVars, seenVars, saidVars
  <2>8. TellFits'
    <3>1. told' \subseteq noted'
      BY <1>10 DEF ParkInv, TypeOK, TellFits, NobodyToTell
    <3>2. \A w \in noted' : w \in told' \cup cut'
      BY <1>10 DEF ParkInv, TellFits, NobodyToTell
    <3>3. step' = "closing"
      BY <1>10 DEF NobodyToTell, Goes
    <3> QED
      BY <3>1, <3>2, <3>3 DEF TellFits, InMission
  <2>9. ToldOnce'
    BY ParkAssumption, <1>10 DEF ParkInv, TypeOK, RowFits, WaitFits, TellFits, ToldOnce, Answered, NoAnswer, Answers, Waits, InMission, NobodyToTell, Goes, cardVars, jobVars, runVars, seenVars, saidVars
  <2> QED
    BY <2>1, <2>2, <2>3, <2>4, <2>5, <2>6, <2>7, <2>8, <2>9 DEF ParkInv
<1>8. ASSUME NEW to \in Step, NEW f \in Fate, RunFails(to, f) PROVE ParkInv'
  <2>1. TypeOK'
    <3>1. /\ card' \in [Cards -> CardState] /\ home' \in [Cards -> Convs \cup {None}]
              /\ past' \subseteq Waits /\ posted' \subseteq Cards
              /\ occ' \in {"claimed", "pending", "closed"}
      BY ParkAssumption, <1>8 DEF ParkInv, TypeOK, CardState, RunFails, CutShort, Goes, cardVars, jobVars, runVars, seenVars, saidVars
    <3>2. /\ job' \in JobState /\ reason' \in Waits \cup {None, Gate}
              /\ parked' \in Waits \cup {None} /\ answer' \in Answers
              /\ awaits' \in Convs \cup {None}
      BY ParkAssumption, <1>8 DEF ParkInv, TypeOK, JobState, WaitFits, RunFails, CutShort, Goes, cardVars, jobVars, runVars, seenVars, saidVars
    <3>3. /\ approved' \in BOOLEAN /\ gate' \in BOOLEAN
      BY ParkAssumption, <1>8 DEF ParkInv, TypeOK, RunFails, CutShort, Goes, cardVars, jobVars, runVars, seenVars, saidVars
    <3>4. /\ step' \in Step /\ conv' \in Convs \cup {None} /\ wait' \in Waits \cup {None} /\ fate' \in Fate
              /\ clock' \in [Clocks -> Waits \cup {None}] /\ surf' \in [Cards -> Surf]
              /\ used' \subseteq Convs /\ heard' \subseteq Cards /\ astray' \subseteq Cards /\ upsets' \in Nat
      BY ParkAssumption, <1>8 DEF ParkInv, TypeOK, Step, Fate, RunFails, CutShort, Goes, cardVars, jobVars, runVars, seenVars, saidVars
    <3>5. /\ noted' \subseteq Waits /\ told' \subseteq Waits /\ cut' \subseteq Waits /\ blind' \subseteq Waits
      BY ParkAssumption, <1>8 DEF ParkInv, TypeOK, TellFits, RunFails, CutShort, Goes, cardVars, jobVars, runVars, seenVars, saidVars
    <3> QED
      BY <3>1, <3>2, <3>3, <3>4, <3>5 DEF TypeOK
  <2>2. RowFits'
    BY ParkAssumption, <1>8 DEF ParkInv, TypeOK, RowFits, WaitFits, TiedFits, Untied, NoAnswer, Answers, Waits, InMission, RunFails, CutShort, Goes, cardVars, jobVars, runVars, seenVars, saidVars
  <2>3. \A p \in Cards : CardFits(p)'
    BY ParkAssumption, <1>8 DEF ParkInv, TypeOK, CardFits, RowFits, WaitFits, Waits, InMission, RunFails, CutShort, Goes, cardVars, jobVars, runVars, seenVars, saidVars
  <2>4. WaitFits'
    BY ParkAssumption, <1>8 DEF ParkInv, TypeOK, RowFits, CardFits, WaitFits, TiedFits, Untied, NoAnswer, Waits, InMission, RunFails, CutShort, Goes, cardVars, jobVars, runVars, seenVars, saidVars
  <2>5. TiedFits'
    BY ParkAssumption, <1>8 DEF ParkInv, TypeOK, RowFits, CardFits, WaitFits, TiedFits, Untied, AnswerKept, Answers, NoAnswer, Waits, InMission, RunFails, CutShort, Goes, cardVars, jobVars, runVars, seenVars, saidVars
  <2>6. AnswerKept'
    BY ParkAssumption, <1>8 DEF ParkInv, TypeOK, RowFits, WaitFits, TiedFits, Untied, AnswerKept, NoAnswer, Waits, InMission, RunFails, CutShort, Goes, cardVars, jobVars, runVars, seenVars, saidVars
  <2>7. NoContradiction'
    BY ParkAssumption, <1>8 DEF ParkInv, TypeOK, RowFits, WaitFits, TiedFits, Untied, AnswerKept, NoContradiction, Answers, Waits, InMission, RunFails, CutShort, Goes, cardVars, jobVars, runVars, seenVars, saidVars
  <2>8. TellFits'
    BY ParkAssumption, <1>8 DEF ParkInv, TypeOK, RowFits, WaitFits, TellFits, Answered, NoAnswer, Answers, Waits, InMission, RunFails, CutShort, Goes, cardVars, jobVars, runVars, seenVars, saidVars
  <2>9. ToldOnce'
    BY ParkAssumption, <1>8 DEF ParkInv, TypeOK, RowFits, WaitFits, TellFits, ToldOnce, Answered, NoAnswer, Answers, Waits, InMission, RunFails, CutShort, Goes, cardVars, jobVars, runVars, seenVars, saidVars
  <2> QED
    BY <2>1, <2>2, <2>3, <2>4, <2>5, <2>6, <2>7, <2>8, <2>9 DEF ParkInv
<1>9. CASE CloseOccurrence
  <2>1. TypeOK'
    BY ParkAssumption, <1>9 DEF ParkInv, TypeOK, Answers, NoAnswer, CardState, JobState, Step, Fate, Surf, RowFits, CardFits, WaitFits, Waits, InMission, CloseOccurrence, Goes, cardVars, jobVars, runVars, seenVars, saidVars
  <2>2. RowFits'
    BY ParkAssumption, <1>9 DEF ParkInv, TypeOK, RowFits, WaitFits, TiedFits, Untied, NoAnswer, Answers, Waits, InMission, CloseOccurrence, Goes, cardVars, jobVars, runVars, seenVars, saidVars
  <2>3. \A p \in Cards : CardFits(p)'
    BY ParkAssumption, <1>9 DEF ParkInv, TypeOK, CardFits, RowFits, WaitFits, Waits, InMission, CloseOccurrence, Goes, cardVars, jobVars, runVars, seenVars, saidVars
  <2>4. WaitFits'
    BY ParkAssumption, <1>9 DEF ParkInv, TypeOK, RowFits, CardFits, WaitFits, TiedFits, Untied, NoAnswer, Waits, InMission, CloseOccurrence, Goes, cardVars, jobVars, runVars, seenVars, saidVars
  <2>5. TiedFits'
    BY ParkAssumption, <1>9 DEF ParkInv, TypeOK, RowFits, CardFits, WaitFits, TiedFits, Untied, AnswerKept, Answers, NoAnswer, Waits, InMission, CloseOccurrence, Goes, cardVars, jobVars, runVars, seenVars, saidVars
  <2>6. AnswerKept'
    BY ParkAssumption, <1>9 DEF ParkInv, TypeOK, RowFits, WaitFits, TiedFits, Untied, AnswerKept, NoAnswer, Waits, InMission, CloseOccurrence, Goes, cardVars, jobVars, runVars, seenVars, saidVars
  <2>7. NoContradiction'
    BY ParkAssumption, <1>9 DEF ParkInv, TypeOK, RowFits, WaitFits, TiedFits, Untied, AnswerKept, NoContradiction, Answers, Waits, InMission, CloseOccurrence, Goes, cardVars, jobVars, runVars, seenVars, saidVars
  <2>8. TellFits'
    BY ParkAssumption, <1>9 DEF ParkInv, TypeOK, RowFits, WaitFits, TellFits, Answered, NoAnswer, Answers, Waits, InMission, CloseOccurrence, Goes, cardVars, jobVars, runVars, seenVars, saidVars
  <2>9. ToldOnce'
    BY ParkAssumption, <1>9 DEF ParkInv, TypeOK, RowFits, WaitFits, TellFits, ToldOnce, Answered, NoAnswer, Answers, Waits, InMission, CloseOccurrence, Goes, cardVars, jobVars, runVars, seenVars, saidVars
  <2> QED
    BY <2>1, <2>2, <2>3, <2>4, <2>5, <2>6, <2>7, <2>8, <2>9 DEF ParkInv
<1> QED
  BY <1>1, <1>2, <1>3, <1>4, <1>5, <1>6, <1>7, <1>8, <1>9, <1>10 DEF MissionStep

\* And what it tells the queue.
LEMMA ReportKeeps ==
  ASSUME ParkInv, ReportStep
  PROVE  ParkInv'
<1>1. CASE ReportEnd
  <2>1. TypeOK'
    BY ParkAssumption, <1>1 DEF ParkInv, TypeOK, Answers, NoAnswer, CardState, JobState, Step, Fate, Surf, RowFits, CardFits, WaitFits, Waits, InMission, ReportEnd, Leaves, Goes, cardVars, jobVars, runVars, seenVars, saidVars
  <2>2. RowFits'
    BY ParkAssumption, <1>1 DEF ParkInv, TypeOK, RowFits, WaitFits, TiedFits, Untied, NoAnswer, Answers, Waits, InMission, ReportEnd, Leaves, Goes, cardVars, jobVars, runVars, seenVars, saidVars
  <2>3. \A p \in Cards : CardFits(p)'
    BY ParkAssumption, <1>1 DEF ParkInv, TypeOK, CardFits, RowFits, WaitFits, Waits, InMission, ReportEnd, Leaves, Goes, cardVars, jobVars, runVars, seenVars, saidVars
  <2>4. WaitFits'
    BY ParkAssumption, <1>1 DEF ParkInv, TypeOK, RowFits, CardFits, WaitFits, TiedFits, Untied, NoAnswer, Waits, InMission, ReportEnd, Leaves, Goes, cardVars, jobVars, runVars, seenVars, saidVars
  <2>5. TiedFits'
    BY ParkAssumption, <1>1 DEF ParkInv, TypeOK, RowFits, CardFits, WaitFits, TiedFits, Untied, AnswerKept, Answers, NoAnswer, Waits, InMission, ReportEnd, Leaves, Goes, cardVars, jobVars, runVars, seenVars, saidVars
  <2>6. AnswerKept'
    BY ParkAssumption, <1>1 DEF ParkInv, TypeOK, RowFits, WaitFits, TiedFits, Untied, AnswerKept, NoAnswer, Waits, InMission, ReportEnd, Leaves, Goes, cardVars, jobVars, runVars, seenVars, saidVars
  <2>7. NoContradiction'
    BY ParkAssumption, <1>1 DEF ParkInv, TypeOK, RowFits, WaitFits, TiedFits, Untied, AnswerKept, NoContradiction, Answers, Waits, InMission, ReportEnd, Leaves, Goes, cardVars, jobVars, runVars, seenVars, saidVars
  <2>8. TellFits'
    BY ParkAssumption, <1>1 DEF ParkInv, TypeOK, RowFits, WaitFits, TellFits, Answered, NoAnswer, Answers, Waits, InMission, ReportEnd, Leaves, Goes, cardVars, jobVars, runVars, seenVars, saidVars
  <2>9. ToldOnce'
    BY ParkAssumption, <1>1 DEF ParkInv, TypeOK, RowFits, WaitFits, TellFits, ToldOnce, Answered, NoAnswer, Answers, Waits, InMission, ReportEnd, Leaves, Goes, cardVars, jobVars, runVars, seenVars, saidVars
  <2> QED
    BY <2>1, <2>2, <2>3, <2>4, <2>5, <2>6, <2>7, <2>8, <2>9 DEF ParkInv
<1>2. CASE ReportGate
  <2>1. TypeOK'
    BY ParkAssumption, <1>2 DEF ParkInv, TypeOK, Answers, NoAnswer, CardState, JobState, Step, Fate, Surf, RowFits, CardFits, WaitFits, Waits, InMission, ReportGate, Leaves, Goes, cardVars, jobVars, runVars, seenVars, saidVars
  <2>2. RowFits'
    BY ParkAssumption, <1>2 DEF ParkInv, TypeOK, RowFits, WaitFits, TiedFits, Untied, NoAnswer, Answers, Waits, InMission, ReportGate, Leaves, Goes, cardVars, jobVars, runVars, seenVars, saidVars
  <2>3. \A p \in Cards : CardFits(p)'
    BY ParkAssumption, <1>2 DEF ParkInv, TypeOK, CardFits, RowFits, WaitFits, Waits, InMission, ReportGate, Leaves, Goes, cardVars, jobVars, runVars, seenVars, saidVars
  <2>4. WaitFits'
    BY ParkAssumption, <1>2 DEF ParkInv, TypeOK, RowFits, CardFits, WaitFits, TiedFits, Untied, NoAnswer, Waits, InMission, ReportGate, Leaves, Goes, cardVars, jobVars, runVars, seenVars, saidVars
  <2>5. TiedFits'
    BY ParkAssumption, <1>2 DEF ParkInv, TypeOK, RowFits, CardFits, WaitFits, TiedFits, Untied, AnswerKept, Answers, NoAnswer, Waits, InMission, ReportGate, Leaves, Goes, cardVars, jobVars, runVars, seenVars, saidVars
  <2>6. AnswerKept'
    BY ParkAssumption, <1>2 DEF ParkInv, TypeOK, RowFits, WaitFits, TiedFits, Untied, AnswerKept, NoAnswer, Waits, InMission, ReportGate, Leaves, Goes, cardVars, jobVars, runVars, seenVars, saidVars
  <2>7. NoContradiction'
    BY ParkAssumption, <1>2 DEF ParkInv, TypeOK, RowFits, WaitFits, TiedFits, Untied, AnswerKept, NoContradiction, Answers, Waits, InMission, ReportGate, Leaves, Goes, cardVars, jobVars, runVars, seenVars, saidVars
  <2>8. TellFits'
    BY ParkAssumption, <1>2 DEF ParkInv, TypeOK, RowFits, WaitFits, TellFits, Answered, NoAnswer, Answers, Waits, InMission, ReportGate, Leaves, Goes, cardVars, jobVars, runVars, seenVars, saidVars
  <2>9. ToldOnce'
    BY ParkAssumption, <1>2 DEF ParkInv, TypeOK, RowFits, WaitFits, TellFits, ToldOnce, Answered, NoAnswer, Answers, Waits, InMission, ReportGate, Leaves, Goes, cardVars, jobVars, runVars, seenVars, saidVars
  <2> QED
    BY <2>1, <2>2, <2>3, <2>4, <2>5, <2>6, <2>7, <2>8, <2>9 DEF ParkInv
<1>3. CASE ReportPark
  <2>1. TypeOK'
    <3>1. /\ card' \in [Cards -> CardState] /\ home' \in [Cards -> Convs \cup {None}]
              /\ past' \subseteq Waits /\ posted' \subseteq Cards
              /\ occ' \in {"claimed", "pending", "closed"}
      BY ParkAssumption, <1>3 DEF ParkInv, TypeOK, CardState, ReportPark, Leaves, Goes, Wakes, cardVars, jobVars, runVars, seenVars, saidVars
    <3>2. /\ job' \in JobState /\ reason' \in Waits \cup {None, Gate}
              /\ parked' \in Waits \cup {None} /\ answer' \in Answers
              /\ awaits' \in Convs \cup {None}
      BY ParkAssumption, <1>3 DEF ParkInv, TypeOK, JobState, WaitFits, ReportPark, Leaves, Goes, Wakes, cardVars, jobVars, runVars, seenVars, saidVars
    <3>3. /\ approved' \in BOOLEAN /\ gate' \in BOOLEAN
      BY ParkAssumption, <1>3 DEF ParkInv, TypeOK, ReportPark, Leaves, Goes, Wakes, cardVars, jobVars, runVars, seenVars, saidVars
    <3>4. /\ step' \in Step /\ conv' \in Convs \cup {None} /\ wait' \in Waits \cup {None} /\ fate' \in Fate
              /\ clock' \in [Clocks -> Waits \cup {None}] /\ surf' \in [Cards -> Surf]
              /\ used' \subseteq Convs /\ heard' \subseteq Cards /\ astray' \subseteq Cards /\ upsets' \in Nat
      BY ParkAssumption, <1>3 DEF ParkInv, TypeOK, Step, Fate, ReportPark, Leaves, Goes, Wakes, cardVars, jobVars, runVars, seenVars, saidVars
    <3>5. /\ noted' \subseteq Waits /\ told' \subseteq Waits /\ cut' \subseteq Waits /\ blind' \subseteq Waits
      BY ParkAssumption, <1>3 DEF ParkInv, TypeOK, TellFits, ReportPark, Leaves, Goes, Wakes, cardVars, jobVars, runVars, seenVars, saidVars
    <3> QED
      BY <3>1, <3>2, <3>3, <3>4, <3>5 DEF TypeOK
  <2>2. RowFits'
    BY ParkAssumption, <1>3 DEF ParkInv, TypeOK, RowFits, WaitFits, TiedFits, Untied, NoAnswer, Answers, Waits, InMission, ReportPark, Leaves, Goes, Wakes, cardVars, jobVars, runVars, seenVars, saidVars
  <2>3. \A p \in Cards : CardFits(p)'
    BY ParkAssumption, <1>3 DEF ParkInv, TypeOK, CardFits, RowFits, WaitFits, Waits, InMission, ReportPark, Leaves, Goes, Wakes, cardVars, jobVars, runVars, seenVars, saidVars
  <2>4. WaitFits'
    BY ParkAssumption, <1>3 DEF ParkInv, TypeOK, RowFits, CardFits, WaitFits, TiedFits, Untied, NoAnswer, Waits, InMission, ReportPark, Leaves, Goes, Wakes, cardVars, jobVars, runVars, seenVars, saidVars
  <2>5. TiedFits'
    BY ParkAssumption, <1>3 DEF ParkInv, TypeOK, RowFits, CardFits, WaitFits, TiedFits, Untied, AnswerKept, Answers, NoAnswer, Waits, InMission, ReportPark, Leaves, Goes, Wakes, cardVars, jobVars, runVars, seenVars, saidVars
  <2>6. AnswerKept'
    BY ParkAssumption, <1>3 DEF ParkInv, TypeOK, RowFits, WaitFits, TiedFits, Untied, AnswerKept, NoAnswer, Waits, InMission, ReportPark, Leaves, Goes, Wakes, cardVars, jobVars, runVars, seenVars, saidVars
  <2>7. NoContradiction'
    BY ParkAssumption, <1>3 DEF ParkInv, TypeOK, RowFits, WaitFits, TiedFits, Untied, AnswerKept, NoContradiction, Answers, Waits, InMission, ReportPark, Leaves, Goes, Wakes, cardVars, jobVars, runVars, seenVars, saidVars
  <2>8. TellFits'
    BY ParkAssumption, <1>3 DEF ParkInv, TypeOK, RowFits, WaitFits, TellFits, Answered, NoAnswer, Answers, Waits, InMission, ReportPark, Leaves, Goes, Wakes, cardVars, jobVars, runVars, seenVars, saidVars
  <2>9. ToldOnce'
    BY ParkAssumption, <1>3 DEF ParkInv, TypeOK, RowFits, WaitFits, TellFits, ToldOnce, Answered, NoAnswer, Answers, Waits, InMission, ReportPark, Leaves, Goes, Wakes, cardVars, jobVars, runVars, seenVars, saidVars
  <2> QED
    BY <2>1, <2>2, <2>3, <2>4, <2>5, <2>6, <2>7, <2>8, <2>9 DEF ParkInv
<1>4. CASE ReportLost
  <2>1. TypeOK'
    BY ParkAssumption, <1>4 DEF ParkInv, TypeOK, Answers, NoAnswer, CardState, JobState, Step, Fate, Surf, RowFits, CardFits, WaitFits, Waits, InMission, ReportLost, Leaves, Goes, cardVars, jobVars, runVars, seenVars, saidVars
  <2>2. RowFits'
    BY ParkAssumption, <1>4 DEF ParkInv, TypeOK, RowFits, WaitFits, TiedFits, Untied, NoAnswer, Answers, Waits, InMission, ReportLost, Leaves, Goes, cardVars, jobVars, runVars, seenVars, saidVars
  <2>3. \A p \in Cards : CardFits(p)'
    BY ParkAssumption, <1>4 DEF ParkInv, TypeOK, CardFits, RowFits, WaitFits, Waits, InMission, ReportLost, Leaves, Goes, cardVars, jobVars, runVars, seenVars, saidVars
  <2>4. WaitFits'
    BY ParkAssumption, <1>4 DEF ParkInv, TypeOK, RowFits, CardFits, WaitFits, TiedFits, Untied, NoAnswer, Waits, InMission, ReportLost, Leaves, Goes, cardVars, jobVars, runVars, seenVars, saidVars
  <2>5. TiedFits'
    BY ParkAssumption, <1>4 DEF ParkInv, TypeOK, RowFits, CardFits, WaitFits, TiedFits, Untied, AnswerKept, Answers, NoAnswer, Waits, InMission, ReportLost, Leaves, Goes, cardVars, jobVars, runVars, seenVars, saidVars
  <2>6. AnswerKept'
    BY ParkAssumption, <1>4 DEF ParkInv, TypeOK, RowFits, WaitFits, TiedFits, Untied, AnswerKept, NoAnswer, Waits, InMission, ReportLost, Leaves, Goes, cardVars, jobVars, runVars, seenVars, saidVars
  <2>7. NoContradiction'
    BY ParkAssumption, <1>4 DEF ParkInv, TypeOK, RowFits, WaitFits, TiedFits, Untied, AnswerKept, NoContradiction, Answers, Waits, InMission, ReportLost, Leaves, Goes, cardVars, jobVars, runVars, seenVars, saidVars
  <2>8. TellFits'
    BY ParkAssumption, <1>4 DEF ParkInv, TypeOK, RowFits, WaitFits, TellFits, Answered, NoAnswer, Answers, Waits, InMission, ReportLost, Leaves, Goes, cardVars, jobVars, runVars, seenVars, saidVars
  <2>9. ToldOnce'
    BY ParkAssumption, <1>4 DEF ParkInv, TypeOK, RowFits, WaitFits, TellFits, ToldOnce, Answered, NoAnswer, Answers, Waits, InMission, ReportLost, Leaves, Goes, cardVars, jobVars, runVars, seenVars, saidVars
  <2> QED
    BY <2>1, <2>2, <2>3, <2>4, <2>5, <2>6, <2>7, <2>8, <2>9 DEF ParkInv
<1>5. CASE Abandon
  <2>1. TypeOK'
    <3>1. /\ card' \in [Cards -> CardState] /\ home' \in [Cards -> Convs \cup {None}]
              /\ past' \subseteq Waits /\ posted' \subseteq Cards
              /\ occ' \in {"claimed", "pending", "closed"}
      BY ParkAssumption, <1>5 DEF ParkInv, TypeOK, CardState, Abandon, CutShort, Leaves, Goes, cardVars, jobVars, runVars, seenVars, saidVars
    <3>2. /\ job' \in JobState /\ reason' \in Waits \cup {None, Gate}
              /\ parked' \in Waits \cup {None} /\ answer' \in Answers
              /\ awaits' \in Convs \cup {None}
      BY ParkAssumption, <1>5 DEF ParkInv, TypeOK, JobState, WaitFits, Abandon, CutShort, Leaves, Goes, cardVars, jobVars, runVars, seenVars, saidVars
    <3>3. /\ approved' \in BOOLEAN /\ gate' \in BOOLEAN
      BY ParkAssumption, <1>5 DEF ParkInv, TypeOK, Abandon, CutShort, Leaves, Goes, cardVars, jobVars, runVars, seenVars, saidVars
    <3>4. /\ step' \in Step /\ conv' \in Convs \cup {None} /\ wait' \in Waits \cup {None} /\ fate' \in Fate
              /\ clock' \in [Clocks -> Waits \cup {None}] /\ surf' \in [Cards -> Surf]
              /\ used' \subseteq Convs /\ heard' \subseteq Cards /\ astray' \subseteq Cards /\ upsets' \in Nat
      BY ParkAssumption, <1>5 DEF ParkInv, TypeOK, Step, Fate, Abandon, CutShort, Leaves, Goes, cardVars, jobVars, runVars, seenVars, saidVars
    <3>5. /\ noted' \subseteq Waits /\ told' \subseteq Waits /\ cut' \subseteq Waits /\ blind' \subseteq Waits
      BY ParkAssumption, <1>5 DEF ParkInv, TypeOK, TellFits, Abandon, CutShort, Leaves, Goes, cardVars, jobVars, runVars, seenVars, saidVars
    <3> QED
      BY <3>1, <3>2, <3>3, <3>4, <3>5 DEF TypeOK
  <2>2. RowFits'
    BY ParkAssumption, <1>5 DEF ParkInv, TypeOK, RowFits, WaitFits, TiedFits, Untied, NoAnswer, Answers, Waits, InMission, Abandon, CutShort, Leaves, Goes, cardVars, jobVars, runVars, seenVars, saidVars
  <2>3. \A p \in Cards : CardFits(p)'
    BY ParkAssumption, <1>5 DEF ParkInv, TypeOK, CardFits, RowFits, WaitFits, Waits, InMission, Abandon, CutShort, Leaves, Goes, cardVars, jobVars, runVars, seenVars, saidVars
  <2>4. WaitFits'
    BY ParkAssumption, <1>5 DEF ParkInv, TypeOK, RowFits, CardFits, WaitFits, TiedFits, Untied, NoAnswer, Waits, InMission, Abandon, CutShort, Leaves, Goes, cardVars, jobVars, runVars, seenVars, saidVars
  <2>5. TiedFits'
    BY ParkAssumption, <1>5 DEF ParkInv, TypeOK, RowFits, CardFits, WaitFits, TiedFits, Untied, AnswerKept, Answers, NoAnswer, Waits, InMission, Abandon, CutShort, Leaves, Goes, cardVars, jobVars, runVars, seenVars, saidVars
  <2>6. AnswerKept'
    BY ParkAssumption, <1>5 DEF ParkInv, TypeOK, RowFits, WaitFits, TiedFits, Untied, AnswerKept, NoAnswer, Waits, InMission, Abandon, CutShort, Leaves, Goes, cardVars, jobVars, runVars, seenVars, saidVars
  <2>7. NoContradiction'
    BY ParkAssumption, <1>5 DEF ParkInv, TypeOK, RowFits, WaitFits, TiedFits, Untied, AnswerKept, NoContradiction, Answers, Waits, InMission, Abandon, CutShort, Leaves, Goes, cardVars, jobVars, runVars, seenVars, saidVars
  <2>8. TellFits'
    BY ParkAssumption, <1>5 DEF ParkInv, TypeOK, RowFits, WaitFits, TellFits, Answered, NoAnswer, Answers, Waits, InMission, Abandon, CutShort, Leaves, Goes, cardVars, jobVars, runVars, seenVars, saidVars
  <2>9. ToldOnce'
    BY ParkAssumption, <1>5 DEF ParkInv, TypeOK, RowFits, WaitFits, TellFits, ToldOnce, Answered, NoAnswer, Answers, Waits, InMission, Abandon, CutShort, Leaves, Goes, cardVars, jobVars, runVars, seenVars, saidVars
  <2> QED
    BY <2>1, <2>2, <2>3, <2>4, <2>5, <2>6, <2>7, <2>8, <2>9 DEF ParkInv
<1> QED
  BY <1>1, <1>2, <1>3, <1>4, <1>5 DEF ReportStep

\* Every step keeps it.
LEMMA InvStep ==
  ASSUME ParkInv, [Next]_vars
  PROVE  ParkInv'
<1>1. CASE RunStep
  <2>1. StartStep \/ MissionStep \/ ReportStep
    BY <1>1 DEF RunStep, StartStep, MissionStep, ReportStep
  <2> QED
    BY <2>1, StartKeeps, MissionKeeps, ReportKeeps
<1>2. CASE UNCHANGED vars
  BY <1>2 DEF vars, cardVars, jobVars, runVars, seenVars, saidVars, ParkInv, TypeOK, RowFits, CardFits, WaitFits, TiedFits,
     Untied, InMission, AnswerKept, NoContradiction, TellFits, ToldOnce, Answered
<1> QED
  BY <1>1, <1>2, OwnerKeeps, ClockKeeps, QueueKeeps DEF Next

\* The inductive invariant of a parked run.
THEOREM ParkInvariant == Spec => []ParkInv
BY InitInv, InvStep, PTL DEF Spec

\* The rows, the payload and the run keep their types.
THEOREM ParkTypes == Spec => []TypeOK
<1>1. ParkInv => TypeOK
  BY DEF ParkInv
<1> QED
  BY <1>1, ParkInvariant, PTL

\* parked.ts:26-29: an answer a run took is heard by that run, or still on its job, unless
\* the run began with something else.
THEOREM AnswersAreKept == Spec => []AnswerKept
<1>1. ParkInv => AnswerKept
  BY DEF ParkInv
<1> QED
  BY <1>1, ParkInvariant, PTL

\* Nobody who was told "it carries on" is told that no answer came.
THEOREM OwnerNotContradicted == Spec => []NoContradiction
<1>1. ParkInv => NoContradiction
  BY DEF ParkInv
<1> QED
  BY <1>1, ParkInvariant, PTL

\* parked.ts:22-24: a run that ends because nobody came has told the owner, once, unless
\* the telling failed.
THEOREM OwnerIsToldOnce == Spec => []ToldOnce
<1>1. ParkInv => ToldOnce
  BY DEF ParkInv
<1> QED
  BY <1>1, ParkInvariant, PTL

-----------------------------------------------------------------------------
(* An answer already given is never replaced                               *)

\* No step writes over the answer to what the job is tied to.
LEMMA AnswerStays ==
  ASSUME ParkInv, [Next]_vars, Answered, parked' = parked
  PROVE  answer' = answer
<1>1. CASE OwnerStep
  BY <1>1 DEF OwnerStep, AnswerCard, WakeWithAnswer, WakeFails, GiveBack, Decide, HandAnswer, Matches, Answered, jobVars
<1>2. ASSUME NEW k \in Clocks, ClockStep(k) PROVE answer' = answer
  <2>1. job # "suspended"
    BY ParkAssumption DEF ParkInv, TypeOK, RowFits, Answered, Waits
  <2> QED
    BY <1>2, <2>1 DEF ClockStep, FindExpired, WakeExpired, ClockDies, jobVars
<1>3. CASE RunStep
  <2>1. CASE Tie
    BY <2>1 DEF Tie, ParkInv, WaitFits
  <2>2. CASE ReportGate
    BY <2>2 DEF ReportGate, Answered
  <2>3. CASE ~Tie /\ ~ReportGate
    BY <1>3, <2>3 DEF RunStep, StartSkipped, StartTimedOut, StartAnswered, StartDecided, StartFresh, Starts, Finish,
       Ask, TakeOver, StopAtGate, EndInVain, TellOwner, NobodyToTell, RunFails, CloseOccurrence, ReportEnd, ReportPark, ReportLost, Abandon, jobVars
  <2> QED
    BY <2>1, <2>2, <2>3
<1>4. CASE QueueStep
  BY <1>4 DEF QueueStep, CancelJob, RetryJob, Release, ClaimAgain, Interrupt, jobVars
<1>5. ASSUME NEW w \in Waits, Passes(w) PROVE answer' = answer
  BY <1>5 DEF Passes, jobVars
<1>6. CASE UNCHANGED vars
  BY <1>6 DEF vars, jobVars
<1> QED
  BY <1>1, <1>2, <1>3, <1>4, <1>5, <1>6 DEF Next

\* parked.ts:238: the first answer to a wait is the one the run hears.
THEOREM AnswersAreFinal == Spec => NeverReplaced
<1>1. ParkInv /\ [Next]_vars => [Answered /\ parked' = parked => answer' = answer]_vars
  BY AnswerStays
<1> QED
  BY <1>1, ParkInvariant, PTL DEF Spec, NeverReplaced

-----------------------------------------------------------------------------
(* The mission goes on where it stopped                                    *)

\* No conversation is opened and the run is not nearer to a start from the beginning.
LEMMA StartsStay ==
  ASSUME TypeOK, StartsCounted, used' = used, upsets' = upsets, StartsOver' => StartsOver
  PROVE  StartsCounted'
<1>1. Cardinality(used) \in Nat /\ upsets \in Nat
  BY FS_CardinalityType DEF StartsCounted, TypeOK
<1> QED
  BY <1>1 DEF StartsCounted

\* A failure, a death, a retry or a wake meant for another wait makes up for one start.
LEMMA StartGranted ==
  ASSUME TypeOK, StartsCounted, used' = used, upsets' = upsets + 1
  PROVE  StartsCounted'
<1>1. Cardinality(used) \in Nat /\ upsets \in Nat
  BY FS_CardinalityType DEF StartsCounted, TypeOK
<1> QED
  BY <1>1 DEF StartsCounted

\* The start itself: a run under way starts over only through another upset.
LEMMA StartTaken ==
  ASSUME TypeOK, StartsCounted, NEW c, used' = used \cup {c}, upsets' = upsets, StartsOver, ~StartsOver'
  PROVE  StartsCounted'
<1>1. Cardinality(used) \in Nat /\ upsets \in Nat
  BY FS_CardinalityType DEF StartsCounted, TypeOK
<1>2. IsFiniteSet(used \cup {c}) /\ Cardinality(used \cup {c}) \in {Cardinality(used), Cardinality(used) + 1}
  BY FS_AddElement DEF StartsCounted
<1> QED
  BY <1>1, <1>2 DEF StartsCounted

\* The surfaces and the owner: who finds the job parked leaves it with an answer or a decision.
LEMMA OwnerKeepsPlace ==
  ASSUME ParkInv, PlaceKept, OwnerStep
  PROVE  PlaceKept'
<1>0. TypeOK /\ RowFits /\ StartsCounted /\ GateFits
  BY DEF ParkInv, PlaceKept
<1>1. ASSUME NEW w \in Waits, NEW by, Matches(w), HandAnswer(w, by), UNCHANGED <<step, fate, conv, used, upsets>>
      PROVE  PlaceKept'
  <2>1. Answered'
    BY <1>1, ParkAssumption DEF Matches, HandAnswer, Answered
  <2>2. GateFits'
    BY <1>0, <1>1, ParkAssumption DEF Matches, HandAnswer, Wakes, GateFits
  <2> QED
    BY <1>0, <1>1, <2>1, <2>2, StartsStay DEF StartsOver, PlaceKept
<1>2. ASSUME UNCHANGED <<jobVars, step, fate, conv, used, upsets>>
      PROVE  PlaceKept'
  BY <1>0, <1>2, StartsStay DEF jobVars, StartsOver, Answered, Decided, GateFits, PlaceKept
<1>3. ASSUME NEW q \in Cards, AnswerCard(q) \/ WakeFails(q) PROVE PlaceKept'
  BY <1>2, <1>3 DEF AnswerCard, WakeFails, jobVars, runVars, seenVars
<1>4. ASSUME NEW q \in Cards, WakeWithAnswer(q) PROVE PlaceKept'
  BY <1>1, <1>2, <1>4 DEF WakeWithAnswer, Waits, runVars, seenVars
<1>5. ASSUME NEW c \in Convs, NEW dies \in BOOLEAN, GiveBack(c, dies) PROVE PlaceKept'
  BY <1>1, <1>5 DEF GiveBack, Waits, runVars, seenVars
<1>6. CASE Decide
  <2>1. GateFits'
    BY <1>0, <1>6, ParkAssumption DEF Decide, Wakes, GateFits, runVars
  <2>2. CASE job # "suspended"
    BY <1>0, <1>6, <2>1, <2>2, StartsStay DEF Decide, StartsOver, Answered, Decided, PlaceKept, seenVars, runVars
  <2>3. CASE job = "suspended" /\ reason = Gate
    <3>1. Decided'
      BY <1>0, <1>6, <2>3 DEF Decide, Wakes, Decided, GateFits
    <3> QED
      BY <1>0, <1>6, <2>1, <2>3, <3>1, StartsStay DEF Decide, StartsOver, PlaceKept, seenVars
  <2>4. CASE job = "suspended" /\ reason # Gate
    BY <1>0, <1>6, <2>1, <2>4, StartGranted DEF Decide, PlaceKept, seenVars
  <2> QED
    BY <2>2, <2>3, <2>4
<1> QED
  BY <1>3, <1>4, <1>5, <1>6 DEF OwnerStep

\* The clock wakes for the wait it found over, or for another.
LEMMA ClockKeepsPlace ==
  ASSUME ParkInv, PlaceKept, NEW k \in Clocks, ClockStep(k)
  PROVE  PlaceKept'
<1>0. TypeOK /\ RowFits /\ StartsCounted /\ GateFits
  BY DEF ParkInv, PlaceKept
<1>1. CASE FindExpired(k) \/ ClockDies(k)
  BY <1>0, <1>1, StartsStay DEF FindExpired, ClockDies, jobVars, runVars, seenVars, StartsOver, Answered, Decided, GateFits, PlaceKept
<1>2. CASE WakeExpired(k)
  <2>1. GateFits'
    BY <1>0, <1>2, ParkAssumption DEF WakeExpired, Wakes, GateFits, runVars
  <2>2. CASE job # "suspended"
    BY <1>0, <1>2, <2>1, <2>2, StartsStay DEF WakeExpired, StartsOver, Answered, Decided, PlaceKept, seenVars, runVars
  <2>3. CASE job = "suspended" /\ reason = clock[k]
    <3>1. clock[k] \in Waits /\ clock[k] # None
      BY <1>0, <1>2 DEF WakeExpired, TypeOK
    <3>2. Answered'
      BY <1>0, <1>2, <2>3, <3>1 DEF WakeExpired, RowFits, Answered
    <3> QED
      BY <1>0, <1>2, <2>1, <2>3, <3>2, StartsStay DEF WakeExpired, StartsOver, PlaceKept, seenVars
  <2>4. CASE job = "suspended" /\ reason # clock[k]
    BY <1>0, <1>2, <2>1, <2>4, StartGranted DEF WakeExpired, PlaceKept, seenVars
  <2> QED
    BY <2>2, <2>3, <2>4
<1> QED
  BY <1>1, <1>2 DEF ClockStep

\* The queue, the sweep and time: a job is put back only when its run died, and that was counted.
LEMMA QueueKeepsPlace ==
  ASSUME ParkInv, PlaceKept, QueueStep \/ \E w \in Waits : Passes(w)
  PROVE  PlaceKept'
<1>0. TypeOK /\ RowFits /\ StartsCounted /\ GateFits
  BY DEF ParkInv, PlaceKept
<1>1. CASE CancelJob
  BY <1>0, <1>1, StartsStay DEF CancelJob, runVars, seenVars, StartsOver, GateFits, PlaceKept
<1>2. CASE RetryJob
  BY <1>0, <1>2, StartGranted DEF RetryJob, Wakes, runVars, seenVars, GateFits, PlaceKept
<1>3. CASE Release \/ ClaimAgain
  BY <1>0, <1>3, StartsStay DEF Release, ClaimAgain, jobVars, runVars, seenVars, StartsOver, Answered, Decided, GateFits, PlaceKept
<1>4. ASSUME NEW back \in BOOLEAN, Interrupt(back) PROVE PlaceKept'
  BY <1>0, <1>4, StartsStay DEF Interrupt, runVars, seenVars, StartsOver, Answered, Decided, GateFits, PlaceKept
<1>5. ASSUME NEW w \in Waits, Passes(w) PROVE PlaceKept'
  BY <1>0, <1>5, StartsStay DEF Passes, jobVars, runVars, seenVars, StartsOver, Answered, Decided, GateFits, PlaceKept
<1> QED
  BY <1>1, <1>2, <1>3, <1>4, <1>5 DEF QueueStep

\* A run starts: over only if it was neither answered nor decided.
LEMMA StartKeepsPlace ==
  ASSUME ParkInv, PlaceKept, StartStep
  PROVE  PlaceKept'
<1>0. TypeOK /\ RowFits /\ StartsCounted /\ GateFits
  BY DEF ParkInv, PlaceKept
<1>1. GateFits'
  BY <1>0 DEF StartStep, StartSkipped, StartTimedOut, StartAnswered, StartDecided, StartFresh, Starts, Goes, GateFits
<1>2. ~StartsOver'
  BY DEF StartStep, StartSkipped, StartTimedOut, StartAnswered, StartDecided, StartFresh, Starts, Goes, StartsOver
<1>3. upsets' = upsets
  BY DEF StartStep, StartSkipped, StartTimedOut, StartAnswered, StartDecided, StartFresh, Starts
<1>4. CASE StartSkipped \/ StartTimedOut \/ StartAnswered \/ StartDecided
  BY <1>0, <1>1, <1>2, <1>3, <1>4, StartsStay DEF StartSkipped, StartTimedOut, StartAnswered, StartDecided, PlaceKept
<1>5. ASSUME NEW c \in Convs, StartFresh(c) PROVE PlaceKept'
  <2>1. StartsOver
    BY <1>5 DEF StartFresh, Starts, StartsOver
  <2> QED
    BY <1>0, <1>1, <1>2, <1>3, <1>5, <2>1, StartTaken DEF StartFresh, PlaceKept
<1> QED
  BY <1>4, <1>5 DEF StartStep

\* A mission that goes to a gate has its conversation, and one that fails is an upset.
LEMMA MissionKeepsPlace ==
  ASSUME ParkInv, PlaceKept, MissionStep
  PROVE  PlaceKept'
<1>0. TypeOK /\ RowFits /\ WaitFits /\ StartsCounted /\ GateFits
  BY DEF ParkInv, PlaceKept
<1>1. CASE Finish \/ TakeOver \/ TellOwner \/ NobodyToTell \/ CloseOccurrence \/ \E b \in BOOLEAN : EndInVain(b)
  <2>1. GateFits'
    BY <1>0, <1>1 DEF Finish, TakeOver, EndInVain, TellOwner, NobodyToTell, CloseOccurrence, Goes, GateFits, WaitFits, InMission, jobVars
  <2>2. StartsOver' => StartsOver
    BY <1>0, <1>1 DEF Finish, TakeOver, EndInVain, TellOwner, NobodyToTell, CloseOccurrence, Goes, StartsOver, Answered, Decided, InMission, jobVars
  <2> QED
    BY <1>0, <1>1, <2>1, <2>2, StartsStay DEF Finish, TakeOver, EndInVain, TellOwner, NobodyToTell, CloseOccurrence, PlaceKept, seenVars
<1>2. CASE Tie
  BY <1>0, <1>2, StartsStay DEF Tie, Goes, GateFits, StartsOver, Answered, Decided, PlaceKept, seenVars
<1>3. CASE StopAtGate
  <2>1. conv # None
    BY <1>0, <1>3, ParkAssumption DEF StopAtGate, WaitFits, Waits
  <2> QED
    BY <1>0, <1>3, <2>1, StartsStay DEF StopAtGate, Goes, GateFits, StartsOver, Answered, Decided, PlaceKept, InMission, jobVars, seenVars
<1>4. ASSUME NEW q \in Cards, NEW b \in BOOLEAN, Ask(q, b) PROVE PlaceKept'
  BY <1>0, <1>4, StartsStay DEF Ask, Goes, GateFits, StartsOver, Answered, Decided, PlaceKept, InMission, jobVars, seenVars
<1>5. ASSUME NEW to \in Step, NEW f \in Fate, RunFails(to, f) PROVE PlaceKept'
  <2>1. GateFits'
    BY <1>0, <1>5 DEF RunFails, Goes, GateFits, jobVars
  <2> QED
    BY <1>0, <1>5, <2>1, StartGranted DEF RunFails, PlaceKept, seenVars
<1> QED
  BY <1>1, <1>2, <1>3, <1>4, <1>5 DEF MissionStep

\* What the run leaves in the payload is enough to go on from.
LEMMA ReportKeepsPlace ==
  ASSUME ParkInv, PlaceKept, ReportStep
  PROVE  PlaceKept'
<1>0. TypeOK /\ RowFits /\ WaitFits /\ StartsCounted /\ GateFits
  BY DEF ParkInv, PlaceKept
<1>1. CASE ReportEnd
  BY <1>0, <1>1, StartsStay DEF ReportEnd, Leaves, Goes, GateFits, StartsOver, Answered, Decided, PlaceKept, seenVars
<1>2. CASE ReportGate
  BY <1>0, <1>2, StartsStay DEF ReportGate, Leaves, Goes, GateFits, StartsOver, PlaceKept, seenVars
<1>3. CASE ReportPark
  <2>1. wait \in Waits /\ wait # None /\ wait # Gate
    BY <1>0, <1>3, ParkAssumption DEF ReportPark, WaitFits
  <2>2. job' = "pending" => Answered'
    BY <1>3, <2>1 DEF ReportPark, Answered
  <2>3. StartsOver' => StartsOver
    BY <1>3, <2>2 DEF ReportPark, Wakes, StartsOver
  <2>4. GateFits'
    BY <1>3, <2>1, ParkAssumption DEF ReportPark, Wakes, Leaves, Goes, GateFits
  <2> QED
    BY <1>0, <1>3, <2>3, <2>4, StartsStay DEF ReportPark, PlaceKept, seenVars
<1>4. CASE ReportLost
  BY <1>0, <1>4, StartsStay DEF ReportLost, Leaves, Goes, GateFits, StartsOver, Answered, Decided, PlaceKept, jobVars, seenVars
<1>5. CASE Abandon
  BY <1>0, <1>5, StartGranted DEF Abandon, Leaves, Goes, GateFits, PlaceKept, jobVars, seenVars
<1> QED
  BY <1>1, <1>2, <1>3, <1>4, <1>5 DEF ReportStep

\* Every step keeps the count of starts.
LEMMA PlaceStep ==
  ASSUME ParkInv, PlaceKept, [Next]_vars
  PROVE  PlaceKept'
<1>1. CASE RunStep
  BY <1>1, StartKeepsPlace, MissionKeepsPlace, ReportKeepsPlace DEF RunStep, StartStep, MissionStep, ReportStep
<1>2. CASE UNCHANGED vars
  BY <1>2, StartsStay DEF ParkInv, vars, jobVars, runVars, seenVars, StartsOver, Answered, Decided, GateFits, PlaceKept
<1> QED
  BY <1>1, <1>2, OwnerKeepsPlace, ClockKeepsPlace, QueueKeepsPlace DEF Next

\* In every reachable state, for any number of cards, conversations and clocks, the starts
\* made and the one that may come add up to no more than one and the upsets.
THEOREM PlaceIsKept == Spec => []PlaceKept
<1>1. Init => PlaceKept
  <2> SUFFICES ASSUME Init PROVE PlaceKept
    OBVIOUS
  <2>1. IsFiniteSet(used) /\ Cardinality(used) = 0 /\ upsets = 0
    BY FS_EmptySet DEF Init
  <2> QED
    BY <2>1 DEF Init, PlaceKept, StartsCounted, GateFits
<1>2. ParkInv /\ PlaceKept /\ [Next]_vars => PlaceKept'
  BY PlaceStep
<1> QED
  BY <1>1, <1>2, ParkInvariant, PTL DEF Spec

\* So a mission is started over only after something went wrong, as often as it did.
THEOREM RunsResumeInPlace == Spec => []ResumesInPlace
<1>1. ParkInv /\ PlaceKept => ResumesInPlace
  <2> SUFFICES ASSUME ParkInv, PlaceKept PROVE ResumesInPlace
    OBVIOUS
  <2>1. Cardinality(used) \in Nat /\ upsets \in Nat
    BY FS_CardinalityType DEF PlaceKept, StartsCounted, ParkInv, TypeOK
  <2> QED
    BY <2>1 DEF PlaceKept, StartsCounted, ResumesInPlace
<1> QED
  BY <1>1, ParkInvariant, PlaceIsKept, PTL

-----------------------------------------------------------------------------
(* The row keeps to the life of a job                                      *)

\* The one job comes to the life its state stands for.
LEMMA LifeBecomes == Queue!Become("run", JobLife')
BY DEF Queue!Become

\* A step that leaves the state of the job alone is hidden,
LEMMA JobStays ==
  ASSUME job' = job
  PROVE  [Queue!Next]_JobLife
BY DEF JobLife

\* an answer, a decision or a timeout wakes a parked job,
LEMMA JobWakes ==
  ASSUME job = "suspended", job' = "pending"
  PROVE  [Queue!Next]_JobLife
<1>1. JobLife = "parked" /\ JobLife' = "waiting"
  BY DEF JobLife
<1>2. Queue!Wake("run")
  BY <1>1, LifeBecomes DEF Queue!Wake
<1> QED
  BY <1>2 DEF Queue!Next

\* and only a run ends what runs.
LEMMA JobEnds ==
  ASSUME job = "leased", job' \in {"pending", "suspended", "succeeded", "failed"}
  PROVE  [Queue!Next]_JobLife
<1>1. JobLife = "running" /\ JobLife' \in {"done", "parked", "waiting", "failed"}
  BY DEF JobLife
<1>2. Queue!End("run")
  BY <1>1, LifeBecomes DEF Queue!End
<1> QED
  BY <1>2 DEF Queue!Next

\* Every step, the late ones too.
LEMMA JobLifeStep ==
  ASSUME [Next]_vars
  PROVE  [Queue!Next]_JobLife
<1>1. CASE OwnerStep
  <2>1. job' = job \/ (job = "suspended" /\ job' = "pending")
    BY <1>1 DEF OwnerStep, AnswerCard, WakeWithAnswer, WakeFails, GiveBack, Decide, HandAnswer, Wakes, jobVars
  <2> QED
    BY <2>1, JobStays, JobWakes
<1>2. ASSUME NEW k \in Clocks, ClockStep(k) PROVE [Queue!Next]_JobLife
  <2>1. job' = job \/ (job = "suspended" /\ job' = "pending")
    BY <1>2 DEF ClockStep, FindExpired, WakeExpired, ClockDies, Wakes, jobVars
  <2> QED
    BY <2>1, JobStays, JobWakes
<1>3. CASE StartStep
  <2>1. job = "pending" /\ job' = "leased"
    BY <1>3 DEF StartStep, StartSkipped, StartTimedOut, StartAnswered, StartDecided, StartFresh, Starts
  <2>2. JobLife = "waiting" /\ JobLife' = "running"
    BY <2>1 DEF JobLife
  <2>3. Queue!Take("run")
    BY <2>2, LifeBecomes DEF Queue!Take
  <2> QED
    BY <2>3 DEF Queue!Next
<1>4. CASE MissionStep
  <2>1. job' = job
    BY <1>4 DEF MissionStep, Finish, TakeOver, Tie, StopAtGate, EndInVain, TellOwner, NobodyToTell, CloseOccurrence, Ask, RunFails, jobVars
  <2> QED
    BY <2>1, JobStays
<1>5. CASE ReportStep
  <2>1. job' = job \/ (job = "leased" /\ job' \in {"pending", "suspended", "succeeded", "failed"})
    BY <1>5 DEF ReportStep, ReportEnd, ReportGate, ReportPark, ReportLost, Abandon, Wakes, jobVars
  <2> QED
    BY <2>1, JobStays, JobEnds
<1>6. CASE CancelJob
  <2>1. JobLife \in {"waiting", "running", "parked", "failed"} /\ JobLife' = "dropped"
    BY <1>6 DEF CancelJob, JobLife
  <2>2. Queue!Drop("run")
    BY <2>1, LifeBecomes DEF Queue!Drop
  <2> QED
    BY <2>2 DEF Queue!Next
<1>7. CASE RetryJob
  <2>1. JobLife \in {"failed", "dropped", "parked"} /\ JobLife' = "waiting"
    BY <1>7 DEF RetryJob, Wakes, JobLife
  <2>2. Queue!Revive({"run"})
    BY <2>1 DEF Queue!Revive
  <2> QED
    BY <2>2 DEF Queue!Next
<1>8. CASE Release \/ ClaimAgain \/ \E w \in Waits : Passes(w)
  BY <1>8, JobStays DEF Release, ClaimAgain, Passes, jobVars
<1>9. ASSUME NEW back \in BOOLEAN, Interrupt(back) PROVE [Queue!Next]_JobLife
  BY <1>9, JobEnds DEF Interrupt
<1>10. CASE UNCHANGED vars
  BY <1>10, JobStays DEF vars, jobVars
<1> QED
  BY <1>1, <1>2, <1>3, <1>4, <1>5, <1>6, <1>7, <1>8, <1>9, <1>10 DEF Next, RunStep, QueueStep, StartStep, MissionStep, ReportStep

\* The row of a parked run moves only as JobLifecycle says, which JobQueue is shown to
\* implement: nothing that comes late wakes or ends a job.
THEOREM ParkedRunsKeepJobLifecycle == Spec => KeepsJobLifecycle
<1>1. [Next]_vars => [Queue!Next]_JobLife
  BY JobLifeStep
<1> QED
  BY <1>1, PTL DEF Spec, KeepsJobLifecycle
=============================================================================
