---------------------------- MODULE SpeechProofs ----------------------------
(***************************************************************************)
(* A mission reports once, for any number of occurrences, workers,         *)
(* schedulers and surfaces: what an occurrence has reported and what may   *)
(* still report for it never add up to more than one, the owner's amends   *)
(* and the put-back of a delivery nobody recorded.  The sum is kept        *)
(* because a lease that is lost turns the job's own chance into the one of *)
(* the run that goes on, because only a job with nothing on record and no  *)
(* run behind it is put back, and because a call of mission.report is on   *)
(* record before anything is sent.                                         *)
(***************************************************************************)
EXTENDS MissionRunsProofs, FiniteSetTheorems

-----------------------------------------------------------------------------
(* Counting                                                                *)

\* Less is not more,
LEMMA CountFewer ==
  ASSUME NEW S, NEW T, IsFiniteSet(S), T \subseteq S
  PROVE  IsFiniteSet(T) /\ Cardinality(S) \in Nat /\ Cardinality(T) \in Nat /\ Cardinality(T) <= Cardinality(S)
<1>1. IsFiniteSet(T) /\ Cardinality(T) <= Cardinality(S)
  BY FS_Subset
<1> QED
  BY <1>1, FS_CardinalityType

\* one less is one less,
LEMMA CountOneFewer ==
  ASSUME NEW S, NEW T, NEW x \in S, IsFiniteSet(S), T \subseteq S \ {x}
  PROVE  IsFiniteSet(T) /\ Cardinality(S) \in Nat /\ Cardinality(T) \in Nat /\ Cardinality(T) + 1 <= Cardinality(S)
<1> DEFINE R == S \ {x}
<1>1. IsFiniteSet(R) /\ Cardinality(R) = Cardinality(S) - 1
  BY FS_RemoveElement
<1>2. T \subseteq R
  OBVIOUS
<1> HIDE DEF R
<1>3. IsFiniteSet(T) /\ Cardinality(R) \in Nat /\ Cardinality(T) \in Nat /\ Cardinality(T) <= Cardinality(R)
  BY <1>1, <1>2, CountFewer
<1>4. Cardinality(S) \in Nat
  BY FS_CardinalityType
<1> QED
  BY <1>1, <1>3, <1>4

\* and one more is at most one more.
LEMMA CountOneMore ==
  ASSUME NEW S, NEW T, NEW x, IsFiniteSet(S), T \subseteq S \cup {x}
  PROVE  IsFiniteSet(T) /\ Cardinality(S) \in Nat /\ Cardinality(T) \in Nat /\ Cardinality(T) <= Cardinality(S) + 1
<1> DEFINE R == S \cup {x}
<1>1. IsFiniteSet(R) /\ Cardinality(R) = IF x \in S THEN Cardinality(S) ELSE Cardinality(S) + 1
  BY FS_AddElement
<1>2. T \subseteq R
  OBVIOUS
<1> HIDE DEF R
<1>3. IsFiniteSet(T) /\ Cardinality(R) \in Nat /\ Cardinality(T) \in Nat /\ Cardinality(T) <= Cardinality(R)
  BY <1>1, <1>2, CountFewer
<1>4. Cardinality(S) \in Nat
  BY FS_CardinalityType
<1> QED
  BY <1>1, <1>3, <1>4

\* Nothing is said, and no chance is won.
LEMMA NoChanceWon ==
  ASSUME TypeOK, TypeOK', NEW o \in Occs, Counted(o),
         Orphans(o)' \subseteq Orphans(o), MayReport(o)' => MayReport(o),
         spoke'[o] = spoke[o], amends'[o] = amends[o], Again(o)' = Again(o)
  PROVE  Counted(o)'
<1>1. /\ IsFiniteSet(Orphans(o)') /\ Cardinality(Orphans(o)) \in Nat /\ Cardinality(Orphans(o)') \in Nat
      /\ Cardinality(Orphans(o)') <= Cardinality(Orphans(o))
  BY CountFewer DEF Counted
<1>2. spoke[o] \in Nat /\ amends[o] \in Nat /\ amends'[o] \in Nat /\ Again(o) \in Nat /\ Again(o)' \in Nat
  BY DEF TypeOK, Again
<1> QED
  BY <1>1, <1>2 DEF Counted, Chances

\* The owner makes amends, an end fails, or what nobody knows of is put back: one chance more.
LEMMA ChanceGranted ==
  ASSUME TypeOK, TypeOK', NEW o \in Occs, Counted(o),
         Orphans(o)' \subseteq Orphans(o), spoke'[o] = spoke[o], amends'[o] + Again(o)' = amends[o] + Again(o) + 1
  PROVE  Counted(o)'
<1>1. /\ IsFiniteSet(Orphans(o)') /\ Cardinality(Orphans(o)) \in Nat /\ Cardinality(Orphans(o)') \in Nat
      /\ Cardinality(Orphans(o)') <= Cardinality(Orphans(o))
  BY CountFewer DEF Counted
<1>2. spoke[o] \in Nat /\ amends[o] \in Nat /\ amends'[o] \in Nat /\ Again(o) \in Nat /\ Again(o)' \in Nat
  BY DEF TypeOK, Again
<1> QED
  BY <1>1, <1>2 DEF Counted, Chances

\* The run of the job reports: the job has no chance left.
LEMMA ChanceTaken ==
  ASSUME TypeOK, TypeOK', NEW o \in Occs, Counted(o),
         Orphans(o)' \subseteq Orphans(o), MayReport(o), ~MayReport(o)',
         spoke'[o] = spoke[o] + 1, amends'[o] = amends[o], Again(o)' = Again(o)
  PROVE  Counted(o)'
<1>1. /\ IsFiniteSet(Orphans(o)') /\ Cardinality(Orphans(o)) \in Nat /\ Cardinality(Orphans(o)') \in Nat
      /\ Cardinality(Orphans(o)') <= Cardinality(Orphans(o))
  BY CountFewer DEF Counted
<1>2. spoke[o] \in Nat /\ amends[o] \in Nat /\ amends'[o] \in Nat /\ Again(o) \in Nat /\ Again(o)' \in Nat
  BY DEF TypeOK, Again
<1> QED
  BY <1>1, <1>2 DEF Counted, Chances

\* A run that went on without its lease reports.
LEMMA OrphanReports ==
  ASSUME TypeOK, TypeOK', NEW o \in Occs, Counted(o), NEW w \in Orphans(o),
         Orphans(o)' \subseteq Orphans(o) \ {w}, MayReport(o)' => MayReport(o),
         spoke'[o] = spoke[o] + 1, amends'[o] = amends[o], Again(o)' = Again(o)
  PROVE  Counted(o)'
<1>1. /\ IsFiniteSet(Orphans(o)') /\ Cardinality(Orphans(o)) \in Nat /\ Cardinality(Orphans(o)') \in Nat
      /\ Cardinality(Orphans(o)') + 1 <= Cardinality(Orphans(o))
  BY CountOneFewer DEF Counted
<1>2. spoke[o] \in Nat /\ amends[o] \in Nat /\ amends'[o] \in Nat /\ Again(o) \in Nat /\ Again(o)' \in Nat
  BY DEF TypeOK, Again
<1> QED
  BY <1>1, <1>2 DEF Counted, Chances

\* A run loses its lease: the job's chance goes with it.
LEMMA ChanceMoves ==
  ASSUME TypeOK, TypeOK', NEW o \in Occs, Counted(o), NEW w,
         Orphans(o)' \subseteq Orphans(o) \cup {w}, MayReport(o), ~MayReport(o)',
         spoke'[o] = spoke[o], amends'[o] = amends[o], Again(o)' = Again(o)
  PROVE  Counted(o)'
<1>1. /\ IsFiniteSet(Orphans(o)') /\ Cardinality(Orphans(o)) \in Nat /\ Cardinality(Orphans(o)') \in Nat
      /\ Cardinality(Orphans(o)') <= Cardinality(Orphans(o)) + 1
  BY CountOneMore DEF Counted
<1>2. spoke[o] \in Nat /\ amends[o] \in Nat /\ amends'[o] \in Nat /\ Again(o) \in Nat /\ Again(o)' \in Nat
  BY DEF TypeOK, Again
<1> QED
  BY <1>1, <1>2 DEF Counted, Chances

-----------------------------------------------------------------------------
(* One step, one occurrence                                                *)

\* What touches neither runs, reports nor leases changes nothing; a handoff gives a job,
\* which is the chance the occurrence had without one.
LEMMA AsideCounts ==
  ASSUME TypeOK, TypeOK', NEW o \in Occs, Counted(o),
         UNCHANGED <<runVars, acted, holder, requeued, attempts, spoke, amends, unsaid>>,
         job'[o] = job[o] \/ (job[o] = "none" /\ job'[o] = "pending")
  PROVE  Counted(o)'
<1>1. Orphans(o)' \subseteq Orphans(o)
  BY DEF Orphans, GoesOn, Holds, runVars
<1>2. MayReport(o)' => MayReport(o)
  BY DEF MayReport, HasSent, Spare, GoesOn, Holds, runVars
<1> QED
  BY <1>1, <1>2, NoChanceWon DEF Again

\* The scheduler, the surfaces and the sweep are beside it,
LEMMA ScheduleCounts ==
  ASSUME TypeOK, TypeOK', ScheduleStep, NEW o \in Occs, Counted(o)
  PROVE  Counted(o)'
<1>1. ASSUME NEW h \in Hands, HandOver(h) PROVE Counted(o)'
  <2>1. job'[o] = job[o] \/ (job[o] = "none" /\ job'[o] = "pending")
    BY <1>1 DEF HandOver, TypeOK
  <2> QED
    BY <1>1, <2>1, AsideCounts DEF HandOver, histVars
<1>2. ASSUME NEW s \in Schedulers,
             SelectSpecs(s) \/ HandOverFails(s)
               \/ (\E S \in SUBSET Occs, newest \in Occs, late \in SUBSET Occs : Materialize(s, S, newest, late))
               \/ \E p \in Occs : ClaimNext(s, p)
      PROVE  Counted(o)'
  BY <1>2, AsideCounts DEF SelectSpecs, HandOverFails, Materialize, ClaimNext, jobVars, histVars
<1>3. ASSUME NEW h \in Surfaces, NEW p \in Occs, RunNow(h, p) PROVE Counted(o)'
  BY <1>3, AsideCounts DEF RunNow, jobVars, histVars
<1>4. ASSUME NEW h \in Hands, DropHand(h) PROVE Counted(o)'
  BY <1>4, AsideCounts DEF DropHand, jobVars, histVars
<1>5. ASSUME NEW S \in SUBSET Occs, SweepStale(S) PROVE Counted(o)'
  BY <1>5, AsideCounts DEF SweepStale, jobVars, histVars
<1> QED
  BY <1>1, <1>2, <1>3, <1>4, <1>5 DEF ScheduleStep

\* and so are the clock, the owner's switch, plugins and watchers.
LEMMA WorldCounts ==
  ASSUME TypeOK, TypeOK', WorldStep, NEW o \in Occs, Counted(o)
  PROVE  Counted(o)'
<1>1. ASSUME NEW p \in Occs, NearsDue(p) \/ DueElapses(p) \/ WaitElapses(p) PROVE Counted(o)'
  BY <1>1, AsideCounts DEF NearsDue, DueElapses, WaitElapses, jobVars, histVars
<1>2. ASSUME PausePlugin \/ SkipWaiting \/ \E to \in {"on", "off"} : SetServing(to) PROVE Counted(o)'
  BY <1>2, AsideCounts DEF PausePlugin, SkipWaiting, SetServing, jobVars, histVars
<1>3. ASSUME NEW p \in Occs, Join(p) \/ \E c \in BOOLEAN : Wake(p, c) PROVE Counted(o)'
  BY <1>3, AsideCounts DEF Join, Wake, jobVars, histVars
<1> QED
  BY <1>1, <1>2, <1>3 DEF WorldStep

\* A lease taken away leaves at most one run that goes on.
LEMMA LeaseTaken ==
  ASSUME TypeOK, TypeOK', NEW o \in Occs, Counted(o), job[o] \in {"leased", "pending", "suspended", "failed"},
         job'[o] \in {"failed", "cancelled"}, UNCHANGED <<runVars, spoke, amends>>, Again(o)' = Again(o)
  PROVE  Counted(o)'
<1>1. ~MayReport(o)'
  BY DEF MayReport, Holds
<1>2. Orphans(o)' \subseteq Orphans(o) \cup {holder[o]}
  BY DEF Orphans, GoesOn, Holds, runVars
<1>3. CASE MayReport(o)
  BY <1>1, <1>2, <1>3, ChanceMoves
<1>4. CASE ~MayReport(o)
  <2>1. \A w \in Workers : cur[w] = o /\ GoesOn(w) => ~Holds(w, o)
    BY <1>4 DEF MayReport
  <2>2. Orphans(o)' \subseteq Orphans(o)
    BY <2>1 DEF Orphans, GoesOn, Holds, runVars
  <2> QED
    BY <1>1, <2>2, NoChanceWon
<1> QED
  BY <1>3, <1>4

\* The queue and the owner.
LEMMA QueueCounts ==
  ASSUME TypeOK, TypeOK', QueueStep, NEW o \in Occs, Counted(o)
  PROVE  Counted(o)'
<1>1. ASSUME NEW p \in Occs, NEW back \in BOOLEAN, NEW gone \in BOOLEAN, Interrupt(p, back, gone)
      PROVE  Counted(o)'
  <2>1. CASE p # o
    <3>1. Orphans(o)' \subseteq Orphans(o)
      BY <1>1, <2>1 DEF Interrupt, TypeOK, Orphans, GoesOn, Holds, runVars
    <3>2. MayReport(o)' => MayReport(o)
      BY <1>1, <2>1 DEF Interrupt, TypeOK, MayReport, HasSent, Spare, GoesOn, Holds, runVars, histVars
    <3>3. Again(o)' = Again(o)
      BY <1>1, <2>1 DEF Interrupt, Again, histVars
    <3> QED
      BY <1>1, <3>1, <3>2, <3>3, NoChanceWon DEF Interrupt, histVars
  <2>2. CASE p = o /\ back
    <3>1. \A w \in Workers : cur[w] = o => ~GoesOn(w) /\ step[w] # "sent"
      BY <1>1, <2>2 DEF Interrupt, Puttable, GoesOn
    <3>2. Orphans(o)' \subseteq Orphans(o)
      BY <1>1, <3>1 DEF Interrupt, Orphans, GoesOn, runVars
    <3>3. job[o] = "leased" /\ Spare(o) /\ ~HasSent(o)
      BY <1>1, <2>2, <3>1 DEF Interrupt, Puttable, HasSent
    <3>4. spoke'[o] = spoke[o] /\ amends'[o] = amends[o] /\ unsaid' = unsaid /\ requeued' = requeued \cup {o}
      BY <1>1, <2>2 DEF Interrupt, histVars
    <3>5. CASE o \notin unsaid
      <4>1. MayReport(o) /\ Again(o)' = Again(o)
        BY <3>3, <3>4, <3>5 DEF MayReport, Again
      <4> QED
        BY <3>2, <3>4, <4>1, NoChanceWon
    <3>6. CASE o \in unsaid
      <4>1. Again(o) = 0 /\ Again(o)' = 1
        BY <3>3, <3>4, <3>6 DEF Again, Spare
      <4>2. amends'[o] + Again(o)' = amends[o] + Again(o) + 1
        BY <3>4, <4>1 DEF TypeOK
      <4> QED
        BY <3>2, <3>4, <4>2, ChanceGranted
    <3> QED
      BY <3>5, <3>6
  <2>3. CASE p = o /\ ~back
    <3>1. job[o] = "leased" /\ job'[o] = "failed"
      BY <1>1, <2>3 DEF Interrupt, TypeOK
    <3>2. Again(o)' = Again(o)
      BY <1>1, <2>3 DEF Interrupt, Again, histVars
    <3> QED
      BY <1>1, <3>1, <3>2, LeaseTaken DEF Interrupt, histVars
  <2> QED
    BY <2>1, <2>2, <2>3
<1>2. ASSUME NEW p \in Occs, CancelJob(p) PROVE Counted(o)'
  <2>0. Again(o)' = Again(o)
    BY <1>2 DEF CancelJob, Again, histVars
  <2>1. CASE p # o
    <3>1. Orphans(o)' \subseteq Orphans(o)
      BY <1>2, <2>1 DEF CancelJob, TypeOK, Orphans, GoesOn, Holds, runVars
    <3>2. MayReport(o)' => MayReport(o)
      BY <1>2, <2>1 DEF CancelJob, TypeOK, MayReport, HasSent, Spare, GoesOn, Holds, runVars, histVars
    <3> QED
      BY <1>2, <2>0, <3>1, <3>2, NoChanceWon DEF CancelJob, histVars
  <2>2. CASE p = o
    <3>1. job[o] \in {"leased", "pending", "suspended", "failed"} /\ job'[o] = "cancelled"
      BY <1>2, <2>2 DEF CancelJob, TypeOK
    <3> QED
      BY <1>2, <2>0, <3>1, LeaseTaken DEF CancelJob, histVars
  <2> QED
    BY <2>1, <2>2
<1>3. ASSUME NEW p \in Occs, RetryJob(p) PROVE Counted(o)'
  <2>0. Again(o)' = Again(o) /\ Again(o) \in Nat
    BY <1>3 DEF RetryJob, Again
  <2>1. Orphans(o)' \subseteq Orphans(o)
    BY <1>3 DEF RetryJob, TypeOK, Orphans, GoesOn, Holds, runVars
  <2>2. CASE p # o
    <3>1. MayReport(o)' => MayReport(o)
      BY <1>3, <2>2 DEF RetryJob, TypeOK, MayReport, HasSent, Spare, GoesOn, Holds, runVars
    <3>2. spoke'[o] = spoke[o] /\ amends'[o] = amends[o]
      BY <1>3, <2>2 DEF RetryJob, TypeOK
    <3> QED
      BY <2>0, <2>1, <3>1, <3>2, NoChanceWon
  <2>3. CASE p = o
    <3>1. spoke'[o] = spoke[o] /\ amends'[o] = amends[o] + 1 /\ amends[o] \in Nat
      BY <1>3, <2>3 DEF RetryJob, TypeOK
    <3>2. amends'[o] + Again(o)' = amends[o] + Again(o) + 1
      BY <2>0, <3>1
    <3> QED
      BY <2>1, <3>1, <3>2, ChanceGranted
  <2> QED
    BY <2>2, <2>3
<1>4. ASSUME NEW p \in Occs, ResumeJob(p) PROVE Counted(o)'
  <2>1. Orphans(o)' \subseteq Orphans(o)
    BY <1>4 DEF ResumeJob, TypeOK, Orphans, GoesOn, Holds, runVars
  <2>2. MayReport(o)' => MayReport(o)
    <3>1. CASE p = o
      BY <1>4, <3>1 DEF ResumeJob, MayReport
    <3>2. CASE p # o
      BY <1>4, <3>2 DEF ResumeJob, TypeOK, MayReport, HasSent, Spare, GoesOn, Holds, runVars, histVars
    <3> QED
      BY <3>1, <3>2
  <2>3. Again(o)' = Again(o)
    BY <1>4 DEF ResumeJob, Again, histVars
  <2> QED
    BY <1>4, <2>1, <2>2, <2>3, NoChanceWon DEF ResumeJob, histVars
<1> QED
  BY <1>1, <1>2, <1>3, <1>4 DEF QueueStep

\* A worker that takes a job was nobody's run.
LEMMA ClaimCounts ==
  ASSUME TypeOK, TypeOK', NEW w \in Workers, NEW p \in Occs, ClaimJob(w, p), NEW o \in Occs, Counted(o)
  PROVE  Counted(o)'
<1>1. Orphans(o)' \subseteq Orphans(o)
  BY DEF ClaimJob, TypeOK, Orphans, GoesOn, Holds
<1>2. MayReport(o)' => MayReport(o)
  <2>1. CASE p = o
    BY <2>1 DEF ClaimJob, MayReport
  <2>2. CASE p # o
    BY <2>2 DEF ClaimJob, TypeOK, MayReport, HasSent, Spare, GoesOn, Holds, histVars
  <2> QED
    BY <2>1, <2>2
<1>3. Again(o)' = Again(o)
  BY DEF ClaimJob, Again, histVars
<1> QED
  BY <1>1, <1>2, <1>3, NoChanceWon DEF ClaimJob, histVars

\* A step of a worker that neither reports nor tells the queue.
LEMMA OnwardCounts ==
  ASSUME TypeOK, TypeOK', NEW w \in Workers, NEW o \in Occs, Counted(o),
         UNCHANGED <<job, holder, requeued, attempts, spoke, amends, unsaid>>, acted \subseteq acted',
         \A u \in Workers \ {w} : step'[u] = step[u] /\ fate'[u] = fate[u] /\ cur'[u] = cur[u],
         cur'[w] \in {cur[w], None}, step[w] # "sent",
         GoesOn(w)' => GoesOn(w),
         GoesOn(w)' \/ fate'[w] \in {"retry", "park"} => GoesOn(w) \/ fate[w] \in {"retry", "park"}
  PROVE  Counted(o)'
<1>0. None # o
  BY MissionAssumption
<1>1. Orphans(o)' \subseteq Orphans(o)
  BY <1>0 DEF Orphans, GoesOn, Holds
<1>2. HasSent(o) => HasSent(o)'
  BY DEF HasSent, Holds
<1>3. MayReport(o)' => MayReport(o)
  BY <1>0, <1>2 DEF MayReport, Spare, GoesOn, Holds
<1> QED
  BY <1>1, <1>3, NoChanceWon DEF Again

\* The owner hears: of the job's one chance, or of that of a run whose lease is gone.
LEMMA DeliverCounts ==
  ASSUME TypeOK, TypeOK', NEW w \in Workers, RunFits(w), Deliver(w), NEW o \in Occs, Counted(o)
  PROVE  Counted(o)'
<1>0. cur[w] \in Occs /\ GoesOn(w) /\ ~GoesOn(w)' /\ fate'[w] = "none" /\ step[w] # "sent" /\ step'[w] = "sent"
  BY DEF Deliver, Goes, RunFits, TypeOK, GoesOn, InMission
<1>1. \A u \in Workers \ {w} : step'[u] = step[u] /\ fate'[u] = fate[u]
  BY DEF Deliver, Goes, TypeOK
<1>2. UNCHANGED <<cur, job, holder, acted, requeued, attempts, unsaid, amends>>
  BY DEF Deliver, jobVars
<1>3. Orphans(o)' \subseteq Orphans(o) \ {w}
  BY <1>0, <1>1, <1>2 DEF Orphans, GoesOn, Holds
<1>4. HasSent(o) => HasSent(o)'
  BY <1>0, <1>1, <1>2 DEF HasSent, Holds
<1>5. Again(o)' = Again(o)
  BY <1>2 DEF Again
<1>6. CASE ~(Holds(w, o) /\ cur[w] = o)
  <2>1. MayReport(o)' => MayReport(o)
    BY <1>0, <1>1, <1>2, <1>4 DEF MayReport, Spare, GoesOn, Holds
  <2>2. CASE cur[w] # o
    <3>1. spoke'[o] = spoke[o]
      BY <1>0, <2>2 DEF Deliver, Says, TypeOK
    <3> QED
      BY <1>2, <1>3, <1>5, <2>1, <3>1, NoChanceWon
  <2>3. CASE cur[w] = o
    <3>1. spoke'[o] = spoke[o] + 1
      BY <2>3 DEF Deliver, Says, TypeOK
    <3>2. w \in Orphans(o)
      BY <1>0, <1>6, <2>3 DEF Orphans
    <3> QED
      BY <1>2, <1>3, <1>5, <2>1, <3>1, <3>2, OrphanReports
  <2> QED
    BY <2>2, <2>3
<1>7. CASE Holds(w, o) /\ cur[w] = o
  <2>1. spoke'[o] = spoke[o] + 1
    BY <1>7 DEF Deliver, Says, TypeOK
  <2>2. MayReport(o)
    BY <1>0, <1>7 DEF MayReport
  <2>3. HasSent(o)'
    BY <1>0, <1>2, <1>7 DEF HasSent, Holds
  <2>4. ~MayReport(o)'
    BY <1>0, <1>2, <1>7, <2>3 DEF MayReport, Holds
  <2> QED
    BY <1>2, <1>3, <1>5, <2>1, <2>2, <2>4, ChanceTaken
<1> QED
  BY <1>6, <1>7

\* The event is there: an interruption would see it now.
LEMMA RecordCounts ==
  ASSUME TypeOK, TypeOK', NEW w \in Workers, RunFits(w), RecordDelivery(w), NEW o \in Occs, Counted(o)
  PROVE  Counted(o)'
<1>0. cur[w] \in Occs /\ ~GoesOn(w)' /\ fate'[w] = "complete"
  BY DEF RecordDelivery, Goes, RunFits, TypeOK, GoesOn, InMission
<1>1. \A u \in Workers \ {w} : step'[u] = step[u] /\ fate'[u] = fate[u]
  BY DEF RecordDelivery, Goes, TypeOK
<1>2. UNCHANGED <<cur, job, holder, requeued, attempts, unsaid, spoke, amends>> /\ acted \subseteq acted'
  BY DEF RecordDelivery, OnRecord
<1>3. Orphans(o)' \subseteq Orphans(o)
  BY <1>0, <1>1, <1>2 DEF Orphans, GoesOn, Holds
<1>4. Spare(o)' /\ job'[o] = "leased" => cur[w] # o
  BY <1>2 DEF RecordDelivery, OnRecord, Spare
<1>5. cur[w] # o /\ HasSent(o) => HasSent(o)'
  BY <1>1, <1>2 DEF HasSent, Holds
<1>6. MayReport(o)' => MayReport(o)
  BY <1>0, <1>1, <1>2, <1>4, <1>5 DEF MayReport, Spare, GoesOn, Holds
<1> QED
  BY <1>2, <1>3, <1>6, NoChanceWon DEF Again

\* The end fails: the queue may try again, which is one more.
LEMMA EndFailsCounts ==
  ASSUME TypeOK, TypeOK', NEW w \in Workers, RunFits(w), NEW again \in BOOLEAN, EndFails(w, again),
         NEW o \in Occs, Counted(o)
  PROVE  Counted(o)'
<1>0. cur[w] \in Occs /\ ~GoesOn(w)'
  BY DEF EndFails, Throws, Goes, RunFits, TypeOK, GoesOn, InMission
<1>1. \A u \in Workers \ {w} : step'[u] = step[u] /\ fate'[u] = fate[u]
  BY DEF EndFails, Throws, Goes, TypeOK
<1>2. UNCHANGED <<cur, job, holder, acted, requeued, attempts, unsaid, spoke>>
  BY DEF EndFails, jobVars
<1>3. Orphans(o)' \subseteq Orphans(o)
  BY <1>0, <1>1, <1>2 DEF Orphans, GoesOn, Holds
<1>4. Again(o)' = Again(o) /\ Again(o) \in Nat
  BY <1>2 DEF Again
<1>5. CASE cur[w] = o
  <2>1. amends'[o] = amends[o] + 1 /\ amends[o] \in Nat
    BY <1>5 DEF EndFails, TypeOK
  <2>2. amends'[o] + Again(o)' = amends[o] + Again(o) + 1
    BY <1>4, <2>1
  <2> QED
    BY <1>2, <1>3, <2>2, ChanceGranted
<1>6. CASE cur[w] # o
  <2>1. amends'[o] = amends[o]
    BY <1>0, <1>6 DEF EndFails, TypeOK
  <2>2. HasSent(o) => HasSent(o)'
    BY <1>1, <1>2, <1>6 DEF HasSent, Holds
  <2>3. MayReport(o)' => MayReport(o)
    BY <1>1, <1>2, <1>6, <2>2 DEF MayReport, Spare, GoesOn, Holds
  <2> QED
    BY <1>2, <1>3, <1>4, <2>1, <2>3, NoChanceWon
<1> QED
  BY <1>5, <1>6

\* The run is gone: if it has sent what nothing on record tells of, its job may be put
\* back, but that chance is the one Again counts.
LEMMA AbandonCounts ==
  ASSUME TypeOK, TypeOK', NEW w \in Workers, RunFits(w), Abandon(w), NEW o \in Occs, Counted(o)
  PROVE  Counted(o)'
<1>0. cur[w] \in Occs /\ ~GoesOn(w)' /\ fate'[w] = "none" /\ cur'[w] = None /\ None # o
  BY MissionAssumption DEF Abandon, InRun, Leaves, Goes, RunFits, TypeOK, GoesOn, InMission
<1>1. \A u \in Workers \ {w} : step'[u] = step[u] /\ fate'[u] = fate[u] /\ cur'[u] = cur[u]
  BY DEF Abandon, Leaves, Goes, TypeOK
<1>2. UNCHANGED <<job, holder, acted, requeued, attempts, spoke, amends>>
  BY DEF Abandon, jobVars
<1>3. Orphans(o)' \subseteq Orphans(o)
  BY <1>0, <1>1, <1>2 DEF Orphans, GoesOn, Holds
<1>4. Again(o)' = Again(o)
  BY <1>2 DEF Abandon, Unrecorded, Spare, Again
<1>5. CASE Unrecorded(w) /\ cur[w] = o
  <2>1. o \in unsaid'
    BY <1>5 DEF Abandon
  <2>2. MayReport(o)' => MayReport(o)
    BY <1>0, <1>1, <1>2, <2>1 DEF MayReport, GoesOn, Holds
  <2> QED
    BY <1>2, <1>3, <1>4, <2>2, NoChanceWon
<1>6. CASE ~(Unrecorded(w) /\ cur[w] = o)
  <2>1. o \in unsaid' <=> o \in unsaid
    BY <1>0, <1>6 DEF Abandon
  <2>2. HasSent(o) /\ Spare(o) => HasSent(o)'
    BY <1>1, <1>2, <1>6 DEF HasSent, Holds, Unrecorded
  <2>3. MayReport(o)' => MayReport(o)
    BY <1>0, <1>1, <1>2, <2>1, <2>2 DEF MayReport, Spare, GoesOn, Holds
  <2> QED
    BY <1>2, <1>3, <1>4, <2>3, NoChanceWon
<1> QED
  BY <1>5, <1>6

\* What a run tells the queue: a job it parks or tries again had its chance still.
LEMMA ReportCounts ==
  ASSUME TypeOK, TypeOK', NEW w \in Workers, RunFits(w), NEW keeps \in BOOLEAN, Report(w, keeps),
         NEW o \in Occs, Counted(o)
  PROVE  Counted(o)'
<1>0. cur[w] \in Occs /\ ~GoesOn(w) /\ ~GoesOn(w)' /\ cur'[w] = None /\ None # o
  BY MissionAssumption DEF Report, Leaves, Goes, RunFits, TypeOK, GoesOn, InMission
<1>1. \A u \in Workers \ {w} : step'[u] = step[u] /\ fate'[u] = fate[u] /\ cur'[u] = cur[u]
  BY DEF Report, Leaves, Goes, TypeOK
<1>2. UNCHANGED <<spoke, amends, unsaid, requeued, attempts>> /\ Again(o)' = Again(o)
  BY DEF Report, histVars, Again
<1>3. step[w] # "sent"
  BY DEF Report
<1>4. CASE Holds(w, o) /\ cur[w] = o
  <2>1. job'[o] = Told(fate[w], o)
    BY <1>4 DEF Report, TypeOK
  <2>2. job'[o] \in {"pending", "suspended"} => fate[w] \in {"retry", "park"}
    BY <2>1 DEF Told
  <2>3. job'[o] \notin {"none", "leased"}
    BY <2>1 DEF Told
  <2>4. MayReport(o)' => MayReport(o)
    BY <1>4, <2>2, <2>3 DEF MayReport, Holds
  <2>5. Orphans(o)' \subseteq Orphans(o)
    BY <1>0, <1>1, <1>4 DEF Orphans, GoesOn, Holds
  <2> QED
    BY <1>2, <2>4, <2>5, NoChanceWon
<1>5. CASE ~(Holds(w, o) /\ cur[w] = o)
  <2>1. job'[o] = job[o] /\ holder'[o] = holder[o] /\ (o \in acted' <=> o \in acted)
    BY <1>0, <1>5 DEF Report, Holds, TypeOK
  <2>2. Orphans(o)' \subseteq Orphans(o)
    BY <1>0, <1>1, <2>1 DEF Orphans, GoesOn, Holds
  <2>3. HasSent(o) => HasSent(o)'
    BY <1>1, <1>3, <2>1 DEF HasSent, Holds
  <2>4. MayReport(o)' => MayReport(o)
    BY <1>0, <1>1, <1>2, <2>1, <2>3 DEF MayReport, Spare, GoesOn, Holds
  <2> QED
    BY <1>2, <2>2, <2>4, NoChanceWon
<1> QED
  BY <1>4, <1>5

\* The runs.
LEMMA RunCounts ==
  ASSUME TypeOK, TypeOK', NEW w \in Workers, RunFits(w), RunStep(w), NEW o \in Occs, Counted(o)
  PROVE  Counted(o)'
<1>1. CASE \E p \in Occs : ClaimJob(w, p)
  BY <1>1, ClaimCounts
<1>2. CASE ReadOccurrence(w)
  BY <1>2, OnwardCounts DEF ReadOccurrence, Goes, GoesOn, InMission, TypeOK, jobVars, histVars
<1>3. CASE CallReport(w)
  BY <1>3, OnwardCounts DEF CallReport, OnRecord, Goes, GoesOn, InMission, TypeOK, histVars
<1>4. CASE EndSilent(w) \/ WaitForOwner(w)
  BY <1>4, OnwardCounts DEF EndSilent, WaitForOwner, Goes, GoesOn, InMission, TypeOK, jobVars
<1>5. CASE \E b \in BOOLEAN : RunFails(w, b)
  BY <1>5, OnwardCounts DEF RunFails, Throws, Goes, GoesOn, InMission, TypeOK, jobVars, histVars
<1>6. CASE CloseOccurrence(w)
  BY <1>6, OnwardCounts DEF CloseOccurrence, Goes, GoesOn, InMission, TypeOK, jobVars, histVars
<1>7. CASE Deliver(w)
  BY <1>7, DeliverCounts
<1>8. CASE RecordDelivery(w)
  BY <1>8, RecordCounts
<1>9. CASE \E b \in BOOLEAN : EndFails(w, b)
  BY <1>9, EndFailsCounts
<1>10. CASE Abandon(w)
  BY <1>10, AbandonCounts
<1>11. CASE \E b \in BOOLEAN : Report(w, b)
  BY <1>11, ReportCounts
<1> QED
  BY <1>1, <1>2, <1>3, <1>4, <1>5, <1>6, <1>7, <1>8, <1>9, <1>10, <1>11 DEF RunStep

-----------------------------------------------------------------------------
(* A call of mission.report is on record as long as the lease is the run's *)

\* Whoever steps, a run that stays where it is keeps its record.
LEMMA CallStays ==
  ASSUME NEW v \in Workers, RunFits(v), CallFits(v), step'[v] = step[v], cur'[v] = cur[v],
         \A p \in Occs : Holds(v, p)' => Holds(v, p) /\ (p \in acted => p \in acted')
  PROVE  CallFits(v)'
<1>1. CASE step[v] = "idle"
  BY <1>1 DEF CallFits
<1>2. CASE step[v] # "idle"
  BY <1>2 DEF CallFits, RunFits, Holds
<1> QED
  BY <1>1, <1>2

\* The scheduler and the world give no lease and take no record.
LEMMA AsideCalls ==
  ASSUME NEW v \in Workers, RunFits(v), CallFits(v), UNCHANGED <<runVars, holder, acted>>,
         \A p \in Occs : job'[p] = "leased" => job[p] = "leased"
  PROVE  CallFits(v)'
BY CallStays DEF runVars, Holds

LEMMA ScheduleCalls ==
  ASSUME TypeOK, ScheduleStep, NEW v \in Workers, RunFits(v), CallFits(v)
  PROVE  CallFits(v)'
<1>1. ASSUME NEW h \in Hands, HandOver(h) PROVE CallFits(v)'
  <2>1. \A p \in Occs : job'[p] = "leased" => job[p] = "leased"
    BY <1>1 DEF HandOver, TypeOK
  <2> QED
    BY <1>1, <2>1, AsideCalls DEF HandOver
<1>2. ASSUME NEW s \in Schedulers,
             SelectSpecs(s) \/ HandOverFails(s)
               \/ (\E S \in SUBSET Occs, newest \in Occs, late \in SUBSET Occs : Materialize(s, S, newest, late))
               \/ \E p \in Occs : ClaimNext(s, p)
      PROVE  CallFits(v)'
  BY <1>2, AsideCalls DEF SelectSpecs, HandOverFails, Materialize, ClaimNext, jobVars
<1>3. ASSUME NEW h \in Surfaces, NEW p \in Occs, RunNow(h, p) PROVE CallFits(v)'
  BY <1>3, AsideCalls DEF RunNow, jobVars
<1>4. ASSUME NEW h \in Hands, DropHand(h) PROVE CallFits(v)'
  BY <1>4, AsideCalls DEF DropHand, jobVars
<1>5. ASSUME NEW S \in SUBSET Occs, SweepStale(S) PROVE CallFits(v)'
  BY <1>5, AsideCalls DEF SweepStale, jobVars
<1> QED
  BY <1>1, <1>2, <1>3, <1>4, <1>5 DEF ScheduleStep

LEMMA WorldCalls ==
  ASSUME TypeOK, WorldStep, NEW v \in Workers, RunFits(v), CallFits(v)
  PROVE  CallFits(v)'
<1>1. ASSUME NEW p \in Occs, NearsDue(p) \/ DueElapses(p) \/ WaitElapses(p) PROVE CallFits(v)'
  BY <1>1, AsideCalls DEF NearsDue, DueElapses, WaitElapses, jobVars
<1>2. ASSUME PausePlugin \/ SkipWaiting \/ \E to \in {"on", "off"} : SetServing(to) PROVE CallFits(v)'
  BY <1>2, AsideCalls DEF PausePlugin, SkipWaiting, SetServing, jobVars
<1>3. ASSUME NEW p \in Occs, Join(p) \/ \E c \in BOOLEAN : Wake(p, c) PROVE CallFits(v)'
  BY <1>3, AsideCalls DEF Join, Wake, jobVars
<1> QED
  BY <1>1, <1>2, <1>3 DEF WorldStep

\* An interruption and a cancel take the lease with the record.
LEMMA QueueCalls ==
  ASSUME TypeOK, QueueStep, NEW v \in Workers, RunFits(v), CallFits(v)
  PROVE  CallFits(v)'
<1>1. ASSUME NEW o \in Occs, NEW back \in BOOLEAN, NEW gone \in BOOLEAN, Interrupt(o, back, gone)
      PROVE  CallFits(v)'
  <2>1. \A p \in Occs : Holds(v, p)' => Holds(v, p) /\ (p \in acted => p \in acted')
    BY <1>1 DEF Interrupt, TypeOK, Holds
  <2> QED
    BY <1>1, <2>1, CallStays DEF Interrupt, runVars
<1>2. ASSUME NEW o \in Occs, CancelJob(o) PROVE CallFits(v)'
  <2>1. \A p \in Occs : Holds(v, p)' => Holds(v, p) /\ (p \in acted => p \in acted')
    BY <1>2 DEF CancelJob, TypeOK, Holds
  <2> QED
    BY <1>2, <2>1, CallStays DEF CancelJob, runVars
<1>3. ASSUME NEW o \in Occs, RetryJob(o) PROVE CallFits(v)'
  <2>1. \A p \in Occs : job'[p] = "leased" => job[p] = "leased"
    BY <1>3 DEF RetryJob, TypeOK
  <2> QED
    BY <1>3, <2>1, AsideCalls DEF RetryJob
<1>4. ASSUME NEW o \in Occs, ResumeJob(o) PROVE CallFits(v)'
  <2>1. \A p \in Occs : job'[p] = "leased" => job[p] = "leased"
    BY <1>4 DEF ResumeJob, TypeOK
  <2> QED
    BY <1>4, <2>1, AsideCalls DEF ResumeJob
<1> QED
  BY <1>1, <1>2, <1>3, <1>4 DEF QueueStep

\* A run that goes on keeps the record of its call, and no other run takes it.
LEMMA RunCalls ==
  ASSUME TypeOK, TypeOK', NEW w \in Workers, RunFits(w), RunStep(w),
         NEW v \in Workers, RunFits(v), CallFits(v)
  PROVE  CallFits(v)'
<1>0. None # v
  BY MissionAssumption
<1>1. CASE v # w
  <2>1. step'[v] = step[v] /\ cur'[v] = cur[v]
    BY <1>1 DEF TypeOK, RunStep, ReadOccurrence, CallReport, Deliver, RecordDelivery, EndSilent, WaitForOwner,
         CloseOccurrence, Abandon, ClaimJob, RunFails, EndFails, Throws, Report, Leaves, Goes
  <2>2. ASSUME NEW p \in Occs, ClaimJob(w, p) PROVE CallFits(v)'
    <3>1. \A q \in Occs : Holds(v, q)' => Holds(v, q) /\ (q \in acted => q \in acted')
      BY <1>1, <2>2 DEF ClaimJob, TypeOK, Holds
    <3> QED
      BY <2>1, <3>1, CallStays
  <2>3. ASSUME NEW b \in BOOLEAN, Report(w, b) PROVE CallFits(v)'
    <3>1. \A q \in Occs : Holds(v, q)' => Holds(v, q) /\ (q \in acted => q \in acted')
      BY <1>0, <1>1, <2>3 DEF Report, TypeOK, Holds
    <3> QED
      BY <2>1, <3>1, CallStays
  <2>4. CASE UNCHANGED <<job, holder>> /\ acted \subseteq acted'
    <3>1. \A q \in Occs : Holds(v, q)' => Holds(v, q) /\ (q \in acted => q \in acted')
      BY <2>4 DEF Holds
    <3> QED
      BY <2>1, <3>1, CallStays
  <2>5. CASE CallReport(w) \/ RecordDelivery(w)
    BY <2>4, <2>5 DEF CallReport, RecordDelivery, OnRecord
  <2>6. CASE \/ ReadOccurrence(w) \/ Deliver(w) \/ EndSilent(w) \/ WaitForOwner(w) \/ CloseOccurrence(w)
             \/ Abandon(w) \/ \E b \in BOOLEAN : RunFails(w, b) \/ EndFails(w, b)
    BY <2>4, <2>6 DEF ReadOccurrence, Deliver, EndSilent, WaitForOwner, CloseOccurrence, Abandon,
         RunFails, EndFails, jobVars
  <2> QED
    BY <2>2, <2>3, <2>5, <2>6 DEF RunStep
<1>2. CASE v = w
  <2>1. CASE CallReport(w)
    BY <1>2, <2>1 DEF CallReport, OnRecord, CallFits, Holds
  <2>2. CASE Deliver(w)
    <3>1. step[w] = "sending" \/ AlwaysDeliver
      BY <2>2 DEF Deliver
    <3>2. step'[w] = "sent" /\ UNCHANGED <<job, holder, acted, cur>>
      BY <2>2 DEF Deliver, Goes, TypeOK, jobVars
    <3> QED
      BY <1>2, <3>1, <3>2 DEF CallFits, Holds
  <2>3. CASE step'[w] \notin {"sending", "sent"}
    BY <1>2, <2>3 DEF CallFits
  <2>4. CASE ReadOccurrence(w) \/ RecordDelivery(w) \/ EndSilent(w) \/ WaitForOwner(w) \/ CloseOccurrence(w)
    BY <2>3, <2>4 DEF TypeOK, ReadOccurrence, RecordDelivery, EndSilent, WaitForOwner, CloseOccurrence, Goes
  <2>5. CASE \E b \in BOOLEAN : RunFails(w, b) \/ EndFails(w, b)
    BY <2>3, <2>5 DEF TypeOK, RunFails, EndFails, Throws, Goes
  <2>6. CASE Abandon(w) \/ (\E o \in Occs : ClaimJob(w, o)) \/ \E b \in BOOLEAN : Report(w, b)
    BY <2>3, <2>6 DEF TypeOK, Abandon, ClaimJob, Report, Leaves, Goes
  <2> QED
    BY <2>1, <2>2, <2>4, <2>5, <2>6 DEF RunStep
<1> QED
  BY <1>1, <1>2

-----------------------------------------------------------------------------
(* A mission reports once                                                  *)

\* At the start there are no runs, and every occurrence has its one chance.
LEMMA InitCounts == Init => ChancesCounted
<1> SUFFICES ASSUME Init PROVE ChancesCounted
  OBVIOUS
<1>1. ASSUME NEW w \in Workers PROVE CallFits(w)
  BY DEF Init, CallFits
<1>2. ASSUME NEW o \in Occs PROVE Counted(o)
  <2>1. Orphans(o) = {}
    BY DEF Init, Orphans, GoesOn, InMission
  <2>2. spoke[o] = 0 /\ amends[o] = 0 /\ Again(o) = 0
    BY DEF Init, Again
  <2> QED
    BY <2>1, <2>2, FS_EmptySet DEF Counted, Chances
<1> QED
  BY <1>1, <1>2 DEF ChancesCounted

\* Every step keeps the records of the runs and the count of every occurrence.
LEMMA CountStep ==
  ASSUME MissionInv, MissionInv', ChancesCounted, [Next]_vars
  PROVE  ChancesCounted'
<1>0. TypeOK /\ TypeOK' /\ \A w \in Workers : RunFits(w)
  BY DEF MissionInv
<1>1. ASSUME NEW v \in Workers PROVE CallFits(v)'
  <2>1. CallFits(v)
    BY DEF ChancesCounted
  <2>2. CASE ScheduleStep
    BY <1>0, <2>1, <2>2, ScheduleCalls
  <2>3. CASE WorldStep
    BY <1>0, <2>1, <2>3, WorldCalls
  <2>4. CASE QueueStep
    BY <1>0, <2>1, <2>4, QueueCalls
  <2>5. CASE \E w \in Workers : RunStep(w)
    BY <1>0, <2>1, <2>5, RunCalls
  <2>6. CASE UNCHANGED vars
    BY <1>0, <2>1, <2>6, AsideCalls DEF vars, jobVars
  <2> QED
    BY <2>2, <2>3, <2>4, <2>5, <2>6 DEF Next
<1>2. ASSUME NEW o \in Occs PROVE Counted(o)'
  <2>1. Counted(o)
    BY DEF ChancesCounted
  <2>2. CASE ScheduleStep
    BY <1>0, <2>1, <2>2, ScheduleCounts
  <2>3. CASE WorldStep
    BY <1>0, <2>1, <2>3, WorldCounts
  <2>4. CASE QueueStep
    BY <1>0, <2>1, <2>4, QueueCounts
  <2>5. CASE \E w \in Workers : RunStep(w)
    BY <1>0, <2>1, <2>5, RunCounts
  <2>6. CASE UNCHANGED vars
    BY <1>0, <2>1, <2>6, AsideCounts DEF vars, jobVars, histVars
  <2> QED
    BY <2>2, <2>3, <2>4, <2>5, <2>6 DEF Next
<1> QED
  BY <1>1, <1>2 DEF ChancesCounted

\* In every reachable state, for any number of occurrences, workers and schedulers, a run
\* that called mission.report has it on record while the lease is its own, and the reports
\* made and the chances left add up to no more than one, the amends and the put-back of a
\* job whose delivery nothing on record tells of.
THEOREM ChancesAreCounted == Spec => []ChancesCounted
<1>1. MissionInv /\ MissionInv' /\ ChancesCounted /\ [Next]_vars => ChancesCounted'
  BY CountStep
<1> QED
  BY <1>1, InitCounts, MissionInvariant, PTL DEF Spec

\* So the owner hears of an occurrence once, and once more only for a run asked for again,
\* for an error thrown after the report, and for a job put back by an interruption that
\* found nothing of a delivery that mission.delivered had yet to tell of.
THEOREM MissionsSpeakOnce == Spec => []SpeaksOnce
<1>1. MissionInv /\ ChancesCounted => SpeaksOnce
  <2> SUFFICES ASSUME MissionInv, ChancesCounted, NEW o \in Occs PROVE spoke[o] <= 1 + amends[o] + Again(o)
    BY DEF SpeaksOnce
  <2>1. IsFiniteSet(Orphans(o)) /\ spoke[o] + Chances(o) <= 1 + amends[o] + Again(o)
    BY DEF ChancesCounted, Counted
  <2>2. Cardinality(Orphans(o)) \in Nat
    BY <2>1, FS_CardinalityType
  <2>3. spoke[o] \in Nat /\ amends[o] \in Nat /\ Again(o) \in Nat
    BY DEF MissionInv, TypeOK, Again
  <2> QED
    BY <2>1, <2>2, <2>3 DEF Chances
<1> QED
  BY <1>1, MissionInvariant, ChancesAreCounted, PTL

-----------------------------------------------------------------------------
(* A mission that reports only when it calls                               *)

\* Its run leaves a record before the owner hears, so no delivery goes without one.
LEMMA NothingUnsaid ==
  ASSUME ~AlwaysDeliver, MissionInv, ChancesCounted, unsaid = {}, [Next]_vars
  PROVE  unsaid' = {}
<1>1. ASSUME NEW w \in Workers, Abandon(w) PROVE unsaid' = {}
  <2>1. ~Unrecorded(w)
    BY DEF ChancesCounted, CallFits, Unrecorded, Spare
  <2> QED
    BY <1>1, <2>1 DEF Abandon
<1>2. CASE ScheduleStep
  BY <1>2 DEF ScheduleStep, SelectSpecs, HandOverFails, Materialize, ClaimNext, RunNow, HandOver, DropHand,
       SweepStale, histVars
<1>3. CASE WorldStep
  BY <1>3 DEF WorldStep, NearsDue, DueElapses, WaitElapses, SetServing, PausePlugin, SkipWaiting, Join, Wake, histVars
<1>4. CASE QueueStep
  BY <1>4 DEF QueueStep, CancelJob, RetryJob, ResumeJob, Interrupt, histVars
<1>5. ASSUME NEW w \in Workers, RunStep(w) PROVE unsaid' = {}
  BY <1>1, <1>5 DEF RunStep, ReadOccurrence, CallReport, Deliver, RecordDelivery, EndSilent, WaitForOwner,
       CloseOccurrence, ClaimJob, RunFails, EndFails, Report, histVars
<1>6. CASE UNCHANGED vars
  BY <1>6 DEF vars, histVars
<1> QED
  BY <1>2, <1>3, <1>4, <1>5, <1>6 DEF Next

\* jobs.ts:430 holds of such a mission without exception: no interruption, however it
\* falls between the call, the delivery and mission.delivered, makes it report again.
THEOREM OrdinaryMissionsSpeakOnce ==
  ASSUME ~AlwaysDeliver
  PROVE  Spec => [](\A o \in Occs : spoke[o] <= 1 + amends[o])
<1>1. Init => unsaid = {}
  BY DEF Init
<1>2. MissionInv /\ ChancesCounted /\ unsaid = {} /\ [Next]_vars => (unsaid = {})'
  BY NothingUnsaid
<1>3. MissionInv /\ SpeaksOnce /\ unsaid = {} => \A o \in Occs : spoke[o] <= 1 + amends[o]
  BY DEF MissionInv, TypeOK, SpeaksOnce, Again
<1> QED
  BY <1>1, <1>2, <1>3, MissionInvariant, ChancesAreCounted, MissionsSpeakOnce, PTL DEF Spec
=============================================================================
