--------------------------- MODULE JobQueueProofs ---------------------------
(***************************************************************************)
(* What holds of the queue for any jobs, any boots and any bounds: the     *)
(* types, the soundness of the holder fence, and the attempts budget.      *)
(***************************************************************************)
EXTENDS JobQueue, TLAPS

\* The initial state is well typed.
LEMMA InitType == Init => TypeOK
<1> SUFFICES ASSUME Init PROVE TypeOK
  OBVIOUS
<1>1. /\ state \in [Jobs -> JobState] /\ holder \in [Jobs -> Workers \cup {None}]
      /\ lapsed \subseteq Jobs /\ due \subseteq Jobs
      /\ attempts \in [Jobs -> Nat] /\ cap \in [Jobs -> Nat \ {0}] /\ quiet \subseteq Jobs
      /\ acted \subseteq Jobs /\ requeues \in [Jobs -> Nat] /\ paused \in BOOLEAN
  BY QueueAssumption DEF Init, JobState
<1>2. /\ claims \in [Jobs -> Nat] /\ acts \in [Jobs -> SUBSET Nat]
      /\ putBack \in [Jobs -> SUBSET Nat] /\ misfired \subseteq Jobs
  BY DEF Init
<1>3. /\ proc \in [Workers -> ProcState] /\ pc \in [Workers -> LoopState]
      /\ cur \in [Workers -> Jobs \cup {None}] /\ ticket \in [Workers -> Nat]
      /\ lost \subseteq Workers /\ overdue \subseteq Workers
      /\ verdict \in [Workers -> Verdict]
  BY DEF Init, ProcState, LoopState, Verdict
<1>4. /\ passes \in [Workers -> SUBSET Via] /\ seen \in [Workers -> SUBSET Candidate]
      /\ unlogged \in [Workers -> SUBSET Settled]
  BY DEF Init
<1> QED
  BY <1>1, <1>2, <1>3, <1>4 DEF TypeOK

\* The owner's statements keep the types.
LEMMA OwnerType == TypeOK /\ OwnerStep => TypeOK'
<1> SUFFICES ASSUME TypeOK, OwnerStep PROVE TypeOK'
  OBVIOUS
<1>1. ASSUME NEW j \in Jobs, Resume(j) PROVE TypeOK'
  BY <1>1 DEF TypeOK, Resume, JobState, eventVars, histVars, runVars, passVars
<1>2. ASSUME NEW j \in Jobs, Cancel(j) PROVE TypeOK'
  BY <1>2 DEF TypeOK, Cancel, JobState, eventVars, histVars, runVars, passVars
<1>3. ASSUME NEW j \in Jobs, Dismiss(j) PROVE TypeOK'
  BY <1>3 DEF TypeOK, Dismiss, leaseVars, eventVars, histVars, runVars, passVars
<1>4. ASSUME NEW j \in Jobs, Undismiss(j) PROVE TypeOK'
  BY <1>4 DEF TypeOK, Undismiss, leaseVars, eventVars, histVars, runVars, passVars
<1>5. ASSUME NEW S \in SUBSET Jobs, Retry(S) PROVE TypeOK'
  BY <1>5, QueueAssumption
     DEF TypeOK, Retry, JobState, eventVars, histVars, runVars, passVars
<1>6. ASSUME NEW on \in BOOLEAN, SetPaused(on) PROVE TypeOK'
  BY <1>6 DEF TypeOK, SetPaused, rowVars, eventVars, histVars, runVars, passVars
<1> QED
  BY <1>1, <1>2, <1>3, <1>4, <1>5, <1>6 DEF OwnerStep

\* So do an enqueue and the clock,
LEMMA ClockType == TypeOK /\ (EnqueueStep \/ ClockStep) => TypeOK'
<1> SUFFICES ASSUME TypeOK, EnqueueStep \/ ClockStep PROVE TypeOK'
  OBVIOUS
<1>1. ASSUME NEW j \in Jobs, NEW n \in Caps, NEW ready \in BOOLEAN, Enqueue(j, n, ready)
      PROVE TypeOK'
  BY <1>1, QueueAssumption
     DEF TypeOK, Enqueue, JobState, eventVars, histVars, runVars, passVars
<1>2. ASSUME NEW j \in Jobs, BackoffElapses(j) PROVE TypeOK'
  BY <1>2 DEF TypeOK, BackoffElapses, eventVars, histVars, runVars, passVars
<1>3. ASSUME NEW j \in Jobs, Lapse(j) PROVE TypeOK'
  BY <1>3 DEF TypeOK, Lapse, eventVars, histVars, runVars, passVars
<1>4. ASSUME NEW w \in Workers, DeadlinePasses(w) PROVE TypeOK'
  BY <1>4 DEF TypeOK, DeadlinePasses, rowVars, eventVars, histVars, passVars
<1> QED
  BY <1>1, <1>2, <1>3, <1>4 DEF EnqueueStep, ClockStep

\* A lease of a row names a worker, so what a pass reads is a set of candidates.
LEMMA CandidatesType ==
  ASSUME TypeOK, LeasesAreHeld, NEW w \in Workers, NEW via \in Via, NEW b \in BOOLEAN
  PROVE Candidates(w, via, b) \subseteq Candidate
<1>1. ASSUME NEW j \in Scope(w, via)
      PROVE  [job |-> j, holder |-> holder[j], claim |-> claims[j], via |-> via,
              requeue |-> b /\ j \notin acted /\ requeues[j] = 0 /\ attempts[j] < cap[j]]
             \in Candidate
  <2>1. j \in Jobs /\ holder[j] \in Workers /\ claims[j] \in Nat
    BY <1>1 DEF TypeOK, LeasesAreHeld, Scope
  <2>2. (b /\ j \notin acted /\ requeues[j] = 0 /\ attempts[j] < cap[j]) \in BOOLEAN
    OBVIOUS
  <2> QED
    BY <2>1, <2>2 DEF Candidate
<1> QED
  BY <1>1 DEF Candidates

\* the statements of an interruption pass,
LEMMA PassType ==
  ASSUME TypeOK, LeasesAreHeld, NEW w \in Workers,
         Start(w) \/ Sweep(w) \/ StopPass(w) \/ PassWork(w)
  PROVE TypeOK'
<1>1. CASE Start(w)
  <2>1. Candidates(w, "start", TRUE) \subseteq Candidate
    BY CandidatesType DEF Via
  <2> QED
    BY <1>1, <2>1 DEF TypeOK, Start, BeginPass, ProcState, Via, rowVars, eventVars, histVars, runVars
<1>2. CASE Sweep(w)
  <2>1. Candidates(w, "sweep", TRUE) \subseteq Candidate
    BY CandidatesType DEF Via
  <2> QED
    BY <1>2, <2>1 DEF TypeOK, Sweep, BeginPass, Via, rowVars, eventVars, histVars, runVars
<1>3. CASE StopPass(w)
  <2>1. Candidates(w, "stop", LoopExited(w)) \subseteq Candidate
    BY CandidatesType DEF Via, LoopExited
  <2> QED
    BY <1>3, <2>1 DEF TypeOK, StopPass, BeginPass, Via, rowVars, eventVars, histVars, runVars
<1>4. ASSUME NEW c \in seen[w], Settle(w, c) PROVE TypeOK'
  <2>1. c \in Candidate /\ c.job \in Jobs /\ c.via \in Via /\ c.requeue \in BOOLEAN /\ claims[c.job] \in Nat
    BY DEF TypeOK, Candidate
  <2>2. CASE state[c.job] = "leased" /\ holder[c.job] = c.holder
    <3>1. state' \in [Jobs -> JobState] /\ holder' \in [Jobs -> Workers \cup {None}]
      BY <1>4, <2>1, <2>2 DEF TypeOK, Settle, JobState
    <3>0. lapsed' \subseteq Jobs /\ due' \subseteq Jobs /\ quiet' \subseteq Jobs
      BY <1>4, <2>1, <2>2 DEF TypeOK, Settle
    <3>2. putBack' \in [Jobs -> SUBSET Nat]
      BY <1>4, <2>1, <2>2 DEF TypeOK, Settle
    <3>3. misfired' \subseteq Jobs
      BY <1>4, <2>1, <2>2 DEF TypeOK, Settle
    <3>4. unlogged' \in [Workers -> SUBSET Settled]
      BY <1>4, <2>1, <2>2 DEF TypeOK, Settle, Settled
    <3> QED
      BY <1>4, <3>0, <3>1, <3>2, <3>3, <3>4 DEF TypeOK, Settle, eventVars, runVars
  <2>3. CASE ~(state[c.job] = "leased" /\ holder[c.job] = c.holder)
    BY <1>4, <2>1, <2>3 DEF TypeOK, Settle, eventVars, runVars
  <2> QED
    BY <2>2, <2>3
<1>5. ASSUME NEW e \in unlogged[w], LogSettled(w, e) PROVE TypeOK'
  BY <1>5 DEF TypeOK, LogSettled, Settled, rowVars, histVars, runVars
<1>6. ASSUME NEW via \in Via, EndPass(w, via) PROVE TypeOK'
  BY <1>6 DEF TypeOK, EndPass, ProcState, rowVars, eventVars, histVars, runVars
<1> QED
  BY <1>1, <1>2, <1>3, <1>4, <1>5, <1>6 DEF PassWork

\* the end of a tick,
LEMMA LoopIdleType ==
  ASSUME TypeOK, NEW w \in Workers, LoopIdle(w)
  PROVE  /\ pc' \in [Workers -> LoopState] /\ cur' \in [Workers -> Jobs \cup {None}]
         /\ ticket' \in [Workers -> Nat] /\ lost' \subseteq Workers /\ overdue' \subseteq Workers
         /\ verdict' \in [Workers -> Verdict]
  BY DEF TypeOK, LoopIdle, LoopState, Verdict

\* and the steps of a tick.
LEMMA RunType ==
  ASSUME TypeOK, BusyHasJob, NEW w \in Workers,
         TickStep(w) \/ RequestStop(w) \/ Crash(w) \/ LoseLease(w) \/ Beat(w) \/ CallTool(w)
  PROVE TypeOK'
<1>1. CASE AskClaim(w)
  BY <1>1 DEF TypeOK, AskClaim, LoopState, rowVars, eventVars, histVars, passVars
<1>2. CASE ClaimNothing(w)
  BY <1>2, LoopIdleType DEF TypeOK, ClaimNothing, rowVars, eventVars, histVars, passVars
<1>3. CASE LogClaim(w)
  BY <1>3 DEF TypeOK, LogClaim, LoopState, rowVars, histVars, passVars
<1>4. ASSUME NEW handled \in BOOLEAN, Begin(w, handled) PROVE TypeOK'
  <2>1. CASE ~Running(w) \/ w \in overdue
    BY <1>4, <2>1, LoopIdleType DEF TypeOK, Begin, rowVars, eventVars, histVars, passVars
  <2>2. CASE ~(~Running(w) \/ w \in overdue)
    BY <1>4, <2>2 DEF TypeOK, Begin, LoopState, Verdict, rowVars, eventVars, histVars, passVars
  <2> QED
    BY <2>1, <2>2
<1>5. CASE Dispatch(w)
  <2>0. cur[w] \in Jobs /\ acts[cur[w]] \subseteq Nat /\ ticket[w] \in Nat
    BY <1>5 DEF TypeOK, Dispatch, BusyHasJob, Holding
  <2>1. acts' \in [Jobs -> SUBSET Nat]
    BY <1>5, <2>0 DEF TypeOK, Dispatch
  <2> QED
    BY <1>5, <2>1 DEF TypeOK, Dispatch, LoopState, rowVars, eventVars, passVars
<1>6. ASSUME NEW j \in Jobs, ClaimJob(w, j) PROVE TypeOK'
  BY <1>6 DEF TypeOK, ClaimJob, JobState, LoopState, eventVars, passVars
<1>7. ASSUME NEW v \in Verdict \ {"none"}, HandlerReturns(w, v) PROVE TypeOK'
  <2>1. CASE Aborted(w)
    BY <1>7, <2>1, LoopIdleType DEF TypeOK, HandlerReturns, rowVars, eventVars, histVars, passVars
  <2>2. CASE ~Aborted(w)
    BY <1>7, <2>2 DEF TypeOK, HandlerReturns, LoopState, rowVars, eventVars, histVars, passVars
  <2> QED
    BY <2>1, <2>2
<1>8. ASSUME NEW wake \in BOOLEAN, Report(w, wake) PROVE TypeOK'
  <2>1. Outcome(cur[w], verdict[w], wake) \in JobState
    BY DEF Outcome, JobState
  <2>0. cur[w] \in Jobs /\ attempts[cur[w]] \in Nat
    BY <1>8 DEF TypeOK, Report, BusyHasJob, Holding
  <2>2. CASE HoldsRow(w)
    <3>1. /\ state' \in [Jobs -> JobState] /\ holder' \in [Jobs -> Workers \cup {None}]
          /\ lapsed' \subseteq Jobs /\ attempts' \in [Jobs -> Nat]
      BY <1>8, <2>0, <2>1, <2>2 DEF TypeOK, Report
    <3>2. due' \subseteq Jobs
      BY <1>8, <2>0, <2>2 DEF TypeOK, Report
    <3>3. quiet' \subseteq Jobs
      BY <1>8, <2>0, <2>2 DEF TypeOK, Report
    <3> QED
      BY <1>8, <3>1, <3>2, <3>3, LoopIdleType
         DEF TypeOK, Report, eventVars, histVars, passVars
  <2>3. CASE ~HoldsRow(w)
    BY <1>8, <2>3, LoopIdleType
       DEF TypeOK, Report, leaseVars, eventVars, histVars, passVars
  <2> QED
    BY <2>2, <2>3
<1>9. CASE RequestStop(w)
  BY <1>9 DEF TypeOK, RequestStop, ProcState, rowVars, eventVars, histVars, runVars, passVars
<1>10. CASE Crash(w)
  BY <1>10, LoopIdleType DEF TypeOK, Crash, ProcState, rowVars, eventVars, histVars
<1>11. CASE LoseLease(w)
  BY <1>11 DEF TypeOK, LoseLease, rowVars, eventVars, histVars, passVars
<1>12. CASE Beat(w)
  BY <1>12 DEF TypeOK, Beat, eventVars, histVars, passVars
<1>13. CASE CallTool(w)
  BY <1>13 DEF TypeOK, BusyHasJob, Holding, CallTool, LoopState, rowVars, histVars, passVars
<1> QED
  BY <1>1, <1>2, <1>3, <1>4, <1>5, <1>6, <1>7, <1>8, <1>9, <1>10, <1>11, <1>12, <1>13 DEF TickStep

\* Types hold after every step.
LEMMA TypeStep == ASSUME QueueInv, [Next]_vars PROVE TypeOK'
<1>1. TypeOK /\ LeasesAreHeld /\ BusyHasJob
  BY DEF QueueInv
<1>2. ASSUME NEW w \in Workers, WorkerStep(w) PROVE TypeOK'
  BY <1>1, <1>2, PassType, RunType DEF WorkerStep
<1>3. CASE UNCHANGED vars
  BY <1>1, <1>3 DEF TypeOK, vars, rowVars, eventVars, histVars, runVars, passVars
<1> QED
  BY <1>1, <1>2, <1>3, OwnerType, ClockType DEF Next

-----------------------------------------------------------------------------
(* The actions, by what they leave alone                                   *)

\* Steps that neither move a row nor touch its lease, its budget or its claims.
QuietStep ==
  \/ \E j \in Jobs : BackoffElapses(j) \/ Lapse(j) \/ Dismiss(j) \/ Undismiss(j)
  \/ \E on \in BOOLEAN : SetPaused(on)
  \/ \E w \in Workers :
       \/ Start(w) \/ Sweep(w) \/ StopPass(w) \/ RequestStop(w) \/ Crash(w)
       \/ AskClaim(w) \/ ClaimNothing(w) \/ LogClaim(w) \/ Dispatch(w)
       \/ \E handled \in BOOLEAN : Begin(w, handled)
       \/ DeadlinePasses(w) \/ LoseLease(w) \/ Beat(w) \/ CallTool(w)
       \/ \E e \in unlogged[w] : LogSettled(w, e)
       \/ \E via \in Via : EndPass(w, via)
       \/ \E v \in Verdict \ {"none"} : HandlerReturns(w, v)
  \/ UNCHANGED vars

\* What those steps leave alone.
LEMMA QuietFrame ==
  ASSUME QuietStep PROVE UNCHANGED <<state, holder, attempts, cap, claims, misfired>>
<1> USE DEF leaseVars, rowVars, histVars
<1>1. ASSUME NEW j \in Jobs, BackoffElapses(j) \/ Lapse(j) \/ Dismiss(j) \/ Undismiss(j)
      PROVE  UNCHANGED <<state, holder, attempts, cap, claims, misfired>>
  BY <1>1 DEF BackoffElapses, Lapse, Dismiss, Undismiss
<1>2. ASSUME NEW on \in BOOLEAN, SetPaused(on)
      PROVE  UNCHANGED <<state, holder, attempts, cap, claims, misfired>>
  BY <1>2 DEF SetPaused
<1>3. ASSUME NEW w \in Workers,
             Start(w) \/ Sweep(w) \/ StopPass(w) \/ RequestStop(w) \/ Crash(w)
      PROVE  UNCHANGED <<state, holder, attempts, cap, claims, misfired>>
  BY <1>3 DEF Start, Sweep, StopPass, RequestStop, Crash
<1>4. ASSUME NEW w \in Workers,
             \/ AskClaim(w) \/ ClaimNothing(w) \/ LogClaim(w) \/ Dispatch(w)
             \/ \E handled \in BOOLEAN : Begin(w, handled)
      PROVE  UNCHANGED <<state, holder, attempts, cap, claims, misfired>>
  BY <1>4 DEF AskClaim, ClaimNothing, LogClaim, Begin, Dispatch
<1>5. ASSUME NEW w \in Workers, DeadlinePasses(w) \/ LoseLease(w) \/ Beat(w) \/ CallTool(w)
      PROVE  UNCHANGED <<state, holder, attempts, cap, claims, misfired>>
  BY <1>5 DEF DeadlinePasses, LoseLease, Beat, CallTool
<1>6. ASSUME NEW w \in Workers, NEW e \in unlogged[w], LogSettled(w, e)
      PROVE  UNCHANGED <<state, holder, attempts, cap, claims, misfired>>
  BY <1>6 DEF LogSettled
<1>7. ASSUME NEW w \in Workers, NEW via \in Via, EndPass(w, via)
      PROVE  UNCHANGED <<state, holder, attempts, cap, claims, misfired>>
  BY <1>7 DEF EndPass
<1>8. ASSUME NEW w \in Workers, NEW v \in Verdict \ {"none"}, HandlerReturns(w, v)
      PROVE  UNCHANGED <<state, holder, attempts, cap, claims, misfired>>
  BY <1>8 DEF HandlerReturns
<1>9. CASE UNCHANGED vars
  BY <1>9 DEF vars
<1> QED
  BY <1>1, <1>2, <1>3, <1>4, <1>5, <1>6, <1>7, <1>8, <1>9 DEF QuietStep

\* Every step is quiet or one of the statements that move a row.
LEMMA NextCases ==
  ASSUME [Next]_vars
  PROVE  \/ QuietStep
         \/ \E j \in Jobs : Resume(j) \/ Cancel(j)
         \/ \E S \in SUBSET Jobs : Retry(S)
         \/ \E j \in Jobs, n \in Caps, ready \in BOOLEAN : Enqueue(j, n, ready)
         \/ \E w \in Workers : \E c \in seen[w] : Settle(w, c)
         \/ \E w \in Workers, j \in Jobs : ClaimJob(w, j)
         \/ \E w \in Workers, wake \in BOOLEAN : Report(w, wake)
  BY DEF Next, OwnerStep, EnqueueStep, ClockStep, WorkerStep, PassWork, TickStep, QuietStep

-----------------------------------------------------------------------------
(* The parts of the invariant                                              *)

\* A row is leased exactly while it names a holder.
LEMMA LeasesAreHeldStep == ASSUME QueueInv, [Next]_vars PROVE LeasesAreHeld'
<1> USE DEF QueueInv
<1>1. CASE QuietStep
  BY <1>1, QuietFrame DEF LeasesAreHeld
<1>2. ASSUME NEW j \in Jobs, Resume(j) \/ Cancel(j) PROVE LeasesAreHeld'
  BY <1>2 DEF LeasesAreHeld, TypeOK, Resume, Cancel
<1>3. ASSUME NEW S \in SUBSET Jobs, Retry(S) PROVE LeasesAreHeld'
  BY <1>3 DEF LeasesAreHeld, TypeOK, Retry, Retryable
<1>4. ASSUME NEW j \in Jobs, NEW n \in Caps, NEW ready \in BOOLEAN, Enqueue(j, n, ready)
      PROVE LeasesAreHeld'
  BY <1>4 DEF LeasesAreHeld, TypeOK, Enqueue
<1>5. ASSUME NEW w \in Workers, NEW c \in seen[w], Settle(w, c) PROVE LeasesAreHeld'
  <2>1. c.job \in Jobs
    BY DEF TypeOK, Candidate
  <2> QED
    BY <1>5, <2>1 DEF LeasesAreHeld, TypeOK, Settle
<1>6. ASSUME NEW w \in Workers, NEW j \in Jobs, ClaimJob(w, j) PROVE LeasesAreHeld'
  BY <1>6, QueueAssumption DEF LeasesAreHeld, TypeOK, ClaimJob
<1>7. ASSUME NEW w \in Workers, NEW wake \in BOOLEAN, Report(w, wake) PROVE LeasesAreHeld'
  <2>1. Outcome(cur[w], verdict[w], wake) # "leased"
    BY DEF Outcome
  <2> QED
    BY <1>7, <2>1 DEF LeasesAreHeld, TypeOK, Report, leaseVars
<1> QED
  BY <1>1, <1>2, <1>3, <1>4, <1>5, <1>6, <1>7, NextCases

\* Of the steps that change where a loop is, all but a claim keep the run in hand or drop it.
LEMMA LoopFrame ==
  ASSUME TypeOK, [Next]_vars,
         ~ \E w \in Workers, j \in Jobs : ClaimJob(w, j)
  PROVE  \A w \in Workers :
           \/ cur'[w] = cur[w] /\ ticket'[w] = ticket[w] /\ (pc'[w] \in Holding <=> pc[w] \in Holding)
           \/ cur'[w] = None /\ pc'[w] \notin Holding
<1> DEFINE Kept(w) == /\ cur'[w] = cur[w] /\ ticket'[w] = ticket[w]
                      /\ pc'[w] \in Holding <=> pc[w] \in Holding
           Dropped(w) == cur'[w] = None /\ pc'[w] \notin Holding
<1>1. CASE UNCHANGED runVars
  BY <1>1 DEF runVars
<1>2. ASSUME NEW w \in Workers, LoopIdle(w) PROVE \A v \in Workers : Kept(v) \/ Dropped(v)
  BY <1>2 DEF LoopIdle, TypeOK, Holding
<1>3. ASSUME NEW w \in Workers, NEW l \in {"asking", "logged", "running", "calling", "reporting"},
             pc' = [pc EXCEPT ![w] = l], UNCHANGED <<cur, ticket>>,
             l \in Holding <=> pc[w] \in Holding
      PROVE  \A v \in Workers : Kept(v) \/ Dropped(v)
  BY <1>3 DEF TypeOK
<1>4. CASE OwnerStep \/ EnqueueStep \/ UNCHANGED vars
  BY <1>1, <1>4 DEF OwnerStep, EnqueueStep, Resume, Cancel, Dismiss, Undismiss, Retry, SetPaused,
     Enqueue, vars
<1>5. CASE ClockStep
  BY <1>5 DEF ClockStep, BackoffElapses, Lapse, DeadlinePasses, runVars
<1>6. ASSUME NEW w \in Workers,
             Start(w) \/ RequestStop(w) \/ Sweep(w) \/ StopPass(w) \/ PassWork(w)
      PROVE  \A v \in Workers : Kept(v) \/ Dropped(v)
  BY <1>1, <1>6 DEF Start, RequestStop, Sweep, StopPass, PassWork, Settle, LogSettled, EndPass
<1>7. ASSUME NEW w \in Workers, LoseLease(w) \/ Beat(w)
      PROVE  \A v \in Workers : Kept(v) \/ Dropped(v)
  BY <1>7 DEF LoseLease, Beat
<1>8. ASSUME NEW w \in Workers, AskClaim(w) \/ LogClaim(w) \/ Dispatch(w) \/ CallTool(w)
      PROVE  \A v \in Workers : Kept(v) \/ Dropped(v)
  BY <1>8, <1>3 DEF AskClaim, LogClaim, Dispatch, CallTool, Holding
<1>9. ASSUME NEW w \in Workers, NEW handled \in BOOLEAN, Begin(w, handled) PROVE \A v \in Workers : Kept(v) \/ Dropped(v)
  BY <1>9, <1>2, <1>3 DEF Begin, Holding
<1>10. ASSUME NEW w \in Workers, NEW v \in Verdict \ {"none"}, HandlerReturns(w, v)
       PROVE \A u \in Workers : Kept(u) \/ Dropped(u)
  BY <1>10, <1>2, <1>3 DEF HandlerReturns, Holding
<1>11. ASSUME NEW w \in Workers, NEW wake \in BOOLEAN, Report(w, wake) \/ ClaimNothing(w) \/ Crash(w)
       PROVE \A v \in Workers : Kept(v) \/ Dropped(v)
  BY <1>11, <1>2 DEF Report, ClaimNothing, Crash
<1> DEFINE Goal == \A v \in Workers : Kept(v) \/ Dropped(v)
<1> HIDE DEF Goal
<1>12. ASSUME NEW w \in Workers, TickStep(w) PROVE Goal
  BY <1>8, <1>9, <1>10, <1>11, <1>12 DEF TickStep, Goal
<1>13. ASSUME NEW w \in Workers, WorkerStep(w) PROVE Goal
  BY <1>6, <1>7, <1>8, <1>11, <1>12, <1>13 DEF WorkerStep, Goal
<1>14. ASSUME OwnerStep \/ EnqueueStep \/ ClockStep \/ UNCHANGED vars PROVE Goal
  BY <1>4, <1>5, <1>14 DEF Goal
<1>15. ASSUME Next PROVE Goal
  BY <1>13, <1>14, <1>15 DEF Next
<1>16. ASSUME UNCHANGED vars PROVE Goal
  BY <1>14, <1>16
<1>17. Goal
  BY <1>15, <1>16
<1> QED
  BY <1>17 DEF Goal

\* A busy loop has a job in hand.
LEMMA BusyHasJobStep == ASSUME QueueInv, [Next]_vars PROVE BusyHasJob'
<1> USE DEF QueueInv
<1>1. ASSUME NEW w \in Workers, NEW j \in Jobs, ClaimJob(w, j) PROVE BusyHasJob'
  BY <1>1, QueueAssumption DEF BusyHasJob, TypeOK, ClaimJob, Holding
<1>2. CASE ~ \E w \in Workers, j \in Jobs : ClaimJob(w, j)
  BY <1>2, LoopFrame DEF BusyHasJob
<1> QED
  BY <1>1, <1>2

\* A new claim makes a new holder, and no other step gives a lease or a run.
LEMMA HolderRunsLatestStep == ASSUME QueueInv, [Next]_vars PROVE HolderRunsLatest'
<1> USE DEF QueueInv
\* Only a claim names a holder, and only a claim counts one.
<1>1. ASSUME NEW w \in Workers, NEW j \in Jobs, ClaimJob(w, j) PROVE HolderRunsLatest'
  BY <1>1, QueueAssumption DEF HolderRunsLatest, BusyHasJob, TypeOK, ClaimJob, HoldsRow, Holding
<1>2. CASE ~ \E w \in Workers, j \in Jobs : ClaimJob(w, j)
  <2>1. claims' = claims
    BY <1>2, NextCases, QuietFrame
       DEF Resume, Cancel, Retry, Enqueue, Settle, Report, histVars
  <2>2. \A j \in Jobs : state'[j] = "leased" /\ holder'[j] # None
                          => state[j] = "leased" /\ holder'[j] = holder[j]
    <3>1. CASE QuietStep
      BY <3>1, QuietFrame
    <3>2. ASSUME NEW j \in Jobs, Resume(j) \/ Cancel(j)
          PROVE  \A i \in Jobs : state'[i] = "leased" /\ holder'[i] # None
                                   => state[i] = "leased" /\ holder'[i] = holder[i]
      BY <3>2 DEF Resume, Cancel, TypeOK
    <3>3. ASSUME NEW S \in SUBSET Jobs, Retry(S) PROVE <2>2
      BY <3>3 DEF Retry, TypeOK
    <3>4. ASSUME NEW j \in Jobs, NEW n \in Caps, NEW ready \in BOOLEAN, Enqueue(j, n, ready)
          PROVE  <2>2
      BY <3>4 DEF Enqueue, TypeOK
    <3>5. ASSUME NEW w \in Workers, NEW c \in seen[w], Settle(w, c) PROVE <2>2
      <4>1. c.job \in Jobs
        BY DEF TypeOK, Candidate
      <4> QED
        BY <3>5, <4>1 DEF Settle, TypeOK
    <3>6. ASSUME NEW w \in Workers, NEW wake \in BOOLEAN, Report(w, wake) PROVE <2>2
      <4>1. Outcome(cur[w], verdict[w], wake) # "leased"
        BY DEF Outcome
      <4> QED
        BY <3>6, <4>1 DEF Report, TypeOK, leaseVars
    <3> QED
      BY <1>2, <3>1, <3>2, <3>3, <3>4, <3>5, <3>6, NextCases
  <2>3. SUFFICES ASSUME NEW w \in Workers, pc'[w] \in Holding, HoldsRow(w)'
                 PROVE  ticket'[w] = claims'[cur'[w]]
    BY DEF HolderRunsLatest
  <2>4. cur'[w] = cur[w] /\ ticket'[w] = ticket[w] /\ pc[w] \in Holding
    BY <1>2, <2>3, LoopFrame
  <2>5. cur[w] \in Jobs
    BY <2>4 DEF BusyHasJob, TypeOK
  <2> QED
    BY <2>1, <2>2, <2>3, <2>4, <2>5, QueueAssumption DEF HolderRunsLatest, HoldsRow
<1> QED
  BY <1>1, <1>2

\* A candidate is read with the claim and the budget its row has at that moment.
FreshRead(c) ==
  /\ c.job \in Jobs /\ c.claim = claims[c.job]
  /\ c.requeue => attempts[c.job] < cap[c.job]

\* What the candidate query returns is fresh.
LEMMA CandidatesFresh ==
  ASSUME NEW w, NEW via, NEW b, NEW c \in Candidates(w, via, b)
  PROVE  FreshRead(c)
<1> DEFINE may(j) == b /\ j \notin acted /\ requeues[j] = 0 /\ attempts[j] < cap[j]
<1>1. PICK j \in Scope(w, via) :
        c = [job |-> j, holder |-> holder[j], claim |-> claims[j], via |-> via, requeue |-> may(j)]
  BY DEF Candidates
<1>2. may(j) => attempts[j] < cap[j]
  OBVIOUS
<1> HIDE DEF may
<1>3. c.job = j /\ c.claim = claims[j] /\ c.requeue = may(j)
  BY <1>1
<1> QED
  BY <1>2, <1>3, Zenon DEF Scope, FreshRead

\* A candidate that is new was read in this step, which moved no row.
LEMMA SeenFrame ==
  ASSUME TypeOK, [Next]_vars, NEW w \in Workers, NEW c \in seen'[w], c \notin seen[w]
  PROVE  FreshRead(c) /\ UNCHANGED <<state, attempts, cap, claims>>
<1>1. ASSUME NEW v \in Workers, NEW via \in Via, NEW b, BeginPass(v, via, b) PROVE FreshRead(c)
  BY <1>1, CandidatesFresh DEF BeginPass, TypeOK
<1>2. ASSUME NEW v \in Workers, Start(v) PROVE FreshRead(c)
  BY <1>1, <1>2 DEF Start, Via
<1>3. ASSUME NEW v \in Workers, Sweep(v) PROVE FreshRead(c)
  BY <1>1, <1>3 DEF Sweep, Via
<1>4. ASSUME NEW v \in Workers, StopPass(v) PROVE FreshRead(c)
  BY <1>1, <1>4 DEF StopPass, Via
<1>5. \E v \in Workers : Start(v) \/ Sweep(v) \/ StopPass(v)
  <2>1. ASSUME UNCHANGED seen PROVE FALSE
    BY <2>1
  <2>2. ASSUME NEW v \in Workers, NEW d \in seen[v], Settle(v, d) PROVE FALSE
    BY <2>2 DEF Settle, TypeOK
  <2>3. ASSUME NEW v \in Workers, Crash(v) PROVE FALSE
    BY <2>3 DEF Crash, TypeOK
  <2>4. CASE OwnerStep
    BY <2>1, <2>4 DEF OwnerStep, Resume, Cancel, Dismiss, Undismiss, Retry, SetPaused, passVars
  <2>5. CASE EnqueueStep \/ ClockStep
    BY <2>1, <2>5 DEF EnqueueStep, Enqueue, ClockStep, BackoffElapses, Lapse, DeadlinePasses, passVars
  <2>6. ASSUME NEW v \in Workers, TickStep(v) PROVE FALSE
    BY <2>1, <2>6 DEF TickStep, AskClaim, ClaimNothing, LogClaim, Begin, Dispatch, ClaimJob,
       HandlerReturns, Report, passVars
  <2>7. ASSUME NEW v \in Workers, RequestStop(v) \/ LoseLease(v) \/ Beat(v) \/ CallTool(v)
        PROVE  FALSE
    BY <2>1, <2>7 DEF RequestStop, LoseLease, Beat, CallTool, passVars
  <2>8. ASSUME NEW v \in Workers, PassWork(v) PROVE FALSE
    BY <2>1, <2>2, <2>8 DEF PassWork, LogSettled, EndPass
  <2>9. CASE UNCHANGED vars
    BY <2>1, <2>9 DEF vars, passVars
  <2> QED
    BY <2>3, <2>4, <2>5, <2>6, <2>7, <2>8, <2>9 DEF Next, WorkerStep
<1>6. QuietStep
  BY <1>5 DEF QuietStep
<1> QED
  BY <1>2, <1>3, <1>4, <1>5, <1>6, QuietFrame

\* A row that is leased after a step was leased before it, with the same claim
\* and the same budget, unless the step is its claim.
LEMMA LeasedFrame ==
  ASSUME TypeOK, [Next]_vars, NEW j \in Jobs
  PROVE  /\ claims'[j] >= claims[j]
         /\ state'[j] = "leased" /\ claims'[j] = claims[j]
              => state[j] = "leased" /\ attempts'[j] = attempts[j] /\ cap'[j] = cap[j]
<1> DEFINE Goal == /\ claims'[j] >= claims[j]
                   /\ state'[j] = "leased" /\ claims'[j] = claims[j]
                        => state[j] = "leased" /\ attempts'[j] = attempts[j] /\ cap'[j] = cap[j]
<1>1. CASE QuietStep
  BY <1>1, QuietFrame DEF TypeOK
<1>2. ASSUME NEW i \in Jobs, Resume(i) \/ Cancel(i) PROVE Goal
  BY <1>2 DEF TypeOK, Resume, Cancel, histVars
<1>3. ASSUME NEW S \in SUBSET Jobs, Retry(S) PROVE Goal
  BY <1>3 DEF TypeOK, Retry, histVars
<1>4. ASSUME NEW i \in Jobs, NEW n \in Caps, NEW ready \in BOOLEAN, Enqueue(i, n, ready)
      PROVE Goal
  BY <1>4 DEF TypeOK, Enqueue, histVars
<1>5. ASSUME NEW w \in Workers, NEW c \in seen[w], Settle(w, c) PROVE Goal
  <2>1. c.job \in Jobs
    BY DEF TypeOK, Candidate
  <2> QED
    BY <1>5, <2>1 DEF TypeOK, Settle
<1>6. ASSUME NEW w \in Workers, NEW i \in Jobs, ClaimJob(w, i) PROVE Goal
  BY <1>6 DEF TypeOK, ClaimJob
<1>7. ASSUME NEW w \in Workers, NEW wake \in BOOLEAN, Report(w, wake) PROVE Goal
  <2>1. Outcome(cur[w], verdict[w], wake) # "leased"
    BY DEF Outcome
  <2> QED
    BY <1>7, <2>1 DEF TypeOK, Report, histVars, leaseVars
<1> QED
  BY <1>1, <1>2, <1>3, <1>4, <1>5, <1>6, <1>7, NextCases

\* The budget a decision was taken from is there as long as its claim is.
LEMMA DecisionsFitStep == ASSUME QueueInv, [Next]_vars PROVE DecisionsFit'
<1> USE DEF QueueInv
<1> SUFFICES ASSUME NEW w \in Workers, NEW c \in seen'[w]
             PROVE  /\ c.claim <= claims'[c.job]
                    /\ c.requeue /\ c.claim = claims'[c.job] /\ state'[c.job] = "leased"
                         => attempts'[c.job] < cap'[c.job]
  BY DEF DecisionsFit
<1>1. CASE c \in seen[w]
  <2>1. c.job \in Jobs /\ c.claim \in Nat /\ claims[c.job] \in Nat
    BY <1>1 DEF TypeOK, Candidate
  <2>2. claims'[c.job] \in Nat
    BY <2>1, TypeStep DEF TypeOK
  <2> QED
    BY <1>1, <2>1, <2>2, LeasedFrame DEF DecisionsFit
<1>2. CASE c \notin seen[w]
  <2>1. FreshRead(c) /\ UNCHANGED <<state, attempts, cap, claims>>
    BY <1>2, SeenFrame
  <2> QED
    BY <2>1 DEF FreshRead, TypeOK
<1> QED
  BY <1>1, <1>2

\* Claims, refunds, reports, interruptions and retries keep the budget.
LEMMA AttemptsInBudgetStep == ASSUME QueueInv, [Next]_vars PROVE AttemptsInBudget'
<1> USE DEF QueueInv
<1>1. CASE QuietStep
  BY <1>1, QuietFrame DEF AttemptsInBudget
<1>2. ASSUME NEW j \in Jobs, Cancel(j) PROVE AttemptsInBudget'
  BY <1>2 DEF AttemptsInBudget, TypeOK, Cancel, histVars
<1>3. ASSUME NEW j \in Jobs, Resume(j) PROVE AttemptsInBudget'
  <2>1. attempts'[j] = IF attempts[j] > 0 THEN attempts[j] - 1 ELSE attempts[j]
    BY <1>3 DEF TypeOK, Resume
  <2>2. cap[j] > 0
    BY DEF TypeOK
  <2> QED
    BY <1>3, <2>1, <2>2 DEF AttemptsInBudget, TypeOK, Resume, histVars
<1>4. ASSUME NEW S \in SUBSET Jobs, Retry(S) PROVE AttemptsInBudget'
  BY <1>4, QueueAssumption DEF AttemptsInBudget, TypeOK, Retry, histVars
<1>5. ASSUME NEW j \in Jobs, NEW n \in Caps, NEW ready \in BOOLEAN, Enqueue(j, n, ready)
      PROVE AttemptsInBudget'
  BY <1>5, QueueAssumption DEF AttemptsInBudget, TypeOK, Enqueue, histVars
<1>6. ASSUME NEW w \in Workers, NEW c \in seen[w], Settle(w, c) PROVE AttemptsInBudget'
  <2>1. c.job \in Jobs
    BY DEF TypeOK, Candidate
  <2>2. CASE state[c.job] = "leased" /\ holder[c.job] = c.holder
    \* What the decision was taken from is still so, or the settlement misfired.
    <3>1. c.job \notin misfired' => c.claim = claims[c.job]
      BY <1>6, <2>1, <2>2 DEF Settle
    <3>2. c.job \notin misfired' /\ c.requeue => attempts[c.job] < cap[c.job]
      BY <2>2, <3>1 DEF DecisionsFit
    <3>3. misfired \subseteq misfired'
      BY <1>6, <2>2 DEF Settle
    <3> QED
      BY <1>6, <2>1, <2>2, <3>2, <3>3 DEF AttemptsInBudget, TypeOK, Settle
  <2>3. CASE ~(state[c.job] = "leased" /\ holder[c.job] = c.holder)
    BY <1>6, <2>3 DEF AttemptsInBudget, Settle
  <2> QED
    BY <2>2, <2>3
<1>7. ASSUME NEW w \in Workers, NEW j \in Jobs, ClaimJob(w, j) PROVE AttemptsInBudget'
  BY <1>7 DEF AttemptsInBudget, TypeOK, ClaimJob, Claimable
<1>8. ASSUME NEW w \in Workers, NEW wake \in BOOLEAN, Report(w, wake) PROVE AttemptsInBudget'
  <2>1. cur[w] \in Jobs /\ attempts[cur[w]] \in Nat /\ cap[cur[w]] \in Nat \ {0}
    BY <1>8 DEF TypeOK, Report, BusyHasJob, Holding
  <2>2. CASE ~HoldsRow(w)
    BY <1>8, <2>2 DEF AttemptsInBudget, Report, leaseVars, histVars
  <2>3. CASE HoldsRow(w)
    <3> DEFINE j == cur[w]
               next == Outcome(j, verdict[w], wake)
    <3>1. /\ state' = [state EXCEPT ![j] = next] /\ UNCHANGED <<cap, misfired>>
          /\ attempts' = [attempts EXCEPT ![j] = IF wake /\ @ > 0 THEN @ - 1 ELSE @]
      BY <1>8, <2>3 DEF Report, histVars
    <3>2. next = "pending" => wake \/ attempts[j] < cap[j]
      BY DEF Outcome
    <3>3. j \notin misfired => attempts'[j] <= cap[j] /\ (next = "pending" => attempts'[j] < cap[j])
      BY <2>1, <3>1, <3>2 DEF AttemptsInBudget, TypeOK
    <3> HIDE DEF next
    <3> QED
      BY <2>1, <3>1, <3>3 DEF AttemptsInBudget, TypeOK
  <2> QED
    BY <2>2, <2>3
<1> QED
  BY <1>1, <1>2, <1>3, <1>4, <1>5, <1>6, <1>7, <1>8, NextCases

-----------------------------------------------------------------------------
(* Which steps end a run's report and which extend its deadline            *)

\* The end of one loop's tick is nothing to another loop.
LEMMA LoopIdleOthers ==
  ASSUME TypeOK, NEW v \in Workers, NEW w \in Workers, v # w, LoopIdle(v)
  PROVE  pc'[w] = pc[w] /\ (w \in overdue <=> w \in overdue')
  BY DEF LoopIdle, TypeOK

\* A loop that stops reporting while its process goes on has reported.
LEMMA ReportingEnds ==
  ASSUME TypeOK, [Next]_vars, NEW w \in Workers,
         pc[w] = "reporting", pc'[w] = "idle", proc'[w] = proc[w]
  PROVE  \E wake \in BOOLEAN : Report(w, wake)
<1>1. ~ UNCHANGED pc
  OBVIOUS
<1>2. ~ UNCHANGED vars /\ ~ OwnerStep /\ ~ EnqueueStep /\ ~ ClockStep
  BY <1>1 DEF vars, runVars, OwnerStep, Resume, Cancel, Dismiss, Undismiss, Retry, SetPaused,
     EnqueueStep, Enqueue, ClockStep, BackoffElapses, Lapse, DeadlinePasses
<1>3. PICK v \in Workers : WorkerStep(v)
  BY <1>2 DEF Next
<1>4. TickStep(v) \/ Crash(v)
  BY <1>1, <1>3 DEF WorkerStep, Start, RequestStop, Sweep, StopPass, PassWork, Settle, LogSettled,
     EndPass, LoseLease, Beat, CallTool, runVars, TypeOK
<1>5. v = w
  <2>1. ASSUME v # w, LoopIdle(v) PROVE FALSE
    BY <2>1, LoopIdleOthers
  <2> QED
    BY <1>4, <2>1 DEF TickStep, Crash, AskClaim, ClaimNothing, LogClaim, Begin, Dispatch, ClaimJob,
       HandlerReturns, Report, TypeOK
<1>6. ~ Crash(w)
  BY DEF Crash, Alive, TypeOK
<1> QED
  BY <1>4, <1>5, <1>6 DEF TickStep, AskClaim, ClaimNothing, LogClaim, Begin, Dispatch, ClaimJob,
     HandlerReturns

\* A run in its handler is overdue no more by a heartbeat only.
LEMMA OverdueEnds ==
  ASSUME TypeOK, [Next]_vars, NEW w \in Workers,
         pc[w] \in InHandler, pc'[w] = pc[w], w \in overdue, w \notin overdue'
  PROVE  Beat(w)
<1>1. ~ UNCHANGED overdue
  OBVIOUS
<1>2. ~ UNCHANGED vars /\ ~ OwnerStep /\ ~ EnqueueStep /\ ~ ClockStep
  BY <1>1 DEF vars, runVars, OwnerStep, Resume, Cancel, Dismiss, Undismiss, Retry, SetPaused,
     EnqueueStep, Enqueue, ClockStep, BackoffElapses, Lapse, DeadlinePasses
<1>3. PICK v \in Workers : WorkerStep(v)
  BY <1>2 DEF Next
<1>4. TickStep(v) \/ Crash(v) \/ Beat(v)
  BY <1>1, <1>3 DEF WorkerStep, Start, RequestStop, Sweep, StopPass, PassWork, Settle, LogSettled,
     EndPass, LoseLease, CallTool, runVars
<1>5. ASSUME LoopIdle(v) PROVE FALSE
  <2>1. v = w
    BY <1>5, LoopIdleOthers
  <2> QED
    BY <1>5, <2>1 DEF LoopIdle, InHandler, TypeOK
<1>6. ~ TickStep(v) /\ ~ Crash(v)
  BY <1>1, <1>5 DEF TickStep, Crash, AskClaim, ClaimNothing, LogClaim, Begin, Dispatch, ClaimJob,
     HandlerReturns, Report
<1> QED
  BY <1>4, <1>6 DEF Beat

-----------------------------------------------------------------------------
(* The theorems                                                            *)

\* The invariant holds at first.
LEMMA InitInv == Init => QueueInv
<1> SUFFICES ASSUME Init PROVE QueueInv
  OBVIOUS
<1>1. LeasesAreHeld /\ BusyHasJob /\ HolderRunsLatest /\ DecisionsFit
  BY DEF Init, LeasesAreHeld, BusyHasJob, HolderRunsLatest, DecisionsFit, Holding
<1>2. AttemptsInBudget
  BY QueueAssumption DEF Init, AttemptsInBudget
<1> QED
  BY <1>1, <1>2, InitType DEF QueueInv

\* The inductive invariant: every step of the queue preserves it.
THEOREM QueueInvariant == Spec => []QueueInv
<1>1. QueueInv /\ [Next]_vars => QueueInv'
  BY TypeStep, LeasesAreHeldStep, BusyHasJobStep, HolderRunsLatestStep, DecisionsFitStep,
     AttemptsInBudgetStep DEF QueueInv
<1> QED
  BY InitInv, <1>1, PTL DEF Spec

\* The columns and the locals keep their types, for any number of jobs and boots.
THEOREM TypeCorrect == Spec => []TypeOK
<1>1. QueueInv => TypeOK
  BY DEF QueueInv
<1> QED
  BY QueueInvariant, <1>1, PTL

\* A fence on the holder is a fence on the run: whatever number of serves
\* overlap, the row a worker holds belongs to the run it has in hand.
THEOREM FenceIsSound == Spec => []HolderRunsLatest
<1>1. QueueInv => HolderRunsLatest
  BY DEF QueueInv
<1> QED
  BY QueueInvariant, <1>1, PTL

\* The attempts never pass the cap, and what waits has one left, unless an
\* interruption settled a lease that was reclaimed after it read it.
THEOREM BudgetIsKept == Spec => []AttemptsInBudget
<1>1. QueueInv => AttemptsInBudget
  BY DEF QueueInv
<1> QED
  BY QueueInvariant, <1>1, PTL

\* A run's outcome and its renewals reach the row only as those of its latest claim.
THEOREM LatestRunWrites == Spec => OnlyLatestRunWrites
<1> DEFINE Fenced(w) ==
      LET j == cur[w] IN
      /\ pc[w] = "reporting" /\ pc'[w] = "idle" /\ proc'[w] = proc[w] /\ state'[j] # state[j]
           => ticket[w] = claims[j]
      /\ pc[w] \in InHandler /\ pc'[w] = pc[w] /\ w \in overdue /\ w \notin overdue'
           => ticket[w] = claims[j] /\ holder[j] = w
<1>1. ASSUME QueueInv, [Next]_vars, NEW w \in Workers PROVE Fenced(w)
  <2>1. ASSUME pc[w] = "reporting", pc'[w] = "idle", proc'[w] = proc[w],
               state'[cur[w]] # state[cur[w]]
        PROVE  ticket[w] = claims[cur[w]]
    <3>1. \E wake \in BOOLEAN : Report(w, wake)
      BY <1>1, <2>1, ReportingEnds DEF QueueInv
    <3> QED
      BY <1>1, <2>1, <3>1 DEF Report, QueueInv, HolderRunsLatest, Holding, leaseVars
  <2>2. ASSUME pc[w] \in InHandler, pc'[w] = pc[w], w \in overdue, w \notin overdue'
        PROVE  ticket[w] = claims[cur[w]] /\ holder[cur[w]] = w
    <3>1. Beat(w)
      BY <1>1, <2>2, OverdueEnds DEF QueueInv
    <3> QED
      BY <1>1, <2>2, <3>1 DEF Beat, QueueInv, HolderRunsLatest, Holding, InHandler, HoldsRow
  <2> QED
    BY <2>1, <2>2
<1>2. QueueInv /\ [Next]_vars => [\A w \in Workers : Fenced(w)]_vars
  BY <1>1
<1> QED
  BY QueueInvariant, <1>2, PTL DEF Spec, OnlyLatestRunWrites

-----------------------------------------------------------------------------
(* The queue implements JobLifecycle                                       *)

\* Of the quiet steps, only the owner's two touch what is dismissed.
LEMMA QuietKept ==
  ASSUME QuietStep, ~ \E j \in Jobs : Dismiss(j) \/ Undismiss(j)
  PROVE  UNCHANGED quiet
<1> USE DEF leaseVars, rowVars
<1>1. ASSUME NEW j \in Jobs, BackoffElapses(j) \/ Lapse(j) PROVE UNCHANGED quiet
  BY <1>1 DEF BackoffElapses, Lapse
<1>2. ASSUME NEW on \in BOOLEAN, SetPaused(on) PROVE UNCHANGED quiet
  BY <1>2 DEF SetPaused
<1>3. ASSUME NEW w \in Workers,
             Start(w) \/ Sweep(w) \/ StopPass(w) \/ RequestStop(w) \/ Crash(w)
      PROVE  UNCHANGED quiet
  BY <1>3 DEF Start, Sweep, StopPass, RequestStop, Crash
<1>4. ASSUME NEW w \in Workers,
             \/ AskClaim(w) \/ ClaimNothing(w) \/ LogClaim(w) \/ Dispatch(w)
             \/ \E handled \in BOOLEAN : Begin(w, handled)
             \/ \E v \in Verdict \ {"none"} : HandlerReturns(w, v)
      PROVE  UNCHANGED quiet
  BY <1>4 DEF AskClaim, ClaimNothing, LogClaim, Begin, Dispatch, HandlerReturns
<1>5. ASSUME NEW w \in Workers, DeadlinePasses(w) \/ LoseLease(w) \/ Beat(w) \/ CallTool(w)
      PROVE  UNCHANGED quiet
  BY <1>5 DEF DeadlinePasses, LoseLease, Beat, CallTool
<1>6. ASSUME NEW w \in Workers,
             \/ \E e \in unlogged[w] : LogSettled(w, e)
             \/ \E via \in Via : EndPass(w, via)
      PROVE  UNCHANGED quiet
  BY <1>6 DEF LogSettled, EndPass
<1>7. CASE UNCHANGED vars
  BY <1>7 DEF vars
<1> QED
  BY <1>1, <1>2, <1>3, <1>4, <1>5, <1>6, <1>7 DEF QuietStep

\* A row that moves alone changes the life of its own job.
LEMMA LifeMoves ==
  ASSUME NEW j \in Jobs, NEW l, LifeOf(j)' = l,
         \A k \in Jobs \ {j} : state'[k] = state[k] /\ (k \in quiet' <=> k \in quiet)
  PROVE  Lifecycle!Become(j, l)
<1>1. \A k \in Jobs \ {j} : LifeOf(k)' = LifeOf(k)
  BY DEF LifeOf
<1>2. [k \in Jobs |-> LifeOf(k)]' = [[k \in Jobs |-> LifeOf(k)] EXCEPT ![j] = l]
  BY <1>1
<1> QED
  BY <1>2 DEF Lifecycle!Become

\* A job's life does not change while its row and its dismissal do not.
LEMMA LifeStutters ==
  ASSUME UNCHANGED <<state, quiet>>
  PROVE  UNCHANGED [j \in Jobs |-> LifeOf(j)]
BY DEF LifeOf

\* Reports and interruptions end a run, and nothing else.
LEMMA RunEnds ==
  ASSUME NEW j \in Jobs, state[j] = "leased", NEW s \in {"succeeded", "suspended", "pending", "failed"},
         state' = [state EXCEPT ![j] = s], s = "failed" => j \notin quiet',
         \A k \in Jobs \ {j} : k \in quiet' <=> k \in quiet, TypeOK
  PROVE  Lifecycle!End(j)
<1>1. state'[j] = s /\ \A k \in Jobs \ {j} : state'[k] = state[k]
  BY DEF TypeOK
<1>2. LifeOf(j)' \in {"done", "parked", "waiting", "failed"}
  BY <1>1 DEF LifeOf
<1>3. [k \in Jobs |-> LifeOf(k)][j] = "running"
  BY DEF LifeOf
<1>4. Lifecycle!Become(j, LifeOf(j)')
  BY <1>1, LifeMoves
<1> QED
  BY <1>2, <1>3, <1>4 DEF Lifecycle!End

\* Every step of the queue is one move of a job, or hidden.
LEMMA LifeStep ==
  ASSUME QueueInv, [Next]_vars
  PROVE  [Lifecycle!Next]_([j \in Jobs |-> LifeOf(j)])
<1>1. TypeOK /\ BusyHasJob
  BY DEF QueueInv
<1>2. CASE QuietStep
  <2>1. ASSUME NEW j \in Jobs, Dismiss(j) \/ Undismiss(j) PROVE Lifecycle!Next
    <3>1. /\ state[j] = "failed" /\ UNCHANGED state
          /\ \A k \in Jobs \ {j} : k \in quiet' <=> k \in quiet
      BY <2>1 DEF Dismiss, Undismiss, leaseVars
    <3>2. CASE Dismiss(j)
      <4>1. [k \in Jobs |-> LifeOf(k)][j] = "failed" /\ LifeOf(j)' = "dismissed"
        BY <3>1, <3>2 DEF Dismiss, LifeOf
      <4>2. Lifecycle!Dismiss(j)
        BY <3>1, <4>1, LifeMoves DEF Lifecycle!Dismiss
      <4> QED
        BY <4>2 DEF Lifecycle!Next
    <3>3. CASE Undismiss(j)
      <4>1. [k \in Jobs |-> LifeOf(k)][j] = "dismissed" /\ LifeOf(j)' = "failed"
        BY <3>1, <3>3 DEF Undismiss, LifeOf
      <4>2. Lifecycle!Undismiss(j)
        BY <3>1, <4>1, LifeMoves DEF Lifecycle!Undismiss
      <4> QED
        BY <4>2 DEF Lifecycle!Next
    <3> QED
      BY <2>1, <3>2, <3>3
  <2>2. CASE ~ \E j \in Jobs : Dismiss(j) \/ Undismiss(j)
    BY <1>2, <2>2, QuietFrame, QuietKept, LifeStutters
  <2> QED
    BY <2>1, <2>2
<1>3. ASSUME NEW j \in Jobs, Resume(j) PROVE Lifecycle!Next
  <2>1. /\ state[j] = "suspended" /\ state'[j] = "pending" /\ UNCHANGED quiet
        /\ \A k \in Jobs \ {j} : state'[k] = state[k]
    BY <1>1, <1>3 DEF Resume, TypeOK
  <2>2. [k \in Jobs |-> LifeOf(k)][j] = "parked" /\ LifeOf(j)' = "waiting"
    BY <2>1 DEF LifeOf
  <2>3. Lifecycle!Wake(j)
    BY <2>1, <2>2, LifeMoves DEF Lifecycle!Wake
  <2> QED
    BY <2>3 DEF Lifecycle!Next
<1>4. ASSUME NEW j \in Jobs, Cancel(j) PROVE Lifecycle!Next
  <2>1. /\ state[j] \in {"pending", "leased", "suspended", "failed"}
        /\ state'[j] = "cancelled" /\ UNCHANGED quiet
        /\ \A k \in Jobs \ {j} : state'[k] = state[k]
    BY <1>1, <1>4 DEF Cancel, TypeOK
  <2>2. /\ [k \in Jobs |-> LifeOf(k)][j] \in {"waiting", "running", "parked", "failed", "dismissed"}
        /\ LifeOf(j)' = "dropped"
    BY <2>1 DEF LifeOf
  <2>3. Lifecycle!Drop(j)
    BY <2>1, <2>2, LifeMoves DEF Lifecycle!Drop
  <2> QED
    BY <2>3 DEF Lifecycle!Next
<1>5. ASSUME NEW S \in SUBSET Jobs, Retry(S) PROVE Lifecycle!Next
  <2>1. /\ \A j \in S : state[j] \in {"failed", "cancelled", "suspended"}
        /\ state' = [j \in Jobs |-> IF j \in S THEN "pending" ELSE state[j]]
        /\ quiet' = quiet \ S
    BY <1>5 DEF Retry, Retryable
  <2>2. \A j \in S : [k \in Jobs |-> LifeOf(k)][j] \in {"failed", "dismissed", "dropped", "parked"}
    BY <2>1 DEF LifeOf
  <2>3. ASSUME NEW j \in Jobs PROVE LifeOf(j)' = IF j \in S THEN "waiting" ELSE LifeOf(j)
    <3>1. CASE j \in S
      <4>1. state'[j] = "pending"
        BY <2>1, <3>1
      <4> QED
        BY <3>1, <4>1 DEF LifeOf
    <3>2. CASE j \notin S
      <4>1. state'[j] = state[j] /\ (j \in quiet' <=> j \in quiet)
        BY <2>1, <3>2
      <4> QED
        BY <3>2, <4>1 DEF LifeOf
    <3> QED
      BY <3>1, <3>2
  <2>4. [j \in Jobs |-> LifeOf(j)]'
          = [j \in Jobs |-> IF j \in S THEN "waiting" ELSE [k \in Jobs |-> LifeOf(k)][j]]
    BY <2>3
  <2>5. Lifecycle!Revive(S)
    BY <2>2, <2>4 DEF Lifecycle!Revive
  <2> QED
    BY <2>5 DEF Lifecycle!Next
<1>6. ASSUME NEW j \in Jobs, NEW n \in Caps, NEW ready \in BOOLEAN, Enqueue(j, n, ready)
      PROVE  Lifecycle!Next
  <2>1. /\ state[j] = "absent" /\ state'[j] = "pending" /\ UNCHANGED quiet
        /\ \A k \in Jobs \ {j} : state'[k] = state[k]
    BY <1>1, <1>6 DEF Enqueue, TypeOK
  <2>2. [k \in Jobs |-> LifeOf(k)][j] = "none" /\ LifeOf(j)' = "waiting"
    BY <2>1 DEF LifeOf
  <2>3. Lifecycle!Accept(j)
    BY <2>1, <2>2, LifeMoves DEF Lifecycle!Accept
  <2> QED
    BY <2>3 DEF Lifecycle!Next
<1>7. ASSUME NEW w \in Workers, NEW j \in Jobs, ClaimJob(w, j) PROVE Lifecycle!Next
  <2>1. /\ state[j] = "pending" /\ state'[j] = "leased" /\ UNCHANGED quiet
        /\ \A k \in Jobs \ {j} : state'[k] = state[k]
    BY <1>1, <1>7 DEF ClaimJob, Claimable, TypeOK
  <2>2. [k \in Jobs |-> LifeOf(k)][j] = "waiting" /\ LifeOf(j)' = "running"
    BY <2>1 DEF LifeOf
  <2>3. Lifecycle!Take(j)
    BY <2>1, <2>2, LifeMoves DEF Lifecycle!Take
  <2> QED
    BY <2>3 DEF Lifecycle!Next
<1>8. ASSUME NEW w \in Workers, NEW c \in seen[w], Settle(w, c)
      PROVE  [Lifecycle!Next]_([j \in Jobs |-> LifeOf(j)])
  <2>1. c.job \in Jobs
    BY <1>1 DEF TypeOK, Candidate
  <2>2. CASE state[c.job] = "leased" /\ holder[c.job] = c.holder
    <3>1. PICK s \in {"pending", "failed"} : state' = [state EXCEPT ![c.job] = s]
      BY <1>8, <2>2 DEF Settle
    <3>2. quiet' = quiet \ {c.job}
      BY <1>8, <2>2 DEF Settle
    <3>3. Lifecycle!End(c.job)
      BY <1>1, <2>1, <2>2, <3>1, <3>2, RunEnds
    <3> QED
      BY <2>1, <3>3 DEF Lifecycle!Next
  <2>3. CASE ~(state[c.job] = "leased" /\ holder[c.job] = c.holder)
    BY <1>8, <2>3, LifeStutters DEF Settle
  <2> QED
    BY <2>2, <2>3
<1>9. ASSUME NEW w \in Workers, NEW wake \in BOOLEAN, Report(w, wake)
      PROVE  [Lifecycle!Next]_([j \in Jobs |-> LifeOf(j)])
  <2>1. PICK j \in Jobs : j = cur[w]
    BY <1>1, <1>9 DEF Report, BusyHasJob, Holding, TypeOK
  <2>2. CASE HoldsRow(w)
    <3>1. PICK s \in {"succeeded", "suspended", "pending", "failed"} :
            s = Outcome(j, verdict[w], wake)
      BY DEF Outcome
    <3>2. state' = [state EXCEPT ![j] = s] /\ state[j] = "leased"
      BY <1>9, <2>1, <2>2, <3>1 DEF Report, HoldsRow
    <3>3. quiet' = IF verdict[w] \in {"complete", "park"} THEN quiet ELSE quiet \ {j}
      BY <1>9, <2>1, <2>2 DEF Report
    <3>4. s = "failed" => verdict[w] \notin {"complete", "park"}
      BY <3>1 DEF Outcome
    <3>5. Lifecycle!End(j)
      BY <1>1, <3>2, <3>3, <3>4, RunEnds
    <3> QED
      BY <3>5 DEF Lifecycle!Next
  <2>3. CASE ~HoldsRow(w)
    BY <1>9, <2>3, LifeStutters DEF Report, leaseVars
  <2> QED
    BY <2>2, <2>3
<1> QED
  BY <1>2, <1>3, <1>4, <1>5, <1>6, <1>7, <1>8, <1>9, NextCases

\* The queue implements JobLifecycle for any jobs, any serves that overlap, and
\* crashes at any statement: no step moves a job in a way its users do not know of.
THEOREM LifecycleIsImplemented == Spec => ImplementsLifecycle
<1>1. Init => Lifecycle!Init
  BY DEF Init, Lifecycle!Init, LifeOf
<1>2. QueueInv /\ [Next]_vars => [Lifecycle!Next]_([j \in Jobs |-> LifeOf(j)])
  BY LifeStep
<1> QED
  BY <1>1, <1>2, QueueInvariant, PTL DEF Spec, ImplementsLifecycle, Lifecycle!Spec
=============================================================================
