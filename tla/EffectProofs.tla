---------------------------- MODULE EffectProofs ----------------------------
(***************************************************************************)
(* When serves follow each other, no run that dispatched an effect, or     *)
(* still may, is put back on the queue: the proof of PutBackDidNothing.    *)
(***************************************************************************)
EXTENDS JobQueueProofs

\* The steps of a loop: where it is changes, and nothing of the process or its passes.
LoopStep(w) ==
  \/ TickStep(w) \/ CallTool(w)

\* A loop that takes a step is one of a process that is there.
LEMMA LoopMoves ==
  ASSUME TypeOK, NEW w \in Workers, LoopStep(w)
  PROVE  /\ ~Gone(w) /\ Alive(w) /\ UNCHANGED <<proc, passes, seen>>
         /\ \A v \in Workers : v # w => pc'[v] = pc[v]
<1> USE DEF passVars, Gone, Alive
<1>1. CASE AskClaim(w) \/ CallTool(w)
  BY <1>1 DEF AskClaim, CallTool, TypeOK
<1>2. CASE ClaimNothing(w)
  BY <1>2 DEF ClaimNothing, LoopIdle, TypeOK
<1>3. CASE LogClaim(w) \/ Dispatch(w)
  BY <1>3 DEF LogClaim, Dispatch, TypeOK
<1>4. ASSUME NEW handled \in BOOLEAN, Begin(w, handled)
      PROVE  /\ ~Gone(w) /\ Alive(w) /\ UNCHANGED <<proc, passes, seen>>
             /\ \A v \in Workers : v # w => pc'[v] = pc[v]
  BY <1>4 DEF Begin, LoopIdle, TypeOK
<1>5. ASSUME NEW j \in Jobs, ClaimJob(w, j)
      PROVE  /\ ~Gone(w) /\ Alive(w) /\ UNCHANGED <<proc, passes, seen>>
             /\ \A v \in Workers : v # w => pc'[v] = pc[v]
  BY <1>5 DEF ClaimJob, TypeOK
<1>6. ASSUME NEW r \in Verdict \ {"none"}, HandlerReturns(w, r)
      PROVE  /\ ~Gone(w) /\ Alive(w) /\ UNCHANGED <<proc, passes, seen>>
             /\ \A v \in Workers : v # w => pc'[v] = pc[v]
  BY <1>6 DEF HandlerReturns, LoopIdle, TypeOK
<1>7. ASSUME NEW wake \in BOOLEAN, Report(w, wake)
      PROVE  /\ ~Gone(w) /\ Alive(w) /\ UNCHANGED <<proc, passes, seen>>
             /\ \A v \in Workers : v # w => pc'[v] = pc[v]
  BY <1>7 DEF Report, LoopIdle, TypeOK
<1> QED
  BY <1>1, <1>2, <1>3, <1>4, <1>5, <1>6, <1>7 DEF LoopStep, TickStep

\* What a step may be, once more: outside the workers, on a lease, of a process or of its loop.
OutsideStep == OwnerStep \/ EnqueueStep \/ ClockStep \/ UNCHANGED vars
LEMMA StepCases ==
  ASSUME [Next]_vars
  PROVE  \/ OutsideStep
         \/ \E w \in Workers :
              \/ Start(w) \/ RequestStop(w) \/ Crash(w) \/ Sweep(w) \/ StopPass(w)
              \/ \E c \in seen[w] : Settle(w, c)
              \/ \E e \in unlogged[w] : LogSettled(w, e)
              \/ \E via \in Via : EndPass(w, via)
              \/ LoseLease(w) \/ Beat(w) \/ LoopStep(w)
  BY DEF Next, WorkerStep, PassWork, OutsideStep, LoopStep

\* Outside a process nothing of it changes but the deadline of its run.
LEMMA OutsideFrame ==
  ASSUME OutsideStep
  PROVE  UNCHANGED <<proc, pc, cur, ticket, lost, passes, seen, acted, claims, acts, putBack, misfired>>
<1> USE DEF runVars, passVars, eventVars, histVars
<1>1. CASE OwnerStep
  BY <1>1 DEF OwnerStep, Resume, Cancel, Dismiss, Undismiss, Retry, SetPaused
<1>2. CASE EnqueueStep \/ ClockStep
  BY <1>2 DEF EnqueueStep, Enqueue, ClockStep, BackoffElapses, Lapse, DeadlinePasses
<1>3. CASE UNCHANGED vars
  BY <1>3 DEF vars
<1> QED
  BY <1>1, <1>2, <1>3 DEF OutsideStep

\* A pass a live process begins makes nobody live, and has what it read.
LEMMA PassKeepsBoot ==
  ASSUME TypeOK, OneBoot, NEW w \in Workers, proc[w] \in {"starting", "up", "stopping"},
         NEW via, NEW b, BeginPass(w, via, b), UNCHANGED <<proc, pc>>
  PROVE  OneBoot'
<1>1. ~Gone(w)
  BY DEF Gone
<1>2. /\ \A v \in Workers \ {w} : passes'[v] = passes[v] /\ seen'[v] = seen[v]
      /\ passes'[w] = passes[w] \cup {via}
      /\ seen'[w] = seen[w] \cup Candidates(w, via, b)
  BY DEF BeginPass, TypeOK
<1>3. \A v \in Workers : Gone(v) => Gone(v)'
  BY <1>1, <1>2 DEF Gone
<1>4. \A v, u \in Workers : v # u => Gone(v)' \/ Gone(u)'
  BY <1>3 DEF OneBoot
<1>5. \A v \in Workers : proc'[v] \in {"down", "crashed"} => pc'[v] = "idle" /\ passes'[v] = {}
  BY <1>2 DEF OneBoot
<1>6. \A c \in Candidates(w, via, b) : c.via = via
  BY DEF Candidates
<1>7. \A v \in Workers : \A c \in seen'[v] : c.via \in passes'[v]
  BY <1>2, <1>6 DEF OneBoot
<1> QED
  BY <1>4, <1>5, <1>7 DEF OneBoot, Gone

\* One boot runs at a time: a start waits until the one before it is gone, and none that is gone acts.
LEMMA OneBootStep == ASSUME OneServe, TypeOK, OneBoot, [Next]_vars PROVE OneBoot'
<1>1. CASE OutsideStep
  BY <1>1, OutsideFrame DEF OneBoot, Gone
<1>2. ASSUME NEW w \in Workers, Start(w) PROVE OneBoot'
  <2>1. \A c \in Candidates(w, "start", TRUE) : c.via = "start"
    BY DEF Candidates
  <2>2. /\ \A v \in Workers \ {w} : Gone(v)
        /\ UNCHANGED pc /\ proc' = [proc EXCEPT ![w] = "starting"]
        /\ passes' = [passes EXCEPT ![w] = @ \cup {"start"}]
        /\ seen' = [seen EXCEPT ![w] = @ \cup Candidates(w, "start", TRUE)]
    BY <1>2 DEF Start, BeginPass, runVars
  <2>3. \A v \in Workers \ {w} :
          proc'[v] = proc[v] /\ passes'[v] = passes[v] /\ seen'[v] = seen[v]
    BY <2>2 DEF TypeOK
  <2>4. proc'[w] = "starting" /\ passes'[w] = passes[w] \cup {"start"}
        /\ seen'[w] = seen[w] \cup Candidates(w, "start", TRUE)
    BY <2>2 DEF TypeOK
  <2>5. \A v \in Workers \ {w} : Gone(v)'
    BY <2>2, <2>3 DEF Gone
  <2>6. \A v \in Workers : \A c \in seen'[v] : c.via \in passes'[v]
    BY <2>1, <2>3, <2>4 DEF OneBoot
  <2>7. \A v \in Workers : proc'[v] \in {"down", "crashed"} => pc'[v] = "idle" /\ passes'[v] = {}
    BY <2>2, <2>3, <2>4 DEF OneBoot
  <2> QED
    BY <2>5, <2>6, <2>7 DEF OneBoot, Gone
<1>3. ASSUME NEW w \in Workers, RequestStop(w) PROVE OneBoot'
  BY <1>3 DEF OneBoot, Gone, RequestStop, Running, TypeOK, runVars, passVars
<1>4. ASSUME NEW w \in Workers, Crash(w) PROVE OneBoot'
  BY <1>4 DEF OneBoot, Gone, Crash, LoopIdle, TypeOK
<1>5. ASSUME NEW w \in Workers, Sweep(w) PROVE OneBoot'
  BY <1>5, PassKeepsBoot DEF Sweep, Running, runVars
<1>6. ASSUME NEW w \in Workers, StopPass(w) PROVE OneBoot'
  BY <1>6, PassKeepsBoot DEF StopPass, runVars
<1>7. ASSUME NEW w \in Workers, NEW c \in seen[w], Settle(w, c) PROVE OneBoot'
  BY <1>7 DEF OneBoot, Gone, Settle, TypeOK, runVars
<1>8. ASSUME NEW w \in Workers, NEW e \in unlogged[w], LogSettled(w, e) PROVE OneBoot'
  BY <1>8 DEF OneBoot, Gone, LogSettled, runVars
<1>9. ASSUME NEW w \in Workers, NEW via \in Via, EndPass(w, via) PROVE OneBoot'
  BY <1>9 DEF OneBoot, Gone, Alive, EndPass, TypeOK, runVars
<1>10. ASSUME NEW w \in Workers, LoseLease(w) \/ Beat(w) PROVE OneBoot'
  BY <1>10 DEF OneBoot, Gone, LoseLease, Beat, passVars
<1>11. ASSUME NEW w \in Workers, LoopStep(w) PROVE OneBoot'
  BY <1>11, LoopMoves DEF OneBoot, Gone, Alive
<1> QED
  BY <1>1, <1>2, <1>3, <1>4, <1>5, <1>6, <1>7, <1>8, <1>9, <1>10, <1>11, StepCases

\* Beside a process that is there, no other has a run in hand.
LEMMA OneAtWork ==
  ASSUME TypeOK, BusyHasJob, OneBoot, NEW w \in Workers
  PROVE  /\ Gone(w) => pc[w] = "idle" /\ cur[w] = None
         /\ ~Gone(w) => \A v \in Workers \ {w} : pc[v] = "idle" /\ cur[v] = None
<1>1. ASSUME NEW v \in Workers, Gone(v) PROVE pc[v] = "idle" /\ cur[v] = None
  BY <1>1 DEF OneBoot, Gone, BusyHasJob, Holding
<1> QED
  BY <1>1 DEF OneBoot

\* The process of a run in hand is there, and does not begin again.
LEMMA BusyIsThere ==
  ASSUME TypeOK, BusyHasJob, OneBoot, NEW v \in Workers, cur[v] \in Jobs
  PROVE  ~Gone(v) /\ proc[v] # "down" /\ pc[v] \in Holding
  BY OneAtWork, QueueAssumption DEF BusyHasJob, Gone

\* A spent run stays spent as long as it is in hand.
LEMMA SpentKept ==
  ASSUME TypeOK, BusyHasJob, OneBoot, [Next]_vars, NEW v \in Workers,
         cur[v] \in Jobs, cur'[v] = cur[v], Spent(v)
  PROVE  Spent(v)'
<1> USE BusyIsThere, QueueAssumption
<1>1. CASE OutsideStep
  <2>1. overdue \subseteq overdue'
    BY <1>1 DEF OutsideStep, OwnerStep, Resume, Cancel, Dismiss, Undismiss, Retry, SetPaused,
       EnqueueStep, Enqueue, ClockStep, BackoffElapses, Lapse, DeadlinePasses, vars, runVars
  <2> QED
    BY <1>1, <2>1, OutsideFrame DEF Spent, Aborted, Running
<1>2. ASSUME NEW w \in Workers,
             \/ Start(w) \/ RequestStop(w) \/ Sweep(w) \/ StopPass(w)
             \/ \E c \in seen[w] : Settle(w, c)
             \/ \E e \in unlogged[w] : LogSettled(w, e)
             \/ \E via \in Via : EndPass(w, via)
      PROVE  Spent(v)'
  <2>1. UNCHANGED <<pc, lost, overdue>>
    BY <1>2 DEF Start, RequestStop, Sweep, StopPass, Settle, LogSettled, EndPass, runVars
  <2>2. ~Running(v) => ~Running(v)'
    <3>1. CASE UNCHANGED proc
      BY <3>1 DEF Running
    <3>2. CASE Start(w) \/ RequestStop(w)
      BY <3>2 DEF Start, RequestStop, Running, TypeOK
    <3>3. ASSUME NEW via \in Via, EndPass(w, via) PROVE ~Running(v) => ~Running(v)'
      BY <3>3 DEF EndPass, Running, TypeOK
    <3> QED
      BY <1>2, <3>1, <3>2, <3>3 DEF Sweep, StopPass, Settle, LogSettled
  <2> QED
    BY <2>1, <2>2 DEF Spent, Aborted
<1>3. ASSUME NEW w \in Workers, LoopIdle(w), UNCHANGED proc \/ Crash(w) PROVE Spent(v)'
  BY <1>3 DEF LoopIdle, Spent, Aborted, Running, Crash, TypeOK
<1>4. ASSUME NEW w \in Workers, Crash(w) PROVE Spent(v)'
  BY <1>3, <1>4 DEF Crash
<1>5. ASSUME NEW w \in Workers, LoseLease(w) PROVE Spent(v)'
  BY <1>5 DEF LoseLease, Spent, Aborted, Running
<1>6. ASSUME NEW w \in Workers, Beat(w) PROVE Spent(v)'
  <2>1. UNCHANGED <<proc, pc>> /\ pc[w] \in InHandler /\ lost \subseteq lost' /\ overdue \ {w} \subseteq overdue'
    BY <1>6 DEF Beat
  <2> QED
    BY <2>1 DEF Spent, Aborted, Running, InHandler
<1>7. ASSUME NEW w \in Workers, AskClaim(w) \/ LogClaim(w) \/ Dispatch(w) \/ CallTool(w)
      PROVE  Spent(v)'
  BY <1>7 DEF AskClaim, LogClaim, Dispatch, CallTool, Spent, Aborted, Running, TypeOK, Holding
<1>8. ASSUME NEW w \in Workers, NEW j \in Jobs, ClaimJob(w, j) PROVE Spent(v)'
  BY <1>8 DEF ClaimJob, Spent, Aborted, Running, TypeOK, Holding
<1>9. ASSUME NEW w \in Workers, NEW handled \in BOOLEAN, Begin(w, handled) PROVE Spent(v)'
  <2>1. CASE LoopIdle(w)
    BY <1>3, <1>9, <2>1 DEF Begin
  <2>2. CASE ~LoopIdle(w)
    BY <1>9, <2>2 DEF Begin, Spent, Aborted, Running, TypeOK
  <2> QED
    BY <2>1, <2>2
<1>10. ASSUME NEW w \in Workers, NEW r \in Verdict \ {"none"}, HandlerReturns(w, r)
       PROVE  Spent(v)'
  <2>1. CASE LoopIdle(w)
    BY <1>3, <1>10, <2>1 DEF HandlerReturns
  <2>2. CASE ~LoopIdle(w)
    BY <1>10, <2>2 DEF HandlerReturns, Spent, Aborted, Running, TypeOK
  <2> QED
    BY <2>1, <2>2
<1>11. ASSUME NEW w \in Workers, NEW wake \in BOOLEAN, Report(w, wake) \/ ClaimNothing(w)
       PROVE  Spent(v)'
  BY <1>3, <1>11 DEF Report, ClaimNothing
<1> QED
  BY <1>1, <1>2, <1>4, <1>5, <1>6, <1>7, <1>8, <1>9, <1>10, <1>11, StepCases, Zenon
     DEF LoopStep, TickStep

\* Only a claim changes the claim a row has or the run that is latest, and no other
\* step gives a lease or a holder.
LEMMA RowFrame ==
  ASSUME TypeOK, [Next]_vars, ~ \E w \in Workers, i \in Jobs : ClaimJob(w, i), NEW j \in Jobs
  PROVE  /\ claims' = claims
         /\ state'[j] = "leased" => state[j] = "leased" /\ holder'[j] = holder[j]
<1> DEFINE Goal == /\ claims' = claims
                   /\ state'[j] = "leased" => state[j] = "leased" /\ holder'[j] = holder[j]
<1>1. CASE QuietStep
  BY <1>1, QuietFrame
<1>2. ASSUME NEW i \in Jobs, Resume(i) \/ Cancel(i) PROVE Goal
  BY <1>2 DEF TypeOK, Resume, Cancel, histVars
<1>3. ASSUME NEW S \in SUBSET Jobs, Retry(S) PROVE Goal
  BY <1>3 DEF TypeOK, Retry, histVars
<1>4. ASSUME NEW i \in Jobs, NEW n \in Caps, NEW ready \in BOOLEAN, Enqueue(i, n, ready)
      PROVE Goal
  BY <1>4 DEF TypeOK, Enqueue, histVars
<1>5. ASSUME NEW w \in Workers, NEW c \in seen[w], Settle(w, c) PROVE Goal
  BY <1>5 DEF TypeOK, Settle
<1>6. ASSUME NEW w \in Workers, NEW wake \in BOOLEAN, Report(w, wake) PROVE Goal
  <2>1. Outcome(cur[w], verdict[w], wake) # "leased"
    BY DEF Outcome
  <2> QED
    BY <1>6, <2>1 DEF TypeOK, Report, histVars, leaseVars
<1> QED
  BY <1>1, <1>2, <1>3, <1>4, <1>5, <1>6, NextCases

\* The log of calls, and history: which steps write them.
LEMMA LogFrame ==
  ASSUME [Next]_vars
  PROVE  /\ UNCHANGED acts \/ \E w \in Workers : Dispatch(w) /\ ~Aborted(w)
         /\ UNCHANGED acted \/ \E w \in Workers : LogClaim(w) \/ CallTool(w)
         /\ \/ UNCHANGED <<putBack, misfired>>
            \/ \E w \in Workers : \E c \in seen[w] : Settle(w, c)
<1> DEFINE Goal == /\ UNCHANGED acts \/ \E w \in Workers : Dispatch(w) /\ ~Aborted(w)
                   /\ UNCHANGED acted \/ \E w \in Workers : LogClaim(w) \/ CallTool(w)
                   /\ \/ UNCHANGED <<putBack, misfired>>
                      \/ \E w \in Workers : \E c \in seen[w] : Settle(w, c)
<1> USE DEF histVars, eventVars
<1>1. ASSUME OutsideStep PROVE Goal
  BY <1>1, OutsideFrame
<1>2. ASSUME NEW w \in Workers,
             Start(w) \/ RequestStop(w) \/ Crash(w) \/ Sweep(w) \/ StopPass(w)
      PROVE  Goal
  BY <1>2 DEF Start, RequestStop, Crash, Sweep, StopPass
<1>3. ASSUME NEW w \in Workers, NEW c \in seen[w], Settle(w, c) PROVE Goal
  BY <1>3 DEF Settle
<1>4. ASSUME NEW w \in Workers, NEW e \in unlogged[w], LogSettled(w, e) PROVE Goal
  BY <1>4 DEF LogSettled
<1>5. ASSUME NEW w \in Workers, NEW via \in Via, EndPass(w, via) PROVE Goal
  BY <1>5 DEF EndPass
<1>6. ASSUME NEW w \in Workers, LoseLease(w) \/ Beat(w) \/ AskClaim(w) \/ ClaimNothing(w)
      PROVE  Goal
  BY <1>6 DEF LoseLease, Beat, AskClaim, ClaimNothing
<1>7. ASSUME NEW w \in Workers, LogClaim(w) \/ CallTool(w) PROVE Goal
  BY <1>7 DEF LogClaim, CallTool
<1>8. ASSUME NEW w \in Workers, Dispatch(w) PROVE Goal
  BY <1>8 DEF Dispatch
<1>9. ASSUME NEW w \in Workers, NEW handled \in BOOLEAN, Begin(w, handled) PROVE Goal
  BY <1>9 DEF Begin
<1>10. ASSUME NEW w \in Workers, NEW j \in Jobs, ClaimJob(w, j) PROVE Goal
  BY <1>10 DEF ClaimJob
<1>11. ASSUME NEW w \in Workers, NEW r \in Verdict \ {"none"}, HandlerReturns(w, r) PROVE Goal
  BY <1>11 DEF HandlerReturns
<1>12. ASSUME NEW w \in Workers, NEW wake \in BOOLEAN, Report(w, wake) PROVE Goal
  BY <1>12 DEF Report
<1> HIDE DEF Goal
<1>13. Goal
  BY <1>1, <1>2, <1>3, <1>4, <1>5, <1>6, <1>7, <1>8, <1>9, <1>10, <1>11, <1>12, StepCases, Zenon
     DEF LoopStep, TickStep
<1> QED
  BY <1>13 DEF Goal

\* A lease lapses while the row is leased, and the lapse goes with the lease.
LEMMA LapsedFrame ==
  ASSUME TypeOK, [Next]_vars, \A j \in Jobs : j \in lapsed => state[j] = "leased"
  PROVE  /\ \A j \in Jobs : j \in lapsed' => state'[j] = "leased"
         /\ lapsed' \subseteq lapsed \/ \E j \in Jobs : Lapse(j)
<1> DEFINE Goal == /\ \A j \in Jobs : j \in lapsed' => state'[j] = "leased"
                   /\ lapsed' \subseteq lapsed \/ \E j \in Jobs : Lapse(j)
<1>1. CASE QuietStep
  <2>1. UNCHANGED state
    BY <1>1, QuietFrame
  <2>2. ASSUME NEW j \in Jobs, BackoffElapses(j) \/ Lapse(j) \/ Dismiss(j) \/ Undismiss(j)
        PROVE  lapsed' \subseteq lapsed \/ \E i \in Jobs : Lapse(i)
    BY <2>2 DEF BackoffElapses, Dismiss, Undismiss, leaseVars
  <2>3. ASSUME (\E on \in BOOLEAN : SetPaused(on)) \/ UNCHANGED vars PROVE lapsed' \subseteq lapsed
    BY <2>3 DEF SetPaused, rowVars, vars
  <2>4. ASSUME NEW w \in Workers,
               Start(w) \/ Sweep(w) \/ StopPass(w) \/ RequestStop(w) \/ Crash(w)
        PROVE  lapsed' \subseteq lapsed
    BY <2>4 DEF Start, Sweep, StopPass, RequestStop, Crash, rowVars
  <2>5. ASSUME NEW w \in Workers,
               \/ AskClaim(w) \/ ClaimNothing(w) \/ LogClaim(w) \/ Dispatch(w)
               \/ DeadlinePasses(w) \/ LoseLease(w) \/ Beat(w) \/ CallTool(w)
        PROVE  lapsed' \subseteq lapsed
    BY <2>5 DEF AskClaim, ClaimNothing, LogClaim, Dispatch, DeadlinePasses, LoseLease, Beat,
       CallTool, rowVars
  <2>6. ASSUME NEW w \in Workers,
               \/ \E handled \in BOOLEAN : Begin(w, handled)
               \/ \E e \in unlogged[w] : LogSettled(w, e)
               \/ \E via \in Via : EndPass(w, via)
               \/ \E v \in Verdict \ {"none"} : HandlerReturns(w, v)
        PROVE  lapsed' \subseteq lapsed
    BY <2>6 DEF Begin, LogSettled, EndPass, HandlerReturns, rowVars
  <2>7. lapsed' \subseteq lapsed \/ \E i \in Jobs : Lapse(i)
    BY <1>1, <2>2, <2>3, <2>4, <2>5, <2>6 DEF QuietStep
  <2> QED
    BY <2>1, <2>7 DEF Lapse
<1>2. ASSUME NEW i \in Jobs, Resume(i) \/ Cancel(i) PROVE Goal
  BY <1>2 DEF TypeOK, Resume, Cancel
<1>3. ASSUME NEW S \in SUBSET Jobs, Retry(S) PROVE Goal
  BY <1>3 DEF TypeOK, Retry, Retryable
<1>4. ASSUME NEW i \in Jobs, NEW n \in Caps, NEW ready \in BOOLEAN, Enqueue(i, n, ready)
      PROVE Goal
  BY <1>4 DEF TypeOK, Enqueue
<1>5. ASSUME NEW w \in Workers, NEW c \in seen[w], Settle(w, c) PROVE Goal
  BY <1>5 DEF TypeOK, Settle
<1>6. ASSUME NEW w \in Workers, NEW i \in Jobs, ClaimJob(w, i) PROVE Goal
  BY <1>6 DEF TypeOK, ClaimJob
<1>7. ASSUME NEW w \in Workers, NEW wake \in BOOLEAN, Report(w, wake) PROVE Goal
  BY <1>7 DEF TypeOK, Report, leaseVars
<1> QED
  BY <1>1, <1>2, <1>3, <1>4, <1>5, <1>6, <1>7, NextCases

\* A run's deadline is past until a heartbeat or the end of its tick.
LEMMA OverdueFrame ==
  ASSUME TypeOK, [Next]_vars, NEW w \in Workers, w \in overdue, w \notin overdue'
  PROVE  pc[w] \in InHandler \/ pc'[w] = "idle"
<1>1. CASE OutsideStep
  BY <1>1 DEF OutsideStep, OwnerStep, Resume, Cancel, Dismiss, Undismiss, Retry, SetPaused,
     EnqueueStep, Enqueue, ClockStep, BackoffElapses, Lapse, DeadlinePasses, vars, runVars
<1>2. ASSUME NEW v \in Workers,
             \/ Start(v) \/ RequestStop(v) \/ Sweep(v) \/ StopPass(v) \/ LoseLease(v)
             \/ \E c \in seen[v] : Settle(v, c)
             \/ \E e \in unlogged[v] : LogSettled(v, e)
             \/ \E via \in Via : EndPass(v, via)
      PROVE  FALSE
  BY <1>2 DEF Start, RequestStop, Sweep, StopPass, Settle, LogSettled, EndPass, LoseLease, runVars
<1>3. ASSUME NEW v \in Workers, LoopIdle(v) PROVE pc'[w] = "idle"
  BY <1>3 DEF LoopIdle, TypeOK
<1>4. ASSUME NEW v \in Workers, Beat(v) PROVE pc[w] \in InHandler
  BY <1>4 DEF Beat
<1>5. ASSUME NEW v \in Workers, LoopStep(v) \/ Crash(v) PROVE LoopIdle(v)
  BY <1>5 DEF LoopStep, TickStep, Crash, AskClaim, ClaimNothing, LogClaim, Dispatch, Begin,
     ClaimJob, HandlerReturns, Report, CallTool
<1> QED
  BY <1>1, <1>2, <1>3, <1>4, <1>5, StepCases

\* How a run comes to be before its handler, or in a call.
LEMMA PlaceFrame ==
  ASSUME TypeOK, [Next]_vars, NEW w \in Workers, pc[w] \in Holding,
         pc'[w] \in {"claimed", "logged", "calling"}
  PROVE  pc'[w] = pc[w] \/ LogClaim(w) \/ CallTool(w)
<1>1. CASE OutsideStep
  BY <1>1, OutsideFrame
<1>2. ASSUME NEW v \in Workers,
             \/ Start(v) \/ RequestStop(v) \/ Sweep(v) \/ StopPass(v)
             \/ LoseLease(v) \/ Beat(v)
             \/ \E c \in seen[v] : Settle(v, c)
             \/ \E e \in unlogged[v] : LogSettled(v, e)
             \/ \E via \in Via : EndPass(v, via)
      PROVE  pc'[w] = pc[w]
  BY <1>2 DEF Start, RequestStop, Sweep, StopPass, Settle, LogSettled, EndPass, LoseLease, Beat,
     runVars
<1>3. ASSUME NEW v \in Workers, Crash(v) PROVE pc'[w] = pc[w]
  BY <1>3 DEF Crash, LoopIdle, TypeOK
<1>4. ASSUME NEW v \in Workers, LoopStep(v), v # w PROVE pc'[w] = pc[w]
  BY <1>4, LoopMoves
<1>5. ASSUME LoopStep(w) PROVE LogClaim(w) \/ CallTool(w)
  BY <1>5 DEF LoopStep, TickStep, AskClaim, ClaimNothing, Dispatch, Begin, ClaimJob,
     HandlerReturns, Report, LoopIdle, Holding, TypeOK
<1> QED
  BY <1>1, <1>2, <1>3, <1>4, <1>5, StepCases

\* The run in hand is the job's latest, and it is known what it may have called.
LEMMA RunKnownStep ==
  ASSUME TypeOK, BusyHasJob, OneBoot, RunKnown, CallsKnown, [Next]_vars
  PROVE  RunKnown'
<1> USE QueueAssumption
<1>1. ASSUME NEW w \in Workers, NEW j \in Jobs, ClaimJob(w, j) PROVE RunKnown'
  <2>1. \A v \in Workers \ {w} : pc[v] = "idle" /\ pc'[v] = "idle"
    BY <1>1, LoopMoves, OneAtWork DEF LoopStep, TickStep
  <2>2. /\ pc'[w] = "claimed" /\ cur'[w] = j /\ ticket'[w] = claims'[j] /\ holder'[j] = w
        /\ claims'[j] \notin acts'[j] /\ j \notin lapsed'
    BY <1>1 DEF ClaimJob, Claimable, TypeOK, CallsKnown
  <2> QED
    BY <2>1, <2>2 DEF RunKnown, Holding
<1>2. CASE ~ \E w \in Workers, j \in Jobs : ClaimJob(w, j)
  <2> SUFFICES ASSUME NEW w \in Workers, pc'[w] \in Holding
               PROVE  /\ ticket'[w] = claims'[cur'[w]]
                      /\ state'[cur'[w]] = "leased" => holder'[cur'[w]] = w
                      /\ pc'[w] = "calling" => cur'[w] \in acted'
                      /\ pc'[w] \in {"claimed", "logged"} =>
                           /\ ticket'[w] \notin acts'[cur'[w]]
                           /\ state'[cur'[w]] = "leased" /\ cur'[w] \in lapsed' => w \in overdue'
    BY DEF RunKnown
  <2> DEFINE j == cur[w]
  <2>1. /\ cur'[w] = j /\ ticket'[w] = ticket[w] /\ pc[w] \in Holding /\ j \in Jobs
        /\ ticket[w] = claims[j]
    BY <1>2, LoopFrame DEF RunKnown, BusyHasJob, TypeOK
  <2>2. ~Gone(w) /\ \A v \in Workers \ {w} : pc[v] = "idle"
    BY <2>1, BusyIsThere, OneAtWork
  <2>3. /\ claims' = claims
        /\ state'[j] = "leased" => state[j] = "leased" /\ holder'[j] = holder[j]
    BY <1>2, <2>1, RowFrame
  <2>4. ASSUME pc'[w] = "calling" PROVE j \in acted'
    <3>1. CASE CallTool(w)
      BY <3>1 DEF CallTool
    <3>2. CASE pc[w] = "calling"
      BY <2>1, <2>2, <3>2, LogFrame DEF RunKnown, LogClaim, CallTool
    <3> QED
      BY <2>1, <2>4, <3>1, <3>2, PlaceFrame DEF LogClaim, TypeOK
  <2>5. ASSUME pc'[w] \in {"claimed", "logged"}
        PROVE  /\ ticket[w] \notin acts'[j]
               /\ state'[j] = "leased" /\ j \in lapsed' => w \in overdue'
    <3>1. pc[w] \in {"claimed", "logged"}
      BY <2>1, <2>5, PlaceFrame DEF LogClaim, CallTool, TypeOK
    <3>2. UNCHANGED acts
      BY <2>2, <3>1, LogFrame DEF Dispatch
    <3>3. ASSUME state'[j] = "leased", j \in lapsed' PROVE w \in overdue'
      <4>1. CASE j \in lapsed
        BY <2>1, <2>3, <2>5, <3>1, <3>3, <4>1, OverdueFrame DEF RunKnown, InHandler
      <4>2. CASE \E i \in Jobs : Lapse(i)
        BY <2>1, <2>3, <2>5, <3>1, <3>3, <4>2 DEF RunKnown, Lapse, runVars
      <4> QED
        BY <2>1, <3>3, <4>1, <4>2, LapsedFrame DEF CallsKnown
    <3> QED
      BY <2>1, <3>1, <3>2, <3>3 DEF RunKnown
  <2> QED
    BY <2>1, <2>3, <2>4, <2>5 DEF RunKnown
<1> QED
  BY <1>1, <1>2

\* The latest claim's effects are in the log, and history is of claims that were made.
LEMMA CallsKnownStep ==
  ASSUME TypeOK, BusyHasJob, OneBoot, RunKnown, CallsKnown, TypeOK', [Next]_vars
  PROVE  CallsKnown'
<1> USE QueueAssumption
<1>1. \A j \in Jobs : j \in lapsed' => state'[j] = "leased"
  BY LapsedFrame DEF CallsKnown
<1>2. ASSUME NEW w \in Workers, NEW i \in Jobs, ClaimJob(w, i) PROVE CallsKnown'
  <2>1. /\ UNCHANGED <<acts, putBack, acted>> /\ claims' = [claims EXCEPT ![i] = @ + 1]
    BY <1>2 DEF ClaimJob, eventVars
  <2>2. ASSUME NEW j \in Jobs, NEW n \in acts[j] \cup putBack[j]
        PROVE  n \in Nat /\ n <= claims[j] /\ n <= claims'[j] /\ claims[j] \in Nat
    BY <2>1, <2>2 DEF CallsKnown, TypeOK
  <2>3. claims'[i] = claims[i] + 1 /\ \A j \in Jobs \ {i} : claims'[j] = claims[j]
    BY <2>1 DEF TypeOK
  <2>4. claims'[i] \notin acts[i]
    BY <2>2, <2>3
  <2> QED
    BY <1>1, <2>1, <2>2, <2>3, <2>4 DEF CallsKnown
<1>3. CASE ~ \E w \in Workers, j \in Jobs : ClaimJob(w, j)
  <2> SUFFICES ASSUME NEW j \in Jobs
               PROVE  /\ \A n \in acts'[j] \cup putBack'[j] : n <= claims'[j]
                      /\ claims'[j] \in acts'[j] => j \in acted'
    BY <1>1 DEF CallsKnown
  <2>1. claims' = claims /\ claims[j] \in Nat
    BY <1>3, RowFrame DEF TypeOK
  <2>2. \A n \in putBack'[j] : n <= claims[j]
    <3>1. ASSUME NEW w \in Workers, NEW c \in seen[w], Settle(w, c)
          PROVE  putBack'[j] \subseteq putBack[j] \cup {claims[j]}
      BY <3>1 DEF Settle, TypeOK
    <3> QED
      BY <2>1, <3>1, LogFrame DEF CallsKnown
  <2>3. CASE \E w \in Workers : Dispatch(w)
    <3>1. PICK w \in Workers : Dispatch(w)
      BY <2>3
    <3>2. cur[w] \in acted /\ ticket[w] = claims[cur[w]] /\ UNCHANGED acted /\ cur[w] \in Jobs
      BY <3>1 DEF Dispatch, RunKnown, Holding, eventVars, BusyHasJob, TypeOK
    <3>3. /\ acts'[j] \subseteq acts[j] \cup (IF j = cur[w] THEN {claims[j]} ELSE {})
      BY <3>1, <3>2 DEF Dispatch, TypeOK
    <3> QED
      BY <2>1, <2>2, <3>2, <3>3 DEF CallsKnown
  <2>4. CASE \E w \in Workers : LogClaim(w)
    <3>1. PICK w \in Workers : LogClaim(w)
      BY <2>4
    <3>2. ticket[w] = claims[cur[w]] /\ claims[cur[w]] \notin acts[cur[w]] /\ UNCHANGED acts
          /\ acted' = acted \ {cur[w]}
      BY <3>1 DEF LogClaim, RunKnown, Holding, histVars
    <3> QED
      BY <2>1, <2>2, <3>2 DEF CallsKnown
  <2>5. CASE ~ \E w \in Workers : Dispatch(w) \/ LogClaim(w)
    <3>1. UNCHANGED acts /\ acted \subseteq acted'
      BY <2>5, LogFrame DEF CallTool
    <3> QED
      BY <2>1, <2>2, <3>1 DEF CallsKnown
  <2> QED
    BY <2>3, <2>4, <2>5
<1> QED
  BY <1>2, <1>3

\* A spent run dispatches nothing.
LEMMA SpentIsMute ==
  ASSUME NEW w \in Workers, Dispatch(w), ~Aborted(w) PROVE ~Spent(w)
  BY DEF Dispatch, Spent

\* A candidate that is new is one a pass has just read.
LEMMA PassBegins ==
  ASSUME TypeOK, [Next]_vars, NEW w \in Workers, NEW c \in seen'[w], c \notin seen[w]
  PROVE  \/ Start(w) /\ c \in Candidates(w, "start", TRUE)
         \/ Sweep(w) /\ c \in Candidates(w, "sweep", TRUE)
         \/ StopPass(w) /\ c \in Candidates(w, "stop", LoopExited(w))
<1>1. ~OutsideStep /\ \A v \in Workers : ~LoopStep(v)
  BY OutsideFrame, LoopMoves
<1>2. ASSUME NEW v \in Workers, RequestStop(v) \/ LoseLease(v) \/ Beat(v) PROVE FALSE
  BY <1>2 DEF RequestStop, LoseLease, Beat, passVars
<1>3. ASSUME NEW v \in Workers, NEW e \in unlogged[v], LogSettled(v, e) PROVE FALSE
  BY <1>3 DEF LogSettled
<1>4. ASSUME NEW v \in Workers, NEW via \in Via, EndPass(v, via) PROVE FALSE
  BY <1>4 DEF EndPass
<1>5. ASSUME NEW v \in Workers, NEW d \in seen[v], Settle(v, d) PROVE FALSE
  BY <1>5 DEF Settle, TypeOK
<1>6. ASSUME NEW v \in Workers, Crash(v) PROVE FALSE
  BY <1>6 DEF Crash, TypeOK
<1>7. PICK v \in Workers : Start(v) \/ Sweep(v) \/ StopPass(v)
  BY <1>1, <1>2, <1>3, <1>4, <1>5, <1>6, StepCases
<1>8. ASSUME NEW via, NEW b, BeginPass(v, via, b) PROVE v = w /\ c \in Candidates(w, via, b)
  BY <1>8 DEF BeginPass, TypeOK
<1>9. CASE Start(v)
  BY <1>8, <1>9 DEF Start
<1>10. CASE Sweep(v)
  BY <1>8, <1>10 DEF Sweep
<1>11. CASE StopPass(v)
  BY <1>8, <1>11 DEF StopPass
<1> QED
  BY <1>7, <1>9, <1>10, <1>11

\* What a pass decides to put back has no call in the log, and is in its scope.
LEMMA CandidatesDidNothing ==
  ASSUME NEW w, NEW via, NEW b, NEW c \in Candidates(w, via, b), c.requeue
  PROVE  c.job \in Scope(w, via) /\ c.job \notin acted /\ b
<1> DEFINE may(j) == b /\ j \notin acted /\ requeues[j] = 0 /\ attempts[j] < cap[j]
<1>1. PICK j \in Scope(w, via) :
        c = [job |-> j, holder |-> holder[j], claim |-> claims[j], via |-> via, requeue |-> may(j)]
  BY DEF Candidates
<1>2. may(j) => j \notin acted /\ b
  OBVIOUS
<1> HIDE DEF may
<1>3. c.job = j /\ c.requeue = may(j)
  BY <1>1
<1> QED
  BY <1>1, <1>2, <1>3, Zenon

\* A run whose job was in hand before the step and is after it.
LEMMA SameRun ==
  ASSUME TypeOK, [Next]_vars, NEW v \in Workers, cur'[v] \in Jobs,
         \A j \in Jobs : ~ClaimJob(v, j)
  PROVE  cur'[v] = cur[v] /\ ticket'[v] = ticket[v]
<1>1. ASSUME NEW w \in Workers, NEW j \in Jobs, ClaimJob(w, j)
      PROVE  cur'[v] = cur[v] /\ ticket'[v] = ticket[v]
  BY <1>1 DEF ClaimJob, TypeOK
<1>2. CASE ~ \E w \in Workers, j \in Jobs : ClaimJob(w, j)
  BY <1>2, LoopFrame, QueueAssumption
<1> QED
  BY <1>1, <1>2

\* When a pass reads a row it may put back, the run that has it is spent.
LEMMA FreshIsSafe ==
  ASSUME OneServe, TypeOK, BusyHasJob, OneBoot, RunKnown, CallsKnown, [Next]_vars,
         NEW w \in Workers, NEW c \in seen'[w], c \notin seen[w], c.requeue
  PROVE  /\ c.job \in Jobs /\ UNCHANGED <<claims, acts>> /\ claims[c.job] \notin acts[c.job]
         /\ \A v \in Workers : cur'[v] = c.job => Spent(v)'
<1> USE QueueAssumption
<1>1. CASE Start(w) /\ c \in Candidates(w, "start", TRUE)
  <2>1. c.job \in Jobs /\ c.job \notin acted
    BY <1>1, CandidatesDidNothing DEF Scope
  <2>2. UNCHANGED <<claims, acts, cur>>
    BY <1>1 DEF Start, histVars, runVars
  <2>3. \A v \in Workers : cur[v] = None
    BY <1>1, OneAtWork DEF Start, Gone
  <2> QED
    BY <2>1, <2>2, <2>3 DEF CallsKnown
<1>2. CASE Sweep(w) /\ c \in Candidates(w, "sweep", TRUE)
  <2>0. c.job \in Scope(w, "sweep") /\ c.job \notin acted
    BY <1>2, CandidatesDidNothing
  <2>1. c.job \in Jobs /\ state[c.job] = "leased" /\ c.job \in lapsed
    BY <2>0 DEF Scope
  <2>2. UNCHANGED <<claims, acts, cur, pc, proc, lost, overdue>>
    BY <1>2 DEF Sweep, histVars, runVars
  <2>3. \A v \in Workers \ {w} : cur[v] = None
    BY <1>2, OneAtWork DEF Sweep, Running, Gone
  <2>4. ASSUME cur[w] = c.job PROVE Spent(w)
    <3>1. pc[w] \in Holding
      BY <2>1, <2>4 DEF BusyHasJob
    <3>2. CASE pc[w] \in InHandler
      BY <1>2, <2>0, <2>4, <3>2 DEF Sweep, Spent, Aborted
    <3>3. CASE pc[w] \in {"claimed", "logged"}
      BY <2>1, <2>4, <3>1, <3>3 DEF RunKnown, Spent
    <3> QED
      BY <3>1, <3>2, <3>3 DEF Holding, InHandler, Spent
  <2>5. Spent(w) => Spent(w)'
    BY <2>2 DEF Spent, Aborted, Running
  <2> QED
    BY <2>0, <2>1, <2>2, <2>3, <2>4, <2>5 DEF CallsKnown
<1>3. CASE StopPass(w) /\ c \in Candidates(w, "stop", LoopExited(w))
  <2>1. c.job \in Jobs /\ c.job \notin acted /\ LoopExited(w)
    BY <1>3, CandidatesDidNothing DEF Scope
  <2>2. UNCHANGED <<claims, acts, cur>>
    BY <1>3 DEF StopPass, histVars, runVars
  <2>3. \A v \in Workers : cur[v] = None
    BY <1>3, <2>1, OneAtWork DEF StopPass, Gone, LoopExited, BusyHasJob, Holding
  <2> QED
    BY <2>1, <2>2, <2>3 DEF CallsKnown
<1> QED
  BY <1>1, <1>2, <1>3, PassBegins

\* What a pass decided stays safe until the row is settled or claimed again.
LEMMA DecidedSafelyStep ==
  ASSUME OneServe, QueueInv, EffectInv, [Next]_vars PROVE DecidedSafely'
<1> USE QueueAssumption DEF QueueInv, EffectInv
<1> SUFFICES ASSUME NEW w \in Workers, NEW c \in seen'[w], c.requeue, c.claim = claims'[c.job],
                    state'[c.job] = "leased", holder'[c.job] = c.holder
             PROVE  /\ claims'[c.job] \notin acts'[c.job]
                    /\ \A v \in Workers : cur'[v] = c.job => Spent(v)'
  BY DEF DecidedSafely
<1>1. CASE c \notin seen[w]
  BY <1>1, FreshIsSafe
<1>2. CASE c \in seen[w]
  <2> DEFINE j == c.job
  <2>1. j \in Jobs /\ c.claim \in Nat /\ claims[j] \in Nat /\ c.claim <= claims[j]
    BY <1>2 DEF TypeOK, Candidate, DecisionsFit
  <2>2. claims'[j] = claims[j] /\ c.claim = claims[j] /\ state[j] = "leased"
    <3>1. claims'[j] >= claims[j]
      BY <2>1, LeasedFrame
    <3>2. c.claim = claims[j]
      BY <2>1, <3>1
    <3> QED
      BY <2>1, <3>2, LeasedFrame
  <2>3. holder[j] = c.holder /\ \A v \in Workers : ~ClaimJob(v, j)
    <3>1. \A v \in Workers : ~ClaimJob(v, j)
      BY <2>1, <2>2 DEF ClaimJob, TypeOK
    <3>2. ASSUME NEW v \in Workers, NEW i \in Jobs, ClaimJob(v, i) PROVE holder[j] = c.holder
      BY <2>1, <3>1, <3>2 DEF ClaimJob, TypeOK
    <3> QED
      BY <2>1, <3>1, <3>2, RowFrame
  <2>4. claims[j] \notin acts[j] /\ \A v \in Workers : cur[v] = j => Spent(v)
    BY <1>2, <2>2, <2>3 DEF DecidedSafely
  <2>5. ASSUME NEW v \in Workers, cur'[v] = j PROVE Spent(v)'
    <3>1. ASSUME NEW i \in Jobs, ClaimJob(v, i) PROVE FALSE
      <4>1. cur'[v] = i
        BY <3>1 DEF ClaimJob, TypeOK
      <4> QED
        BY <2>3, <2>5, <3>1, <4>1
    <3>2. cur'[v] = cur[v] /\ cur[v] = j
      BY <2>1, <2>5, <3>1, SameRun
    <3> QED
      BY <2>1, <2>4, <3>2, SpentKept
  <2>6. acts'[j] = acts[j]
    <3>1. ASSUME NEW v \in Workers, Dispatch(v), ~Aborted(v) PROVE acts'[j] = acts[j]
      BY <2>1, <2>4, <3>1, SpentIsMute DEF Dispatch, TypeOK
    <3> QED
      BY <3>1, LogFrame
  <2> QED
    BY <2>2, <2>4, <2>5, <2>6
<1> QED
  BY <1>1, <1>2

\* A run that is put back is spent, and stays so while it is there.
LEMMA PutBackSpentStep == ASSUME QueueInv, EffectInv, [Next]_vars PROVE PutBackSpent'
<1> USE DEF QueueInv, EffectInv
<1> SUFFICES ASSUME NEW j \in Jobs, NEW v \in Workers,
                    j \notin misfired', cur'[v] = j, ticket'[v] \in putBack'[j]
             PROVE  Spent(v)'
  BY DEF PutBackSpent
<1>1. ASSUME NEW i \in Jobs, ClaimJob(v, i) PROVE FALSE
  <2>1. i = j /\ ticket'[v] = claims[j] + 1 /\ claims[j] \in Nat /\ UNCHANGED putBack
    BY <1>1 DEF ClaimJob, TypeOK
  <2>2. claims[j] + 1 <= claims[j]
    BY <2>1 DEF CallsKnown
  <2> QED
    BY <2>1, <2>2
<1>2. cur[v] = j /\ cur'[v] = cur[v] /\ ticket'[v] = ticket[v]
  BY <1>1, SameRun
<1>3. ASSUME NEW w \in Workers, NEW c \in seen[w], Settle(w, c) PROVE Spent(v)
  <2>1. CASE ticket[v] \in putBack[j] /\ j \notin misfired
    BY <1>2, <2>1 DEF PutBackSpent
  <2>2. CASE ~(ticket[v] \in putBack[j] /\ j \notin misfired)
    <3>1. misfired \subseteq misfired'
      BY <1>3 DEF Settle
    <3>2. /\ state[c.job] = "leased" /\ holder[c.job] = c.holder /\ c.job = j /\ c.requeue
          /\ c.claim = claims[j]
      BY <1>2, <1>3, <2>2, <3>1 DEF Settle, TypeOK
    <3> QED
      BY <1>2, <3>2 DEF DecidedSafely
  <2> QED
    BY <2>1, <2>2
<1>4. Spent(v)
  <2>1. CASE UNCHANGED <<putBack, misfired>>
    BY <1>2, <2>1 DEF PutBackSpent
  <2> QED
    BY <1>3, <2>1, LogFrame
<1> QED
  BY <1>2, <1>4, SpentKept

\* Neither a settlement nor a dispatch makes a run one that acted and was put back.
LEMMA PutBackDidNothingStep == ASSUME QueueInv, EffectInv, [Next]_vars PROVE PutBackDidNothing'
<1> USE DEF QueueInv, EffectInv
<1> SUFFICES ASSUME NEW j \in Jobs, j \notin misfired' PROVE putBack'[j] \cap acts'[j] = {}
  BY DEF PutBackDidNothing
<1>1. ASSUME NEW w \in Workers, NEW c \in seen[w], Settle(w, c)
      PROVE  putBack'[j] \cap acts'[j] = {}
  <2>1. UNCHANGED acts /\ misfired \subseteq misfired'
    BY <1>1 DEF Settle
  <2>2. CASE putBack'[j] = putBack[j]
    BY <2>1, <2>2 DEF PutBackDidNothing
  <2>3. CASE putBack'[j] # putBack[j]
    <3>1. state[c.job] = "leased" /\ holder[c.job] = c.holder
      BY <1>1, <2>3 DEF Settle
    <3>2. /\ putBack' = [putBack EXCEPT ![c.job] = @ \cup IF c.requeue THEN {claims[c.job]} ELSE {}]
          /\ misfired' = IF c.claim # claims[c.job] THEN misfired \cup {c.job} ELSE misfired
      BY <1>1, <3>1 DEF Settle
    <3>3. c.job = j /\ c.requeue /\ putBack'[j] = putBack[j] \cup {claims[j]}
      BY <2>3, <3>2 DEF TypeOK
    <3>4. c.claim = claims[j]
      BY <3>2, <3>3
    <3>5. claims[j] \notin acts[j]
      BY <3>1, <3>3, <3>4 DEF DecidedSafely
    <3> QED
      BY <2>1, <3>3, <3>4, <3>5 DEF PutBackDidNothing
  <2> QED
    BY <2>2, <2>3
<1>2. ASSUME NEW w \in Workers, Dispatch(w), ~Aborted(w)
      PROVE  putBack'[j] \cap acts'[j] = {}
  <2>1. UNCHANGED <<putBack, misfired>> /\ acts' = [acts EXCEPT ![cur[w]] = @ \cup {ticket[w]}]
    BY <1>2 DEF Dispatch
  <2>2. cur[w] = j => ticket[w] \notin putBack[j]
    BY <1>2, <2>1, SpentIsMute DEF PutBackSpent
  <2>3. acts'[j] = acts[j] \/ (cur[w] = j /\ acts'[j] = acts[j] \cup {ticket[w]})
    BY <2>1 DEF TypeOK
  <2> QED
    BY <2>1, <2>2, <2>3 DEF PutBackDidNothing
<1>3. CASE UNCHANGED <<acts, putBack, misfired>>
  BY <1>3 DEF PutBackDidNothing
<1> QED
  BY <1>1, <1>2, <1>3, LogFrame

-----------------------------------------------------------------------------
(* The theorems                                                            *)

\* At first nothing was claimed, called or read.
LEMMA InitEffect == Init => EffectInv
<1> SUFFICES ASSUME Init PROVE EffectInv
  OBVIOUS
<1>1. OneBoot /\ RunKnown /\ DecidedSafely
  BY DEF Init, OneBoot, Gone, RunKnown, DecidedSafely, Holding
<1>2. CallsKnown /\ PutBackSpent /\ PutBackDidNothing
  BY DEF Init, CallsKnown, PutBackSpent, PutBackDidNothing
<1> QED
  BY <1>1, <1>2 DEF EffectInv

\* Every step keeps it.
LEMMA EffectStep == ASSUME OneServe, QueueInv, EffectInv, QueueInv', [Next]_vars PROVE EffectInv'
<1>1. TypeOK /\ BusyHasJob /\ TypeOK' /\ OneBoot /\ RunKnown /\ CallsKnown
  BY DEF QueueInv, EffectInv
<1>2. OneBoot' /\ RunKnown' /\ CallsKnown'
  BY <1>1, OneBootStep, RunKnownStep, CallsKnownStep
<1>3. DecidedSafely' /\ PutBackSpent' /\ PutBackDidNothing'
  BY DecidedSafelyStep, PutBackSpentStep, PutBackDidNothingStep
<1> QED
  BY <1>2, <1>3 DEF EffectInv

\* When a start waits for the serve before it, what an interruption decided holds
\* until it is carried out, for any jobs, boots and bounds (interruptLeases).
THEOREM EffectInvariant == ASSUME OneServe PROVE Spec => []EffectInv
<1>1. QueueInv /\ EffectInv /\ QueueInv' /\ [Next]_vars => EffectInv'
  BY EffectStep
<1> QED
  BY <1>1, InitEffect, QueueInvariant, PTL DEF Spec

\* Then no run that was put back on the queue dispatched an effect, before or after:
\* nothing that sends, buys or writes is re-run without the owner (jobs.ts:421-430).
THEOREM NothingIsReRun == ASSUME OneServe PROVE Spec => []PutBackDidNothing
<1>1. EffectInv => PutBackDidNothing
  BY DEF EffectInv
<1> QED
  BY <1>1, EffectInvariant, PTL
=============================================================================
