------------------------------ MODULE JobQueue ------------------------------
(***************************************************************************)
(* The durable queue of core/src/queue: the rows of core.jobs, the         *)
(* statements of jobs.ts that move them, and the worker loop of worker.ts  *)
(* with its heartbeat, its local lease timer, its sweeps and its stop.     *)
(*                                                                         *)
(* A worker is one boot of `buddi serve`: every start takes a new holder   *)
(* id, so a worker that died or stopped never comes back.  A job stands    *)
(* for its dedup key, so a repeated enqueue is no step.  A row is a set of *)
(* functions on Jobs, one for each column that decides something; the      *)
(* event log is what interruptLeases reads of it (acted, requeues).        *)
(*                                                                         *)
(* One action is one SQL statement, or one stretch of the worker's code    *)
(* between two awaits.  `claims`, `ticket`, `acts`, `putBack` and          *)
(* `misfired` are history: no guard of the code reads them.                *)
(***************************************************************************)
EXTENDS Naturals, FiniteSets

CONSTANTS
  Jobs,         \* dedup keys of the jobs that may be enqueued
  Workers,      \* boots of `buddi serve`, each its own holder id
  None,         \* no job, or no holder
  Caps,         \* the values of max_attempts a job may be enqueued with
  Profile,      \* the attempts the kind's retry profile has today
  MaxClaims,    \* bound on the claims of one job
  OneServe      \* TRUE when a start waits for the serve before it to be gone

ASSUME QueueAssumption ==
  /\ None \notin Jobs \cup Workers
  /\ Caps \subseteq Nat \ {0}
  /\ Profile \in Nat \ {0}
  /\ MaxClaims \in Nat
  /\ OneServe \in BOOLEAN

VARIABLES
  state,        \* core.jobs.state, or "absent" before the row is there
  holder,       \* lease_owner
  lapsed,       \* the jobs whose lease_until has passed
  due,          \* the jobs whose run_after has passed
  attempts,     \* attempts
  cap,          \* max_attempts
  quiet,        \* the jobs with acknowledged_at: the owner dismissed the failure
  acted,        \* the jobs with a tool.called of an effect, or a delivery, since job.claimed
  requeues,     \* the job.interrupted events that say requeued
  paused,       \* the pause flag of core.system_flags
  claims,       \* history: how often the job was claimed
  acts,         \* history: the claims whose run dispatched an effect
  putBack,      \* history: the claims an interruption put back on the queue
  misfired,     \* history: jobs of which a later claim was settled as an earlier one
  proc,         \* where the worker's process is in its life
  pc,           \* where the worker's loop is
  cur,          \* the job the loop holds in its hand
  ticket,       \* history: which claim of that job it is
  lost,         \* the workers whose run was aborted by loseLease
  overdue,      \* the workers with leaseMs gone since their last confirmed renewal began
  verdict,      \* what the handler returned, on its way to the row
  passes,       \* the interruptLeases calls this process is in
  seen,         \* the candidate rows they read and did not settle yet
  unlogged      \* the rows they settled and whose event is not written yet

leaseVars == <<state, holder, lapsed, due, attempts>>
rowVars   == <<state, holder, lapsed, due, attempts, cap, quiet>>
eventVars == <<acted, requeues>>
histVars  == <<claims, acts, putBack, misfired>>
runVars   == <<pc, cur, ticket, lost, overdue, verdict>>
passVars  == <<passes, seen, unlogged>>
vars == <<rowVars, eventVars, paused, histVars, proc, runVars, passVars>>

-----------------------------------------------------------------------------
(* Types                                                                   *)

JobState == {"absent", "pending", "leased", "suspended",
             "succeeded", "failed", "cancelled"}
\* runWorker called and recovering, looping, asked to stop, stop() resolved, killed
ProcState == {"down", "starting", "up", "stopping", "stopped", "crashed"}
\* between ticks, claim sent, claimed and not logged, logged, in the handler,
\* in the handler with a tool.called just written, writing the outcome
LoopState == {"idle", "asking", "claimed", "logged", "running", "calling", "reporting"}
Verdict == {"none", "complete", "park", "retry", "giveUp"}
Via == {"start", "sweep", "stop"}
Candidate == [job : Jobs, holder : Workers, requeue : BOOLEAN, claim : Nat, via : Via]
Settled == [job : Jobs, requeue : BOOLEAN, via : Via]

InHandler == {"running", "calling"}
Holding == {"claimed", "logged", "running", "calling", "reporting"}

\* `running`: the flag of runWorker, lowered by stop().
Running(w) == proc[w] \in {"starting", "up"}
Alive(w) == proc[w] \in {"starting", "up", "stopping", "stopped"}
\* The signal the handler and its tools look at.
Aborted(w) == w \in lost \/ ~Running(w)
\* The loop returned: recovery is over and no tick is under way.
LoopExited(w) == pc[w] = "idle" /\ "start" \notin passes[w]

TypeOK ==
  /\ state \in [Jobs -> JobState]
  /\ holder \in [Jobs -> Workers \cup {None}]
  /\ lapsed \subseteq Jobs
  /\ due \subseteq Jobs
  /\ attempts \in [Jobs -> Nat]
  /\ cap \in [Jobs -> Nat \ {0}]
  /\ quiet \subseteq Jobs
  /\ acted \subseteq Jobs
  /\ requeues \in [Jobs -> Nat]
  /\ paused \in BOOLEAN
  /\ claims \in [Jobs -> Nat]
  /\ acts \in [Jobs -> SUBSET Nat]
  /\ putBack \in [Jobs -> SUBSET Nat]
  /\ misfired \subseteq Jobs
  /\ proc \in [Workers -> ProcState]
  /\ pc \in [Workers -> LoopState]
  /\ cur \in [Workers -> Jobs \cup {None}]
  /\ ticket \in [Workers -> Nat]
  /\ lost \subseteq Workers
  /\ overdue \subseteq Workers
  /\ verdict \in [Workers -> Verdict]
  /\ passes \in [Workers -> SUBSET Via]
  /\ seen \in [Workers -> SUBSET Candidate]
  /\ unlogged \in [Workers -> SUBSET Settled]

Init ==
  /\ state = [j \in Jobs |-> "absent"]
  /\ holder = [j \in Jobs |-> None]
  /\ lapsed = {}
  /\ due = Jobs
  /\ attempts = [j \in Jobs |-> 0]
  /\ cap = [j \in Jobs |-> Profile]
  /\ quiet = {}
  /\ acted = {}
  /\ requeues = [j \in Jobs |-> 0]
  /\ paused = FALSE
  /\ claims = [j \in Jobs |-> 0]
  /\ acts = [j \in Jobs |-> {}]
  /\ putBack = [j \in Jobs |-> {}]
  /\ misfired = {}
  /\ proc = [w \in Workers |-> "down"]
  /\ pc = [w \in Workers |-> "idle"]
  /\ cur = [w \in Workers |-> None]
  /\ ticket = [w \in Workers |-> 0]
  /\ lost = {}
  /\ overdue = {}
  /\ verdict = [w \in Workers |-> "none"]
  /\ passes = [w \in Workers |-> {}]
  /\ seen = [w \in Workers |-> {}]
  /\ unlogged = [w \in Workers |-> {}]

-----------------------------------------------------------------------------
(* Statements of jobs.ts that a surface, a source or the scheduler makes   *)

\* enqueue: the insert; on a conflict with the dedup key nothing changes.
Enqueue(j, n, ready) ==
  /\ state[j] = "absent"
  /\ state' = [state EXCEPT ![j] = "pending"]
  /\ due' = IF ready THEN due \cup {j} ELSE due \ {j}
  /\ attempts' = [attempts EXCEPT ![j] = 0]
  /\ cap' = [cap EXCEPT ![j] = n]
  /\ UNCHANGED <<holder, lapsed, quiet, eventVars, paused, histVars, proc, runVars, passVars>>

\* run_after passes.
BackoffElapses(j) ==
  /\ state[j] = "pending" /\ j \notin due
  /\ due' = due \cup {j}
  /\ UNCHANGED <<state, holder, lapsed, attempts, cap, quiet, eventVars, paused, histVars, proc, runVars, passVars>>

\* resumeJob, with the attempt refunded (its default, and what every caller takes).
Resume(j) ==
  /\ state[j] = "suspended"
  /\ state' = [state EXCEPT ![j] = "pending"]
  /\ due' = due \cup {j}
  /\ attempts' = [attempts EXCEPT ![j] = IF @ > 0 THEN @ - 1 ELSE @]
  /\ UNCHANGED <<holder, lapsed, cap, quiet, eventVars, paused, histVars, proc, runVars, passVars>>

Cancel(j) ==
  /\ state[j] \in {"pending", "leased", "suspended", "failed"}
  /\ state' = [state EXCEPT ![j] = "cancelled"]
  /\ holder' = [holder EXCEPT ![j] = None]
  /\ lapsed' = lapsed \ {j}
  /\ UNCHANGED <<due, attempts, cap, quiet, eventVars, paused, histVars, proc, runVars, passVars>>

\* Mutant: a finished job may be retried too.
RetryableFinished(j) == state[j] \in {"failed", "cancelled", "suspended", "succeeded"}

Retryable(j) == state[j] \in {"failed", "cancelled", "suspended"}

\* retryJob for one job, retryJobs for a wave of them in one statement.
Retry(S) ==
  /\ S # {} /\ \A j \in S : Retryable(j)
  /\ state' = [j \in Jobs |-> IF j \in S THEN "pending" ELSE state[j]]
  /\ attempts' = [j \in Jobs |-> IF j \in S THEN 0 ELSE attempts[j]]
  /\ cap' = [j \in Jobs |-> IF j \in S /\ cap[j] < Profile THEN Profile ELSE cap[j]]
  /\ due' = due \cup S
  /\ quiet' = quiet \ S
  /\ UNCHANGED <<holder, lapsed, eventVars, paused, histVars, proc, runVars, passVars>>

Dismiss(j) ==
  /\ state[j] = "failed" /\ j \notin quiet
  /\ quiet' = quiet \cup {j}
  /\ UNCHANGED <<leaseVars, cap, eventVars, paused, histVars, proc, runVars, passVars>>

Undismiss(j) ==
  /\ state[j] = "failed" /\ j \in quiet
  /\ quiet' = quiet \ {j}
  /\ UNCHANGED <<leaseVars, cap, eventVars, paused, histVars, proc, runVars, passVars>>

\* setPaused: `buddi pause` and `buddi resume`.
SetPaused(on) ==
  /\ paused # on
  /\ paused' = on
  /\ UNCHANGED <<rowVars, eventVars, histVars, proc, runVars, passVars>>

-----------------------------------------------------------------------------
(* interruptLeases: the candidates are read in one statement, and each is  *)
(* settled in a statement of its own, fenced on the holder that was read.  *)

\* Mutant: the sweep takes back what other processes left, never its own leases.
ScopeOfOthers(w, via) ==
  {j \in Jobs : /\ state[j] = "leased"
                /\ \/ via \in {"start", "sweep"} /\ holder[j] # w
                   \/ via = "stop" /\ holder[j] = w}

Scope(w, via) ==
  {j \in Jobs : /\ state[j] = "leased"
                /\ \/ via = "start" /\ holder[j] # w   \* every other boot's id has the prefix
                   \/ via = "sweep" /\ j \in lapsed
                   \/ via = "stop"  /\ holder[j] = w}

\* Mutants: the query does not look at the calls made, or not at the attempts left.
CandidatesWhateverActed(w, via, mayRequeue) ==
  {[job |-> j, holder |-> holder[j], claim |-> claims[j], via |-> via,
    requeue |-> mayRequeue /\ requeues[j] = 0 /\ attempts[j] < cap[j]] : j \in Scope(w, via)}
CandidatesUnbounded(w, via, mayRequeue) ==
  {[job |-> j, holder |-> holder[j], claim |-> claims[j], via |-> via,
    requeue |-> mayRequeue /\ j \notin acted /\ requeues[j] = 0] : j \in Scope(w, via)}

\* What the candidate query returns, and the decision taken from it.
Candidates(w, via, mayRequeue) ==
  {[job |-> j, holder |-> holder[j], claim |-> claims[j], via |-> via,
    requeue |-> mayRequeue /\ j \notin acted /\ requeues[j] = 0 /\ attempts[j] < cap[j]]
     : j \in Scope(w, via)}

BeginPass(w, via, mayRequeue) ==
  /\ passes' = [passes EXCEPT ![w] = @ \cup {via}]
  /\ seen' = [seen EXCEPT ![w] = @ \cup Candidates(w, via, mayRequeue)]
  /\ UNCHANGED unlogged

Gone(v) ==
  \/ proc[v] \in {"down", "crashed"}
  \/ proc[v] = "stopped" /\ pc[v] = "idle" /\ passes[v] = {}

\* runWorker: the loop calls recover() first, whose query goes out at once.
Start(w) ==
  /\ proc[w] = "down"
  /\ OneServe => \A v \in Workers \ {w} : Gone(v)
  /\ proc' = [proc EXCEPT ![w] = "starting"]
  /\ BeginPass(w, "start", TRUE)
  /\ UNCHANGED <<rowVars, eventVars, paused, histVars, runVars>>

\* Mutant: the sweep may see a lapsed lease before the run behind it was told.
SweepAhead(w) ==
  /\ Running(w) /\ "sweep" \notin passes[w]
  /\ Scope(w, "sweep") # {}
  /\ BeginPass(w, "sweep", TRUE)
  /\ UNCHANGED <<rowVars, eventVars, paused, histVars, proc, runVars>>

\* The sweeper's interval.  Its timer fires in the event loop the lease timer
\* fires in, so a lease it can see lapsed is one whose own run was told first.
Sweep(w) ==
  /\ Running(w) /\ "sweep" \notin passes[w]
  /\ Scope(w, "sweep") # {}
  /\ pc[w] \in InHandler /\ cur[w] \in Scope(w, "sweep") => w \in lost
  /\ BeginPass(w, "sweep", TRUE)
  /\ UNCHANGED <<rowVars, eventVars, paused, histVars, proc, runVars>>

\* stop() lowers `running` and aborts the run.
RequestStop(w) ==
  /\ Running(w)
  /\ proc' = [proc EXCEPT ![w] = "stopping"]
  /\ UNCHANGED <<rowVars, eventVars, paused, histVars, runVars, passVars>>

\* Mutant: stop() waits for the loop without a grace.
StopPassAfterLoop(w) ==
  /\ proc[w] = "stopping" /\ "stop" \notin passes[w] /\ LoopExited(w)
  /\ BeginPass(w, "stop", TRUE)
  /\ UNCHANGED <<rowVars, eventVars, paused, histVars, proc, runVars>>

\* The grace ended: the loop returned, or it did not and nothing is requeued.
StopPass(w) ==
  /\ proc[w] = "stopping" /\ "stop" \notin passes[w]
  /\ BeginPass(w, "stop", LoopExited(w))
  /\ UNCHANGED <<rowVars, eventVars, paused, histVars, proc, runVars>>

\* The fenced update.  It matches when the row is still leased by the holder read.
Settle(w, c) ==
  /\ Alive(w) /\ c \in seen[w]
  /\ \A e \in unlogged[w] : e.via # c.via
  /\ seen' = [seen EXCEPT ![w] = @ \ {c}]
  /\ IF state[c.job] = "leased" /\ holder[c.job] = c.holder
       THEN /\ state' = [state EXCEPT ![c.job] = IF c.requeue THEN "pending" ELSE "failed"]
            /\ due' = IF c.requeue THEN due \cup {c.job} ELSE due
            /\ holder' = [holder EXCEPT ![c.job] = None]
            /\ lapsed' = lapsed \ {c.job}
            /\ quiet' = quiet \ {c.job}
            /\ unlogged' = [unlogged EXCEPT ![w] =
                 @ \cup {[job |-> c.job, requeue |-> c.requeue, via |-> c.via]}]
            /\ putBack' = [putBack EXCEPT ![c.job] =
                 @ \cup IF c.requeue THEN {claims[c.job]} ELSE {}]
            /\ misfired' = IF c.claim # claims[c.job] THEN misfired \cup {c.job} ELSE misfired
       ELSE UNCHANGED <<state, due, holder, lapsed, quiet, unlogged, putBack, misfired>>
  /\ UNCHANGED <<attempts, cap, eventVars, paused, claims, acts, proc, runVars, passes>>

\* The job.interrupted event, which the next pass counts requeues from.
LogSettled(w, e) ==
  /\ Alive(w) /\ e \in unlogged[w]
  /\ unlogged' = [unlogged EXCEPT ![w] = @ \ {e}]
  /\ requeues' = [requeues EXCEPT ![e.job] = IF e.requeue THEN @ + 1 ELSE @]
  /\ UNCHANGED <<rowVars, acted, paused, histVars, proc, runVars, passes, seen>>

\* The pass returns: recovery lets the loop begin, a stop's pass resolves stop().
EndPass(w, via) ==
  /\ Alive(w) /\ via \in passes[w]
  /\ \A c \in seen[w] : c.via # via
  /\ \A e \in unlogged[w] : e.via # via
  /\ passes' = [passes EXCEPT ![w] = @ \ {via}]
  /\ proc' = [proc EXCEPT ![w] = IF via = "stop" THEN "stopped"
                                 ELSE IF via = "start" /\ @ = "starting" THEN "up"
                                 ELSE @]
  /\ UNCHANGED <<rowVars, eventVars, paused, histVars, runVars, seen, unlogged>>

-----------------------------------------------------------------------------
(* The worker loop: claim, run, report                                     *)

\* The loop's locals, once a tick returned.
LoopIdle(w) ==
  /\ pc' = [pc EXCEPT ![w] = "idle"]
  /\ cur' = [cur EXCEPT ![w] = None]
  /\ ticket' = [ticket EXCEPT ![w] = 0]
  /\ lost' = lost \ {w}
  /\ overdue' = overdue \ {w}
  /\ verdict' = [verdict EXCEPT ![w] = "none"]

AskClaim(w) ==
  /\ proc[w] = "up" /\ pc[w] = "idle"
  /\ pc' = [pc EXCEPT ![w] = "asking"]
  /\ UNCHANGED <<rowVars, eventVars, paused, histVars, proc, cur, ticket, lost, overdue, verdict, passVars>>

Claimable(j) == state[j] = "pending" /\ j \in due /\ ~paused /\ claims[j] < MaxClaims

\* Mutant: a lapsed lease may be claimed, and the row keeps the owner it had.
ClaimJobOverLapsed(w, j) ==
  /\ Alive(w) /\ pc[w] = "asking" /\ claims[j] < MaxClaims
  /\ Claimable(j) \/ (state[j] = "leased" /\ j \in lapsed)
  /\ state' = [state EXCEPT ![j] = "leased"]
  /\ holder' = [holder EXCEPT ![j] = IF @ = None THEN w ELSE @]
  /\ attempts' = [attempts EXCEPT ![j] = @ + 1]
  /\ claims' = [claims EXCEPT ![j] = @ + 1]
  /\ pc' = [pc EXCEPT ![w] = "claimed"]
  /\ cur' = [cur EXCEPT ![w] = j]
  /\ ticket' = [ticket EXCEPT ![w] = claims[j] + 1]
  /\ UNCHANGED <<lapsed, due, cap, quiet, eventVars, paused, acts, putBack, misfired, proc,
                 lost, overdue, verdict, passVars>>

\* claimJob.  The claim asked for may land after the process was told to stop.
ClaimJob(w, j) ==
  /\ Alive(w) /\ pc[w] = "asking" /\ Claimable(j)
  /\ state' = [state EXCEPT ![j] = "leased"]
  /\ holder' = [holder EXCEPT ![j] = w]
  /\ attempts' = [attempts EXCEPT ![j] = @ + 1]
  /\ claims' = [claims EXCEPT ![j] = @ + 1]
  /\ pc' = [pc EXCEPT ![w] = "claimed"]
  /\ cur' = [cur EXCEPT ![w] = j]
  /\ ticket' = [ticket EXCEPT ![w] = claims[j] + 1]
  /\ UNCHANGED <<lapsed, due, cap, quiet, eventVars, paused, acts, putBack, misfired, proc,
                 lost, overdue, verdict, passVars>>

ClaimNothing(w) ==
  /\ Alive(w) /\ pc[w] = "asking" /\ \A j \in Jobs : ~Claimable(j)
  /\ LoopIdle(w)
  /\ UNCHANGED <<rowVars, eventVars, paused, histVars, proc, passVars>>

\* The job.claimed event, a statement of its own: calls count from here.
LogClaim(w) ==
  /\ Alive(w) /\ pc[w] = "claimed"
  /\ acted' = acted \ {cur[w]}
  /\ pc' = [pc EXCEPT ![w] = "logged"]
  /\ UNCHANGED <<rowVars, requeues, paused, histVars, proc, cur, ticket, lost, overdue, verdict, passVars>>

\* tick after the claim: dropped when the stop or the deadline came first, failed for
\* good when this build has no handler for the kind, and handed to its handler otherwise.
Begin(w, handled) ==
  /\ Alive(w) /\ pc[w] = "logged"
  /\ IF ~Running(w) \/ w \in overdue
       THEN LoopIdle(w)
       ELSE /\ pc' = [pc EXCEPT ![w] = IF handled THEN "running" ELSE "reporting"]
            /\ verdict' = [verdict EXCEPT ![w] = IF handled THEN @ ELSE "giveUp"]
            /\ UNCHANGED <<cur, ticket, lost, overdue>>
  /\ UNCHANGED <<rowVars, eventVars, paused, histVars, proc, passVars>>

\* leaseMs passed since the claim, or since the last renewal, was sent.
DeadlinePasses(w) ==
  /\ Alive(w) /\ pc[w] \in Holding /\ w \notin overdue
  /\ overdue' = overdue \cup {w}
  /\ UNCHANGED <<rowVars, eventVars, paused, histVars, proc, pc, cur, ticket, lost, verdict, passVars>>

\* The local lease timer's callback.
LoseLease(w) ==
  /\ Alive(w) /\ pc[w] \in InHandler /\ w \in overdue /\ w \notin lost
  /\ lost' = lost \cup {w}
  /\ UNCHANGED <<rowVars, eventVars, paused, histVars, proc, pc, cur, ticket, overdue, verdict, passVars>>

\* Mutant: the fence only asks whether the row is leased.
HoldsAnyLease(w) == state[cur[w]] = "leased"

HoldsRow(w) == state[cur[w]] = "leased" /\ holder[cur[w]] = w

\* A heartbeat: renewed while the row is this worker's, lost otherwise.
Beat(w) ==
  /\ Alive(w) /\ pc[w] \in InHandler /\ w \notin lost
  /\ IF HoldsRow(w)
       THEN /\ lapsed' = lapsed \ {cur[w]}
            /\ overdue' = overdue \ {w}
            /\ UNCHANGED lost
       ELSE /\ lost' = lost \cup {w}
            /\ UNCHANGED <<lapsed, overdue>>
  /\ UNCHANGED <<state, holder, due, attempts, cap, quiet, eventVars, paused, histVars, proc,
                 pc, cur, ticket, verdict, passVars>>

\* lease_until passes.  A renewal's deadline is counted from before it was sent,
\* so the run behind the lease is overdue before its lease lapses.
Lapse(j) ==
  /\ state[j] = "leased" /\ j \notin lapsed
  /\ \A w \in Workers : holder[j] = w /\ cur[w] = j => w \in overdue
  /\ lapsed' = lapsed \cup {j}
  /\ UNCHANGED <<state, holder, due, attempts, cap, quiet, eventVars, paused, histVars, proc, runVars, passVars>>

\* runAgent writes tool.called before it invokes a tool with an effect ...
CallTool(w) ==
  /\ Alive(w) /\ pc[w] = "running" /\ ~Aborted(w)
  /\ acted' = acted \cup {cur[w]}
  /\ pc' = [pc EXCEPT ![w] = "calling"]
  /\ UNCHANGED <<rowVars, requeues, paused, histVars, proc, cur, ticket, lost, overdue, verdict, passVars>>

\* ... and looks at the signal once more before it does.
Dispatch(w) ==
  /\ Alive(w) /\ pc[w] = "calling"
  /\ acts' = IF Aborted(w) THEN acts ELSE [acts EXCEPT ![cur[w]] = @ \cup {ticket[w]}]
  /\ pc' = [pc EXCEPT ![w] = "running"]
  /\ UNCHANGED <<rowVars, eventVars, paused, claims, putBack, misfired, proc, cur, ticket, lost, overdue, verdict, passVars>>

\* The handler ends.  A run that lost its lease or was stopped writes nothing.
HandlerReturns(w, v) ==
  /\ Alive(w) /\ pc[w] = "running"
  /\ IF Aborted(w)
       THEN LoopIdle(w)
       ELSE /\ pc' = [pc EXCEPT ![w] = "reporting"]
            /\ verdict' = [verdict EXCEPT ![w] = v]
            /\ UNCHANGED <<cur, ticket, lost, overdue>>
  /\ UNCHANGED <<rowVars, eventVars, paused, histVars, proc, passVars>>

\* Mutants: failJob forgets the cap, or writes a state the schema does not have.
OutcomeUnbounded(j, v, wake) ==
  IF v = "complete" THEN "succeeded"
  ELSE IF v = "park" THEN IF wake THEN "pending" ELSE "suspended"
  ELSE IF v = "retry" THEN "pending"
  ELSE "failed"
OutcomeRetrying(j, v, wake) ==
  IF v = "complete" THEN "succeeded"
  ELSE IF v = "park" THEN "suspended"
  ELSE IF v = "retry" THEN "retrying"
  ELSE "failed"

\* completeJob, suspendJob and failJob: what each writes on the row it matched.
\* `wake`: the payload already held what suspendJob was told to look for.
Outcome(j, v, wake) ==
  IF v = "complete" THEN "succeeded"
  ELSE IF v = "park" THEN IF wake THEN "pending" ELSE "suspended"
  ELSE IF v = "retry" /\ attempts[j] < cap[j] THEN "pending"
  ELSE "failed"

Report(w, wake) ==
  /\ Alive(w) /\ pc[w] = "reporting"
  /\ wake => verdict[w] = "park"
  /\ LET j == cur[w]
         next == Outcome(j, verdict[w], wake)
     IN IF HoldsRow(w)
          THEN /\ state' = [state EXCEPT ![j] = next]
               /\ holder' = [holder EXCEPT ![j] = None]
               /\ lapsed' = lapsed \ {j}
               /\ due' = IF next # "pending" THEN due ELSE IF wake THEN due \cup {j} ELSE due \ {j}
               /\ attempts' = [attempts EXCEPT ![j] = IF wake /\ @ > 0 THEN @ - 1 ELSE @]
               /\ quiet' = IF verdict[w] \in {"complete", "park"} THEN quiet ELSE quiet \ {j}
          ELSE UNCHANGED <<leaseVars, quiet>>
  /\ LoopIdle(w)
  /\ UNCHANGED <<cap, eventVars, paused, histVars, proc, passVars>>

\* The process is killed; what it held in memory is gone, its leases are not.
Crash(w) ==
  /\ Alive(w)
  /\ proc' = [proc EXCEPT ![w] = "crashed"]
  /\ LoopIdle(w)
  /\ passes' = [passes EXCEPT ![w] = {}]
  /\ seen' = [seen EXCEPT ![w] = {}]
  /\ unlogged' = [unlogged EXCEPT ![w] = {}]
  /\ UNCHANGED <<rowVars, eventVars, paused, histVars>>

-----------------------------------------------------------------------------
OwnerStep ==
  \/ \E j \in Jobs : Resume(j) \/ Cancel(j) \/ Dismiss(j) \/ Undismiss(j)
  \/ \E S \in SUBSET Jobs : Retry(S)
  \/ \E on \in BOOLEAN : SetPaused(on)

EnqueueStep == \E j \in Jobs, n \in Caps, ready \in BOOLEAN : Enqueue(j, n, ready)

ClockStep ==
  \/ \E j \in Jobs : BackoffElapses(j) \/ Lapse(j)
  \/ \E w \in Workers : DeadlinePasses(w)

\* The statements an interruption pass still has to make.
PassWork(w) ==
  \/ \E c \in seen[w] : Settle(w, c)
  \/ \E e \in unlogged[w] : LogSettled(w, e)
  \/ \E via \in Via : EndPass(w, via)

\* What the tick does on its own once it has claimed: no heartbeat, no tool.
TickStep(w) ==
  \/ AskClaim(w) \/ ClaimNothing(w) \/ LogClaim(w) \/ Dispatch(w)
  \/ \E handled \in BOOLEAN : Begin(w, handled)
  \/ \E j \in Jobs : ClaimJob(w, j)
  \/ \E v \in Verdict \ {"none"} : HandlerReturns(w, v)
  \/ \E wake \in BOOLEAN : Report(w, wake)

WorkerStep(w) ==
  \/ Start(w) \/ RequestStop(w) \/ Crash(w)
  \/ Sweep(w) \/ StopPass(w) \/ PassWork(w) \/ TickStep(w)
  \/ LoseLease(w) \/ Beat(w) \/ CallTool(w)

Next ==
  \/ OwnerStep \/ EnqueueStep \/ ClockStep
  \/ \E w \in Workers : WorkerStep(w)

Spec == Init /\ [][Next]_vars

\* The system while its owner is away.
Unattended == EnqueueStep \/ ClockStep \/ \E w \in Workers : WorkerStep(w)
UnattendedSpec == Init /\ [][Unattended]_vars

\* Timers fire and statements answer.  Nothing here makes a handler return, a
\* process crash or the owner act; a start happens while serves are launched.
Fairness ==
  /\ \A j \in Jobs : WF_vars(Lapse(j))
  /\ \A w \in Workers :
       /\ WF_vars(Start(w)) /\ WF_vars(Sweep(w)) /\ WF_vars(StopPass(w))
       /\ WF_vars(LoseLease(w)) /\ WF_vars(PassWork(w))

LiveSpec == UnattendedSpec /\ Fairness

-----------------------------------------------------------------------------
(* What the queue promises                                                 *)

\* The fence of completeJob, failJob, suspendJob and heartbeat names a process,
\* not a run: it is sound because the run a holder has in hand is always the
\* latest claim of the row it is the lease_owner of.
HolderRunsLatest ==
  \A w \in Workers :
    pc[w] \in Holding /\ HoldsRow(w) => ticket[w] = claims[cur[w]]

\* What a run writes when it ends, or renews while it goes on, lands on the row
\* only when no later claim of the job was made: a run that was interrupted,
\* cancelled and retried, or claimed by another process never speaks for its successor.
OnlyLatestRunWrites ==
  [][\A w \in Workers :
       LET j == cur[w] IN
       /\ pc[w] = "reporting" /\ pc'[w] = "idle" /\ proc'[w] = proc[w] /\ state'[j] # state[j]
            => ticket[w] = claims[j]
       /\ pc[w] \in InHandler /\ pc'[w] = pc[w] /\ w \in overdue /\ w \notin overdue'
            => ticket[w] = claims[j] /\ holder[j] = w]_vars

\* interruptLeases (jobs.ts:421-430): a run that was put back on the queue never
\* dispatched an effect, neither before the decision nor after it: nothing that
\* sends, buys or writes is re-run without the owner deciding.
PutBackDidNothing ==
  \A j \in Jobs : j \notin misfired => putBack[j] \cap acts[j] = {}

\* A job that waits for a worker has an attempt left to spend, and a claim never
\* takes the counter past the cap: the retry policy's bound survives the
\* interleavings of reports, interruptions, resumptions and retries.
AttemptsInBudget ==
  \A j \in Jobs : j \notin misfired =>
    attempts[j] <= cap[j] /\ (state[j] = "pending" => attempts[j] < cap[j])

\* The invariant the proofs carry: a row is leased exactly while it names a holder,
\* a busy loop has a job in hand, and the budget an interruption saw is still there
\* as long as the claim it saw is.
LeasesAreHeld == \A j \in Jobs : state[j] = "leased" <=> holder[j] # None
BusyHasJob == \A w \in Workers : pc[w] \in Holding <=> cur[w] # None
DecisionsFit ==
  \A w \in Workers : \A c \in seen[w] :
    /\ c.claim <= claims[c.job]
    /\ c.requeue /\ c.claim = claims[c.job] /\ state[c.job] = "leased"
         => attempts[c.job] < cap[c.job]
QueueInv ==
  /\ TypeOK /\ LeasesAreHeld /\ BusyHasJob /\ HolderRunsLatest
  /\ DecisionsFit /\ AttemptsInBudget

\* What keeps an interruption from putting back a run that still acts, when serves
\* follow each other.  A run is spent when nothing it does from here on is an effect.
Spent(v) ==
  \/ Aborted(v) \/ pc[v] = "reporting"
  \/ pc[v] \in {"claimed", "logged"} /\ v \in overdue

\* One boot runs at a time, and a process that is gone left no loop and no pass.
OneBoot ==
  /\ \A v, w \in Workers : v # w => Gone(v) \/ Gone(w)
  /\ \A w \in Workers : proc[w] \in {"down", "crashed"} => pc[w] = "idle" /\ passes[w] = {}
  /\ \A w \in Workers : \A c \in seen[w] : c.via \in passes[w]

\* A run in hand is the job's latest, and what it called is in the log or still to come.
RunKnown ==
  \A w \in Workers : pc[w] \in Holding =>
    /\ ticket[w] = claims[cur[w]]
    /\ state[cur[w]] = "leased" => holder[cur[w]] = w
    /\ pc[w] = "calling" => cur[w] \in acted
    /\ pc[w] \in {"claimed", "logged"} =>
         /\ ticket[w] \notin acts[cur[w]]
         /\ state[cur[w]] = "leased" /\ cur[w] \in lapsed => w \in overdue

\* History is of claims that were made, and the latest claim's effects are in the log.
CallsKnown ==
  \A j \in Jobs :
    /\ \A n \in acts[j] \cup putBack[j] : n <= claims[j]
    /\ claims[j] \in acts[j] => j \in acted
    /\ j \in lapsed => state[j] = "leased"

\* A job about to be put back did nothing, and the run that has it is spent.
DecidedSafely ==
  \A w \in Workers : \A c \in seen[w] :
    /\ c.requeue /\ c.claim = claims[c.job]
    /\ state[c.job] = "leased" /\ holder[c.job] = c.holder
    => /\ claims[c.job] \notin acts[c.job]
       /\ \A v \in Workers : cur[v] = c.job => Spent(v)

\* A run that was put back is spent, if it is still there.
PutBackSpent ==
  \A j \in Jobs, v \in Workers :
    j \notin misfired /\ cur[v] = j /\ ticket[v] \in putBack[j] => Spent(v)

EffectInv ==
  /\ OneBoot /\ RunKnown /\ CallsKnown
  /\ DecidedSafely /\ PutBackSpent /\ PutBackDidNothing

\* jobs.ts:432: every write of an interruption is fenced on the holder the query
\* saw, so a lease reclaimed in between is left alone.
ReclaimedLeaseLeftAlone == misfired = {}

\* A lease of a run that will never report: its process is gone, its claim was
\* dropped before the handler began, or its signal was aborted.
Forsaken(j) ==
  /\ state[j] = "leased"
  /\ LET w == holder[j] IN cur[w] # j \/ Aborted(w)

\* A lease whose run will never report is taken back as long as some serve stays
\* up: by the stop, by the next start, or by the sweep of the one that runs, even
\* when the handler behind it never returns.
ForsakenSettled ==
  <>[](\E w \in Workers : Running(w)) => \A j \in Jobs : Forsaken(j) ~> ~Forsaken(j)

\* stop() resolves (or the process dies) whatever the handler does with its signal.
StopEnds == \A w \in Workers : proc[w] = "stopping" ~> proc[w] # "stopping"

\* The life of a job as its users see it: leases, holders, backoff and the
\* interruption passes are hidden.
LifeOf(j) ==
  IF state[j] = "absent" THEN "none"
  ELSE IF state[j] = "pending" THEN "waiting"
  ELSE IF state[j] = "leased" THEN "running"
  ELSE IF state[j] = "suspended" THEN "parked"
  ELSE IF state[j] = "succeeded" THEN "done"
  ELSE IF state[j] = "failed" THEN IF j \in quiet THEN "dismissed" ELSE "failed"
  ELSE "dropped"

Lifecycle == INSTANCE JobLifecycle WITH life <- [j \in Jobs |-> LifeOf(j)]

\* The queue implements JobLifecycle: no interleaving of reports, interruptions,
\* restarts and the owner's commands moves a job any other way; a finished job
\* never runs again and no failure is quiet before the owner dismissed it.
ImplementsLifecycle == Lifecycle!Spec
=============================================================================
