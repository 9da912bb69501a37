----------------------------- MODULE Approvals -----------------------------
(***************************************************************************)
(* The owner gate of core/src/actions: the approval of one recorded        *)
(* action, the surfaces that decide it (dashboard, Telegram, CLI), the     *)
(* executor that runs what was approved, the expiry sweep, the standing    *)
(* permissions, and the parked run an answer wakes.                        *)
(*                                                                         *)
(* A caller is one call of decideApproval and what follows it in the same  *)
(* handler: an owner's tap on some surface, or a run whose tool call a     *)
(* standing permission answers.  One action is one SQL statement, or the   *)
(* stretch of code between two awaits.  `dispatches`, `world` and `void`   *)
(* are history and environment: no guard of the code reads `dispatches`    *)
(* or `void`, and `world` is what the tool does outside.                   *)
(***************************************************************************)
EXTENDS Naturals, FiniteSets

CONSTANTS
  Actions,      \* ids of the actions that may be recorded
  Callers,      \* handlers that may be deciding at the same time
  None,         \* no action
  MaxGrants     \* bound on the standing permissions ever given

ASSUME ApprovalsAssumption ==
  /\ None \notin Actions
  /\ MaxGrants \in Nat

VARIABLES
  approval,     \* core.approvals.state, or "absent" before the action is recorded
  via,          \* the standing permission decided_via names, 0 for an owner's tap
  attempt,      \* the state of the action's row in core.effect_attempts, or "none"
  late,         \* the actions whose expires_at has passed
  standing,     \* the id of the row in core.tool_permissions, 0 when there is none
  issued,       \* how many ids were given so far
  run,          \* where the run that proposed the action is
  pc,           \* where a caller is
  act,          \* the action it is about
  using,        \* the standing permission it decides with, 0 for an owner's tap
  early,        \* the callers whose `now` is before the action's expires_at
  outcome,      \* what withDeadline resolved to
  dispatches,   \* history: how often the tool was executed for the action
  void,         \* history: the actions claimed when their permission was gone
  world         \* what became of the effect outside

rowVars    == <<approval, via, attempt>>
permVars   == <<standing, issued>>
callerVars == <<pc, act, using, early, outcome>>
histVars   == <<dispatches, void>>
vars == <<rowVars, late, permVars, run, callerVars, histVars, world>>

-----------------------------------------------------------------------------
ApprovalState == {"absent", "pending", "approved", "rejected", "expired", "executing",
                  "succeeded", "failed", "refused", "unknown"}
Outcomes == {"succeeded", "failed", "unknown"}
Settled == Outcomes \cup {"rejected", "expired", "refused"}
\* being invoked, answered by a standing permission, asked in a chat, the handler
\* returned and suspendJob not written, parked, woken, retried or cancelled or dead
RunState == {"none", "invoking", "inline", "chat", "parking", "suspended", "woken", "elsewhere"}
PC == {"idle", "tapped", "deciding", "claiming", "checking", "describing", "refusing",
       "opening", "dispatching", "waiting", "finishing", "settling", "waking"}
\* Where a caller holds the yes it was given, and where it holds the claim.
Claimed == {"checking", "describing", "refusing", "opening", "dispatching",
            "waiting", "finishing", "settling"}
Attempting == {"dispatching", "waiting", "finishing", "settling"}

TypeOK ==
  /\ approval \in [Actions -> ApprovalState]
  /\ via \in [Actions -> Nat]
  /\ attempt \in [Actions -> Outcomes \cup {"none", "executing"}]
  /\ late \subseteq Actions
  /\ standing \in Nat /\ issued \in Nat
  /\ run \in [Actions -> RunState]
  /\ pc \in [Callers -> PC]
  /\ act \in [Callers -> Actions \cup {None}]
  /\ using \in [Callers -> Nat]
  /\ early \subseteq Callers
  /\ outcome \in [Callers -> Outcomes \cup {"none"}]
  /\ dispatches \in [Actions -> Nat]
  /\ void \subseteq Actions
  /\ world \in [Actions -> {"untouched", "inflight", "done", "threw"}]

Init ==
  /\ approval = [a \in Actions |-> "absent"]
  /\ via = [a \in Actions |-> 0]
  /\ attempt = [a \in Actions |-> "none"]
  /\ late = {}
  /\ standing = 0 /\ issued = 0
  /\ run = [a \in Actions |-> "none"]
  /\ pc = [c \in Callers |-> "idle"]
  /\ act = [c \in Callers |-> None]
  /\ using = [c \in Callers |-> 0]
  /\ early = {}
  /\ outcome = [c \in Callers |-> "none"]
  /\ dispatches = [a \in Actions |-> 0]
  /\ void = {}
  /\ world = [a \in Actions |-> "untouched"]

-----------------------------------------------------------------------------
(* A caller's locals                                                       *)

Goto(c, l) ==
  /\ pc' = [pc EXCEPT ![c] = l]
  /\ UNCHANGED <<act, using, early, outcome>>

\* The handler begins, with `now` read from the clock.
Enter(c, a, permission) ==
  /\ pc[c] = "idle"
  /\ pc' = [pc EXCEPT ![c] = "tapped"]
  /\ act' = [act EXCEPT ![c] = a]
  /\ using' = [using EXCEPT ![c] = permission]
  /\ early' = IF a \in late THEN early ELSE early \cup {c}
  /\ UNCHANGED outcome

\* The handler returned, threw, or died.
Leave(c) ==
  /\ pc' = [pc EXCEPT ![c] = "idle"]
  /\ act' = [act EXCEPT ![c] = None]
  /\ using' = [using EXCEPT ![c] = 0]
  /\ early' = early \ {c}
  /\ outcome' = [outcome EXCEPT ![c] = "none"]

\* A surface wakes the run it decided for; a run that decided for itself goes on.
Conclude(c) == IF using[c] = 0 THEN Goto(c, "waking") ELSE Leave(c)

-----------------------------------------------------------------------------
(* The run: ToolRegistry.#requestApproval, and the job it belongs to       *)

\* createAction: the action and its pending approval, in one statement.
CreateAction(a) ==
  /\ approval[a] = "absent"
  /\ approval' = [approval EXCEPT ![a] = "pending"]
  /\ run' = [run EXCEPT ![a] = "invoking"]
  /\ UNCHANGED <<via, attempt, late, permVars, callerVars, histVars, world>>

\* findToolPermission found a row: the run decides and executes by itself.
UseStanding(c, a) ==
  /\ run[a] = "invoking" /\ standing # 0
  /\ run' = [run EXCEPT ![a] = "inline"]
  /\ Enter(c, a, standing)
  /\ UNCHANGED <<rowVars, late, permVars, histVars, world>>

\* approval-required: a chat turn ends there, a job's handler returns to be parked.
AskOwner(a, durable) ==
  /\ run[a] = "invoking"
  /\ run' = [run EXCEPT ![a] = IF durable THEN "parking" ELSE "chat"]
  /\ UNCHANGED <<rowVars, late, permVars, callerVars, histVars, world>>

\* suspendJob, without a wakeIf: the agent-run handler gives none.
SuspendJob(a) ==
  /\ run[a] = "parking"
  /\ run' = [run EXCEPT ![a] = "suspended"]
  /\ UNCHANGED <<rowVars, late, permVars, callerVars, histVars, world>>

\* The job is interrupted, cancelled, or retried from the start: see JobQueue.
JobMovesOn(a) ==
  /\ run[a] \in {"parking", "suspended"}
  /\ run' = [run EXCEPT ![a] = "elsewhere"]
  /\ UNCHANGED <<rowVars, late, permVars, callerVars, histVars, world>>

-----------------------------------------------------------------------------
(* The decision: decideApproval                                            *)

\* The owner taps, on whatever card or list still shows the action.
Tap(c, a) ==
  /\ approval[a] # "absent"
  /\ Enter(c, a, 0)
  /\ UNCHANGED <<rowVars, late, permVars, run, histVars, world>>

\* The first statement: a due request is expired before anything else looks at it.
ExpireIfDue(c) ==
  /\ pc[c] = "tapped"
  /\ approval' = IF approval[act[c]] = "pending" /\ c \notin early
                   THEN [approval EXCEPT ![act[c]] = "expired"]
                   ELSE approval
  /\ Goto(c, "deciding")
  /\ UNCHANGED <<via, attempt, late, permVars, run, histVars, world>>

\* Mutant: the update does not ask whether the request is still pending.
DecidableAgain(c) == c \in early

Decidable(c) == approval[act[c]] = "pending" /\ c \in early

\* The second statement decides, and remembers when the owner asked for it; the
\* row given before keeps its id.
Decide(c, answer, remember) ==
  /\ pc[c] = "deciding" /\ Decidable(c)
  /\ remember => answer = "approved" /\ using[c] = 0 /\ (standing = 0 => issued < MaxGrants)
  /\ using[c] # 0 => answer = "approved"
  /\ approval' = [approval EXCEPT ![act[c]] = answer]
  /\ via' = [via EXCEPT ![act[c]] = using[c]]
  /\ IF remember /\ standing = 0
       THEN standing' = issued + 1 /\ issued' = issued + 1
       ELSE UNCHANGED permVars
  /\ Goto(c, IF answer = "approved" THEN "claiming" ELSE "waking")
  /\ UNCHANGED <<attempt, late, run, histVars, world>>

\* Nothing moved: the surface says so, the inline run gets a tool error.
DecideRefused(c) ==
  /\ pc[c] = "deciding" /\ ~Decidable(c)
  /\ Leave(c)
  /\ UNCHANGED <<rowVars, late, permVars, run, histVars, world>>

-----------------------------------------------------------------------------
(* The executor: executeApproved                                           *)

\* Telegram, the CLI and a run read the clock again; the dashboard does not.
ReadClock(c) ==
  /\ pc[c] = "claiming" /\ c \in early /\ act[c] \in late
  /\ early' = early \ {c}
  /\ UNCHANGED <<rowVars, late, permVars, run, pc, act, using, outcome, histVars, world>>

\* 1. The claim, with expiry rechecked in the same statement.
Claim(c) ==
  /\ pc[c] = "claiming"
  /\ approval[act[c]] = "approved" /\ c \in early
  /\ approval' = [approval EXCEPT ![act[c]] = "executing"]
  /\ void' = IF via[act[c]] \notin {0, standing} THEN void \cup {act[c]} ELSE void
  /\ Goto(c, "checking")
  /\ UNCHANGED <<via, attempt, late, permVars, run, dispatches, world>>

\* refuseClaim: not approved any more, or approved and expired.
RefuseClaim(c) ==
  /\ pc[c] = "claiming"
  /\ ~(approval[act[c]] = "approved" /\ c \in early)
  /\ approval' = IF approval[act[c]] = "approved"
                   THEN [approval EXCEPT ![act[c]] = "expired"]
                   ELSE approval
  /\ Conclude(c)
  /\ UNCHANGED <<via, attempt, late, permVars, run, histVars, world>>

\* Mutant: any permission of the owner for the tool will do.
StillPermittedByAny(a) == via[a] # 0 => standing # 0

StillPermitted(a) == via[a] \in {0, standing}

\* 2. The standing permission is looked up again, by its id.
CheckPermission(c) ==
  /\ pc[c] = "checking"
  /\ Goto(c, IF StillPermitted(act[c]) THEN "describing" ELSE "refusing")
  /\ UNCHANGED <<rowVars, late, permVars, run, histVars, world>>

\* Mutant: the tool runs before the attempt is recorded.
RecheckThenDispatch(c, same) ==
  /\ pc[c] = "describing"
  /\ Goto(c, IF same THEN "dispatching" ELSE "refusing")
  /\ UNCHANGED <<rowVars, late, permVars, run, histVars, world>>

\* The rest of the recheck: policy, tier, hash, tool, version, arguments, choices,
\* the envelope described again, and the tool's own claim.
Recheck(c, same) ==
  /\ pc[c] = "describing"
  /\ Goto(c, IF same THEN "opening" ELSE "refusing")
  /\ UNCHANGED <<rowVars, late, permVars, run, histVars, world>>

SettleWithoutDispatch(c) ==
  /\ pc[c] = "refusing"
  /\ approval' = [approval EXCEPT ![act[c]] = "refused"]
  /\ Conclude(c)
  /\ UNCHANGED <<via, attempt, late, permVars, run, histVars, world>>

\* 3. Intent before dispatch.
StartAttempt(c) ==
  /\ pc[c] = "opening"
  /\ attempt' = [attempt EXCEPT ![act[c]] = "executing"]
  /\ Goto(c, "dispatching")
  /\ UNCHANGED <<approval, via, late, permVars, run, histVars, world>>

\* 4. withDeadline starts the tool ...
Dispatch(c) ==
  /\ pc[c] = "dispatching"
  /\ dispatches' = [dispatches EXCEPT ![act[c]] = @ + 1]
  /\ world' = [world EXCEPT ![act[c]] = "inflight"]
  /\ Goto(c, "waiting")
  /\ UNCHANGED <<rowVars, late, permVars, run, void>>

Resolve(c, o) ==
  /\ outcome' = [outcome EXCEPT ![c] = o]
  /\ pc' = [pc EXCEPT ![c] = "finishing"]
  /\ UNCHANGED <<rowVars, late, permVars, run, act, using, early, histVars, world>>

\* ... unless the signal was aborted first; takes its answer ...
CancelledFirst(c) == pc[c] = "dispatching" /\ Resolve(c, "unknown")

Answered(c) ==
  /\ pc[c] = "waiting"
  /\ \/ world[act[c]] = "done" /\ Resolve(c, "succeeded")
     \/ world[act[c]] = "threw" /\ Resolve(c, "failed")

\* Mutant: a deadline counts as a failure.
DeadlineFails(c) == pc[c] = "waiting" /\ Resolve(c, "failed")
\* Mutant: without a deadline only an answer ends the wait.
DeadlineNever(c) == pc[c] = "waiting" /\ world[act[c]] # "inflight" /\ Resolve(c, "unknown")

\* ... or gives up at the deadline or on a cancellation; a late answer is dropped.
Deadline(c) == pc[c] = "waiting" /\ Resolve(c, "unknown")

FinishAttempt(c) ==
  /\ pc[c] = "finishing"
  /\ attempt' = [attempt EXCEPT ![act[c]] = outcome[c]]
  /\ Goto(c, "settling")
  /\ UNCHANGED <<approval, via, late, permVars, run, histVars, world>>

\* Mutant: the approval says succeeded for whatever the tool answered.
SettleAnswered(c) ==
  /\ pc[c] = "settling"
  /\ approval' = [approval EXCEPT ![act[c]] = IF outcome[c] = "unknown" THEN "unknown" ELSE "succeeded"]
  /\ Conclude(c)
  /\ UNCHANGED <<via, attempt, late, permVars, run, histVars, world>>

\* settleApproval: an update without a guard on the state it leaves.
SettleApproval(c) ==
  /\ pc[c] = "settling"
  /\ approval' = [approval EXCEPT ![act[c]] = outcome[c]]
  /\ Conclude(c)
  /\ UNCHANGED <<via, attempt, late, permVars, run, histVars, world>>

\* Mutant: a surface that executed forgets the run.
WakeForgotten(c) ==
  /\ pc[c] = "waking"
  /\ run' = IF run[act[c]] = "suspended" /\ approval[act[c]] = "rejected"
              THEN [run EXCEPT ![act[c]] = "woken"] ELSE run
  /\ Leave(c)
  /\ UNCHANGED <<rowVars, late, permVars, histVars, world>>

\* resumeJobForAction: resumeJob matches a suspended job and nothing else.
Wake(c) ==
  /\ pc[c] = "waking"
  /\ run' = IF run[act[c]] = "suspended" THEN [run EXCEPT ![act[c]] = "woken"] ELSE run
  /\ Leave(c)
  /\ UNCHANGED <<rowVars, late, permVars, histVars, world>>

-----------------------------------------------------------------------------
(* Around them: the clock, the sweep, the owner's permissions, the world   *)

\* expires_at passes.
Expire(a) ==
  /\ approval[a] # "absent" /\ a \notin late
  /\ late' = late \cup {a}
  /\ UNCHANGED <<rowVars, permVars, run, callerVars, histVars, world>>

\* The dashboard's sweep.  It wakes delegations of the chat, and no job.
ExpireDueApprovals ==
  /\ \E a \in late : approval[a] = "pending"
  /\ approval' = [a \in Actions |->
       IF a \in late /\ approval[a] = "pending" THEN "expired" ELSE approval[a]]
  /\ UNCHANGED <<via, attempt, late, permVars, run, callerVars, histVars, world>>

\* grantToolPermission, from a settings screen; a row that is there keeps its id.
GrantToolPermission ==
  /\ standing = 0 /\ issued < MaxGrants
  /\ standing' = issued + 1 /\ issued' = issued + 1
  /\ UNCHANGED <<rowVars, late, run, callerVars, histVars, world>>

\* The owner takes the standing permission back.
RevokeToolPermission ==
  /\ standing # 0
  /\ standing' = 0
  /\ UNCHANGED <<rowVars, late, issued, run, callerVars, histVars, world>>

\* The tool finishes outside, whether or not anyone still waits for it.
EffectEnds(a) ==
  /\ world[a] = "inflight"
  /\ \E w \in {"done", "threw"} : world' = [world EXCEPT ![a] = w]
  /\ UNCHANGED <<rowVars, late, permVars, run, callerVars, histVars>>

\* The process is killed, or a statement throws on the way.
Crash(c) ==
  /\ pc[c] # "idle"
  /\ Leave(c)
  /\ UNCHANGED <<rowVars, late, permVars, run, histVars, world>>

-----------------------------------------------------------------------------
\* What a caller does next on its own, the tool's answer and the deadline included.
CallerStep(c) ==
  \/ ExpireIfDue(c) \/ DecideRefused(c) \/ Claim(c) \/ RefuseClaim(c)
  \/ CheckPermission(c) \/ SettleWithoutDispatch(c) \/ StartAttempt(c) \/ Dispatch(c)
  \/ CancelledFirst(c) \/ Answered(c) \/ Deadline(c)
  \/ FinishAttempt(c) \/ SettleApproval(c) \/ Wake(c)
  \/ \E same \in BOOLEAN : Recheck(c, same)
  \/ \E answer \in {"approved", "rejected"}, remember \in BOOLEAN : Decide(c, answer, remember)

RunStep(a) ==
  \/ CreateAction(a) \/ SuspendJob(a) \/ JobMovesOn(a)
  \/ \E durable \in BOOLEAN : AskOwner(a, durable)
  \/ \E c \in Callers : UseStanding(c, a)

Around ==
  \/ ExpireDueApprovals \/ GrantToolPermission \/ RevokeToolPermission
  \/ \E a \in Actions : Expire(a) \/ EffectEnds(a)

\* The system while no process dies.
Steady ==
  \/ Around
  \/ \E a \in Actions : RunStep(a)
  \/ \E c \in Callers : CallerStep(c) \/ ReadClock(c) \/ \E a \in Actions : Tap(c, a)

Next == Steady \/ \E c \in Callers : Crash(c)

Spec == Init /\ [][Next]_vars

\* Statements answer, deadlines fire and a run that must park does.  Neither the
\* tool's answer nor a tap is promised.
Fairness ==
  /\ \A c \in Callers : WF_vars(CallerStep(c))
  /\ \A a \in Actions : WF_vars(SuspendJob(a))

FairSpec == Spec /\ Fairness
SteadySpec == Init /\ [][Steady]_vars /\ Fairness
-----------------------------------------------------------------------------
(* What the gate promises                                                  *)

\* execute.ts:7-9: two surfaces, a stale card and a standing permission racing on
\* one action run its tool once.
EffectOnce == \A a \in Actions : dispatches[a] <= 1

\* What the record says can be believed.  A tool is never running, nor has it run,
\* without its row in the ledger and a claim on its approval; "refused", "rejected"
\* and "expired" promise that nothing happened, "failed" that the tool threw, and
\* "succeeded" that it happened, whatever deadlines and late answers did before.
LedgerHonest ==
  \A a \in Actions :
    /\ world[a] # "untouched" => attempt[a] # "none" /\ approval[a] \in Outcomes \cup {"executing"}
    /\ "succeeded" \in {attempt[a], approval[a]} => world[a] = "done"
    /\ "failed" \in {attempt[a], approval[a]} => world[a] = "threw"
    /\ approval[a] \in Outcomes => attempt[a] = approval[a]

\* execute.ts:233-241: an effect claimed on a standing permission that was taken
\* back by then never runs, not even when another one was given in between.
RevokedGrantsNothing == \A a \in void : dispatches[a] = 0

\* The invariant the proofs carry.  At most one caller holds the yes an action was
\* given, and where it is says what the record, the ledger and the world are.
Holding(c, a) == act[c] = a /\ pc[c] \in Claimed \cup {"claiming"}
OneHolder ==
  \A a \in Actions, c, d \in Callers : Holding(c, a) /\ Holding(d, a) => c = d
CallerFits(c) ==
  /\ pc[c] = "idle" <=> act[c] = None
  /\ pc[c] = "claiming" => approval[act[c]] = "approved"
  /\ pc[c] \in Claimed => approval[act[c]] = "executing"
  /\ pc[c] \in Claimed \ Attempting => attempt[act[c]] = "none"
  /\ pc[c] \in {"dispatching", "waiting", "finishing"} => attempt[act[c]] = "executing"
  /\ pc[c] \in Claimed \ {"waiting", "finishing", "settling"} => dispatches[act[c]] = 0
  /\ pc[c] \in Claimed /\ act[c] \in void => pc[c] \in {"checking", "refusing"}
  /\ pc[c] \in {"finishing", "settling"} => outcome[c] \in Outcomes
  /\ pc[c] \in {"finishing", "settling"} /\ outcome[c] = "succeeded" => world[act[c]] = "done"
  /\ pc[c] \in {"finishing", "settling"} /\ outcome[c] = "failed" => world[act[c]] = "threw"
  /\ pc[c] = "settling" => attempt[act[c]] = outcome[c]
CallersFit == \A c \in Callers : CallerFits(c)
RowFits(a) ==
  /\ approval[a] \notin Outcomes \cup {"executing"} => attempt[a] = "none"
  /\ approval[a] \in {"absent", "pending", "approved"} => a \notin void
  /\ attempt[a] = "none" => dispatches[a] = 0
  /\ dispatches[a] = 0 <=> world[a] = "untouched"
  /\ via[a] <= issued
  /\ a \in void => via[a] \notin {0, standing}
RowsFit == \A a \in Actions : RowFits(a)
GrantsFit == standing <= issued /\ \A c \in Callers : using[c] <= issued
GateInv ==
  /\ TypeOK /\ OneHolder /\ CallersFit /\ RowsFit /\ GrantsFit
  /\ EffectOnce /\ LedgerHonest /\ RevokedGrantsNothing

\* A tool that never answers does not strand its approval: while no process dies,
\* every claim reaches an outcome.
ExecutionEnds ==
  \A a \in Actions : approval[a] = "executing" ~> approval[a] \in Settled

\* A decision taken once the run is parked wakes it, whichever surface took it and
\* whatever the execution came to.
Parked(a) == run[a] = "suspended"
Decided(a) == approval[a] \in {"approved", "rejected"}
ParkedThenWoken ==
  \A a \in Actions :
    [](Parked(a) /\ approval[a] = "pending" => [](Decided(a) => <>~Parked(a)))

\* agent-run.ts:18-21: the owner's tap resumes the parked run.
TapResumesRun ==
  \A a \in Actions :
    Decided(a) /\ run[a] \in {"parking", "suspended"} ~> run[a] \notin {"parking", "suspended"}

\* architecture.md, "Effectful side effects": an ambiguous completion (a crash, a
\* timeout) marks the attempt unknown.
NoAttemptLeftOpen == \A a \in Actions : attempt[a] = "executing" ~> attempt[a] # "executing"

\* The record as those who rely on it read it: the yes and the no of the owner, the
\* executor's statements and the surfaces are hidden.
StageOf(a) ==
  IF approval[a] = "absent" THEN "unasked"
  ELSE IF approval[a] = "pending" THEN "asked"
  ELSE IF approval[a] = "approved" THEN "allowed"
  ELSE IF approval[a] \in {"rejected", "expired", "refused"} THEN "refused"
  ELSE IF approval[a] = "executing" THEN IF attempt[a] = "none" THEN "allowed" ELSE "acting"
  ELSE IF approval[a] = "succeeded" THEN "done"
  ELSE IF approval[a] = "failed" THEN "failed"
  ELSE "unsure"

Gate == INSTANCE OwnerGate WITH
  stage <- [a \in Actions |-> StageOf(a)],
  landed <- {a \in Actions : world[a] = "done"}

\* The approval machinery implements OwnerGate: no order of taps, sweeps, deadlines,
\* late answers, revocations and crashes acts without a yes on record, acts twice,
\* or reports anything the effect may still contradict.
ImplementsGate == Gate!Spec
=============================================================================
