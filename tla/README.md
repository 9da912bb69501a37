# Verification of buddi's core

TLA+ models of the parts of buddi that decide *whether, when and how often* something is done on the
owner's behalf: the durable job queue, the gate every outward effect passes, the scheduled runs of a
mission, the run that waits for its owner, and what the owner is told. TLC checks them on small
instances; TLAPS proves the properties that matter most for any number of jobs, processes, surfaces,
actions, occurrences, cards and messages.

Source paths below are relative to `packages/`, documents to the root of the repository.

## The system, part by part

buddi is one Node process (`buddi serve`) over PostgreSQL. A second serve, the CLI
and the desktop app may work on the same database, so every part below keeps its
durable state in rows and treats its own memory as lost at any moment.

| Part | State it keeps | Operations | What is hard |
|---|---|---|---|
| **Job queue** `core/src/queue/jobs.ts` | `core.jobs`: state, lease owner and deadline, run_after, attempts, max_attempts, dedup key, acknowledged_at; events in `core.events` | enqueue, claimJob, heartbeat, completeJob, failJob, suspendJob, resumeJob, cancelJob, retryJob(s), dismiss/undismiss, interruptLeases | statements of several processes interleave; a lease names a process, not a run; decisions read in one statement and applied in another; crash between a row and its event |
| **Worker** `core/src/queue/worker.ts` | in memory: the run in hand, its abort signal, local lease deadline, `running` | runWorker, tick, heartbeat timer, lease timer, sweep, stop | timers against late answers; a handler that ignores its signal; a claim that lands after stop() |
| **Retry policy** `core/src/queue/retry-policy.ts` | none | decideRetry: attempts, backoff, horizon, Retry-After | numeric edges, a clock that moves |
| **Owner gate** `core/src/actions/` | `core.approvals`, `core.effect_attempts`, `core.tool_permissions` | createAction, decideApproval, executeApproved, expiry sweep, grant/revoke, resumeJobForAction | several surfaces and stale cards on one action; intent before dispatch; deadlines and late answers; revocation in between; crashes |
| **Approval surfaces** `gateway/src/web`, `telegram`, `chat` | cards | tap, list, wake the run | same action on all of them at once |
| **Agent runs** `gateway/src/missions/agent-run.ts`, `runtime/src/loop.ts` | run transcript, events `tool.called` | invoke tools, ask, suspend, resume | order of abort check, event and dispatch; card before suspension |
| **Missions and scheduler** `core/src/scheduler/` | `core.occurrences`, the watermark and switch of a mission | materialize, claim, finish, stale-claim sweep, Run now, coalescing enqueue, pause | an occurrence and its job are two rows closed by two statements; a sweep that knows only ages |
| **Parked runs** `gateway/src/missions/parked.ts` | `core.questions`; `parked`, `answer`, `awaiting` and `approval` in the job's payload | ask, tie, suspend, answer, give the page back, time out, read at the start of a run | an answer before the suspension, after the clock, or twice; a wake meant for another wait |
| **Cron** `core/src/scheduler/cron.ts` | none | next instant in a zone | calendar edges |
| **Notifications** `core/src/notifications/` | `core.owner_notifications`: state, urgency, due_at, held_for, seen_at, acted_at, key; the focus in `core.notification_settings` | notifyOwner, notificationsTick, settleFocus, setFocus, markSeen, markActed | a claim, a delivery and its mark are three statements; the settings are read before the rows are; repeats update a row the tick is at |
| **Reminders, sources, sentinels** | due rows, cursors | claim and enqueue | claim and effect are two statements |
| **Groups and delegation, tool registry, plugins, vault, backup, UI** | various | various | mostly prompts, files, child processes and screens |

How they meet: a surface, a source or the scheduler *enqueues* a job; the worker
*claims* it and hands it to a handler; the handler runs the agent loop, which writes
`tool.called` and invokes tools; a tool with an effect *records an action* and either
executes it on a standing permission or asks the owner and *suspends* the job; a
surface *decides*, *executes* and *resumes* the job. All of these calls end in single
SQL statements, and those statements are the steps of the models.

What makes each part correct:

- *queue*: a run's outcome is written by that run only; an interrupted run is put back
  only if it did nothing; the attempts stay in the budget; a finished job never runs
  again; a lease nobody reports for is taken back; stop() ends.
- *gate*: one dispatch for one action, only after a yes and after intent is on record;
  the record never claims more than happened; a revoked permission grants nothing;
  every claim reaches an outcome; a decision wakes the run that waits for it.
- *missions*: a finding that joined a run reaches a run; what is closed stays closed; a
  claim without a job gets one; a trickle of findings cannot hold a run back; under
  latest-only one run is open; a claim whose job is over is not left behind (the code
  does not keep this one).
- *notifications*: what was written is told once at most, and not while a focus holds it;
  what is shown and not seen is told, however often it is repeated; what a focus held goes
  out when it ends.
- *parked runs*: an answer a run took is heard by that run; the first answer counts; the
  owner is told once when nobody came, and never after an answer; every wait ends.

## Modules

| Module | What it is |
|---|---|
| `JobLifecycle` | abstract: the life of a job as its users know it, who may move it |
| `JobQueue` | `jobs.ts` and `worker.ts`: rows, statements, worker loop, timers, sweeps, stop, crash; implements `JobLifecycle` |
| `JobQueueProofs` | inductive invariant, four properties and the refinement |
| `EffectProofs` | that nothing which acted is run again, when serves follow each other |
| `MCJobQueue` | instances for TLC |
| `OwnerGate` | abstract: an effect is asked for, allowed, on record, then acted and reported |
| `Approvals` | the approval of an action, deciding surfaces, executor, sweep, standing permissions, the run it wakes; implements `OwnerGate` |
| `ApprovalsProofs` | inductive invariant, three properties and the refinement |
| `MCApprovals` | instances for TLC |
| `OccurrenceLife` | abstract: an occurrence appears once, is taken before it is closed, stays closed |
| `MissionRuns` | materialize, claim, handoff, Run now, coalescing, the sweep, the switch of a mission, and the mission-run handler; implements `OccurrenceLife` |
| `MissionRunsProofs` | inductive invariant, two properties, the refinement, and that its jobs keep to `JobLifecycle` |
| `SpeechProofs` | that a mission reports once, by counting the reports made and the chances left |
| `MCMissionRuns` | instances for TLC |
| `ParkedRuns` | one mission run and its owner: cards, the page, the surfaces, the clock, the payload, the handler and the executor around them |
| `ParkedRunsProofs` | inductive invariant, five properties, and that its job keeps to `JobLifecycle` |
| `MCParkedRuns` | instances for TLC |
| `MessageLife` | abstract: a message waits, is kept, or is claimed by one process that has it taken, once |
| `Notifications` | the record of what the owner is told: the call, the loop, the focus and its switch, the channel, the owner; implements `MessageLife` |
| `NotificationsProofs` | inductive invariant, two properties and the refinement |
| `MCNotifications` | an instance for TLC |

`MissionRuns` uses the queue as `JobQueue` shows it to be: a lease may be interrupted at
any time, and comes back only when its run is over and nothing of it is on record. `ParkedRuns`
opens up what is one step of `MissionRuns` (`WaitForOwner`, `ResumeJob`), for one job.
What the three have in common is `JobLifecycle`: `JobQueue` implements it, and the jobs of `MissionRuns` and
`ParkedRuns` move only as it says (`KeepsJobLifecycle`), so the two do nothing to a job that the
queue's contract would not let them.

### JobQueue and the code

A worker of the model is one *boot*: `runWorker` takes a new holder id each start, so a
worker that died or stopped never returns. Columns of `core.jobs` are functions on
`Jobs` (`state`, `holder`, `attempts`, `cap`) or sets of jobs (`lapsed`: lease_until
passed; `due`: run_after passed; `quiet`: acknowledged_at set). The event log is what
the candidate query of `interruptLeases` computes from it: `acted` and `requeues`. The
loop's locals are `pc`, `cur`, `lost` (aborted by loseLease), `overdue` (the local
deadline) and `verdict`; the locals of an interruption pass are `passes`, `seen` (rows
read, not settled) and `unlogged` (rows settled, event not written).

An action is one statement, or the code between two awaits. So a claim is
`AskClaim` (sent), `ClaimJob` or `ClaimNothing` (answered, whatever happened to the
process in between), `LogClaim` (the job.claimed event), `Begin` (the checks after it),
and an interruption is `BeginPass` (the query), one `Settle` for each row (the fenced update), one
`LogSettled` for each event, `EndPass`. A tool call is `CallTool` (the event) and
`Dispatch` (the second look at the signal). `Report` is completeJob, suspendJob or
failJob. `Crash` may come between any two of them.

What is abstracted:

- the priority order of the claim is a free choice among claimable jobs, and payloads are left out;
- the retry decision is a free choice of `HandlerReturns` (`retry` or `giveUp`); the
  guard on max_attempts that failJob applies to it is kept;
- suspendJob's `wakeIf` looks into the payload: whether it finds an answer is free;
- a job stands for its dedup key, so a repeated enqueue changes nothing;
- a heartbeat's request and answer are one step (no answer from before a crash or a
  lost lease is in flight), and database and process use one clock: a lease lapses in the
  database only after the local deadline that was counted from before the request;
- the sweep of a serve does not see its own run's lapsed lease before its own lease timer fired:
  both are timers of one event loop and the lease timer is the earlier one;
- an act is a tool call, which is on record before it is dispatched; a delivery the mission
  handler makes by itself, which is on record only afterwards (`mission.delivered`), is in
  `MissionRuns`;
- the automatic acknowledgement of old failures, a count on a screen, is left out;
  `releaseStaleLeases` has no caller and is left out;
- `Profile` is the attempts the kind's retry profile has today; retryJob lifts a smaller
  `max_attempts` to it;
- a tool that goes on after its signal was aborted is what `acts` records at dispatch;
  it is not followed further;
- statements that fail are crashes of the process (`Crash`), not exceptions that the loop survives.

`OneServe = TRUE` is the documented deployment: a start follows the end of the serve
before it. `OneServe = FALSE` lets two overlap.

### Approvals and the code

A caller is one call of `decideApproval` and what its handler does next: a tap on some
surface, or a run that decides for itself on a standing permission (`using`). The rows
are `approval`, `via` (decided_via) and `attempt`; `late` holds the actions whose
expires_at passed; `early` holds the callers whose `now` was read before that. The
dashboard passes one `now` through, the others read the clock again (`ReadClock`).
`run` is where the job that proposed the action is, from `#requestApproval` to its
wake. `world` is the tool outside and is external; `dispatches` and `void` are history.

The executor's steps are those of its own comment: `Claim` (1), `CheckPermission` and
`Recheck` (2; the rest of the recheck is one free answer, as policy, hash, version,
arguments, choices and the described envelope only matter by their conjunction),
`StartAttempt` (3), `Dispatch`, `Answered`, `Deadline`, `CancelledFirst` (4),
`FinishAttempt`, `SettleApproval`, then `Wake`.

What is abstracted:

- each caller may crash by itself, which includes every crash of the serve that runs
  several of them and every statement that throws;
- one action for each job and one scope of standing permission (a tool of an agent);
- whether the owner's "always" may be remembered (`reusableApproval`) is a free choice;
- `refuseClaim` reads and updates in one step, its update has the guard of its read;
- choices that are not among those offered, and permission kinds that are not allowed, return
  before any row moves and are stutters;
- Retry, Cancel and an interruption of the waiting job are `JobMovesOn`; what they do to
  the job is in JobQueue.

### MissionRuns and the code

An element of `Occs` is a row of `core.occurrences` and, because the dedup key of its job is its
id, also the one row it may have in `core.jobs`. `occ`, `due`, `grouped`, `waited` and
`carries` are columns of the first, `job`, `attempts`, `holder` and `decided` of the
second. `mission` is whether it may run; `"pausing"` is between the two statements of
`pausePluginMissions`. `specs` are schedulers that have read the schedule and not yet
opened the mission's transaction, `hand` is a claim on its way to the queue (the
scheduler's, or a Run now request's). A worker goes from `ClaimJob` to `Report`: the calls of
`createMissionJobHandler` and of the tick around it. In between, each statement of a
report is a step of its own:

| Step | Code | On record afterwards |
|---|---|---|
| `ReadOccurrence` | `serve.ts:387-416` | |
| `CallReport` | the loop's `tool.called` for mission.report, `runtime/src/loop.ts:1408`, before the tool is invoked | the call |
| `Deliver` | `deps.deliver`, `execute.ts:853`; a mission that always delivers (`forced`, 804) comes here without a call | nothing new |
| `RecordDelivery` | `mission.delivered`, `execute.ts:881` | the delivery |
| `EndSilent` | `mission.silent`, a report muted in the meantime, or no owner paired (804-850, 866-878) | |
| `CloseOccurrence` | `finishOccurrence`, `serve.ts:445` | |
| `RunFails`, `EndFails` | an error before or after the owner heard; the catch at `serve.ts:460` | |

A death, or a run that sees its signal, may come between any two (`Abandon`). `acted` is
what the candidate query of `interruptLeases` finds (`jobs.ts:464-491`): the call or the
delivery, since the claim the job has now. `unsaid` names the runs that were gone at
`sent` with neither on record.

What is abstracted:

- instants: an occurrence is due or not. A wait takes two steps (`NearsDue`,
  `DueElapses`), so that an arrival can always push it back in time;
- a claim may be of any age when the sweep looks, as 15 minutes is less than a queue, a
  run or an owner may take;
- the window of a materialization is any set of new instants, its newest and its late
  ones are free;
- `carries` counts findings up to `WakeMax`; a finding that does not fit starts a run of
  its own, which is `merge`'s to say, so `Wake` is always possible;
- a finding muted in the meantime counts as given to the run;
- `Interrupt` closes the occurrence of a failed job in the same step unless the process
  is `gone` by then;
- other acts of a run (any tool with an effect) can only keep its job from being put back, which
  an interruption may always decline to do;
- a delivery that fails after the message went out is `Deliver` and then `EndFails`;
- a cancel is left out once a job's `MaxAmends` retries are used, as nothing could follow it;
- `SetServing` and `SelectSpecs` stop when no occurrence can come any more (bounds).

### ParkedRuns and the code

A wait is a card (`Cards`) or a page, which is named by its conversation (`Convs`).
`card` is `core.questions`, `past` the waits whose time is over, `posted` and `noted` the
events `mission.parked` and `mission.needed_you`. `parked`, `answer`, `awaits` and
`approved` are the payload, `reason` is `suspended_reason`. `surf` is a surface
between `answerQuestion` and `resumeParkedForQuestion`; `clock` is `expireParkedRuns`
between its query and one of its resumes. The run starts as the handler reads the
payload: `StartTimedOut`, `StartAnswered`, `StartDecided`, `StartFresh`, or
`StartSkipped` when its occurrence was given back. It asks in two steps (`Ask` writes the
card, `Tie` the payload and the event) and is suspended in a third (`ReportPark`, with
`wakeIf`), and it ends in vain in three: `EndInVain` (`execute.ts:568-580`) looks whether the line was
sent before and writes the event, `TellOwner` delivers it (585) or `NobodyToTell` ends the run
all the same when no owner is paired or none can be reached (586-590), and
`CloseOccurrence`. The look may fail and then folds nothing (`.catch(() => false)`, 575): the line is
sent again, and `blind` names it. The check before a card (`askHeldBack`, 770) may fail too, and
then the card is asked although another is open (`Ask` with `checked` false).

What is abstracted:

- one job and one worker, attempts left out: whether a failed run is tried again is free;
- `resumeParkedForPage` reads the card and answers in one step, since `answerParkedJob`
  writes nothing unless it still finds the job tied to that card;
- an expired card takes no answer, so closing it goes with the clock's query, and whether the
  `closeQuestion` of `execute.ts:573` fails changes nothing;
- time is looked at only for what the job is tied to, and a retry comes within the day in
  which a repeated line is folded (`Folded`);
- one approval for each park, `Release` only while the job waits, ids in the order they
  are made, and `MaxUpsets` failures, deaths and retries: the bounds;
- `surf = "elsewhere"` is a turn of the surface's own, or an answer lost with its process;
- deliver answers, finds nobody (`NobodyToTell`) or throws (`RunFails`).

### Notifications and the code

An element of `Rows` is a place for a row of `core.owner_notifications` that somebody may
still look at: a row that was sent leaves its place to another, and `Gone` is what a call
found that has left since. Columns are `state`, `kind`, `urgency`, `keyed`, `focused`
(held_for is set), `seen`, `acted` and `due`, which is what the clock says of due_at. A
caller is one `notifyOwner`: `Call` (it reads the settings), `LookUp` (the unsent row of
its key, and that row's clock, `keeps`), `FoldInto`, `Update` or `Insert`, then the
sending. A tick reads its `now` and the focus (`Tick`: `ripe` is what is due at that
instant) and makes the statements of `settleFocus` (`Hold`, `Clear`, `Release`) and its own
(`Escalate`, `ClearDay`, `CloseDay`). `SetFocus` starts the first three for a switch.
Each of those is one SQL update, and so each may meet any statement of the others. `hand` is
what a process claimed, `carry` what the channel has and nobody has marked yet: `Deliver`,
then `Settle`, or `Refuse`, or `TurnOff`.

What is abstracted:

- instants: `due` and `ripe` say what has passed. A repeat that restores the clock it read
  (`Restored`) may find it passed, for a tick under way as well, when the row was moved since;
- presence, the rate of a key, the settings of channels and kinds and the fold of topics
  are free whenever they are asked;
- kinds are three: those that always reach, those that Urgent only lets through, the others;
  keyed messages are of one kind, and questions have keys of their own and are not repeated;
- an answered question counts as acted; marks on rows that are not shown are not kept, as nobody reads them;
- a channel answers, with a yes, a refusal or an error after it took the message;
- one tick for each serve: the loop starts the next when the last has ended;
- turning a focus off over a schedule is `setFocus` with any mode, as the schedule's own turn is
  (`FocusTurns`).

## What the runs check

| Run | Instance | States | Shows |
|---|---|---|---|
| `queue` | 1 job, 2 boots in turn, 2 claims, budget 2 | 407,990 | types; the inductive **EffectInv**; **PutBackDidNothing**; **AttemptsInBudget**; **ImplementsLifecycle** |
| `queue_overlap` | 1 job, 2 boots that overlap, no tool calls | 719,468 | the inductive **QueueInv**; **HolderRunsLatest**; **OnlyLatestRunWrites** |
| `queue_live` | as `queue`, owner away, fairness | 83,844 | **ForsakenSettled**, **StopEnds** |
| `approvals` | 1 action, 3 callers, 2 permissions | 71,072 | **GateInv**, **EffectOnce**, **LedgerHonest**, **RevokedGrantsNothing**, **ImplementsGate** |
| `approvals_live` | 1 action, 2 callers, no crash, fairness | 17,514 | **ExecutionEnds**, **ParkedThenWoken** |
| `missions` | 1 occurrence, 1 worker, 1 scheduler, 1 Run now, a mission that always delivers, fairness | 547,269 | **NoFindingDropped**, **SpeaksOnce** and its inductive **ChancesCounted**, **ImplementsLife**, **KeepsJobLifecycle**, **HandedOver**, **TrickleEnds** |
| `parked` | 2 cards, 2 conversations, 1 clock, 1 upset, fairness | 630,420 | **AnswerKept**, **NoContradiction**, **ResumesInPlace** and its inductive **PlaceKept**, **ToldOnce**, **NeverReplaced**, **KeepsJobLifecycle**, **Woken** |
| `notifications` | 1 row, 1 call, 1 loop, 1 switch, 2 modes, 1 death, fairness | 200,868 | the inductive **NotifyInv**; **SentOnce**, **FocusRespected**, **ImplementsMessageLife**, **Told**, **FocusEnds** |
| `queue_reclaimed` | as `queue` | | violates **ReclaimedLeaseLeftAlone** |
| `approvals_crash` | 1 action, 1 caller | | violates **NoAttemptLeftOpen** |
| `approvals_wake` | 1 action, 1 caller | | violates **TapResumesRun** |
| `missions_lost` | 1 occurrence, nothing fails or dies, fairness | | violates **NotLost** |

Why the bounds are enough. Jobs meet only in the hand of a worker and the fences name
one row, so one job has every race between a run, the run after it, a pass of each kind and the
owner; two boots are a predecessor and a successor (or two that overlap), and two claims
let one run be put back and its successor run. The budget is small enough to be
exhausted in the run. `MaxClaims` bounds how often a job is claimed. Actions share
nothing but the standing permission; three callers are two that contend and one that comes
late; two permissions are one revoked and one given after it. Symmetry is taken over
boots, callers and actions, in safety runs and in those with a refinement, never in
liveness runs.

An occurrence, its job and the run share nothing with others but the misfire policy and
the scheduler's choice, so one occurrence has every race of `MissionRuns`; whether two
are open at a time is what `OneRunAtATime` proves for any number. `AlwaysDeliver` is on, which
leaves every step of an ordinary mission and adds the delivery without a call; two
attempts are the run that is interrupted and the one put back. Two cards let an old
answer, or an old timeout, meet a new wait of the same job; one upset is a failure, a
death or a retry at any statement. Rows of `Notifications` share only the key and the one
message of a focus or a day. A place is used again and again, so the number of messages
is not bounded; that calls, loops and switches may be many, and rows beside each other,
is what its proofs add.

The proofs remove all of these bounds but `MaxClaims`, `MaxGrants`, `MaxUpsets`,
`WakeMax` and `MaxDeaths`, which stay arbitrary constants.

Deadlock checking is off where the system may stop, and does: in the queue runs without
the owner, when nobody enqueues, retries or starts a serve; in `missions`,
`missions_lost` and `parked`, when the instants, cards or ids of the instance are used
up; in `notifications` only in so far as an owner may have dealt with everything.

### Fairness

`JobQueue`: timers fire and statements answer (`Lapse`, `Sweep`, `LoseLease`,
`StopPass`, the statements of a pass) and a serve that is launched starts. Nothing
makes a handler return, a heartbeat arrive, a tool answer or the owner act; a process may crash
at any time. `ForsakenSettled` assumes that from some point on *some* serve runs, which is
its antecedent and not a fairness condition.

`Approvals`: the statements of a handler answer, `withDeadline`'s timer fires, and a run
that must park is suspended. Neither the tool's answer nor a tap is promised. `describe`
and a tool's own `claim` are assumed to return (they have no deadline in the code). The
two liveness properties are checked while no process dies; what a crash leaves is
the finding of `approvals_crash`.

`MissionRuns`: time passes (`NearsDue` and `DueElapses` are one clock, which an arrival may set back
again and again; `WaitElapses` is another, which nothing sets back), the scheduler's and the sweep's
timers fire and their statements answer; the scheduler claims the oldest due occurrence, so a claim
and its handoff are strongly fair. No claim of a worker, end of a run or act of the owner is
promised. `missions_lost` adds that nothing fails or dies (`UndisturbedSpec`): the occurrence is
lost all the same.

`ParkedRuns`: a wait's time comes, and the clock's query and its resumes, which come every
minute, are strongly fair. Neither the owner nor a worker is promised.

`Notifications`: what is shown or held falls due, the statements of calls, ticks and
switches answer and the loop ticks. Nobody need speak, look or end a focus, and processes may
die `MaxDeaths` times.

### Where documents and code part

1. `queue_reclaimed`: the fence of an interruption names a process. A job that is
   cancelled or failed, retried and claimed again *by the same serve* between the
   candidate query and the update is settled with the decision taken for its earlier run
   (`jobs.ts:432` says such a lease is left alone). `PutBackDidNothing` and
   `AttemptsInBudget` exempt jobs this happened to (`misfired`).
2. `approvals_crash`: a crash during a tool leaves its attempt `executing`; nothing ever
   marks it `unknown` (`docs/architecture.md:762`).
3. `approvals_wake`: the card goes out before the job is suspended. A tap decided and executed in
   between wakes nothing and the job stays parked (`agent-run.ts:20`).
4. `missions_lost`: the stale-claim sweep goes by age alone and gives back the occurrence
   of a job that still waits. A job that starts then reads `pending`, takes it for closed
   (`serve.ts:387-391`) and succeeds with nothing run; the next claim of the occurrence
   finds that job under its key, and it is claimed and given back for ever. At a start the
   sweep (`serve.ts:901`) comes before the worker (1012) and the scheduler (1215), so 15
   minutes of downtime are enough. `runner.ts:17` says such a claim is not lost.

Met while modelling, and kept in the models as named exceptions:

- the requeue of an interrupted job and the event that counts it are two statements
  (`jobs.ts:514-557`): after a crash in between the job may be put back a second time, where
  `jobs.ts:426` says once. `AttemptsInBudget` and `PutBackDidNothing` hold all the same;
- `retryJobs` chooses its wave in a subquery that takes no lock (`jobs.ts:759`); one SQL
  statement is one step of `JobQueue`, so a claim in between is not in the model;
- `mission.needed_you` is written (`execute.ts:576`) before the line is delivered (585),
  and `ask-cap.ts:53-68` folds a line whose event is there: when the delivery fails, the
  run that is tried again ends as told (`parked.ts:22-24`: never silently). This is the exception
  `cut` of `ToldOnce`, and so is an owner who is not paired (586-590: the run ends as complete);
- when the look for that event fails (`execute.ts:575`), a run tried again sends the line a second time:
  the exception `blind` of `ToldOnce`;
- a mission with `alwaysDeliver` may report with no tool called, and `mission.delivered`
  (`execute.ts:881`) is written after the delivery (853). When its process dies in between, nothing
  is on record, the job is put back and the owner hears twice without having asked, where
  `jobs.ts:430` says "Nothing is re-run that might send ... a second time without the owner
  deciding". It is the exception `unsaid` of `SpeaksOnce`: one report more, and only when an
  interruption put that job back. For any other mission `OrdinaryMissionsSpeakOnce` proves that it
  cannot happen;
- an owner's answer is swallowed when its run starts while its occurrence was given back:
  the exception `astray` of `AnswerKept`;
- a process that dies between the claim of a notification and its mark leaves the row
  `sending` for ever, and a repeat of its key starts a new row (`notify.ts:207-211`): the exception
  `stranded` of `Told`;
- a row that comes back unseen, with the clock it had, while a tick is at it may be sent under a
  focus that holds it: the exception `raced` of `FocusRespected`;
- read and not modelled: `loop.ts:110-118` arms the next timer only when a tick has ended, and nothing
  else calls `tick()`, so the abandoning of a wedged run (`loop.ts:17-21`) is never
  reached in a serve; the models assume that what a loop calls returns;
- an approval that was decided when its surface died stays `approved`, and a job parked on a request that
  expired is woken by nobody (`web/chat.ts:1920`); no document promises more.

## What is proved

For all values of the constants that satisfy `QueueAssumption`, `ApprovalsAssumption`,
`MissionAssumption`, `ParkAssumption` and `NotifyAssumption` (identifiers do not collide,
budgets are positive, bounds are naturals, messages are what the callers send):

| Theorem | Module | Statement |
|---|---|---|
| `QueueInvariant` | JobQueueProofs | `Spec => []QueueInv` |
| `TypeCorrect` | | `Spec => []TypeOK` |
| `FenceIsSound` | | `Spec => []HolderRunsLatest` |
| `BudgetIsKept` | | `Spec => []AttemptsInBudget` |
| `LatestRunWrites` | | `Spec => OnlyLatestRunWrites` |
| `LifecycleIsImplemented` | | `Spec => ImplementsLifecycle` |
| `EffectInvariant` | EffectProofs | `OneServe`: `Spec => []EffectInv` |
| `NothingIsReRun` | | `OneServe`: `Spec => []PutBackDidNothing` |
| `GateInvariant` | ApprovalsProofs | `Spec => []GateInv` |
| `EffectsHappenOnce` | | `Spec => []EffectOnce` |
| `LedgerIsHonest` | | `Spec => []LedgerHonest` |
| `RevocationHolds` | | `Spec => []RevokedGrantsNothing` |
| `GateIsImplemented` | | `Spec => ImplementsGate` |
| `MissionInvariant` | MissionRunsProofs | `Spec => []MissionInv` |
| `TypesHold` | | `Spec => []TypeOK` |
| `FindingsReachARun` | | `Spec => []NoFindingDropped` |
| `OneRunAtATime` | | one run of a mission is open under latest-only |
| `LifeIsImplemented` | | `Spec => ImplementsLife` |
| `MissionsKeepJobLifecycle` | | `Spec => KeepsJobLifecycle` |
| `ChancesAreCounted` | SpeechProofs | `Spec => []ChancesCounted` |
| `MissionsSpeakOnce` | | `Spec => []SpeaksOnce` |
| `OrdinaryMissionsSpeakOnce` | | `~AlwaysDeliver`: an occurrence is reported once, and once more for each of the owner's amends |
| `ParkInvariant` | ParkedRunsProofs | `Spec => []ParkInv` |
| `ParkTypes` | | `Spec => []TypeOK` |
| `AnswersAreKept` | | `Spec => []AnswerKept` |
| `OwnerNotContradicted` | | `Spec => []NoContradiction` |
| `OwnerIsToldOnce` | | `Spec => []ToldOnce` |
| `AnswersAreFinal` | | `Spec => NeverReplaced` |
| `PlaceIsKept` | | `Spec => []PlaceKept` |
| `RunsResumeInPlace` | | `Spec => []ResumesInPlace` |
| `ParkedRunsKeepJobLifecycle` | | `Spec => KeepsJobLifecycle` |
| `NotifyInvariant` | NotificationsProofs | `Spec => []NotifyInv` |
| `TellsOnce` | | `Spec => []SentOnce` |
| `FocusIsRespected` | | `Spec => FocusRespected` |
| `MessageLifeIsImplemented` | | `Spec => ImplementsMessageLife` |

**The queue.** A fence that names a process protects the row from *other* processes. That it
also protects a run from an earlier run of its own process needs more: `LeasesAreHeld` (a row
has a holder exactly while it is leased), `BusyHasJob` (a loop holds at most one run),
and then `HolderRunsLatest`: when the row still names the holder, the run in hand is its
latest claim. The budget needs `DecisionsFit`: a decision to put a job back was taken
while an attempt was left, and stays right as long as the claim it was taken for is the
latest. `QueueInv` is their conjunction. The steps are grouped: `NextCases` splits every
step into quiet ones, which touch no row, lease, budget or claim (`QuietFrame`), and the seven
statements that do. `LatestRunWrites` is the action property that follows: of all
steps only a report ends reporting and only a heartbeat extends a deadline, and both are
fenced. The refinement maps each of the seven statements to its move, and everything else to a stutter.

**Nothing is re-run.** That a run which was put back did nothing is a race between a decision
and a run that may go on: the candidate query reads the log, the update comes later and is fenced on a process.
What closes it is that the run is *spent* by the time the row is read (`Spent`): its signal is aborted, or it is
past its handler, or its deadline passed before its handler began, and from none of these does
an effect follow. A start finds no other boot (`OneBoot`), a stop requeues only when its loop is idle, and a
sweep sees a lapsed lease only after the run behind it was told; `RunKnown` and `CallsKnown` tie
calls, log and claims together, `DecidedSafely` carries the decision to its update and `PutBackSpent` beyond it.
`SpentKept` is the lemma the rest stands on. The theorems assume `OneServe`; with serves that overlap, a
start takes back the lease of a run that goes on.

**The gate.** `EffectOnce` is not inductive: that a tool does not run twice depends on
who holds the yes. `OneHolder` says at most one caller is at or past the claim of an
action; `CallersFit` says for each place in the executor what approval, attempt,
dispatch count and effect must be there; `RowsFit` says it for rows nobody holds, and that
a permission in `void` is neither 0 nor the one standing now, so that a new one cannot
stand in for it (ids are never reused: `GrantsFit`). The proof rests on two frames:
`QuietStep` (a caller moves, no row does) and `RowStep` (a caller writes the one row
nobody else holds); each statement of the code is brought under one of them. The
refinement reads a stage from approval and attempt (`StageOf`) and shows that each statement is
one move of one stage, the sweep a lapse of many, and the rest hidden.

**Missions.** That no finding is dropped is a fact about the payload a run reads, so `MissionInv`
follows a finding through it: `RowFits` relates an occurrence and its job, `HandFits` says
what is claimed on the way to the queue, `RunFits` what a worker read and has still to
write, and `FindingsKept` and `RunIsTold` that what joined is in the row or in the run. `OneRunAtATime`
needs only the guards of the two ways to open a run. The refinement maps the states of the row.

**Parked runs.** An answer is safe when the job it was given to is the one that reads it. `CardFits`
relates a card to its answer, `WaitFits` a wait to the job tied to it, `TiedFits` and `Untied` the
payload to the place the run is at, before and after the suspension, and `TellFits` the event to the
line, or to what kept the line away (`cut`). Without `Untied` the prover, like an adversary, starts
from a job that holds an answer nobody was asked for.

**Notifications.** `SentOnce` is a fact about hands: `HandFits` says a claimed row is in one hand,
`sending`, and untold until the channel has it. `FocusRespected` needs what a tick knows between
`Hold` and `Escalate` (`SettlerFits`): what it found due and is still unseen is not held by the
focus it read, or came back meanwhile. `RowFits` says that what is shown is urgent and what is held
without a focus is for the day, and `CallerFits` that a clock kept by a call is of a row that is
still shown. `RouteFits` is the lemma about where a message goes.

**A mission reports once.** `SpeaksOnce` counts what happened (`spoke`), and nothing in a state
bounds what may still happen: a run that lost its lease goes on to its report while the job it came
from is put back, and the delivery comes a statement before its record. So the invariant
`ChancesCounted` adds what may come: reports made, plus one if the job can still bring a run
(`MayReport`), plus one for each run that goes on without its lease (`Orphans`), is at most one, the
amends (the owner's retries and the errors thrown after a report) and the put-back of a delivery
nobody recorded (`Again`). Each step moves a chance from one term to another or uses one up: an
interruption turns the job's chance into that of an orphan, and puts a job back only if nothing is
on record and no run is behind it; a delivery uses up the chance although the record is missing
(`HasSent`); a run gone before the record leaves a job that has no chance left (`unsaid`), and
putting that one back adds one on each side. `CallFits` is what keeps this last case away from a
mission that reports only when it calls: the call is on record while the lease is its run's, so with
`~AlwaysDeliver` no run is ever `Unrecorded`, which is `OrdinaryMissionsSpeakOnce`. It is a sum over
a set of workers, so the lemmas of the first part are about what a step may do to its cardinality.
`PlaceKept` is the same argument for a parked run: conversations started, plus the start that may
come (`StartsOver`), is at most one and the upsets; `GateFits` says that a run at a gate has the
conversation to go on in.

**One contract for the queue.** `KeepsJobLifecycle` reads a row of `core.jobs` as a stage of `JobLifecycle` and
brings every step under one of its moves or none. It is where a fence shows: without `Holds` in `Report`, or
without the state in the clock's resume, a late report or a late wake moves a job that is
over.

**The way of a message.** The refinement forgets the clock, the focus, the key and the channel; what is left is
who has a message in hand and whether a channel took it. `claims` is `hand`, and a message is *claimed* or
*taken* according to `taken`, which `HandFits` ties to `carry`: that the row a process has in hand was not
taken is what makes its `Deliver` the abstract one. Writing over a row needs that it is not
`sending` (`Unsent`, `Over`), a claim that what it takes waits and was not dealt with (`RowFits`), and
`Clear` and `ClearDay` that they put aside only what was.

**Only model-checked:** liveness (`ForsakenSettled`, `StopEnds`, `ExecutionEnds`, `ParkedThenWoken`,
`HandedOver`, `TrickleEnds`, `Woken`, `Told`, `FocusEnds`): fairness and ENABLED are out of the
prover's reach, as is induction over data. Every invariant and action property that a passing run
checks is also a theorem.

## Not modelled, and why

`PROJECT.json` lists every part with its status. Most of the repository is prompts, screens,
cards, transports, plugins, the vault, backup and desktop apps: they keep no state that
races with the core, or keep it in files and child processes, and a model of them would
be a copy. The models stand for the statements that move durable rows, and for the
processes around them. Tools are external.

The retry policy is a table of message patterns and free in the models, so that what they promise
holds whatever it decides. Cron is arithmetic over time zones, whose hard part is the zone
database. Reminders and sources claim a row and enqueue under a dedup key, the shape
`MissionRuns` has.

## Plan

1. *Done*: `JobQueue`/`JobLifecycle`, `Approvals`/`OwnerGate`, `MissionRuns`/`OccurrenceLife`,
   `ParkedRuns`, `Notifications`, with proofs.
2. Misfire policies of materialize and the day rules of cron against a reference over
   bounded instants.
3. Reminders and sources: claim, enqueue, cursor; one module with the dedup key.
4. retryJobs as two steps (its subquery takes no lock), with the claim in between.
5. Proofs: that `ParkedRuns` implements the waits of `MissionRuns`.

## Running it

    tlc -workers 2 -config MCJobQueue.cfg MCJobQueue
    tlapm JobQueueProofs.tla
    tlapm EffectProofs.tla
    tlapm ApprovalsProofs.tla

and so on for each configuration of the table and `MissionRunsProofs`, `SpeechProofs`,
`ParkedRunsProofs` and `NotificationsProofs`.
