----------------------------- MODULE MissionRuns -----------------------------
(***************************************************************************)
(* One mission, its occurrences and their jobs: the scheduler that         *)
(* materializes and claims (core/src/scheduler), Run now, the watchers     *)
(* that wake the mission, the stale-claim sweep, and the mission-run       *)
(* handler of serve.ts between the occurrence's row and the job's.         *)
(*                                                                         *)
(* An occurrence is at once its row in core.occurrences and, as its dedup  *)
(* key, its row in core.jobs.  The queue is JobQueue's, seen from outside: *)
(* a lease may be interrupted at any time, and is put back only when its   *)
(* run is over and nothing it did is on record.  A worker is a place for a *)
(* boot of `buddi serve`.  Instants are abstracted to whether they passed; *)
(* a claim may be of any age when the sweep looks.                         *)
(*                                                                         *)
(* `handed`, `spoke`, `amends`, `unsaid` and `rejoined` are history.       *)
(***************************************************************************)
EXTENDS Naturals, FiniteSets

CONSTANTS
  Occs,         \* occurrences that may come to be
  Workers,      \* worker loops
  Schedulers,   \* scheduler loops
  Surfaces,     \* Run now requests that may be under way
  None,         \* no occurrence, or no holder
  Policy,       \* the schedule's misfire policy
  AlwaysDeliver, \* the mission delivers what its run wrote, whatever it decided
  WakeMax,      \* bound: how far the findings of a run are counted
  Cap,          \* max_attempts of a mission-run job
  MaxAmends     \* bound on the owner's retries and the failed writes of one occurrence

Policies == {"replay-all", "skip-after-deadline", "coalesce", "latest-only"}

ASSUME MissionAssumption ==
  /\ None \notin Occs \cup Workers
  /\ Policy \in Policies /\ AlwaysDeliver \in BOOLEAN
  /\ WakeMax \in Nat /\ Cap \in Nat /\ MaxAmends \in Nat

VARIABLES
  occ,          \* core.occurrences.state, or "none" before the row is there
  due,          \* the occurrences whose scheduled_at has passed
  near,         \* those that wait and have come half way to it
  grouped,      \* those with a coalesce mark in their payload
  waited,       \* those whose longest wait since the first finding has passed
  carries,      \* how many findings are in its payload
  mission,      \* may it run: "pausing" until pausePluginMissions has skipped what waits
  job,          \* core.jobs.state of the occurrence's job
  attempts,     \* its attempts
  holder,       \* its lease_owner
  decided,      \* the jobs whose payload holds the owner's decision or answer
  requeued,     \* the jobs an interruption put back already
  acted,        \* the leased jobs with mission.report or mission.delivered on record since their claim
  specs,        \* the schedulers that read the schedule as active
  hand,         \* the claimed occurrence a scheduler or a surface has still to queue
  step,         \* where a worker is with its job
  cur,          \* the job it runs
  last,         \* the workers whose job has no attempt after this one
  fate,         \* what the handler will tell the queue
  reads,        \* how many findings the run was started with
  handed,       \* history: how many findings of the occurrence a run was given
  spoke,        \* history: how often the occurrence reported to the owner
  amends,       \* history: the owner's retries, and errors thrown after the mission ended
  unsaid,       \* history: reported by a run that was gone before anything was on record
  rejoined      \* history: given back and joined by a finding when its job was there already

rowVars  == <<occ, due, near, grouped, waited, carries>>
jobVars  == <<job, attempts, holder, decided, requeued, acted>>
handVars == <<specs, hand>>
runVars  == <<step, cur, last, fate, reads>>
histVars == <<handed, spoke, amends, unsaid, rejoined>>
vars == <<rowVars, mission, jobVars, handVars, runVars, histVars>>

-----------------------------------------------------------------------------
OccState == {"none", "pending", "claimed", "succeeded", "failed", "skipped"}
JobState == {"none", "pending", "leased", "suspended", "succeeded", "failed", "cancelled"}
\* no job; before getOccurrence answers; in the mission; mission.report called; delivered, before
\* mission.delivered is on record; before finishOccurrence; before the queue is told
Step == {"idle", "reading", "running", "sending", "sent", "closing", "reporting"}
Fate == {"none", "complete", "park", "retry", "giveUp"}

Hands == Schedulers \cup Surfaces
Open == {o \in Occs : occ[o] \in {"pending", "claimed"}}
InRun == Step \ {"idle"}
\* The mission goes on, and may still report.
InMission == {"reading", "running", "sending"}

TypeOK ==
  /\ occ \in [Occs -> OccState]
  /\ due \subseteq Occs /\ near \subseteq Occs /\ grouped \subseteq Occs /\ waited \subseteq Occs
  /\ carries \in [Occs -> Nat]
  /\ mission \in {"on", "off", "pausing"}
  /\ job \in [Occs -> JobState]
  /\ attempts \in [Occs -> Nat]
  /\ holder \in [Occs -> Workers \cup {None}]
  /\ decided \subseteq Occs /\ requeued \subseteq Occs
  /\ acted \subseteq Occs
  /\ specs \subseteq Schedulers
  /\ hand \in [Hands -> Occs \cup {None}]
  /\ step \in [Workers -> Step]
  /\ cur \in [Workers -> Occs \cup {None}]
  /\ last \subseteq Workers
  /\ fate \in [Workers -> Fate]
  /\ reads \in [Workers -> Nat]
  /\ handed \in [Occs -> Nat]
  /\ spoke \in [Occs -> Nat] /\ amends \in [Occs -> Nat]
  /\ unsaid \subseteq Occs /\ rejoined \subseteq Occs

Init ==
  /\ occ = [o \in Occs |-> "none"]
  /\ due = {} /\ near = {} /\ grouped = {} /\ waited = {}
  /\ carries = [o \in Occs |-> 0]
  /\ mission = "on"
  /\ job = [o \in Occs |-> "none"]
  /\ attempts = [o \in Occs |-> 0]
  /\ holder = [o \in Occs |-> None]
  /\ decided = {} /\ requeued = {} /\ acted = {}
  /\ specs = {}
  /\ hand = [h \in Hands |-> None]
  /\ step = [w \in Workers |-> "idle"]
  /\ cur = [w \in Workers |-> None]
  /\ last = {}
  /\ fate = [w \in Workers |-> "none"]
  /\ reads = [w \in Workers |-> 0]
  /\ handed = [o \in Occs |-> 0]
  /\ spoke = [o \in Occs |-> 0] /\ amends = [o \in Occs |-> 0]
  /\ unsaid = {} /\ rejoined = {}

-----------------------------------------------------------------------------
(* The clock, the owner's switch, and a plugin switched off                *)

\* A wait takes two steps, so that an arrival that pushes it back can always come first.
NearsDue(o) ==
  /\ occ[o] = "pending" /\ o \notin due \cup near
  /\ near' = near \cup {o}
  /\ UNCHANGED <<occ, due, grouped, waited, carries, mission, jobVars, handVars, runVars, histVars>>

DueElapses(o) ==
  /\ occ[o] = "pending" /\ o \in near
  /\ near' = near \ {o}
  /\ due' = due \cup {o}
  /\ UNCHANGED <<occ, grouped, waited, carries, mission, jobVars, handVars, runVars, histVars>>

WaitElapses(o) ==
  /\ o \in grouped \ waited /\ occ[o] = "pending"
  /\ waited' = waited \cup {o}
  /\ UNCHANGED <<occ, due, near, grouped, carries, mission, jobVars, handVars, runVars, histVars>>

\* setMissionEnabled, endExpiredMissions and resumePluginMissions.
SetServing(to) ==
  /\ mission # "pausing" /\ to \in {"on", "off"} \ {mission}
  /\ \E o \in Occs : occ[o] = "none"                     \* Bound: the switch is still looked at
  /\ mission' = to
  /\ UNCHANGED <<rowVars, jobVars, handVars, runVars, histVars>>

\* pausePluginMissions: the mission first, the runs already waiting in a second statement.
PausePlugin ==
  /\ mission = "on"
  /\ mission' = "pausing"
  /\ UNCHANGED <<rowVars, jobVars, handVars, runVars, histVars>>

SkipWaiting ==
  /\ mission = "pausing"
  /\ mission' = "off"
  /\ occ' = [o \in Occs |-> IF occ[o] = "pending" THEN "skipped" ELSE occ[o]]
  /\ UNCHANGED <<due, near, grouped, waited, carries, jobVars, handVars, runVars, histVars>>

-----------------------------------------------------------------------------
(* Where occurrences come from                                             *)

\* The mission has an occurrence queued or running.
Busy == Open # {}

\* applyMisfirePolicy: which instants of the window will run.
Runs(S, newest, late) ==
  IF Policy = "replay-all" THEN S
  ELSE IF Policy = "skip-after-deadline" THEN S \ late
  ELSE IF Policy = "latest-only" /\ Busy THEN {}
  ELSE {newest} \cap S

\* materializeOccurrences reads the active schedules of missions that may run ...
SelectSpecs(s) ==
  /\ mission = "on" /\ s \notin specs /\ hand[s] = None
  /\ \E o \in Occs : occ[o] = "none"                     \* Bound: instants are left
  /\ specs' = specs \cup {s}
  /\ UNCHANGED <<rowVars, mission, jobVars, hand, runVars, histVars>>

\* ... and takes each mission in a transaction of its own, which looks at neither again.
Materialize(s, S, newest, late) ==
  /\ s \in specs
  /\ \A o \in S : occ[o] = "none"
  /\ S # {} => newest \in S
  /\ specs' = specs \ {s}
  /\ occ' = [o \in Occs |-> IF o \in Runs(S, newest, late) THEN "pending"
                            ELSE IF o \in S THEN "skipped" ELSE occ[o]]
  /\ due' = due \cup S
  /\ UNCHANGED <<near, grouped, waited, carries, mission, jobVars, hand, runVars, histVars>>

\* startManualOccurrence, under the lock materialization takes.
RunNow(h, o) ==
  /\ mission = "on" /\ ~Busy /\ hand[h] = None /\ occ[o] = "none"
  /\ occ' = [occ EXCEPT ![o] = "claimed"]
  /\ due' = due \cup {o}
  /\ hand' = [hand EXCEPT ![h] = o]
  /\ UNCHANGED <<near, grouped, waited, carries, mission, jobVars, specs, runVars, histVars>>

\* enqueueOccurrence: an occurrence of its own, at once or to wait for company.  Whether
\* a waiting run has room for one more is for the source's `merge` to say.
Wake(o, coalesced) ==
  /\ occ[o] = "none"
  /\ occ' = [occ EXCEPT ![o] = "pending"]
  /\ carries' = [carries EXCEPT ![o] = 1]
  /\ due' = IF coalesced THEN due ELSE due \cup {o}
  /\ grouped' = IF coalesced THEN grouped \cup {o} ELSE grouped
  /\ UNCHANGED <<near, waited, mission, jobVars, handVars, runVars, histVars>>

\* Mutant: a run already claimed may be joined.
JoinableTaken(o) == o \in grouped /\ occ[o] \in {"pending", "claimed"}

\* The row enqueueOccurrence locks: the newest of the group still pending.
Joinable(o) ==
  /\ o \in grouped /\ occ[o] = "pending"
  /\ o \in due => \A p \in grouped : occ[p] = "pending" => p \in due

\* Mutant: each arrival pushes the run back, however long the first has waited.
DueAlwaysPushed(o) == due \ {o}

\* min(now + window, firstAt + maxWait).
DueAfterJoin(o) == IF o \in waited THEN due \cup {o} ELSE due \ {o}

\* Joining the run that waits (as often as findings come, counted up to WakeMax).
Join(o) ==
  /\ Joinable(o)
  /\ carries' = [carries EXCEPT ![o] = IF @ < WakeMax THEN @ + 1 ELSE @]
  /\ due' = DueAfterJoin(o)
  /\ near' = near \ {o}
  /\ rejoined' = IF occ[o] = "pending" /\ job[o] # "none" THEN rejoined \cup {o} ELSE rejoined
  /\ UNCHANGED <<occ, grouped, waited, mission, jobVars, handVars, runVars, handed, spoke, amends, unsaid>>

-----------------------------------------------------------------------------
(* The scheduler's claim and the handoff to the queue                      *)

ClaimNext(s, o) ==
  /\ s \notin specs /\ hand[s] = None
  /\ occ[o] = "pending" /\ o \in due
  /\ occ' = [occ EXCEPT ![o] = "claimed"]
  /\ hand' = [hand EXCEPT ![s] = o]
  /\ UNCHANGED <<due, near, grouped, waited, carries, mission, jobVars, specs, runVars, histVars>>

\* queueOccurrence: the dedup key is the occurrence, so a second handoff finds the job.
HandOver(h) ==
  /\ hand[h] # None
  /\ hand' = [hand EXCEPT ![h] = None]
  /\ job' = [job EXCEPT ![hand[h]] = IF @ = "none" THEN "pending" ELSE @]
  /\ UNCHANGED <<rowVars, mission, attempts, holder, decided, requeued, acted, specs, runVars, histVars>>

\* Mutant: finishOccurrence closes whatever state the row is in.
ClosedWhatever(o, to) == [occ EXCEPT ![o] = to]

\* finishOccurrence: only a claimed row transitions.
ClosedAs(o, to) == [occ EXCEPT ![o] = IF @ = "claimed" THEN to ELSE @]

\* The enqueue throws: the runner writes the occurrence off.
HandOverFails(s) ==
  /\ hand[s] # None
  /\ hand' = [hand EXCEPT ![s] = None]
  /\ occ' = ClosedAs(hand[s], "failed")
  /\ UNCHANGED <<due, near, grouped, waited, carries, mission, jobVars, specs, runVars, histVars>>

\* The process is gone between the claim and the handoff.
DropHand(h) ==
  /\ hand[h] # None
  /\ hand' = [hand EXCEPT ![h] = None]
  /\ UNCHANGED <<rowVars, mission, jobVars, specs, runVars, histVars>>

\* Mutant: only a claim that reached the queue is given back.
AgedQueued == {o \in Occs : occ[o] = "claimed" /\ job[o] # "none"}

\* The claims that may be older than STALE_CLAIM_MS.
Aged == {o \in Occs : occ[o] = "claimed"}

\* releaseStaleClaims, in one statement.
SweepStale(S) ==
  /\ S # {} /\ S \subseteq Aged
  /\ occ' = [o \in Occs |-> IF o \in S THEN "pending" ELSE occ[o]]
  /\ UNCHANGED <<due, near, grouped, waited, carries, mission, jobVars, handVars, runVars, histVars>>

-----------------------------------------------------------------------------
(* The queue, from outside                                                 *)

ClaimJob(w, o) ==
  /\ step[w] = "idle" /\ job[o] = "pending" /\ attempts[o] < Cap
  /\ job' = [job EXCEPT ![o] = "leased"]
  /\ attempts' = [attempts EXCEPT ![o] = @ + 1]
  /\ holder' = [holder EXCEPT ![o] = w]
  /\ step' = [step EXCEPT ![w] = "reading"]
  /\ cur' = [cur EXCEPT ![w] = o]
  /\ last' = IF attempts[o] + 1 >= Cap THEN last \cup {w} ELSE last \ {w}
  /\ UNCHANGED <<rowVars, mission, decided, requeued, acted, handVars, fate, reads, histVars>>

\* Mutant: what the run reported does not count.
PuttableWhateverSaid(o) ==
  /\ o \notin requeued /\ attempts[o] < Cap
  /\ \A w \in Workers : cur[w] = o => step[w] \notin InMission \cup {"sent"}

\* Mutant: a run may still go on behind the job.
PuttableMidRun(o) == o \notin requeued /\ o \notin acted /\ attempts[o] < Cap

\* An interruption may put the job back: once, with an attempt left, nothing on record ...
Spare(o) == o \notin requeued /\ o \notin acted /\ attempts[o] < Cap

\* ... and the run behind it over.
Puttable(o) ==
  /\ Spare(o)
  /\ \A w \in Workers : cur[w] = o => step[w] \notin InMission \cup {"sent"}

\* interruptLeases for one job.  The occurrence of a job that fails is closed in the next
\* statement, unless the process is gone before it.
Interrupt(o, back, gone) ==
  /\ job[o] = "leased"
  /\ back => Puttable(o)
  /\ job' = [job EXCEPT ![o] = IF back THEN "pending" ELSE "failed"]
  /\ holder' = [holder EXCEPT ![o] = None]
  /\ requeued' = IF back THEN requeued \cup {o} ELSE requeued
  /\ acted' = acted \ {o}
  /\ occ' = IF back \/ gone THEN occ ELSE ClosedAs(o, "failed")
  /\ UNCHANGED <<due, near, grouped, waited, carries, mission, attempts, decided, handVars, runVars, histVars>>

CancelJob(o) ==
  /\ job[o] \in {"pending", "leased", "suspended", "failed"}
  /\ amends[o] < MaxAmends                                 \* Bound: it can be retried
  /\ job' = [job EXCEPT ![o] = "cancelled"]
  /\ holder' = [holder EXCEPT ![o] = None]
  /\ acted' = acted \ {o}
  /\ UNCHANGED <<rowVars, mission, attempts, decided, requeued, handVars, runVars, histVars>>

RetryJob(o) ==
  /\ job[o] \in {"failed", "cancelled", "suspended"} /\ amends[o] < MaxAmends
  /\ job' = [job EXCEPT ![o] = "pending"]
  /\ attempts' = [attempts EXCEPT ![o] = 0]
  /\ amends' = [amends EXCEPT ![o] = @ + 1]
  /\ UNCHANGED <<rowVars, mission, holder, decided, requeued, acted, handVars, runVars, handed, spoke, unsaid, rejoined>>

\* The owner decides, answers, or the clock answers for them.
ResumeJob(o) ==
  /\ job[o] = "suspended"
  /\ job' = [job EXCEPT ![o] = "pending"]
  /\ attempts' = [attempts EXCEPT ![o] = IF @ > 0 THEN @ - 1 ELSE @]
  /\ decided' = decided \cup {o}
  /\ UNCHANGED <<rowVars, mission, holder, requeued, acted, handVars, runVars, histVars>>

-----------------------------------------------------------------------------
(* createMissionJobHandler and the tick around it                          *)

Goes(w, to, f) ==
  /\ step' = [step EXCEPT ![w] = to]
  /\ fate' = [fate EXCEPT ![w] = f]

\* getOccurrence.  A row that is not claimed ends the run as done, with nothing run;
\* a fresh run is told the findings, a resumed one goes on in its conversation.
ReadOccurrence(w) ==
  /\ step[w] = "reading"
  /\ IF occ[cur[w]] = "claimed" THEN Goes(w, "running", "none") ELSE Goes(w, "reporting", "complete")
  /\ reads' = [reads EXCEPT ![w] = IF occ[cur[w]] = "claimed" /\ cur[w] \notin decided THEN carries[cur[w]] ELSE 0]
  /\ UNCHANGED <<rowVars, mission, jobVars, handVars, cur, last, histVars>>

\* The mission is over, to its end or to its owner: what it was told was not in vain ...
Hears(w) ==
  /\ handed' = [handed EXCEPT ![cur[w]] = IF reads[w] > @ THEN reads[w] ELSE @]
  /\ reads' = [reads EXCEPT ![w] = 0]

\* A record that interruptLeases looks for: it counts for the lease the job has now.
OnRecord(w) == acted' = IF job[cur[w]] = "leased" THEN acted \cup {cur[w]} ELSE acted

\* The run calls mission.report, an act: the loop writes tool.called before it invokes a tool.
CallReport(w) ==
  /\ step[w] = "running"
  /\ Goes(w, "sending", "none")
  /\ OnRecord(w)
  /\ UNCHANGED <<rowVars, mission, job, attempts, holder, decided, requeued, handVars, cur, last, reads, histVars>>

\* The owner hears of it.
Says(w) == spoke' = [spoke EXCEPT ![cur[w]] = @ + 1]

\* A mission that always delivers sends what its run wrote when nothing was called, too.
Deliver(w) ==
  /\ step[w] = "sending" \/ (step[w] = "running" /\ AlwaysDeliver)
  /\ Goes(w, "sent", "none") /\ Says(w)
  /\ UNCHANGED <<rowVars, mission, jobVars, handVars, cur, last, reads, handed, amends, unsaid, rejoined>>

\* mission.delivered, a statement after it.
RecordDelivery(w) ==
  /\ step[w] = "sent"
  /\ Goes(w, "closing", "complete")
  /\ Hears(w) /\ OnRecord(w)
  /\ UNCHANGED <<rowVars, mission, job, attempts, holder, decided, requeued, handVars, cur, last,
                 spoke, amends, unsaid, rejoined>>

\* It ends with nothing delivered: silent, or about to report what was muted in the
\* meantime, or to an owner nobody can reach.
EndSilent(w) ==
  /\ step[w] \in {"running", "sending"}
  /\ Goes(w, "closing", "complete")
  /\ Hears(w)
  /\ UNCHANGED <<rowVars, mission, jobVars, handVars, cur, last, spoke, amends, unsaid, rejoined>>

\* It stopped on a gated call, or on a card: the occurrence stays claimed, and what it
\* reported before is held back.
WaitForOwner(w) ==
  /\ step[w] \in {"running", "sending"}
  /\ Goes(w, "reporting", "park")
  /\ Hears(w)
  /\ UNCHANGED <<rowVars, mission, jobVars, handVars, cur, last, spoke, amends, unsaid, rejoined>>

\* ... or it was: the error path.  The occurrence is closed when the job's attempts are spent; whether the
\* queue tries again is the retry policy's (`again`), which may give up before that.
Throws(w, again) ==
  /\ again => w \notin last
  /\ Goes(w, IF w \in last THEN "closing" ELSE "reporting", IF again THEN "retry" ELSE "giveUp")
  /\ reads' = [reads EXCEPT ![w] = 0]

\* It threw before the owner heard of it.
RunFails(w, again) ==
  /\ step[w] \in {"running", "sending"}
  /\ Throws(w, again)
  /\ UNCHANGED <<rowVars, mission, jobVars, handVars, cur, last, histVars>>

\* deliver itself after the message went out, mission.delivered, the digest's commit, or
\* finishOccurrence throws: failJob looks at no record, and the run may be tried again.
EndFails(w, again) ==
  /\ step[w] = "sent" \/ (step[w] = "closing" /\ fate[w] = "complete")
  /\ Throws(w, again)
  /\ amends[cur[w]] < MaxAmends                            \* Bound: it is counted
  /\ amends' = [amends EXCEPT ![cur[w]] = @ + 1]
  /\ UNCHANGED <<rowVars, mission, jobVars, handVars, cur, last, handed, spoke, unsaid, rejoined>>

CloseOccurrence(w) ==
  /\ step[w] = "closing"
  /\ occ' = ClosedAs(cur[w], IF fate[w] = "complete" THEN "succeeded" ELSE "failed")
  /\ Goes(w, "reporting", fate[w])
  /\ UNCHANGED <<due, near, grouped, waited, carries, mission, jobVars, handVars, cur, last, reads, histVars>>

\* The place is free again.
Leaves(w) ==
  /\ Goes(w, "idle", "none")
  /\ cur' = [cur EXCEPT ![w] = None]
  /\ reads' = [reads EXCEPT ![w] = 0]
  /\ last' = last \ {w}

\* Mutant: a suspended job may come to a state the schema does not have.
ToldParked(f, o) == IF f = "complete" THEN "succeeded" ELSE IF f = "park" THEN "parked"
                    ELSE IF f = "retry" /\ attempts[o] < Cap THEN "pending" ELSE "failed"

Told(f, o) == IF f = "complete" THEN "succeeded" ELSE IF f = "park" THEN "suspended"
              ELSE IF f = "retry" /\ attempts[o] < Cap THEN "pending" ELSE "failed"

\* Mutant: whoever reports is taken to hold the lease.
HoldsUnasked(w, o) == TRUE

\* The lease is still this run's: complete, fail and suspend write only then.
Holds(w, o) == job[o] = "leased" /\ holder[o] = w

\* The queue hears the outcome if the lease is still this run's.  Parking on a card
\* clears the last decision from the payload, parking on an approval keeps it.
Report(w, keeps) ==
  /\ step[w] = "reporting"
  /\ LET o == cur[w] IN
       IF Holds(w, o)
         THEN /\ job' = [job EXCEPT ![o] = Told(fate[w], o)]
              /\ holder' = [holder EXCEPT ![o] = None]
              /\ acted' = acted \ {o}
              /\ decided' = IF fate[w] = "park" /\ ~keeps THEN decided \ {o} ELSE decided
         ELSE UNCHANGED <<job, holder, acted, decided>>
  /\ Leaves(w)
  /\ UNCHANGED <<rowVars, mission, attempts, requeued, handVars, histVars>>

\* The owner heard of it, and there is nothing that an interruption would see.
Unrecorded(w) == step[w] = "sent" /\ Holds(w, cur[w]) /\ Spare(cur[w])

\* The run sees its signal, or the process dies: nothing more is written.
Abandon(w) ==
  /\ step[w] \in InRun
  /\ unsaid' = IF Unrecorded(w) THEN unsaid \cup {cur[w]} ELSE unsaid
  /\ Leaves(w)
  /\ UNCHANGED <<rowVars, mission, jobVars, handVars, handed, spoke, amends, rejoined>>

-----------------------------------------------------------------------------
ScheduleStep ==
  \/ \E s \in Schedulers :
       \/ SelectSpecs(s) \/ HandOverFails(s)
       \/ \E S \in SUBSET Occs, newest \in Occs, late \in SUBSET Occs : Materialize(s, S, newest, late)
       \/ \E o \in Occs : ClaimNext(s, o)
  \/ \E h \in Surfaces, o \in Occs : RunNow(h, o)
  \/ \E h \in Hands : HandOver(h) \/ DropHand(h)
  \/ \E S \in SUBSET Occs : SweepStale(S)

WorldStep ==
  \/ \E o \in Occs : NearsDue(o) \/ DueElapses(o) \/ WaitElapses(o)
  \/ \E to \in {"on", "off"} : SetServing(to)
  \/ PausePlugin \/ SkipWaiting
  \/ \E o \in Occs : Join(o) \/ \E c \in BOOLEAN : Wake(o, c)

QueueStep ==
  \E o \in Occs :
    \/ CancelJob(o) \/ RetryJob(o) \/ ResumeJob(o)
    \/ \E back, gone \in BOOLEAN : Interrupt(o, back, gone)

RunStep(w) ==
  \/ ReadOccurrence(w) \/ CallReport(w) \/ Deliver(w) \/ RecordDelivery(w)
  \/ EndSilent(w) \/ WaitForOwner(w) \/ CloseOccurrence(w) \/ Abandon(w)
  \/ \E o \in Occs : ClaimJob(w, o)
  \/ \E b \in BOOLEAN : RunFails(w, b) \/ EndFails(w, b) \/ Report(w, b)

Next == ScheduleStep \/ WorldStep \/ QueueStep \/ \E w \in Workers : RunStep(w)

Spec == Init /\ [][Next]_vars

\* Time passes, the tick and the sweep come back, and the drain takes the oldest first,
\* so it reaches every run that stays due; no process dies at the same statement for
\* ever.  Nothing here makes a worker claim, a run end or the owner act.
Fairness ==
  /\ \A s \in Schedulers :
       WF_vars(\E S, late \in SUBSET Occs, newest \in Occs : Materialize(s, S, newest, late))
  /\ \A o \in Occs :
       /\ WF_vars(NearsDue(o) \/ DueElapses(o)) /\ WF_vars(WaitElapses(o))
       /\ SF_vars(\E s \in Schedulers : ClaimNext(s, o))
       /\ SF_vars(\E h \in Hands : hand[h] = o /\ HandOver(h))
       /\ WF_vars(\E S \in SUBSET Occs : o \in S /\ SweepStale(S))

LiveSpec == Spec /\ Fairness

\* The same when nothing fails, dies, or is called off: only claims may grow old.
Undisturbed ==
  \/ \E h \in Surfaces, o \in Occs : RunNow(h, o)
  \/ \E s \in Schedulers, o \in Occs : ClaimNext(s, o)
  \/ \E h \in Hands : HandOver(h)
  \/ \E S \in SUBSET Occs : SweepStale(S)
  \/ \E w \in Workers :
       \/ ReadOccurrence(w) \/ CallReport(w) \/ Deliver(w) \/ RecordDelivery(w) \/ EndSilent(w)
       \/ CloseOccurrence(w)
       \/ \E o \in Occs : ClaimJob(w, o)
       \/ \E b \in BOOLEAN : Report(w, b)
UndisturbedSpec == Init /\ [][Undisturbed]_vars /\ Fairness

-----------------------------------------------------------------------------
(* What the scheduler and the handler promise                              *)

\* enqueue.ts:21 "an occurrence is either joined or claimed, never both": one that
\* succeeded had every finding it carries in a run that went to its end or to the
\* owner.  The exception is a run given back and joined when its job was there already.
NoFindingDropped ==
  \A o \in Occs \ rejoined : occ[o] = "succeeded" => handed[o] = carries[o]

\* The invariant the proofs carry: a job has a row behind it and a run has a job, and
\* what a run was told stays all there is to tell until the run is over.
RowFits(o) ==
  /\ occ[o] = "none" => job[o] = "none" /\ carries[o] = 0 /\ handed[o] = 0
  /\ job[o] = "none" => o \notin decided /\ \A w \in Workers : cur[w] # o
HandFits(h) == hand[h] # None => occ[hand[h]] # "none"
RunFits(w) == step[w] # "idle" => cur[w] \in Occs
AllHanded(o) == handed[o] = carries[o]
RunIsTold(w, o) ==
  /\ step[w] \in {"running", "sending", "sent"} => reads[w] = carries[o] \/ (reads[w] = 0 /\ AllHanded(o))
  /\ step[w] = "closing" /\ fate[w] = "complete" => AllHanded(o)
  /\ step[w] \in {"closing", "reporting"} /\ fate[w] = "park" => AllHanded(o)
FindingsKept(o) ==
  /\ handed[o] <= carries[o]
  /\ o \in decided \/ job[o] = "suspended" \/ occ[o] = "succeeded" => AllHanded(o)
  /\ \A w \in Workers : cur[w] = o => RunIsTold(w, o)
MissionInv ==
  /\ TypeOK
  /\ \A o \in Occs : RowFits(o)
  /\ \A h \in Hands : HandFits(h)
  /\ \A w \in Workers : RunFits(w)
  /\ \A o \in Occs \ rejoined : FindingsKept(o)

\* jobs.ts:430 "Nothing is re-run that might send ... a second time without the owner
\* deciding": a mission reports once, and again only for each retry of the owner and each
\* error thrown after the report.  The exception is a mission that always delivers, whose
\* run called nothing and was gone before mission.delivered, if an interruption puts it back.
Again(o) == IF o \in unsaid /\ o \in requeued THEN 1 ELSE 0
SpeaksOnce == \A o \in Occs : spoke[o] <= 1 + amends[o] + Again(o)

\* The invariant its proof carries: the reports an occurrence has made, the one its job may
\* still bring, and one for every run that goes on though its lease is gone.  A run that
\* called mission.report has it on record as long as the lease is its own.
GoesOn(w) == step[w] \in InMission
Orphans(o) == {w \in Workers : cur[w] = o /\ GoesOn(w) /\ ~Holds(w, o)}
HasSent(o) == \E w \in Workers : Holds(w, o) /\ cur[w] = o /\ step[w] = "sent"
MayReport(o) ==
  \/ job[o] \in {"none", "pending", "suspended"}
  \/ job[o] = "leased" /\ Spare(o) /\ o \notin unsaid /\ ~HasSent(o)
  \/ \E w \in Workers : Holds(w, o) /\ cur[w] = o /\ (GoesOn(w) \/ fate[w] \in {"retry", "park"})
Chances(o) == Cardinality(Orphans(o)) + (IF MayReport(o) THEN 1 ELSE 0)
Counted(o) == IsFiniteSet(Orphans(o)) /\ spoke[o] + Chances(o) <= 1 + amends[o] + Again(o)
CallFits(w) ==
  (step[w] = "sending" \/ (step[w] = "sent" /\ ~AlwaysDeliver)) /\ Holds(w, cur[w]) => cur[w] \in acted
ChancesCounted == (\A w \in Workers : CallFits(w)) /\ \A o \in Occs : Counted(o)

\* Under latest-only the schedule and Run now never have two runs of the mission open:
\* not when a claim is given back, nor when a request races the scheduler.
OneRunOpen ==
  Policy = "latest-only" => \A o, p \in Open : carries[o] = 0 /\ carries[p] = 0 => o = p

\* run-now.ts:23 "a process that dies between claiming and running leaves the claim to
\* the stale sweep": a claim that has no job gets one, however often a process dies
\* between the two, unless the run is called off.
HandedOver ==
  \A o \in Occs : occ[o] = "claimed" /\ job[o] = "none"
                  ~> job[o] # "none" \/ occ[o] \notin {"pending", "claimed"}

\* enqueue.ts:17 "a steady trickle cannot keep the run waiting forever": a run that
\* waits is claimed, or called off, in the end.
TrickleEnds == \A o \in Occs : occ[o] = "pending" ~> occ[o] # "pending"

\* runner.ts:17 "A claim that is never closed is not lost: the stale-claim sweep releases
\* it and the re-enqueue is idempotent": an occurrence claimed when its job is over is
\* closed in the end, or its job is tried again.
Stranded(o) == occ[o] = "claimed" /\ job[o] \in {"succeeded", "failed"}
NotLost ==
  \A o \in Occs : Stranded(o) ~> occ[o] \notin {"pending", "claimed"} \/ job[o] \notin {"succeeded", "failed"}

\* The job of an occurrence, as the queue's users see it.  (Nobody dismisses a failure here.)
JobLife == [none |-> "none", pending |-> "waiting", leased |-> "running", suspended |-> "parked",
            succeeded |-> "done", failed |-> "failed", cancelled |-> "dropped"]
JobLifeOf(o) == JobLife[job[o]]

Queue == INSTANCE JobLifecycle WITH Jobs <- Occs, life <- [o \in Occs |-> JobLifeOf(o)]

\* What the scheduler and the handler do to the queue keeps to the life JobQueue is shown
\* to implement: a second handoff, a late run and a sweep revive no job that is over.
KeepsJobLifecycle == Queue!Spec

\* The row of an occurrence, as the scheduler's users read it.
LifeOf(o) ==
  IF occ[o] = "pending" THEN "waiting" ELSE IF occ[o] = "claimed" THEN "taken"
  ELSE IF occ[o] = "succeeded" THEN "done" ELSE occ[o]

Life == INSTANCE OccurrenceLife WITH life <- [o \in Occs |-> LifeOf(o)]

\* Two schedulers, the surfaces, the sweep, an interruption and a run that comes late
\* move an occurrence only as OccurrenceLife says: what was closed or skipped is
\* never opened or closed again, and nothing is closed that was not taken.
ImplementsLife == Life!Spec
=============================================================================
