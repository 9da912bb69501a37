----------------------------- MODULE ParkedRuns -----------------------------
(***************************************************************************)
(* One mission-run job that waits for its owner: the question cards it     *)
(* parks on, the page the owner took over, the surfaces that take the      *)
(* answer, the parking clock, and the handler that reads the payload when  *)
(* the job comes back (gateway/src/missions/parked.ts, the mission handler *)
(* of serve.ts, core/src/questions/store.ts).                              *)
(*                                                                         *)
(* A wait is a card or, for the page of a conversation, the conversation.  *)
(* An approval the run stops at is there as far as it wakes the same job;  *)
(* its decision is Approvals'.  The queue is MissionRuns', for one worker, *)
(* with attempts left out: whether a failed run is tried again is free.    *)
(*                                                                         *)
(* `used`, `heard`, `astray`, `told`, `cut`, `blind` and `upsets` are      *)
(* history.                                                                *)
(***************************************************************************)
EXTENDS Naturals, FiniteSets

CONSTANTS
  Cards,        \* questions the run may come to ask
  Convs,        \* conversations it may come to open, and their pages
  Clocks,       \* parking clocks, one for each serve
  None,         \* nothing waited on
  Gate,         \* the wait for an approval
  MaxUpsets     \* bound on the failures, deaths and retries, after which only misfires are left

Waits == Cards \cup Convs

ASSUME ParkAssumption ==
  /\ Cards \cap Convs = {}
  /\ None \notin Waits /\ Gate \notin Waits /\ None # Gate
  /\ MaxUpsets \in Nat

VARIABLES
  card,         \* core.questions: "none" before it is asked
  home,         \* the conversation a card was asked in
  past,         \* the waits whose time is over
  posted,       \* the cards a mission.parked event names
  occ,          \* core.occurrences.state
  job,          \* core.jobs.state
  reason,       \* its suspended_reason
  parked,       \* payload.parked.questionId
  answer,       \* payload.answer: for which wait, and whose
  awaits,       \* payload.awaiting.conversationId
  approved,     \* payload.approval holds a decision
  gate,         \* an approval of this job is open
  step,         \* where the run is
  conv,         \* its conversation
  wait,         \* what it is about to wait on
  fate,         \* what the handler will tell the queue
  clock,        \* the wait a clock found over, before its resume
  surf,         \* what the surface did with the answer to a card
  used,         \* history: the conversations the mission was started in
  heard,        \* history: the cards whose answer a run was started with
  astray,       \* history: the cards tied to the job when a run began with something else
  noted,        \* the waits a mission.needed_you event names
  told,         \* history: those the owner was told about
  cut,          \* history: those whose telling failed, died or found nobody, when the event was there
  blind,        \* history: those told about again because the look for that event failed
  upsets        \* history: failures, deaths, retries, and wakes meant for another wait

cardVars == <<card, home, past, posted>>
jobVars  == <<job, reason, parked, answer, awaits, approved>>
runVars  == <<step, conv, wait, fate>>
seenVars == <<used, heard, astray>>
saidVars == <<noted, told, cut, blind>>
vars == <<cardVars, occ, jobVars, gate, runVars, clock, surf, seenVars, saidVars, upsets>>

-----------------------------------------------------------------------------
JobState == {"pending", "leased", "suspended", "succeeded", "failed", "cancelled"}
CardState == {"none", "open", "answered", "closed"}
\* no run; started with the owner's answer; in the mission; asked; told nobody came; before
\* the owner is told so; before finishOccurrence; before the queue is told
Step == {"idle", "answered", "running", "asking", "timedOut", "telling", "closing", "reporting"}
Fate == {"none", "complete", "park", "gate", "retry", "giveUp"}
\* not answered; answered, before the wake; a parked run took it; a turn of its own, or lost
Surf == {"none", "holding", "taken", "elsewhere"}
Answers == [to : Waits \cup {None}, by : {"nobody", "owner", "page", "clock"}]
NoAnswer == [to |-> None, by |-> "nobody"]

TypeOK ==
  /\ card \in [Cards -> CardState] /\ home \in [Cards -> Convs \cup {None}]
  /\ past \subseteq Waits /\ posted \subseteq Cards
  /\ occ \in {"claimed", "pending", "closed"}
  /\ job \in JobState /\ reason \in Waits \cup {None, Gate}
  /\ parked \in Waits \cup {None} /\ answer \in Answers
  /\ awaits \in Convs \cup {None} /\ approved \in BOOLEAN /\ gate \in BOOLEAN
  /\ step \in Step /\ conv \in Convs \cup {None} /\ wait \in Waits \cup {None} /\ fate \in Fate
  /\ clock \in [Clocks -> Waits \cup {None}]
  /\ surf \in [Cards -> Surf]
  /\ used \subseteq Convs /\ heard \subseteq Cards /\ astray \subseteq Cards
  /\ noted \subseteq Waits /\ told \subseteq Waits /\ cut \subseteq Waits /\ blind \subseteq Waits
  /\ upsets \in Nat

\* The scheduler claimed the occurrence and queued its job.
Init ==
  /\ card = [q \in Cards |-> "none"] /\ home = [q \in Cards |-> None]
  /\ past = {} /\ posted = {}
  /\ occ = "claimed"
  /\ job = "pending" /\ reason = None /\ parked = None /\ answer = NoAnswer
  /\ awaits = None /\ approved = FALSE /\ gate = FALSE
  /\ step = "idle" /\ conv = None /\ wait = None /\ fate = "none"
  /\ clock = [k \in Clocks |-> None]
  /\ surf = [q \in Cards |-> "none"]
  /\ used = {} /\ heard = {} /\ astray = {}
  /\ noted = {} /\ told = {} /\ cut = {} /\ blind = {}
  /\ upsets = 0

-----------------------------------------------------------------------------
\* A card takes an answer.
Open(q) == card[q] = "open" /\ q \notin past

\* closeQuestion: only an unanswered card.
Closed(q) == [card EXCEPT ![q] = IF @ = "open" THEN "closed" ELSE @]

\* Ids differ by nothing but the order they are made in.
New(S) == CHOOSE x \in S : TRUE

\* Mutant: the wait's id is taken for the conversation.
HomeIsWait(w) == w

\* Where a run that waits for w goes on.
Home(w) == IF w \in Cards THEN home[w] ELSE w

\* Mutant: an answer already there does not count.
MatchesAgain(w) ==
  /\ parked = w
  /\ (job = "suspended" /\ reason = w) \/ job = "leased"

\* The where of answerParkedJob: one statement finds the job and hands it the answer.
Matches(w) ==
  /\ parked = w
  /\ (job = "suspended" /\ reason = w) \/ job = "leased"
  /\ answer.to # w

\* Back on the queue.
Wakes ==
  /\ job' = "pending"
  /\ reason' = None

\* What answerParkedJob does to the row it found.
HandAnswer(w, by) ==
  /\ answer' = [to |-> w, by |-> by]
  /\ IF job = "suspended" THEN Wakes ELSE UNCHANGED <<job, reason>>
  /\ UNCHANGED <<parked, awaits, approved>>

\* Time is looked at only for what the job is tied to.
Passes(w) ==
  /\ parked = w /\ w \notin past
  /\ past' = past \cup {w}
  /\ UNCHANGED <<saidVars, card, home, posted, occ, jobVars, gate, runVars, clock, surf, seenVars, upsets>>

-----------------------------------------------------------------------------
(* The surfaces: a card answered, a page given back, an approval decided   *)

\* answerQuestion.
AnswerCard(q) ==
  /\ Open(q)
  /\ card' = [card EXCEPT ![q] = "answered"]
  /\ surf' = [surf EXCEPT ![q] = "holding"]
  /\ UNCHANGED <<saidVars, home, past, posted, occ, jobVars, gate, runVars, clock, seenVars, upsets>>

\* resumeParkedForQuestion; the surface starts a turn of its own when no run took it.
WakeWithAnswer(q) ==
  /\ surf[q] = "holding"
  /\ surf' = [surf EXCEPT ![q] = IF Matches(q) THEN "taken" ELSE "elsewhere"]
  /\ IF Matches(q) THEN HandAnswer(q, "owner") ELSE UNCHANGED jobVars
  /\ UNCHANGED <<saidVars, cardVars, occ, gate, runVars, clock, seenVars, upsets>>

\* The statement fails (a turn all the same), or the process is gone before it.
WakeFails(q) ==
  /\ surf[q] = "holding"
  /\ surf' = [surf EXCEPT ![q] = "elsewhere"]
  /\ UNCHANGED <<saidVars, cardVars, occ, jobVars, gate, runVars, clock, seenVars, upsets>>

\* resumeParkedForPage: the run that waits for the page, or else one parked on a card of
\* this conversation, which is closed in a last statement unless the process is gone.  The
\* card is read in a statement of its own, but nothing is written unless answerParkedJob
\* still finds the job tied to it.
GiveBack(c, dies) ==
  /\ c \in used
  /\ \/ /\ Matches(c)
        /\ HandAnswer(c, "page")
        /\ UNCHANGED card
     \/ /\ parked \in Cards /\ home[parked] = c /\ Matches(parked)
        /\ HandAnswer(parked, "page")
        /\ card' = IF dies THEN card ELSE Closed(parked)
  /\ UNCHANGED <<saidVars, home, past, posted, occ, gate, runVars, clock, surf, seenVars, upsets>>

\* resumeJobForAction resumes the job whatever it is suspended for.
Decide ==
  /\ gate
  /\ gate' = FALSE
  /\ IF job = "suspended"
       THEN /\ Wakes
            /\ approved' = TRUE
            /\ upsets' = IF reason = Gate THEN upsets ELSE upsets + 1
       ELSE UNCHANGED <<job, reason, approved, upsets>>
  /\ UNCHANGED <<saidVars, cardVars, occ, parked, answer, awaits, runVars, clock, surf, seenVars>>

-----------------------------------------------------------------------------
(* The parking clock: expireParkedRuns                                     *)

\* Mutant: a run is woken only if its card was still open.
FindExpiredOpen(k) ==
  /\ clock[k] = None
  /\ job = "suspended" /\ reason \in Waits /\ parked \in past
  /\ parked \in Cards => card[parked] = "open"
  /\ clock' = [clock EXCEPT ![k] = parked]
  /\ card' = IF parked \in Cards THEN Closed(parked) ELSE card
  /\ UNCHANGED <<saidVars, home, past, posted, occ, jobVars, gate, runVars, surf, seenVars, upsets>>

\* A card whose time is over takes no answer, so that closing it goes with the query.
FindExpired(k) ==
  /\ clock[k] = None
  /\ job = "suspended" /\ reason \in Waits /\ parked \in past
  /\ clock' = [clock EXCEPT ![k] = parked]
  /\ card' = IF parked \in Cards THEN Closed(parked) ELSE card
  /\ UNCHANGED <<saidVars, home, past, posted, occ, jobVars, gate, runVars, surf, seenVars, upsets>>

\* Mutant: the resume looks at no state.
WakeExpiredAnyway(k) ==
  /\ clock[k] # None
  /\ clock' = [clock EXCEPT ![k] = None]
  /\ Wakes
  /\ answer' = [to |-> clock[k], by |-> "clock"]
  /\ UNCHANGED <<saidVars, cardVars, occ, parked, awaits, approved, gate, runVars, surf, seenVars, upsets>>

\* resumeJob: guarded by the state, and by nothing else.
WakeExpired(k) ==
  /\ clock[k] # None
  /\ clock' = [clock EXCEPT ![k] = None]
  /\ IF job = "suspended"
       THEN /\ Wakes
            /\ answer' = [to |-> clock[k], by |-> "clock"]
            /\ upsets' = IF reason = clock[k] THEN upsets ELSE upsets + 1
       ELSE UNCHANGED <<job, reason, answer, upsets>>
  /\ UNCHANGED <<saidVars, cardVars, occ, parked, awaits, approved, gate, runVars, surf, seenVars>>

ClockDies(k) ==
  /\ clock[k] # None
  /\ clock' = [clock EXCEPT ![k] = None]
  /\ UNCHANGED <<saidVars, cardVars, occ, jobVars, gate, runVars, surf, seenVars, upsets>>

-----------------------------------------------------------------------------
(* The run: createMissionJobHandler and the mission executor               *)

Goes(to, f) == step' = to /\ fate' = f

\* claimJob, whose row is the payload the handler goes by, and getOccurrence.
Starts ==
  /\ step = "idle" /\ job = "pending"
  /\ job' = "leased"
  /\ UNCHANGED <<saidVars, cardVars, occ, reason, parked, answer, awaits, approved, gate, wait, clock, surf, upsets>>

Answered == parked # None /\ answer.to = parked
Decided == approved /\ awaits # None
GoesAstray == astray' = astray \cup (Cards \cap {parked})

\* The occurrence was given back by the stale-claim sweep: done, with nothing run.
StartSkipped ==
  /\ occ # "claimed" /\ Starts
  /\ Goes("reporting", "complete") /\ GoesAstray
  /\ UNCHANGED <<conv, used, heard>>

StartTimedOut ==
  /\ occ = "claimed" /\ Answered /\ answer.by = "clock" /\ Starts
  /\ Goes("timedOut", "none") /\ conv' = Home(parked)
  /\ UNCHANGED <<used, heard, astray>>

\* In the conversation it parked in, with the owner's words.
StartAnswered ==
  /\ occ = "claimed" /\ Answered /\ answer.by # "clock" /\ Starts
  /\ Goes(IF answer.by = "owner" THEN "answered" ELSE "running", "none") /\ conv' = Home(parked)
  /\ heard' = IF answer.by = "owner" THEN heard \cup (Cards \cap {parked}) ELSE heard
  /\ UNCHANGED <<used, astray>>

StartDecided ==
  /\ occ = "claimed" /\ ~Answered /\ Decided /\ Starts
  /\ Goes("running", "none") /\ conv' = awaits /\ GoesAstray
  /\ UNCHANGED <<used, heard>>

\* From the beginning, in a conversation of its own.
StartFresh(c) ==
  /\ occ = "claimed" /\ ~Answered /\ ~Decided /\ Starts
  /\ c \notin used /\ c = New(Convs \ used)
  /\ Goes("running", "none") /\ conv' = c /\ GoesAstray
  /\ used' = used \cup {c}
  /\ UNCHANGED <<heard>>

InMission == step \in {"answered", "running"}

\* It reported, stayed silent, or its question was held back.
Finish ==
  /\ InMission
  /\ Goes("closing", "complete")
  /\ UNCHANGED <<saidVars, cardVars, occ, jobVars, gate, conv, wait, clock, surf, seenVars, upsets>>

\* askHeldBack, which does not count when it fails, then askQuestion: one open card for a
\* mission, and for a conversation.
Ask(q, checked) ==
  /\ InMission /\ card[q] = "none" /\ q = New({p \in Cards : card[p] = "none"})
  /\ checked => \A p \in posted : ~Open(p)
  /\ card' = [p \in Cards |-> IF p = q THEN "open"
                              ELSE IF home[p] = conv /\ card[p] = "open" THEN "closed" ELSE card[p]]
  /\ home' = [home EXCEPT ![q] = conv]
  /\ wait' = q /\ Goes("asking", "none")
  /\ UNCHANGED <<saidVars, past, posted, occ, jobVars, gate, conv, clock, surf, seenVars, upsets>>

\* The answer was to take the page over.
TakeOver ==
  /\ step = "answered"
  /\ wait' = conv /\ Goes("asking", "none")
  /\ UNCHANGED <<saidVars, cardVars, occ, jobVars, gate, conv, clock, surf, seenVars, upsets>>

\* tieJob, with a new time to wait for a page, and the event.
Tie ==
  /\ step = "asking"
  /\ IF job = "leased" THEN parked' = wait /\ answer' = NoAnswer ELSE UNCHANGED <<parked, answer>>
  /\ past' = past \ (Convs \cap {wait})
  /\ posted' = posted \cup (Cards \cap {wait})
  /\ Goes("reporting", "park")
  /\ UNCHANGED <<saidVars, card, home, occ, job, reason, awaits, approved, gate, conv, wait, clock, surf, seenVars, upsets>>

StopAtGate ==
  /\ InMission
  /\ ~gate /\ awaits = None /\ ~approved                   \* Bound: one approval for each park
  /\ gate' = TRUE
  /\ Goes("reporting", "gate")
  /\ UNCHANGED <<saidVars, cardVars, occ, jobVars, conv, wait, clock, surf, seenVars, upsets>>

\* Mutant: the event that names the wait is not written.
NoteForgotten == noted' = noted

\* mission.needed_you, on record before the owner is told.
Note == noted' = noted \cup {parked}

\* The same question timed out before (a run is tried again within the day): the line
\* is folded into the one that was sent then.
Folded == parked \in noted

\* closeQuestion, timedOutRecently and the event.  A look that fails folds nothing.
EndInVain(looked) ==
  /\ step = "timedOut"
  /\ card' = IF parked \in Cards THEN Closed(parked) ELSE card
  /\ Note
  /\ IF Folded /\ looked THEN Goes("closing", "complete") ELSE Goes("telling", "none")
  /\ blind' = IF Folded /\ ~looked THEN blind \cup {parked} ELSE blind
  /\ UNCHANGED <<told, cut, home, past, posted, occ, jobVars, gate, conv, wait, clock, surf, seenVars, upsets>>

\* The "needed you" line reaches the owner.
TellOwner ==
  /\ step = "telling"
  /\ told' = told \cup {parked}
  /\ Goes("closing", "complete")
  /\ UNCHANGED <<noted, cut, blind, cardVars, occ, jobVars, gate, conv, wait, clock, surf, seenVars, upsets>>

\* No owner is paired, or none can be reached: the run is over all the same.
NobodyToTell ==
  /\ step = "telling"
  /\ cut' = cut \cup {parked}
  /\ Goes("closing", "complete")
  /\ UNCHANGED <<noted, told, blind, cardVars, occ, jobVars, gate, conv, wait, clock, surf, seenVars, upsets>>

CutShort == cut' = IF step = "telling" THEN cut \cup {parked} ELSE cut

\* It throws anywhere before its outcome is told.  The occurrence is closed if the
\* attempts are spent, which are not counted here.
RunFails(to, f) ==
  /\ step \in Step \ {"idle", "reporting"} \/ (step = "reporting" /\ fate = "park")
  /\ to \in {"closing", "reporting"} /\ f \in {"retry", "giveUp"} /\ (to = "closing" => f = "giveUp")
  /\ upsets < MaxUpsets
  /\ upsets' = upsets + 1
  /\ Goes(to, f)
  /\ CutShort
  /\ UNCHANGED <<noted, told, blind, cardVars, occ, jobVars, gate, conv, wait, clock, surf, seenVars>>

CloseOccurrence ==
  /\ step = "closing"
  /\ occ' = IF occ = "claimed" THEN "closed" ELSE occ
  /\ Goes("reporting", fate)
  /\ UNCHANGED <<saidVars, cardVars, jobVars, gate, conv, wait, clock, surf, seenVars, upsets>>

Leaves == Goes("idle", "none") /\ conv' = None /\ wait' = None

\* completeJob and failJob.
ReportEnd ==
  /\ step = "reporting" /\ fate \in {"complete", "retry", "giveUp"} /\ job = "leased"
  /\ job' = IF fate = "complete" THEN "succeeded" ELSE IF fate = "retry" THEN "pending" ELSE "failed"
  /\ Leaves
  /\ UNCHANGED <<saidVars, cardVars, occ, reason, parked, answer, awaits, approved, gate, clock, surf, seenVars, upsets>>

\* Mutant: the patch leaves out the conversation to go on in.
ReportGateForgets ==
  /\ step = "reporting" /\ fate = "gate" /\ job = "leased"
  /\ job' = "suspended" /\ reason' = Gate
  /\ parked' = None /\ answer' = NoAnswer
  /\ Leaves
  /\ UNCHANGED <<saidVars, cardVars, occ, awaits, approved, gate, clock, surf, seenVars, upsets>>

\* suspendJob for an approval: a card answered before is done with.
ReportGate ==
  /\ step = "reporting" /\ fate = "gate" /\ job = "leased"
  /\ job' = "suspended" /\ reason' = Gate
  /\ awaits' = conv /\ parked' = None /\ answer' = NoAnswer
  /\ Leaves
  /\ UNCHANGED <<saidVars, cardVars, occ, approved, gate, clock, surf, seenVars, upsets>>

\* Mutant: the patch clears the answer that came first.
ReportParkClears ==
  /\ step = "reporting" /\ fate = "park" /\ job = "leased"
  /\ IF answer.to = wait THEN Wakes ELSE job' = "suspended" /\ reason' = wait
  /\ parked' = wait /\ answer' = NoAnswer /\ awaits' = None /\ approved' = FALSE
  /\ Leaves
  /\ UNCHANGED <<saidVars, cardVars, occ, gate, clock, surf, seenVars, upsets>>

\* suspendJob for the owner: an answer that came first wakes the job at once (wakeIf).
ReportPark ==
  /\ step = "reporting" /\ fate = "park" /\ job = "leased"
  /\ IF answer.to = wait THEN Wakes ELSE job' = "suspended" /\ reason' = wait
  /\ parked' = wait /\ awaits' = None /\ approved' = FALSE
  /\ Leaves
  /\ UNCHANGED <<saidVars, cardVars, occ, answer, gate, clock, surf, seenVars, upsets>>

\* The lease is gone: nothing is written.
ReportLost ==
  /\ step = "reporting" /\ job # "leased"
  /\ Leaves
  /\ UNCHANGED <<saidVars, cardVars, occ, jobVars, gate, clock, surf, seenVars, upsets>>

\* The process is gone, or the run saw its signal.
Abandon ==
  /\ step # "idle" /\ upsets < MaxUpsets
  /\ upsets' = upsets + 1
  /\ Leaves
  /\ CutShort
  /\ UNCHANGED <<noted, told, blind, cardVars, occ, jobVars, gate, clock, surf, seenVars>>

-----------------------------------------------------------------------------
(* The queue and the scheduler around it                                   *)

\* interruptLeases: put back only when the run is over.
Interrupt(back) ==
  /\ job = "leased" /\ (back => step = "idle")
  /\ job' = IF back THEN "pending" ELSE "failed"
  /\ occ' = IF ~back /\ occ = "claimed" THEN "closed" ELSE occ
  /\ UNCHANGED <<saidVars, cardVars, reason, parked, answer, awaits, approved, gate, runVars, clock, surf, seenVars, upsets>>

CancelJob ==
  /\ job \in {"pending", "leased", "suspended", "failed"}
  /\ job' = "cancelled"
  /\ UNCHANGED <<saidVars, cardVars, occ, reason, parked, answer, awaits, approved, gate, runVars, clock, surf, seenVars, upsets>>

RetryJob ==
  /\ job \in {"failed", "cancelled", "suspended"} /\ upsets < MaxUpsets
  /\ Wakes
  /\ upsets' = upsets + 1
  /\ UNCHANGED <<saidVars, cardVars, occ, parked, answer, awaits, approved, gate, runVars, clock, surf, seenVars>>

\* releaseStaleClaims.
Release ==
  /\ occ = "claimed"
  /\ job \in {"pending", "suspended"}                      \* Bound: looked at while the job waits
  /\ occ' = "pending"
  /\ UNCHANGED <<saidVars, cardVars, jobVars, gate, runVars, clock, surf, seenVars, upsets>>

\* claimNextOccurrence; the handoff finds the job by its dedup key.
ClaimAgain ==
  /\ occ = "pending"
  /\ occ' = "claimed"
  /\ UNCHANGED <<saidVars, cardVars, jobVars, gate, runVars, clock, surf, seenVars, upsets>>

-----------------------------------------------------------------------------
OwnerStep ==
  \/ \E q \in Cards : AnswerCard(q) \/ WakeWithAnswer(q) \/ WakeFails(q)
  \/ \E c \in Convs, dies \in BOOLEAN : GiveBack(c, dies)
  \/ Decide

ClockStep(k) == FindExpired(k) \/ WakeExpired(k) \/ ClockDies(k)

RunStep ==
  \/ StartSkipped \/ StartTimedOut \/ StartAnswered \/ StartDecided \/ \E c \in Convs : StartFresh(c)
  \/ Finish \/ TakeOver \/ Tie \/ StopAtGate \/ TellOwner \/ NobodyToTell \/ CloseOccurrence
  \/ \E b \in BOOLEAN : EndInVain(b) \/ \E q \in Cards : Ask(q, b)
  \/ \E to \in Step, f \in Fate : RunFails(to, f)
  \/ ReportEnd \/ ReportGate \/ ReportPark \/ ReportLost \/ Abandon

QueueStep == CancelJob \/ RetryJob \/ Release \/ ClaimAgain \/ \E back \in BOOLEAN : Interrupt(back)

Next ==
  \/ OwnerStep \/ RunStep \/ QueueStep
  \/ \E k \in Clocks : ClockStep(k)
  \/ \E w \in Waits : Passes(w)

Spec == Init /\ [][Next]_vars

\* Time passes, and the parking tick comes back; no process dies at the same statement
\* for ever.  Nothing here makes the owner answer or a worker claim.
Fairness ==
  /\ \A w \in Waits : WF_vars(Passes(w))
  /\ \A k \in Clocks :
       /\ SF_vars(FindExpired(k)) /\ SF_vars(WakeExpired(k))

LiveSpec == Spec /\ Fairness

-----------------------------------------------------------------------------
(* What a parked run promises                                              *)

\* telegram/surface.ts:2776 tells the owner "it carries on": an answer a run took is
\* heard by that run, however it raced with the suspension, the clock, a page given
\* back, a failure or a crash.  The exception is a card tied to a run that began with
\* something else: after a death between the tie and the suspension, a misfire, or the
\* sweep.
AnswerKept ==
  \A q \in Cards \ (heard \cup astray) :
    surf[q] = "taken" => parked = q /\ answer = [to |-> q, by |-> "owner"]
                         /\ job \notin {"suspended", "succeeded"}

\* The owner who was told "it carries on" is not told "No answer came" (parked.ts:135).
NoContradiction ==
  step \in {"timedOut", "telling"} /\ parked \in Cards => surf[parked] # "taken" \/ parked \in astray

\* parked.ts:22-24 "the run ends as 'needed you' with one report line -- never silently":
\* a run that ends because nobody came has told the owner, and a run tried again does not
\* tell them twice.  The exceptions: a line that failed or found nobody is taken for sent by
\* the run tried again, and a look for the event that fails sends it once more.
ToldOnce ==
  /\ step = "telling" => parked \notin told \ blind
  /\ step = "closing" /\ fate = "complete" /\ Answered /\ answer.by = "clock" => parked \in told \cup cut

\* parked.ts:20 "resumes the job in the same conversation": the mission is started over
\* only after a failure, a death, a retry, or a wake that was meant for another wait.
ResumesInPlace == Cardinality(used) <= 1 + upsets

\* The invariant its proof carries: the conversations the mission was started in, and the one
\* a start from here would open with nothing more going wrong.  A run that goes to a gate
\* leaves the conversation to go on in.
StartsOver ==
  /\ job = "pending" \/ (job = "leased" /\ (step = "idle" \/ fate = "retry"))
  /\ ~Answered /\ ~Decided
StartsCounted ==
  IsFiniteSet(used) /\ Cardinality(used) + (IF StartsOver THEN 1 ELSE 0) <= 1 + upsets
GateFits ==
  /\ fate = "gate" => conv # None
  /\ job = "suspended" /\ reason = Gate => awaits # None
PlaceKept == StartsCounted /\ GateFits

\* The job, as the queue's users see it.
JobLife ==
  IF job = "pending" THEN "waiting" ELSE IF job = "leased" THEN "running"
  ELSE IF job = "suspended" THEN "parked" ELSE IF job = "succeeded" THEN "done"
  ELSE IF job = "cancelled" THEN "dropped" ELSE job

Queue == INSTANCE JobLifecycle WITH Jobs <- {"run"}, life <- [j \in {"run"} |-> JobLife]

\* What the surfaces, the clock and the handler do to the row keeps to the life JobQueue is
\* shown to implement: an answer or a timeout that comes late wakes no job that is not
\* parked, and a run whose lease is gone ends none.
KeepsJobLifecycle == [][Queue!Next]_JobLife

\* parked.ts:238 "An answer already given is never replaced".
NeverReplaced == [][Answered /\ parked' = parked => answer' = answer]_vars

\* parked.ts:22 "never silently": a run that waits for its owner is woken in the end,
\* also when the surface died with the answer in its hands.
Woken == job = "suspended" /\ reason \in Waits ~> ~(job = "suspended" /\ reason \in Waits)

\* The invariant the proofs carry.  A suspended job is tied to what it is suspended for and
\* has no answer to it, so that only the first answer finds it; no run is behind it.
RowFits ==
  /\ job = "suspended" => /\ step = "idle" /\ reason # None
                          /\ reason \in Waits => parked = reason /\ answer.to # reason
                          /\ reason = Gate => parked = None
  /\ answer.by = "owner" => answer.to \in Cards
\* A card has its conversation, and nobody knows one that is not there.
CardFits(q) ==
  /\ card[q] # "none" => home[q] \in Convs
  /\ card[q] = "none" => parked # q /\ surf[q] = "none" /\ q \notin heard \cup astray
\* What a run is about to wait on is not what it came back from; once tied, it is its own.
WaitFits ==
  /\ InMission => conv \in Convs
  /\ step = "answered" => parked \in Cards
  /\ step = "asking" => /\ wait \in Waits /\ wait # parked
                        /\ wait \in Cards => card[wait] # "none" /\ surf[wait] # "taken" /\ wait \notin heard
  /\ step = "closing" => fate # "park"
  /\ step = "reporting" /\ fate = "park" => wait \in Waits /\ (job = "leased" => parked = wait)
\* The run has not tied the job yet: what it is tied to was heard, missed or answered otherwise.
Untied == step \in {"answered", "running", "asking", "timedOut", "telling"} \/ fate \in {"complete", "gate"}
TiedFits ==
  /\ Untied /\ parked \in Cards => parked \in heard \cup astray \/ (answer.to = parked /\ answer.by # "owner")
  /\ step \in {"timedOut", "telling"} => answer.to = parked
  /\ parked \in heard => answer = [to |-> parked, by |-> "owner"]
\* What is on record was said, is being said, or was cut short; a mission goes on only
\* from an answer.
TellFits ==
  /\ told \subseteq noted
  /\ \A w \in noted : w \in told \cup cut \/ (step = "telling" /\ parked = w)
  /\ step = "telling" => parked \in noted
  /\ step = "timedOut" => parked \in Waits
  /\ InMission => ~(Answered /\ answer.by = "clock")
ParkInv ==
  /\ TypeOK /\ RowFits /\ (\A q \in Cards : CardFits(q)) /\ WaitFits /\ TiedFits
  /\ AnswerKept /\ NoContradiction /\ TellFits /\ ToldOnce
=============================================================================
