---------------------------- MODULE Notifications ----------------------------
(***************************************************************************)
(* The record of what the owner is told (core/src/notifications): the      *)
(* call that writes and routes a message, the tick that keeps its          *)
(* promises, the switch of the focus, and the owner who sees and acts.     *)
(*                                                                         *)
(* Each of them is several statements on the same rows, with the settings  *)
(* read before the first.  An instant is abstracted to whether it passed:  *)
(* `due` for the rows, `ripe` for the `now` a tick was started with.  What *)
(* the settings say of channels, presence, the rate of a key and the topic *)
(* of a message is free whenever it is asked.                              *)
(*                                                                         *)
(* `taken`, `raced`, `stranded` and `deaths` are history.                  *)
(***************************************************************************)
EXTENDS Naturals, FiniteSets

CONSTANTS
  Rows,         \* places for rows of core.owner_notifications somebody still looks at
  Callers,      \* calls of notifyOwner that may be under way
  Ticks,        \* notification loops, one for each serve
  Setters,      \* calls of setFocus that may be under way
  None,         \* no row
  Gone,         \* the place of a row that was sent, and is another's now
  Messages,     \* what may be said; the keyed ones share one key
  FocusModes,   \* the modes the owner uses
  MaxDeaths     \* bound on processes that die, or statements that throw

Kinds == {"question", "watcher", "recap"}  \* for ALWAYS_REACH, URGENT_KINDS, the others
Urgencies == {"now", "today", "digest"}
Modes == {"normal", "urgent-only", "do-not-disturb"}

ASSUME NotifyAssumption ==
  /\ None \notin Rows \cup Kinds \cup Urgencies \cup {Gone} /\ Gone \notin Rows /\ None \notin Messages
  /\ Callers \cap Ticks = {} /\ Callers \cap Setters = {} /\ Ticks \cap Setters = {}
  /\ Messages \subseteq [kind : Kinds, urgency : Urgencies, keyed : BOOLEAN]
  /\ \A m \in Messages : m.kind = "question" => m.urgency = "now" /\ ~m.keyed
  /\ \A m, n \in Messages : m.keyed /\ n.keyed => m.kind = n.kind
  /\ "normal" \in FocusModes /\ FocusModes \subseteq Modes
  /\ MaxDeaths \in Nat

VARIABLES
  state,        \* the row's state, "none" before it is there
  kind,         \* its kind
  urgency,      \* its urgency
  keyed,        \* the rows with the key
  focused,      \* those held with held_for set
  due,          \* those shown, or held for the day, whose due_at passed
  seen,         \* those shown with seen_at
  acted,        \* those not sent with acted_at
  focus,        \* the mode in force
  at,           \* a process's next statement
  mode,         \* the focus it read
  ripe,         \* the rows due at the instant a settling started with
  hand,         \* the rows it claimed and did not settle yet
  carry,        \* those of them a channel has taken
  msg,          \* what a caller has to say
  found,        \* the unsent row its key already has
  keeps,        \* that row's clock: not kept, as it was read, or moved by another since
  taken,        \* history: how often a channel took the row as it was written last
  raced,        \* history: those of ripe that came back unseen while the settling was at it
  stranded,     \* history: claimed by a process that died
  deaths        \* history: how many did

rowVars  == <<state, kind, urgency, keyed, focused, due>>
ownVars  == <<seen, acted>>
sendVars == <<hand, carry>>
callVars == <<msg, found, keeps>>
histVars == <<taken, raced, stranded, deaths>>
vars == <<rowVars, ownVars, focus, at, mode, ripe, sendVars, callVars, histVars>>

-----------------------------------------------------------------------------
Settlers == Ticks \cup Setters
Procs == Callers \cup Settlers
RowState == {"none", "shown", "held", "stored", "sending", "sent", "failed"}
\* what a repeat of the key updates
Unsent == {"shown", "held", "stored", "failed"}
\* no statement left, of a caller, of settleFocus, of the rest of the tick
At == {"idle", "lookUp", "write", "hold", "clear", "release", "escalate", "clearDay", "closeDay"}
Keeps == {"no", "same", "moved"}

TypeOK ==
  /\ state \in [Rows -> RowState]
  /\ kind \in [Rows -> Kinds \cup {None}] /\ urgency \in [Rows -> Urgencies \cup {None}]
  /\ keyed \subseteq Rows /\ focused \subseteq Rows /\ due \subseteq Rows
  /\ seen \subseteq Rows /\ acted \subseteq Rows
  /\ focus \in FocusModes
  /\ at \in [Procs -> At] /\ mode \in [Procs -> FocusModes]
  /\ ripe \in [Settlers -> SUBSET Rows]
  /\ hand \in [Procs -> SUBSET Rows] /\ carry \in [Procs -> SUBSET Rows]
  /\ msg \in [Callers -> Messages \cup {None}] /\ found \in [Callers -> Rows \cup {None, Gone}]
  /\ keeps \in [Callers -> Keeps]
  /\ taken \in [Rows -> Nat] /\ raced \in [Settlers -> SUBSET Rows] /\ stranded \subseteq Rows
  /\ deaths \in Nat

Init ==
  /\ state = [r \in Rows |-> "none"]
  /\ kind = [r \in Rows |-> None] /\ urgency = [r \in Rows |-> None]
  /\ keyed = {} /\ focused = {} /\ due = {} /\ seen = {} /\ acted = {}
  /\ focus = "normal"
  /\ at = [p \in Procs |-> "idle"] /\ mode = [p \in Procs |-> "normal"]
  /\ ripe = [p \in Settlers |-> {}]
  /\ hand = [p \in Procs |-> {}] /\ carry = [p \in Procs |-> {}]
  /\ msg = [c \in Callers |-> None] /\ found = [c \in Callers |-> None]
  /\ keeps = [c \in Callers |-> "no"]
  /\ taken = [r \in Rows |-> 0] /\ raced = [p \in Settlers |-> {}] /\ stranded = {} /\ deaths = 0

-----------------------------------------------------------------------------
(* What is held, and where a message goes                                  *)

\* Mutant: a focus holds every kind.
HoldsAll(m) == IF m = "normal" THEN {} ELSE Kinds

\* heldKinds: approvals and questions always pass, Urgent only lets watchers and failures through.
HeldKinds(m) ==
  CASE m = "normal" -> {}
    [] m = "urgent-only" -> {"recap"}
    [] m = "do-not-disturb" -> {"watcher", "recap"}

\* route, with the rate rule before it: the row's state, its urgency, and whether a focus holds it.
Lowered(m) == IF m.keyed /\ m.urgency = "now" THEN {m.urgency, "today"} ELSE {m.urgency}
Put(s, u, byFocus) == [state |-> s, urgency |-> u, byFocus |-> byFocus]
Route(m, md) ==
  UNION {
    (IF m.kind = "question" THEN {} ELSE {Put("stored", u, FALSE)}) \cup       \* the kind is off
    CASE u = "digest" -> {Put("stored", u, FALSE)}
      [] u = "today" -> {Put("held", u, FALSE)}
      [] u = "now" ->
           {Put("shown", u, FALSE),                                              \* on the dashboard
            IF m.kind \in HeldKinds(md) THEN Put("held", u, TRUE) ELSE Put("sending", u, FALSE)}
    : u \in Lowered(m)}

\* Nobody looks at such a row any more, and its place is free.
Over(r) == state[r] \in {"none", "sent"} \/ (r \notin keyed /\ state[r] \in {"stored", "failed"})

Unseen(r) == state[r] = "shown" /\ r \notin seen \cup acted

\* The rows of S are dated anew: nobody who read the clock before finds them due.
Redated(S) ==
  /\ due' = due \ S
  /\ ripe' = [p \in Settlers |-> ripe[p] \ S]
  /\ raced' = [p \in Settlers |-> raced[p] \ S]

\* The statements of p before which it has still to look at the clock.
Looking(p) == IF p \in Setters THEN {"hold"} ELSE At \ {"idle"}

\* The clock that c read with the row it found goes on in r.  When that row is not r, or was
\* moved since, it may have passed, for a tick under way too.
Restored(c, r) ==
  IF keeps[c] = "same" /\ found[c] = r
  THEN /\ UNCHANGED <<due, ripe>>
       /\ raced' = [p \in Settlers |-> IF r \in ripe[p] \cap seen THEN raced[p] \cup {r} ELSE raced[p]]
  ELSE \E over \in BOOLEAN, S \in SUBSET {p \in Settlers : at[p] \in Looking(p)} :
         /\ S # {} => over
         /\ due' = IF over THEN due \cup {r} ELSE due
         /\ ripe' = [p \in Settlers |-> IF p \in S THEN ripe[p] \cup {r} ELSE ripe[p]]
         /\ raced' = [p \in Settlers |-> IF r \in ripe'[p] THEN raced[p] \cup {r} ELSE raced[p]]

\* c has nothing more to say.
Said(c) ==
  /\ at' = [at EXCEPT ![c] = "idle"]
  /\ mode' = [mode EXCEPT ![c] = "normal"]
  /\ msg' = [msg EXCEPT ![c] = None]

\* What notifyOwner writes into r, and takes in hand when it is to be sent at once.
Written(c, r, put) ==
  /\ state' = [state EXCEPT ![r] = put.state]
  /\ urgency' = [urgency EXCEPT ![r] = put.urgency]
  /\ focused' = IF put.byFocus THEN focused \cup {r} ELSE focused \ {r}
  /\ IF put.state = "shown" /\ keeps[c] # "no" THEN Restored(c, r)
     ELSE Redated({r})
  /\ seen' = seen \ {r}
  /\ hand' = [hand EXCEPT ![c] = IF put.state = "sending" THEN {r} ELSE {}]
  /\ taken' = [taken EXCEPT ![r] = 0]
  /\ Said(c)
  /\ keeps' = [k \in Callers |->
       IF k = c THEN "no"
       ELSE IF found[k] = r /\ keeps[k] = "same" /\ ~(put.state = "shown" /\ keeps[c] = "same")
            THEN "moved" ELSE keeps[k]]

-----------------------------------------------------------------------------
(* notifyOwner                                                             *)

Ready(p) == hand[p] = {} /\ carry[p] = {}

Call(c, m) ==
  /\ at[c] = "idle" /\ Ready(c)
  /\ msg' = [msg EXCEPT ![c] = m]
  /\ mode' = [mode EXCEPT ![c] = focus]
  /\ at' = [at EXCEPT ![c] = IF m.keyed THEN "lookUp" ELSE "write"]
  /\ UNCHANGED <<rowVars, ownVars, focus, ripe, sendVars, found, keeps, histVars>>

\* Mutant: a repeat starts the clock again.
LookUpAnew(c) ==
  /\ at[c] = "lookUp"
  /\ \/ \E r \in keyed : state[r] \in Unsent /\ found' = [found EXCEPT ![c] = r]
     \/ {r \in keyed \ acted : state[r] \in Unsent} = {} /\ UNCHANGED found
  /\ at' = [at EXCEPT ![c] = "write"]
  /\ UNCHANGED <<rowVars, ownVars, focus, mode, ripe, sendVars, msg, keeps, histVars>>

\* The unsent row of the key, unless what it asked was answered: a repeat that is shown
\* again keeps the clock of a row nobody saw.
LookUp(c) ==
  /\ at[c] = "lookUp"
  /\ \/ \E r \in keyed :
          /\ state[r] \in Unsent
          /\ found' = [found EXCEPT ![c] = r]
          /\ keeps' = [keeps EXCEPT ![c] = IF Unseen(r) THEN "same" ELSE "no"]
     \/ {r \in keyed \ acted : state[r] \in Unsent} = {} /\ UNCHANGED <<found, keeps>>
  /\ at' = [at EXCEPT ![c] = "write"]
  /\ UNCHANGED <<rowVars, ownVars, focus, mode, ripe, sendVars, msg, histVars>>

\* foldIntoTopic: an open row, kept here or sent in the last days, says the same already and
\* keeps its state.
FoldInto(c) ==
  /\ at[c] = "write" /\ found[c] = None /\ msg[c].kind # "question"
  /\ Said(c)
  /\ UNCHANGED <<rowVars, ownVars, focus, ripe, sendVars, found, keeps, histVars>>

\* The row of the key, still unsent.  Shown again it is unseen.
Update(c) ==
  /\ at[c] = "write"
  /\ \E r \in Rows, put \in Route(msg[c], mode[c]) :
       found[c] = r /\ state[r] \in Unsent /\ Written(c, r, put)
  /\ found' = [found EXCEPT ![c] = None]
  /\ UNCHANGED <<kind, keyed, acted, focus, carry, stranded, deaths>>

\* No row of the key, or it was sent or answered since it was read.
Insert(c) ==
  /\ at[c] = "write"
  /\ found[c] \in Rows => (state[found[c]] \notin Unsent \/ found[c] \in acted)
  /\ \E r \in Rows, put \in Route(msg[c], mode[c]) :
       /\ Over(r) /\ Written(c, r, put)
       /\ kind' = [kind EXCEPT ![r] = msg[c].kind]
       /\ keyed' = IF msg[c].keyed THEN keyed \cup {r} ELSE keyed \ {r}
       /\ found' = [k \in Callers |-> IF k = c THEN None ELSE IF found[k] = r THEN Gone ELSE found[k]]
       /\ acted' = acted \ {r}
  /\ UNCHANGED <<focus, carry, stranded, deaths>>

-----------------------------------------------------------------------------
(* notificationsTick and setFocus: settleFocus, then the rest of the tick  *)

Tick(t) ==
  /\ at[t] = "idle" /\ Ready(t)
  /\ mode' = [mode EXCEPT ![t] = focus]
  /\ ripe' = [ripe EXCEPT ![t] = due]
  /\ at' = [at EXCEPT ![t] = "hold"]
  /\ UNCHANGED <<rowVars, ownVars, focus, sendVars, callVars, histVars>>

SetFocus(p, m) ==
  /\ at[p] = "idle" /\ Ready(p)
  /\ focus' = m
  /\ mode' = [mode EXCEPT ![p] = m]
  /\ ripe' = [ripe EXCEPT ![p] = due]
  /\ at' = [at EXCEPT ![p] = "hold"]
  /\ UNCHANGED <<rowVars, ownVars, sendVars, callVars, histVars>>

\* A statement of p on the rows S: they leave for `to`, and nobody finds them due any more.
\* With the last of them p is done; settleFocus looks at the clock once.
Moved(p, S, to, next) ==
  /\ state' = [r \in Rows |-> IF r \in S THEN to ELSE state[r]]
  /\ due' = due \ S
  /\ LET rest(rows, q) == IF q = p /\ (p \in Setters \/ next = "idle") THEN {} ELSE rows \ S
     IN  /\ ripe' = [q \in Settlers |-> rest(ripe[q], q)]
         /\ raced' = [q \in Settlers |-> rest(raced[q], q)]
  /\ keeps' = [c \in Callers |-> IF found[c] \in S /\ keeps[c] = "same" THEN "moved" ELSE keeps[c]]
  /\ at' = [at EXCEPT ![p] = next]
  /\ mode' = [mode EXCEPT ![p] = IF next = "idle" THEN "normal" ELSE @]
  /\ seen' = seen \ S
  /\ UNCHANGED <<kind, urgency, keyed, acted, focus, carry, msg, found, taken, stranded, deaths>>

\* Rows claimed by p, which sends them next.
Claimed(p, S) ==
  /\ hand' = [hand EXCEPT ![p] = S]
  /\ focused' = focused \ S

\* Mutant: what is on the dashboard is not held.
HoldNothing(p) ==
  /\ at[p] = "hold"
  /\ Moved(p, {}, "held", "clear")
  /\ UNCHANGED <<focused, hand>>

\* What a focus holds and falls due on the dashboard unseen waits for its end.
Hold(p) ==
  /\ at[p] = "hold"
  /\ LET S == {r \in ripe[p] : Unseen(r) /\ urgency[r] = "now" /\ kind[r] \in HeldKinds(mode[p])}
     IN  Moved(p, S, "held", "clear") /\ focused' = focused \cup S
  /\ UNCHANGED hand

\* Mutant: what waited is put aside, whether the owner acted on it or not.
ClearWaiting(p) ==
  /\ at[p] = "clear"
  /\ LET S == {r \in focused : kind[r] \notin HeldKinds(mode[p])}
     IN  Moved(p, S, "stored", "release") /\ focused' = focused \ S
  /\ UNCHANGED hand

\* What waited and was acted on in the meantime.
Clear(p) ==
  /\ at[p] = "clear"
  /\ LET S == {r \in focused \cap acted : kind[r] \notin HeldKinds(mode[p])}
     IN  Moved(p, S, "stored", "release") /\ focused' = focused \ S
  /\ UNCHANGED hand

\* Mutant: a held row is released when its own due_at has passed.
ReleaseDue(p) ==
  /\ at[p] = "release"
  /\ LET S == {r \in (focused \cap ripe[p]) \ acted : kind[r] \notin HeldKinds(mode[p])}
     IN  Moved(p, S, "sending", IF p \in Ticks THEN "escalate" ELSE "idle") /\ Claimed(p, S)

\* What waited and is held no longer, claimed for one message.
Release(p) ==
  /\ at[p] = "release"
  /\ LET S == {r \in focused \ acted : kind[r] \notin HeldKinds(mode[p])}
     IN  Moved(p, S, "sending", IF p \in Ticks THEN "escalate" ELSE "idle") /\ Claimed(p, S)

\* Mutant: a row that is being sent is taken for one that was left behind.
EscalateLeft(t) ==
  /\ at[t] = "escalate" /\ Ready(t)
  /\ LET S == {r \in Rows \ acted : urgency[r] = "now" /\ ((r \in ripe[t] /\ Unseen(r)) \/ state[r] = "sending")}
     IN  Moved(t, S, "sending", "clearDay") /\ Claimed(t, S)

\* Shown and not seen in ten minutes.
Escalate(t) ==
  /\ at[t] = "escalate" /\ Ready(t)
  /\ LET S == {r \in ripe[t] \ acted :
                 urgency[r] = "now" /\ (Unseen(r) \/ (state[r] = "held" /\ r \notin focused))}
     IN  Moved(t, S, "sending", "clearDay") /\ Claimed(t, S)

ClearDay(t) ==
  /\ at[t] = "clearDay" /\ Ready(t)
  /\ Moved(t, {r \in acted : state[r] = "held" /\ urgency[r] = "today"}, "stored", "closeDay")
  /\ UNCHANGED <<focused, hand>>

CloseDay(t) ==
  /\ at[t] = "closeDay"
  /\ LET S == {r \in ripe[t] \ acted : state[r] = "held" /\ urgency[r] = "today"}
     IN  Moved(t, S, "sending", "idle") /\ Claimed(t, S)

-----------------------------------------------------------------------------
(* sendClaimed, and the one message of a focus or a day                    *)

\* A caller's row, and those that escalate, go one by one; the others together.
Alone(p) == p \in Callers \/ at[p] = "clearDay"
Batches(p) == IF Alone(p) THEN {{r} : r \in hand[p]} ELSE {hand[p]} \ {{}}

\* p is done with the batch B.
Settled(p, B, to) ==
  /\ state' = [r \in Rows |-> IF r \in B /\ state[r] = "sending" THEN to ELSE state[r]]
  /\ hand' = [hand EXCEPT ![p] = @ \ B]
  /\ carry' = [carry EXCEPT ![p] = {}]
  /\ acted' = IF to = "sent" THEN acted \ B ELSE acted
  /\ UNCHANGED <<kind, urgency, keyed, focused, due, seen, focus, at, mode, ripe, callVars, raced, stranded, deaths>>

\* The channel takes it.
Deliver(p) ==
  /\ carry[p] = {}
  /\ \E B \in Batches(p) :
       /\ carry' = [carry EXCEPT ![p] = B]
       /\ taken' = [r \in Rows |-> IF r \in B THEN taken[r] + 1 ELSE taken[r]]
  /\ UNCHANGED <<rowVars, ownVars, focus, at, mode, ripe, hand, callVars, raced, stranded, deaths>>

\* What came of it is written; a channel may take a message and fail to say so.
Settle(p) ==
  /\ carry[p] # {}
  /\ \E to \in {"sent", "failed"} : Settled(p, carry[p], to)
  /\ UNCHANGED taken

\* No channel, or it refuses.
Refuse(p) ==
  /\ carry[p] = {}
  /\ \E B \in Batches(p) : Settled(p, B, "failed")
  /\ UNCHANGED taken

\* The kind is off by now.
TurnOff(p) ==
  /\ carry[p] = {} /\ Alone(p)
  /\ \E r \in hand[p] : kind[r] # "question" /\ Settled(p, {r}, "stored")
  /\ UNCHANGED taken

-----------------------------------------------------------------------------
(* The clock, the owner, and what may go wrong                             *)

DueElapses(r) ==
  /\ state[r] \in {"shown", "held"} /\ r \notin focused \cup due
  /\ due' = due \cup {r}
  /\ UNCHANGED <<state, kind, urgency, keyed, focused, ownVars, focus, at, mode, ripe, sendVars, callVars, histVars>>

\* A schedule starts or ends, or the time of a manual focus is over.
FocusTurns(m) ==
  /\ focus' = m /\ focus # m
  /\ UNCHANGED <<rowVars, ownVars, at, mode, ripe, sendVars, callVars, histVars>>

\* markSeen
See(r) ==
  /\ Unseen(r)
  /\ seen' = seen \cup {r}
  /\ UNCHANGED <<rowVars, acted, focus, at, mode, ripe, sendVars, callVars, histVars>>

\* markActed, and what is decided elsewhere; it is seen as well.
Act(r) ==
  /\ state[r] \notin {"none", "sent"} /\ r \notin acted
  /\ acted' = acted \cup {r} /\ seen' = seen \ {r}
  /\ UNCHANGED <<rowVars, focus, at, mode, ripe, sendVars, callVars, histVars>>

\* A process dies, or a statement of it throws.  The rows it claimed stay claimed.
Die(p) ==
  /\ deaths < MaxDeaths                                          \* Bound
  /\ at[p] # "idle" \/ ~Ready(p)
  /\ deaths' = deaths + 1
  /\ stranded' = stranded \cup hand[p]
  /\ at' = [at EXCEPT ![p] = "idle"]
  /\ mode' = [mode EXCEPT ![p] = "normal"]
  /\ ripe' = [q \in Settlers |-> IF q = p THEN {} ELSE ripe[q]]
  /\ raced' = [q \in Settlers |-> IF q = p THEN {} ELSE raced[q]]
  /\ hand' = [hand EXCEPT ![p] = {}]
  /\ carry' = [carry EXCEPT ![p] = {}]
  /\ IF p \in Callers
     THEN /\ msg' = [msg EXCEPT ![p] = None] /\ found' = [found EXCEPT ![p] = None]
          /\ keeps' = [keeps EXCEPT ![p] = "no"]
     ELSE UNCHANGED callVars
  /\ UNCHANGED <<rowVars, ownVars, focus, taken>>

-----------------------------------------------------------------------------
Send(p) == Deliver(p) \/ Settle(p) \/ Refuse(p) \/ TurnOff(p)
SettleFocus(p) == Hold(p) \/ Clear(p) \/ Release(p)

\* The statements of a call, of the loop and of a change of the focus.
CallerStep(c) == LookUp(c) \/ FoldInto(c) \/ Update(c) \/ Insert(c) \/ Send(c)
TickStep(t) == Tick(t) \/ SettleFocus(t) \/ Escalate(t) \/ ClearDay(t) \/ CloseDay(t) \/ Send(t)
SetterStep(p) == SettleFocus(p) \/ Send(p)

Next ==
  \/ \E c \in Callers : CallerStep(c) \/ \E m \in Messages : Call(c, m)
  \/ \E t \in Ticks : TickStep(t)
  \/ \E p \in Setters : SetterStep(p) \/ \E m \in FocusModes : SetFocus(p, m)
  \/ \E p \in Procs : Die(p)
  \/ \E r \in Rows : DueElapses(r) \/ See(r) \/ Act(r)
  \/ \E m \in FocusModes : FocusTurns(m)

Spec == Init /\ [][Next]_vars

\* Statements and channels answer, the loop ticks and time passes.  Nothing makes the owner
\* look, anybody speak or a focus end.
Fairness ==
  /\ \A c \in Callers : WF_vars(CallerStep(c))
  /\ \A t \in Ticks : WF_vars(TickStep(t))
  /\ \A p \in Setters : WF_vars(SetterStep(p))
  /\ \A r \in Rows : WF_vars(DueElapses(r))

LiveSpec == Spec /\ Fairness

-----------------------------------------------------------------------------
(* What the owner is promised                                              *)

\* notify.ts:14-16 and docs/notifications.md: however callers, ticks and a focus that is
\* switched off meet, what was written is handed to a channel once at most.
SentOnce == \A r \in Rows : taken[r] <= 1

\* docs/notifications.md, "Focus": nobody sends what the focus it found in force holds; but
\* for a row that came back unseen, with a clock that had passed, while the tick was at it.
FocusRespected ==
  [][\A p \in Procs : \A r \in hand'[p] \ hand[p] :
       urgency'[r] = "now" /\ kind'[r] \in HeldKinds(mode[p]) => p \in Settlers /\ r \in raced[p]]_vars

\* The message in a place, as those who write one see it.
LifeOf(r) ==
  IF state[r] \in {"shown", "held"} THEN "waiting" ELSE IF state[r] = "stored" THEN "kept"
  ELSE IF state[r] = "sending" THEN (IF taken[r] = 0 THEN "claimed" ELSE "taken") ELSE state[r]

Message == INSTANCE MessageLife
  WITH life <- [r \in Rows |-> LifeOf(r)], speaks <- {c \in Callers : msg[c] # None}, claims <- hand, dealt <- acted

\* Callers, ticks and switches of the focus, statement by statement and in any order, do to a
\* message only what MessageLife says: one of them claims it, that one alone has it taken,
\* once, and settles it; nobody writes over it meanwhile, nor after that one died.
ImplementsMessageLife == Message!Spec

\* What is shown on the dashboard and not seen, or claimed, does not stay so, however often it is
\* repeated: it is told, or the owner was there first, unless who claimed it died.
Pending(r) == Unseen(r) \/ (state[r] = "sending" /\ r \notin stranded)
Told == \A r \in Rows : Pending(r) ~> ~Pending(r)

\* What a focus held and the focus in force does not hold goes out, or is dealt with, unless one
\* that holds it is back by then.
Waits(r) == r \in focused /\ kind[r] \notin HeldKinds(focus)
FocusEnds == \A r \in Rows : Waits(r) ~> ~Waits(r)

\* The invariant the proofs carry.
RowFits(r) ==
  /\ r \in due => state[r] \in {"shown", "held"}
  /\ r \in seen => state[r] = "shown"
  /\ r \in focused => state[r] = "held" /\ urgency[r] = "now"
  /\ state[r] = "shown" => urgency[r] = "now"
  /\ state[r] = "held" /\ r \notin focused => urgency[r] = "today"
  /\ state[r] \in {"shown", "held"} => taken[r] = 0
  /\ kind[r] = "question" => state[r] \notin {"held", "stored"}      \* questions always go
  /\ \A m \in Messages : r \in keyed /\ m.keyed => kind[r] = m.kind

CallerFits(c) ==
  /\ at[c] \in {"idle", "lookUp", "write"}
  /\ at[c] = "idle" <=> msg[c] = None
  /\ at[c] # "write" => found[c] = None
  /\ found[c] = None => keeps[c] = "no"
  /\ found[c] \in Rows => found[c] \in keyed
  /\ at[c] = "lookUp" \/ found[c] \in Rows => msg[c].keyed
  /\ keeps[c] = "same" => found[c] \in Rows /\ state[found[c]] = "shown"

\* What a tick found due, and has not yet escalated, no focus it knows of holds.
SettlerFits(p) ==
  /\ at[p] \notin {"lookUp", "write"}
  /\ p \in Setters => at[p] \in {"idle", "hold", "clear", "release"}
  /\ ripe[p] \subseteq due
  /\ at[p] \in {"clear", "release", "escalate"} =>
       \A r \in ripe[p] \ raced[p] : Unseen(r) => kind[r] \notin HeldKinds(mode[p])

HandFits(p) ==
  /\ carry[p] \subseteq hand[p]
  /\ at[p] \in {"lookUp", "write", "hold", "clear", "release", "closeDay"} => Ready(p)
  /\ \A r \in hand[p] : state[r] = "sending" /\ (r \in carry[p] <=> taken[r] # 0)
  /\ \A q \in Procs \ {p} : hand[p] \cap hand[q] = {}

NotifyInv ==
  /\ TypeOK
  /\ \A r \in Rows : RowFits(r)
  /\ \A c \in Callers : CallerFits(c)
  /\ \A p \in Settlers : SettlerFits(p)
  /\ \A p \in Procs : HandFits(p)
=============================================================================
