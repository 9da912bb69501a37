-------------------------- MODULE ApprovalsProofs --------------------------
(***************************************************************************)
(* What holds of the owner gate for any actions, callers and grants: an    *)
(* effect runs once, the record of it is honest, a permission taken back   *)
(* grants nothing, and the machinery implements OwnerGate.                 *)
(***************************************************************************)
EXTENDS Approvals, TLAPS

-----------------------------------------------------------------------------
(* Types                                                                   *)

\* The initial state is well typed.
LEMMA InitType == Init => TypeOK
<1> SUFFICES ASSUME Init PROVE TypeOK
  OBVIOUS
<1> QED
  BY DEF Init, TypeOK, ApprovalState, Outcomes, RunState, PC

\* A caller that is at work has an action.
LEMMA BusyHasAction ==
  ASSUME TypeOK, CallersFit, NEW c \in Callers, pc[c] # "idle"
  PROVE  act[c] \in Actions
BY DEF TypeOK, CallersFit, CallerFits

\* A handler that begins keeps the types of the callers.
LEMMA EnterType ==
  ASSUME TypeOK, NEW c \in Callers, NEW a \in Actions, NEW p \in Nat, Enter(c, a, p)
  PROVE  /\ pc' \in [Callers -> PC] /\ act' \in [Callers -> Actions \cup {None}]
         /\ using' \in [Callers -> Nat] /\ early' \subseteq Callers
         /\ outcome' \in [Callers -> Outcomes \cup {"none"}]
BY DEF TypeOK, Enter, PC

\* So does one that ends,
LEMMA LeaveType ==
  ASSUME TypeOK, NEW c \in Callers, Leave(c)
  PROVE  /\ pc' \in [Callers -> PC] /\ act' \in [Callers -> Actions \cup {None}]
         /\ using' \in [Callers -> Nat] /\ early' \subseteq Callers
         /\ outcome' \in [Callers -> Outcomes \cup {"none"}]
BY DEF TypeOK, Leave, PC

\* one that goes on,
LEMMA GotoType ==
  ASSUME TypeOK, NEW c \in Callers, NEW l \in PC, Goto(c, l)
  PROVE  /\ pc' \in [Callers -> PC] /\ act' \in [Callers -> Actions \cup {None}]
         /\ using' \in [Callers -> Nat] /\ early' \subseteq Callers
         /\ outcome' \in [Callers -> Outcomes \cup {"none"}]
BY DEF TypeOK, Goto

\* and one that is done with the action.
LEMMA ConcludeType ==
  ASSUME TypeOK, NEW c \in Callers, Conclude(c)
  PROVE  /\ pc' \in [Callers -> PC] /\ act' \in [Callers -> Actions \cup {None}]
         /\ using' \in [Callers -> Nat] /\ early' \subseteq Callers
         /\ outcome' \in [Callers -> Outcomes \cup {"none"}]
<1>1. "waking" \in PC
  BY DEF PC
<1> QED
  BY <1>1, GotoType, LeaveType DEF Conclude

\* A run's steps keep the types.
LEMMA RunType ==
  ASSUME TypeOK, NEW a \in Actions, RunStep(a)
  PROVE  TypeOK'
<1>1. CASE CreateAction(a)
  BY <1>1 DEF TypeOK, CreateAction, ApprovalState, RunState, permVars, callerVars, histVars
<1>2. CASE SuspendJob(a)
  BY <1>2 DEF TypeOK, SuspendJob, RunState, rowVars, permVars, callerVars, histVars
<1>3. CASE JobMovesOn(a)
  BY <1>3 DEF TypeOK, JobMovesOn, RunState, rowVars, permVars, callerVars, histVars
<1>4. ASSUME NEW durable \in BOOLEAN, AskOwner(a, durable) PROVE TypeOK'
  BY <1>4 DEF TypeOK, AskOwner, RunState, rowVars, permVars, callerVars, histVars
<1>5. ASSUME NEW c \in Callers, UseStanding(c, a) PROVE TypeOK'
  <2>1. standing \in Nat
    BY DEF TypeOK
  <2> QED
    BY <1>5, <2>1, EnterType DEF TypeOK, UseStanding, RunState, rowVars, permVars, histVars
<1> QED
  BY <1>1, <1>2, <1>3, <1>4, <1>5 DEF RunStep

\* So do the clock, the sweep, the settings screen and the world,
LEMMA AroundType ==
  ASSUME TypeOK, Around
  PROVE  TypeOK'
<1>1. CASE ExpireDueApprovals
  BY <1>1 DEF TypeOK, ExpireDueApprovals, ApprovalState, permVars, callerVars, histVars
<1>2. CASE GrantToolPermission
  BY <1>2 DEF TypeOK, GrantToolPermission, rowVars, callerVars, histVars
<1>3. CASE RevokeToolPermission
  BY <1>3 DEF TypeOK, RevokeToolPermission, rowVars, callerVars, histVars
<1>4. ASSUME NEW a \in Actions, Expire(a) PROVE TypeOK'
  BY <1>4 DEF TypeOK, Expire, rowVars, permVars, callerVars, histVars
<1>5. ASSUME NEW a \in Actions, EffectEnds(a) PROVE TypeOK'
  BY <1>5 DEF TypeOK, EffectEnds, rowVars, permVars, callerVars, histVars
<1> QED
  BY <1>1, <1>2, <1>3, <1>4, <1>5 DEF Around

\* what withDeadline resolves to,
LEMMA ResolveType ==
  ASSUME TypeOK, NEW c \in Callers, NEW o \in Outcomes, Resolve(c, o)
  PROVE  TypeOK'
BY DEF TypeOK, Resolve, PC, rowVars, permVars, histVars

\* and every statement of a decision and of its execution.
LEMMA CallerType ==
  ASSUME TypeOK, CallersFit, NEW c \in Callers, CallerStep(c)
  PROVE  TypeOK'
<1> DEFINE a == act[c]
<1>0. pc[c] # "idle" => a \in Actions
  BY BusyHasAction
<1>1. CASE ExpireIfDue(c)
  <2>1. "deciding" \in PC
    BY DEF PC
  <2> QED
    BY <1>0, <1>1, <2>1, GotoType DEF TypeOK, ExpireIfDue, ApprovalState, permVars, histVars
<1>2. CASE DecideRefused(c)
  BY <1>2, LeaveType DEF TypeOK, DecideRefused, rowVars, permVars, histVars
<1>3. CASE Claim(c)
  <2>1. "checking" \in PC
    BY DEF PC
  <2> QED
    BY <1>0, <1>3, <2>1, GotoType DEF TypeOK, Claim, ApprovalState, permVars
<1>4. CASE RefuseClaim(c)
  BY <1>0, <1>4, ConcludeType DEF TypeOK, RefuseClaim, ApprovalState, permVars, histVars
<1>5. CASE CheckPermission(c)
  <2>1. "describing" \in PC /\ "refusing" \in PC
    BY DEF PC
  <2> QED
    BY <1>5, <2>1, GotoType DEF TypeOK, CheckPermission, rowVars, permVars, histVars
<1>6. CASE SettleWithoutDispatch(c)
  BY <1>0, <1>6, ConcludeType DEF TypeOK, SettleWithoutDispatch, ApprovalState, permVars, histVars
<1>7. CASE StartAttempt(c)
  <2>1. "dispatching" \in PC
    BY DEF PC
  <2> QED
    BY <1>0, <1>7, <2>1, GotoType DEF TypeOK, StartAttempt, permVars, histVars
<1>8. CASE Dispatch(c)
  <2>1. "waiting" \in PC
    BY DEF PC
  <2> QED
    BY <1>0, <1>8, <2>1, GotoType DEF TypeOK, Dispatch, rowVars, permVars
<1>9. CASE CancelledFirst(c) \/ Answered(c) \/ Deadline(c)
  BY <1>9, ResolveType DEF CancelledFirst, Answered, Deadline, Outcomes
<1>10. CASE FinishAttempt(c)
  <2>1. "settling" \in PC
    BY DEF PC
  <2>2. outcome[c] \in Outcomes
    BY <1>10 DEF CallersFit, CallerFits, FinishAttempt
  <2> QED
    BY <1>0, <1>10, <2>1, <2>2, GotoType DEF TypeOK, FinishAttempt, permVars, histVars
<1>11. CASE SettleApproval(c)
  <2>1. outcome[c] \in Outcomes
    BY <1>11 DEF CallersFit, CallerFits, SettleApproval
  <2>2. Outcomes \subseteq ApprovalState
    BY DEF Outcomes, ApprovalState
  <2> QED
    BY <1>0, <1>11, <2>1, <2>2, ConcludeType DEF TypeOK, SettleApproval, permVars, histVars
<1>12. CASE Wake(c)
  BY <1>0, <1>12, LeaveType DEF TypeOK, Wake, RunState, rowVars, permVars, histVars
<1>13. ASSUME NEW same \in BOOLEAN, Recheck(c, same) PROVE TypeOK'
  <2>1. "opening" \in PC /\ "refusing" \in PC
    BY DEF PC
  <2> QED
    BY <1>13, <2>1, GotoType DEF TypeOK, Recheck, rowVars, permVars, histVars
<1>14. ASSUME NEW answer \in {"approved", "rejected"}, NEW remember \in BOOLEAN,
              Decide(c, answer, remember)
       PROVE  TypeOK'
  <2>1. "claiming" \in PC /\ "waking" \in PC
    BY DEF PC
  <2>2. standing' \in Nat /\ issued' \in Nat
    BY <1>14 DEF TypeOK, Decide, permVars
  <2> QED
    BY <1>0, <1>14, <2>1, <2>2, GotoType DEF TypeOK, Decide, ApprovalState, histVars
<1> QED
  BY <1>1, <1>2, <1>3, <1>4, <1>5, <1>6, <1>7, <1>8, <1>9, <1>10, <1>11, <1>12, <1>13, <1>14
     DEF CallerStep

\* Types hold after every step that starts from fitting callers.
LEMMA NextType ==
  ASSUME TypeOK, CallersFit, [Next]_vars
  PROVE  TypeOK'
<1>1. ASSUME NEW c \in Callers, ReadClock(c) PROVE TypeOK'
  BY <1>1 DEF TypeOK, ReadClock, rowVars, permVars, histVars
<1>2. ASSUME NEW c \in Callers, NEW a \in Actions, Tap(c, a) PROVE TypeOK'
  BY <1>2, EnterType DEF TypeOK, Tap, rowVars, permVars, histVars
<1>3. ASSUME NEW c \in Callers, Crash(c) PROVE TypeOK'
  BY <1>3, LeaveType DEF TypeOK, Crash, rowVars, permVars, histVars
<1>4. CASE UNCHANGED vars
  BY <1>4 DEF TypeOK, vars, rowVars, permVars, callerVars, histVars
<1> QED
  BY <1>1, <1>2, <1>3, <1>4, RunType, AroundType, CallerType DEF Next, Steady

-----------------------------------------------------------------------------
(* The invariant, row by row and caller by caller                          *)

\* What GateInv says of one action.
RowGood(a) ==
  /\ RowFits(a)
  /\ dispatches[a] <= 1
  /\ world[a] # "untouched" => attempt[a] # "none" /\ approval[a] \in Outcomes \cup {"executing"}
  /\ "succeeded" \in {attempt[a], approval[a]} => world[a] = "done"
  /\ "failed" \in {attempt[a], approval[a]} => world[a] = "threw"
  /\ approval[a] \in Outcomes => attempt[a] = approval[a]
  /\ a \in void => dispatches[a] = 0
RowsGood == \A a \in Actions : RowGood(a)

\* GateInv, regrouped by action and by caller.
LEMMA GateInvParts ==
  GateInv <=> TypeOK /\ OneHolder /\ CallersFit /\ RowsGood /\ GrantsFit
<1>1. TypeOK => void \subseteq Actions
  BY DEF TypeOK
<1>2. RowsFit /\ EffectOnce /\ LedgerHonest /\ RevokedGrantsNothing => RowsGood
  BY DEF RowsGood, RowGood, RowsFit, EffectOnce, LedgerHonest, RevokedGrantsNothing
<1>3. TypeOK /\ RowsGood => RowsFit /\ EffectOnce /\ LedgerHonest /\ RevokedGrantsNothing
  BY <1>1 DEF RowsGood, RowGood, RowsFit, EffectOnce, LedgerHonest, RevokedGrantsNothing
<1> QED
  BY <1>2, <1>3 DEF GateInv

\* An action that is neither approved nor claimed is in nobody's hand.
LEMMA NoHolder ==
  ASSUME CallersFit, NEW a \in Actions, approval[a] \notin {"approved", "executing"},
         NEW d \in Callers
  PROVE  ~Holding(d, a)
BY DEF CallersFit, CallerFits, Holding

\* A caller whose locals and whose action are what they were fits as before, and so
\* does one that holds nothing, whatever became of its action.
LEMMA CallerUntouched ==
  ASSUME NEW d \in Callers, CallerFits(d),
         pc'[d] = pc[d], act'[d] = act[d], outcome'[d] = outcome[d],
         \/ ~Holding(d, act[d])
         \/ /\ approval'[act[d]] = approval[act[d]] /\ attempt'[act[d]] = attempt[act[d]]
            /\ dispatches'[act[d]] = dispatches[act[d]] /\ world'[act[d]] = world[act[d]]
            /\ act[d] \in void' <=> act[d] \in void
  PROVE  CallerFits(d)'
<1>1. CASE ~Holding(d, act[d])
  <2>1. pc[d] \notin Claimed /\ pc[d] # "claiming"
    BY <1>1 DEF Holding
  <2> QED
    BY <2>1 DEF CallerFits, Claimed
<1>2. CASE /\ approval'[act[d]] = approval[act[d]] /\ attempt'[act[d]] = attempt[act[d]]
           /\ dispatches'[act[d]] = dispatches[act[d]] /\ world'[act[d]] = world[act[d]]
           /\ act[d] \in void' <=> act[d] \in void
  BY <1>2 DEF CallerFits
<1> QED
  BY <1>1, <1>2

\* A row nobody writes stays good while permissions come and go.
LEMMA RowUntouched ==
  ASSUME TypeOK, NEW b \in Actions, RowGood(b),
         approval'[b] = approval[b], via'[b] = via[b], attempt'[b] = attempt[b],
         dispatches'[b] = dispatches[b], world'[b] = world[b], b \in void' <=> b \in void,
         standing' \in {standing, 0, issued + 1}, issued' \in {issued, issued + 1}
  PROVE  RowGood(b)'
<1>1. via[b] \in Nat /\ standing \in Nat /\ issued \in Nat
  BY DEF TypeOK
<1>2. via'[b] <= issued'
  BY <1>1 DEF RowGood, RowFits
<1>3. b \in void' => via'[b] \notin {0, standing'}
  BY <1>1 DEF RowGood, RowFits
<1>4. RowFits(b)'
  BY <1>2, <1>3 DEF RowGood, RowFits
<1> QED
  BY <1>4 DEF RowGood

\* A step of one caller that touches no row.
LEMMA QuietStep ==
  ASSUME TypeOK, OneHolder, CallersFit, RowsGood, NEW c \in Callers,
         \A d \in Callers \ {c} : pc'[d] = pc[d] /\ act'[d] = act[d] /\ outcome'[d] = outcome[d],
         UNCHANGED <<approval, via, attempt, dispatches, void, world, standing, issued>>,
         CallerFits(c)', \A b \in Actions : Holding(c, b)' => Holding(c, b)
  PROVE  OneHolder' /\ CallersFit' /\ RowsGood'
<1>1. ASSUME NEW d \in Callers, NEW b \in Actions, Holding(d, b)' PROVE Holding(d, b)
  BY <1>1 DEF Holding
<1>2. OneHolder'
  BY <1>1 DEF OneHolder
<1>3. ASSUME NEW d \in Callers, d # c PROVE CallerFits(d)'
  BY <1>3, CallerUntouched DEF CallersFit
<1>4. RowsGood'
  BY RowUntouched DEF RowsGood
<1> QED
  BY <1>2, <1>3, <1>4 DEF CallersFit

\* A step of one caller that writes the row of one action nobody else holds.
LEMMA RowStep ==
  ASSUME TypeOK, OneHolder, CallersFit, RowsGood, NEW c \in Callers, NEW a \in Actions,
         \A d \in Callers \ {c} : ~Holding(d, a),
         \A d \in Callers \ {c} : pc'[d] = pc[d] /\ act'[d] = act[d] /\ outcome'[d] = outcome[d],
         \A b \in Actions \ {a} :
           /\ approval'[b] = approval[b] /\ via'[b] = via[b] /\ attempt'[b] = attempt[b]
           /\ dispatches'[b] = dispatches[b] /\ world'[b] = world[b]
           /\ b \in void' <=> b \in void,
         standing' \in {standing, 0, issued + 1}, issued' \in {issued, issued + 1},
         CallerFits(c)', RowGood(a)', \A b \in Actions : Holding(c, b)' => b = a
  PROVE  OneHolder' /\ CallersFit' /\ RowsGood'
<1>1. ASSUME NEW d \in Callers \ {c}, NEW b \in Actions PROVE Holding(d, b)' <=> Holding(d, b)
  BY <1>1 DEF Holding
<1>2. OneHolder'
  <2> SUFFICES ASSUME NEW b \in Actions, NEW d \in Callers, NEW e \in Callers,
                      Holding(d, b)', Holding(e, b)'
               PROVE  d = e
    BY DEF OneHolder
  <2>1. CASE d # c /\ e # c
    BY <1>1, <2>1 DEF OneHolder
  <2>2. CASE d = c \/ e = c
    BY <1>1, <2>2
  <2> QED
    BY <2>1, <2>2
<1>3. ASSUME NEW d \in Callers, d # c PROVE CallerFits(d)'
  <2>1. CallerFits(d)
    BY DEF CallersFit
  <2>2. CASE Holding(d, act[d])
    <3>1. act[d] \in Actions /\ act[d] # a
      BY <1>3, <2>2, BusyHasAction DEF Holding, Claimed
    <3> QED
      BY <1>3, <2>1, <3>1, CallerUntouched
  <2>3. CASE ~Holding(d, act[d])
    BY <1>3, <2>1, <2>3, CallerUntouched
  <2> QED
    BY <2>2, <2>3
<1>4. ASSUME NEW b \in Actions PROVE RowGood(b)'
  <2>1. CASE b # a
    BY <2>1, RowUntouched DEF RowsGood
  <2> QED
    BY <2>1
<1> QED
  BY <1>2, <1>3, <1>4 DEF CallersFit, RowsGood

\* What the moves of a caller do to its locals, and to nobody else's.
LEMMA GotoMoves ==
  ASSUME TypeOK, NEW c \in Callers, NEW l, Goto(c, l)
  PROVE  /\ pc'[c] = l /\ act'[c] = act[c] /\ outcome'[c] = outcome[c]
         /\ \A d \in Callers \ {c} : pc'[d] = pc[d] /\ act'[d] = act[d] /\ outcome'[d] = outcome[d]
BY DEF TypeOK, Goto

\* A caller that leaves holds nothing and fits.
LEMMA LeaveMoves ==
  ASSUME TypeOK, NEW c \in Callers, Leave(c)
  PROVE  /\ CallerFits(c)' /\ \A b \in Actions : ~Holding(c, b)'
         /\ \A d \in Callers \ {c} : pc'[d] = pc[d] /\ act'[d] = act[d] /\ outcome'[d] = outcome[d]
<1>1. /\ pc'[c] = "idle" /\ act'[c] = None
      /\ \A d \in Callers \ {c} : pc'[d] = pc[d] /\ act'[d] = act[d] /\ outcome'[d] = outcome[d]
  BY DEF TypeOK, Leave
<1> QED
  BY <1>1 DEF CallerFits, Holding, Claimed

\* A caller that enters holds nothing yet and fits.
LEMMA EnterMoves ==
  ASSUME TypeOK, NEW c \in Callers, NEW a \in Actions, NEW p, Enter(c, a, p)
  PROVE  /\ CallerFits(c)' /\ \A b \in Actions : ~Holding(c, b)'
         /\ \A d \in Callers \ {c} : pc'[d] = pc[d] /\ act'[d] = act[d] /\ outcome'[d] = outcome[d]
<1>1. /\ pc'[c] = "tapped" /\ act'[c] = a
      /\ \A d \in Callers \ {c} : pc'[d] = pc[d] /\ act'[d] = act[d] /\ outcome'[d] = outcome[d]
  BY DEF TypeOK, Enter
<1>2. a # None
  BY ApprovalsAssumption
<1> QED
  BY <1>1, <1>2 DEF CallerFits, Holding, Claimed

\* A caller that is done holds nothing any more and fits.
LEMMA ConcludeMoves ==
  ASSUME TypeOK, CallersFit, NEW c \in Callers, pc[c] # "idle", Conclude(c)
  PROVE  /\ CallerFits(c)' /\ \A b \in Actions : ~Holding(c, b)'
         /\ \A d \in Callers \ {c} : pc'[d] = pc[d] /\ act'[d] = act[d] /\ outcome'[d] = outcome[d]
<1>1. CASE Leave(c)
  BY <1>1, LeaveMoves
<1>2. CASE Goto(c, "waking")
  <2>1. act[c] # None
    BY DEF CallersFit, CallerFits
  <2>2. /\ pc'[c] = "waking" /\ act'[c] = act[c]
        /\ \A d \in Callers \ {c} : pc'[d] = pc[d] /\ act'[d] = act[d] /\ outcome'[d] = outcome[d]
    BY <1>2, GotoMoves
  <2> QED
    BY <2>1, <2>2 DEF CallerFits, Holding, Claimed
<1> QED
  BY <1>1, <1>2 DEF Conclude

-----------------------------------------------------------------------------
(* A caller's steps preserve it                                            *)

\* Steps that leave every row as it is.
LEMMA QuietSteps ==
  ASSUME TypeOK, OneHolder, CallersFit, RowsGood, NEW c \in Callers,
         \/ DecideRefused(c) \/ Wake(c) \/ Crash(c) \/ CheckPermission(c)
         \/ CancelledFirst(c) \/ Answered(c) \/ Deadline(c)
         \/ \E same \in BOOLEAN : Recheck(c, same)
         \/ \E a \in Actions : Tap(c, a) \/ UseStanding(c, a)
  PROVE  OneHolder' /\ CallersFit' /\ RowsGood'
<1>1. CASE DecideRefused(c) \/ Wake(c) \/ Crash(c)
  BY <1>1, LeaveMoves, QuietStep
     DEF DecideRefused, Wake, Crash, rowVars, permVars, histVars
<1>2. CASE CheckPermission(c)
  <2> DEFINE l == IF StillPermitted(act[c]) THEN "describing" ELSE "refusing"
  <2>1. /\ pc[c] = "checking" /\ Goto(c, l)
        /\ UNCHANGED <<approval, via, attempt, dispatches, void, world, standing, issued>>
    BY <1>2 DEF CheckPermission, rowVars, permVars, histVars
  <2>2. act[c] \in Actions /\ CallerFits(c) /\ RowGood(act[c])
    BY <2>1, BusyHasAction DEF CallersFit, RowsGood
  <2>3. act[c] \in void => l = "refusing"
    BY <2>2 DEF RowGood, RowFits, StillPermitted
  <2>4. l \in {"describing", "refusing"}
    OBVIOUS
  <2> HIDE DEF l
  <2>5. /\ pc'[c] = l /\ act'[c] = act[c] /\ outcome'[c] = outcome[c]
        /\ \A d \in Callers \ {c} : pc'[d] = pc[d] /\ act'[d] = act[d] /\ outcome'[d] = outcome[d]
    BY <2>1, GotoMoves
  <2>6. CallerFits(c)'
    BY <2>1, <2>2, <2>3, <2>4, <2>5 DEF CallerFits, Claimed, Attempting
  <2>7. \A b \in Actions : Holding(c, b)' => Holding(c, b)
    BY <2>1, <2>5 DEF Holding, Claimed
  <2> QED
    BY <2>1, <2>5, <2>6, <2>7, QuietStep
<1>3. ASSUME NEW same \in BOOLEAN, Recheck(c, same) PROVE OneHolder' /\ CallersFit' /\ RowsGood'
  <2> DEFINE l == IF same THEN "opening" ELSE "refusing"
  <2>1. /\ pc[c] = "describing" /\ Goto(c, l)
        /\ UNCHANGED <<approval, via, attempt, dispatches, void, world, standing, issued>>
    BY <1>3 DEF Recheck, rowVars, permVars, histVars
  <2>2. CallerFits(c)
    BY DEF CallersFit
  <2>4. l \in {"opening", "refusing"}
    OBVIOUS
  <2> HIDE DEF l
  <2>5. /\ pc'[c] = l /\ act'[c] = act[c] /\ outcome'[c] = outcome[c]
        /\ \A d \in Callers \ {c} : pc'[d] = pc[d] /\ act'[d] = act[d] /\ outcome'[d] = outcome[d]
    BY <2>1, GotoMoves
  <2>6. CallerFits(c)'
    BY <2>1, <2>2, <2>4, <2>5 DEF CallerFits, Claimed, Attempting
  <2>7. \A b \in Actions : Holding(c, b)' => Holding(c, b)
    BY <2>1, <2>5 DEF Holding, Claimed
  <2> QED
    BY <2>1, <2>5, <2>6, <2>7, QuietStep
<1>4. ASSUME NEW o \in Outcomes, Resolve(c, o), pc[c] \in {"dispatching", "waiting"},
             o = "succeeded" => world[act[c]] = "done", o = "failed" => world[act[c]] = "threw"
      PROVE  OneHolder' /\ CallersFit' /\ RowsGood'
  <2>1. /\ pc'[c] = "finishing" /\ act'[c] = act[c] /\ outcome'[c] = o
        /\ \A d \in Callers \ {c} : pc'[d] = pc[d] /\ act'[d] = act[d] /\ outcome'[d] = outcome[d]
        /\ UNCHANGED <<approval, via, attempt, dispatches, void, world, standing, issued>>
    BY <1>4 DEF TypeOK, Resolve, rowVars, permVars, histVars
  <2>2. CallerFits(c)
    BY DEF CallersFit
  <2>3. CallerFits(c)'
    BY <1>4, <2>1, <2>2 DEF CallerFits, Claimed, Attempting
  <2>4. \A b \in Actions : Holding(c, b)' => Holding(c, b)
    BY <1>4, <2>1 DEF Holding, Claimed
  <2> QED
    BY <2>1, <2>3, <2>4, QuietStep
<1>5. CASE CancelledFirst(c) \/ Answered(c) \/ Deadline(c)
  BY <1>4, <1>5 DEF CancelledFirst, Answered, Deadline, Outcomes
<1>6. ASSUME NEW a \in Actions, Tap(c, a) \/ UseStanding(c, a)
      PROVE  OneHolder' /\ CallersFit' /\ RowsGood'
  <2>1. PICK p : Enter(c, a, p)
    BY <1>6 DEF Tap, UseStanding
  <2>2. UNCHANGED <<approval, via, attempt, dispatches, void, world, standing, issued>>
    BY <1>6 DEF Tap, UseStanding, rowVars, permVars, histVars
  <2> QED
    BY <2>1, <2>2, EnterMoves, QuietStep
<1> QED
  BY <1>1, <1>2, <1>3, <1>5, <1>6

\* What RowStep asks of the rows other than the one a caller is about.
OthersKept(a) ==
  \A b \in Actions \ {a} :
    /\ approval'[b] = approval[b] /\ via'[b] = via[b] /\ attempt'[b] = attempt[b]
    /\ dispatches'[b] = dispatches[b] /\ world'[b] = world[b]
    /\ b \in void' <=> b \in void

\* Whoever holds an action holds it alone.
LEMMA HeldAlone ==
  ASSUME OneHolder, NEW c \in Callers, NEW a \in Actions, Holding(c, a)
  PROVE  \A d \in Callers \ {c} : ~Holding(d, a)
BY DEF OneHolder

\* The statements of decideApproval and the claim write one row, which nobody else holds.
LEMMA DecisionSteps ==
  ASSUME TypeOK, OneHolder, CallersFit, RowsGood, GrantsFit, NEW c \in Callers,
         \/ ExpireIfDue(c) \/ Claim(c) \/ RefuseClaim(c)
         \/ \E answer \in {"approved", "rejected"}, remember \in BOOLEAN : Decide(c, answer, remember)
  PROVE  OneHolder' /\ CallersFit' /\ RowsGood'
<1>0. pc[c] # "idle"
  BY DEF ExpireIfDue, Claim, RefuseClaim, Decide
<1>1. PICK a \in Actions : a = act[c] /\ a # None /\ CallerFits(c) /\ RowGood(a)
  BY <1>0, BusyHasAction, ApprovalsAssumption DEF CallersFit, RowsGood
<1>2. CASE ExpireIfDue(c)
  <2>1. pc[c] = "tapped" /\ Goto(c, "deciding") /\ UNCHANGED <<via, attempt, dispatches, void, world, standing, issued>>
    BY <1>1, <1>2 DEF ExpireIfDue, permVars, histVars
  <2>2. /\ pc'[c] = "deciding" /\ act'[c] = act[c] /\ outcome'[c] = outcome[c]
        /\ \A d \in Callers \ {c} : pc'[d] = pc[d] /\ act'[d] = act[d] /\ outcome'[d] = outcome[d]
    BY <2>1, GotoMoves
  <2>3. CallerFits(c)' /\ \A b \in Actions : ~Holding(c, b)'
    BY <1>1, <2>2 DEF CallerFits, Holding, Claimed
  <2>4. CASE approval[a] = "pending" /\ c \notin early
    <3>1. approval' = [approval EXCEPT ![a] = "expired"]
      BY <1>1, <1>2, <2>4 DEF ExpireIfDue
    <3>2. OthersKept(a) /\ approval'[a] = "expired"
      BY <1>1, <2>1, <3>1 DEF TypeOK, OthersKept
    <3>3. \A d \in Callers \ {c} : ~Holding(d, a)
      BY <1>1, <2>4, NoHolder
    <3>4. RowGood(a)'
      BY <1>1, <2>1, <2>4, <3>2 DEF RowGood, RowFits, Outcomes
    <3> QED
      BY <1>1, <2>1, <2>2, <2>3, <3>2, <3>3, <3>4, RowStep DEF OthersKept
  <2>5. CASE ~(approval[a] = "pending" /\ c \notin early)
    <3>1. approval' = approval
      BY <1>1, <1>2, <2>5 DEF ExpireIfDue
    <3> QED
      BY <2>1, <2>2, <2>3, <3>1, QuietStep
  <2> QED
    BY <2>4, <2>5
<1>3. CASE Claim(c)
  <2>1. /\ pc[c] = "claiming" /\ approval[a] = "approved" /\ Goto(c, "checking")
        /\ approval' = [approval EXCEPT ![a] = "executing"]
        /\ void' = IF via[a] \notin {0, standing} THEN void \cup {a} ELSE void
        /\ UNCHANGED <<via, attempt, dispatches, world, standing, issued>>
    BY <1>1, <1>3 DEF Claim, permVars
  <2>2. /\ pc'[c] = "checking" /\ act'[c] = act[c] /\ outcome'[c] = outcome[c]
        /\ \A d \in Callers \ {c} : pc'[d] = pc[d] /\ act'[d] = act[d] /\ outcome'[d] = outcome[d]
    BY <2>1, GotoMoves
  <2>3. OthersKept(a) /\ approval'[a] = "executing" /\ (a \in void' <=> via[a] \notin {0, standing})
    BY <1>1, <2>1 DEF TypeOK, OthersKept, RowGood, RowFits
  <2>4. attempt[a] = "none" /\ dispatches[a] = 0 /\ world[a] = "untouched"
    BY <1>1, <2>1 DEF RowGood, RowFits, Outcomes
  <2>5. \A d \in Callers \ {c} : ~Holding(d, a)
    BY <1>1, <2>1, HeldAlone DEF Holding
  <2>6. CallerFits(c)'
    BY <1>1, <2>1, <2>2, <2>3, <2>4 DEF CallerFits, Claimed, Attempting
  <2>7. RowGood(a)'
    BY <1>1, <2>1, <2>3, <2>4 DEF RowGood, RowFits, Outcomes
  <2>8. \A b \in Actions : Holding(c, b)' => b = a
    BY <1>1, <2>2 DEF Holding
  <2>9. standing' \in {standing, 0, issued + 1} /\ issued' \in {issued, issued + 1}
    BY <2>1
  <2> QED
    BY <1>1, <2>2, <2>3, <2>5, <2>6, <2>7, <2>8, <2>9, RowStep DEF OthersKept
<1>4. CASE RefuseClaim(c)
  <2>1. /\ pc[c] = "claiming" /\ approval[a] = "approved" /\ Conclude(c)
        /\ approval' = [approval EXCEPT ![a] = "expired"]
        /\ UNCHANGED <<via, attempt, dispatches, void, world, standing, issued>>
    BY <1>1, <1>4 DEF RefuseClaim, CallerFits, permVars, histVars
  <2>2. /\ CallerFits(c)' /\ \A b \in Actions : ~Holding(c, b)'
        /\ \A d \in Callers \ {c} : pc'[d] = pc[d] /\ act'[d] = act[d] /\ outcome'[d] = outcome[d]
    BY <2>1, ConcludeMoves
  <2>3. OthersKept(a) /\ approval'[a] = "expired"
    BY <1>1, <2>1 DEF TypeOK, OthersKept
  <2>4. \A d \in Callers \ {c} : ~Holding(d, a)
    BY <1>1, <2>1, HeldAlone DEF Holding
  <2>5. RowGood(a)'
    BY <1>1, <2>1, <2>3 DEF RowGood, RowFits, Outcomes
  <2> QED
    BY <1>1, <2>1, <2>2, <2>3, <2>4, <2>5, RowStep DEF OthersKept
<1>5. ASSUME NEW answer \in {"approved", "rejected"}, NEW remember \in BOOLEAN,
             Decide(c, answer, remember)
      PROVE  OneHolder' /\ CallersFit' /\ RowsGood'
  <2> DEFINE l == IF answer = "approved" THEN "claiming" ELSE "waking"
  <2>1. /\ pc[c] = "deciding" /\ approval[a] = "pending" /\ Goto(c, l)
        /\ approval' = [approval EXCEPT ![a] = answer]
        /\ via' = [via EXCEPT ![a] = using[c]]
        /\ UNCHANGED <<attempt, dispatches, void, world>>
    BY <1>1, <1>5 DEF Decide, Decidable, histVars
  <2>2. standing' \in {standing, 0, issued + 1} /\ issued' \in {issued, issued + 1}
    BY <1>5 DEF Decide, permVars
  <2>3. using[c] \in Nat /\ issued \in Nat
    BY DEF TypeOK
  <2>4. (l = "claiming" /\ answer = "approved") \/ (l = "waking" /\ answer = "rejected")
    OBVIOUS
  <2> HIDE DEF l
  <2>5. /\ pc'[c] = l /\ act'[c] = act[c] /\ outcome'[c] = outcome[c]
        /\ \A d \in Callers \ {c} : pc'[d] = pc[d] /\ act'[d] = act[d] /\ outcome'[d] = outcome[d]
    BY <2>1, GotoMoves
  <2>6. OthersKept(a) /\ approval'[a] = answer /\ via'[a] = using[c]
    BY <1>1, <2>1 DEF TypeOK, OthersKept
  <2>7. \A d \in Callers \ {c} : ~Holding(d, a)
    BY <1>1, <2>1, NoHolder
  <2>8. CallerFits(c)'
    BY <1>1, <2>4, <2>5, <2>6 DEF CallerFits, Claimed, Attempting
  <2>9. RowGood(a)'
    <3>1. a \notin void /\ attempt[a] = "none" /\ dispatches[a] = 0 /\ world[a] = "untouched"
      BY <1>1, <2>1 DEF RowGood, RowFits, Outcomes
    <3>2. via'[a] <= issued'
      BY <2>2, <2>3, <2>6 DEF GrantsFit
    <3> QED
      BY <2>1, <2>6, <3>1, <3>2 DEF RowGood, RowFits, Outcomes
  <2>10. \A b \in Actions : Holding(c, b)' => b = a
    BY <1>1, <2>5 DEF Holding
  <2> QED
    BY <1>1, <2>2, <2>5, <2>6, <2>7, <2>8, <2>9, <2>10, RowStep DEF OthersKept
<1> QED
  BY <1>2, <1>3, <1>4, <1>5

\* The executor writes the row it claimed, which nobody else holds.
LEMMA ExecutionSteps ==
  ASSUME TypeOK, OneHolder, CallersFit, RowsGood, NEW c \in Callers,
         \/ SettleWithoutDispatch(c) \/ StartAttempt(c) \/ Dispatch(c)
         \/ FinishAttempt(c) \/ SettleApproval(c)
  PROVE  OneHolder' /\ CallersFit' /\ RowsGood'
<1>0. pc[c] \in Claimed
  BY DEF SettleWithoutDispatch, StartAttempt, Dispatch, FinishAttempt, SettleApproval, Claimed
<1>1. PICK a \in Actions : a = act[c] /\ a # None /\ CallerFits(c) /\ RowGood(a)
  BY <1>0, BusyHasAction, ApprovalsAssumption DEF CallersFit, RowsGood, Claimed
<1>2. \A d \in Callers \ {c} : ~Holding(d, a)
  BY <1>0, <1>1, HeldAlone DEF Holding
<1>3. approval[a] = "executing" /\ pc[c] # "idle"
  BY <1>0, <1>1 DEF CallerFits, Claimed
<1>4. CASE SettleWithoutDispatch(c)
  <2>1. /\ pc[c] = "refusing" /\ Conclude(c) /\ approval' = [approval EXCEPT ![a] = "refused"]
        /\ UNCHANGED <<via, attempt, dispatches, void, world, standing, issued>>
    BY <1>1, <1>4 DEF SettleWithoutDispatch, permVars, histVars
  <2>2. /\ CallerFits(c)' /\ \A b \in Actions : ~Holding(c, b)'
        /\ \A d \in Callers \ {c} : pc'[d] = pc[d] /\ act'[d] = act[d] /\ outcome'[d] = outcome[d]
    BY <1>3, <2>1, ConcludeMoves
  <2>3. OthersKept(a) /\ approval'[a] = "refused"
    BY <2>1 DEF TypeOK, OthersKept
  <2>4. attempt[a] = "none" /\ dispatches[a] = 0 /\ world[a] = "untouched"
    BY <1>1, <2>1 DEF CallerFits, RowGood, RowFits, Claimed, Attempting
  <2>5. RowGood(a)'
    BY <1>1, <2>1, <2>3, <2>4 DEF RowGood, RowFits, Outcomes
  <2> QED
    BY <1>2, <2>1, <2>2, <2>3, <2>5, RowStep DEF OthersKept
<1>5. CASE StartAttempt(c)
  <2>1. /\ pc[c] = "opening" /\ Goto(c, "dispatching") /\ attempt' = [attempt EXCEPT ![a] = "executing"]
        /\ UNCHANGED <<approval, via, dispatches, void, world, standing, issued>>
    BY <1>1, <1>5 DEF StartAttempt, permVars, histVars
  <2>2. /\ pc'[c] = "dispatching" /\ act'[c] = act[c] /\ outcome'[c] = outcome[c]
        /\ \A d \in Callers \ {c} : pc'[d] = pc[d] /\ act'[d] = act[d] /\ outcome'[d] = outcome[d]
    BY <2>1, GotoMoves
  <2>3. OthersKept(a) /\ attempt'[a] = "executing"
    BY <2>1 DEF TypeOK, OthersKept
  <2>4. dispatches[a] = 0 /\ a \notin void
    BY <1>1, <2>1 DEF CallerFits, Claimed
  <2>5. CallerFits(c)'
    BY <1>1, <1>3, <2>1, <2>2, <2>3, <2>4 DEF CallerFits, Claimed, Attempting
  <2>6. RowGood(a)'
    BY <1>1, <1>3, <2>1, <2>3, <2>4 DEF RowGood, RowFits, Outcomes
  <2>7. \A b \in Actions : Holding(c, b)' => b = a
    BY <1>1, <2>2 DEF Holding
  <2> QED
    BY <1>2, <2>1, <2>2, <2>3, <2>5, <2>6, <2>7, RowStep DEF OthersKept
<1>6. CASE Dispatch(c)
  <2>1. /\ pc[c] = "dispatching" /\ Goto(c, "waiting")
        /\ dispatches' = [dispatches EXCEPT ![a] = @ + 1] /\ world' = [world EXCEPT ![a] = "inflight"]
        /\ UNCHANGED <<approval, via, attempt, void, standing, issued>>
    BY <1>1, <1>6 DEF Dispatch, rowVars, permVars
  <2>2. /\ pc'[c] = "waiting" /\ act'[c] = act[c] /\ outcome'[c] = outcome[c]
        /\ \A d \in Callers \ {c} : pc'[d] = pc[d] /\ act'[d] = act[d] /\ outcome'[d] = outcome[d]
    BY <2>1, GotoMoves
  <2>3. dispatches[a] = 0 /\ a \notin void /\ attempt[a] = "executing"
    BY <1>1, <2>1 DEF CallerFits, Claimed
  <2>4. OthersKept(a) /\ dispatches'[a] = 1 /\ world'[a] = "inflight"
    BY <2>1, <2>3 DEF TypeOK, OthersKept
  <2>5. CallerFits(c)'
    BY <1>1, <1>3, <2>1, <2>2, <2>3, <2>4 DEF CallerFits, Claimed, Attempting
  <2>6. RowGood(a)'
    BY <1>1, <1>3, <2>1, <2>3, <2>4 DEF RowGood, RowFits, Outcomes
  <2>7. \A b \in Actions : Holding(c, b)' => b = a
    BY <1>1, <2>2 DEF Holding
  <2> QED
    BY <1>2, <2>1, <2>2, <2>4, <2>5, <2>6, <2>7, RowStep DEF OthersKept
<1>7. CASE FinishAttempt(c)
  <2>1. /\ pc[c] = "finishing" /\ Goto(c, "settling") /\ attempt' = [attempt EXCEPT ![a] = outcome[c]]
        /\ UNCHANGED <<approval, via, dispatches, void, world, standing, issued>>
    BY <1>1, <1>7 DEF FinishAttempt, permVars, histVars
  <2>2. /\ pc'[c] = "settling" /\ act'[c] = act[c] /\ outcome'[c] = outcome[c]
        /\ \A d \in Callers \ {c} : pc'[d] = pc[d] /\ act'[d] = act[d] /\ outcome'[d] = outcome[d]
    BY <2>1, GotoMoves
  <2>3. OthersKept(a) /\ attempt'[a] = outcome[c]
    BY <2>1 DEF TypeOK, OthersKept
  <2>4. a \notin void /\ outcome[c] \in Outcomes
    BY <1>1, <2>1 DEF CallerFits, Claimed
  <2>5. CallerFits(c)'
    BY <1>1, <1>3, <2>1, <2>2, <2>3, <2>4 DEF CallerFits, Claimed, Attempting
  <2>6. RowGood(a)'
    BY <1>1, <1>3, <2>1, <2>3, <2>4 DEF CallerFits, RowGood, RowFits, Outcomes
  <2>7. \A b \in Actions : Holding(c, b)' => b = a
    BY <1>1, <2>2 DEF Holding
  <2> QED
    BY <1>2, <2>1, <2>2, <2>3, <2>5, <2>6, <2>7, RowStep DEF OthersKept
<1>8. CASE SettleApproval(c)
  <2>1. /\ pc[c] = "settling" /\ Conclude(c) /\ approval' = [approval EXCEPT ![a] = outcome[c]]
        /\ UNCHANGED <<via, attempt, dispatches, void, world, standing, issued>>
    BY <1>1, <1>8 DEF SettleApproval, permVars, histVars
  <2>2. /\ CallerFits(c)' /\ \A b \in Actions : ~Holding(c, b)'
        /\ \A d \in Callers \ {c} : pc'[d] = pc[d] /\ act'[d] = act[d] /\ outcome'[d] = outcome[d]
    BY <1>3, <2>1, ConcludeMoves
  <2>3. OthersKept(a) /\ approval'[a] = outcome[c]
    BY <2>1 DEF TypeOK, OthersKept
  <2>4. a \notin void /\ outcome[c] \in Outcomes /\ attempt[a] = outcome[c]
    BY <1>1, <2>1 DEF CallerFits, Claimed
  <2>5. RowGood(a)'
    BY <1>1, <1>3, <2>1, <2>3, <2>4 DEF RowGood, RowFits, Outcomes
  <2> QED
    BY <1>2, <2>1, <2>2, <2>3, <2>5, RowStep DEF OthersKept
<1> QED
  BY <1>4, <1>5, <1>6, <1>7, <1>8

-----------------------------------------------------------------------------
(* What happens around the callers preserves it                            *)

\* A step that moves no caller and keeps what the callers rely on.
LEMMA StillFit ==
  ASSUME OneHolder, CallersFit, UNCHANGED <<pc, act, outcome>>,
         \A d \in Callers : \/ ~Holding(d, act[d])
                            \/ /\ approval'[act[d]] = approval[act[d]]
                               /\ UNCHANGED <<attempt, dispatches, void, world>>
  PROVE  OneHolder' /\ CallersFit'
<1>1. OneHolder'
  BY DEF OneHolder, Holding
<1>2. ASSUME NEW d \in Callers PROVE CallerFits(d)'
  BY CallerUntouched DEF CallersFit
<1> QED
  BY <1>1, <1>2 DEF CallersFit

\* The run, the sweep, the permissions and the world touch no row a caller holds, but
\* for the effect that ends, which no caller has reported yet.
LEMMA AroundSteps ==
  ASSUME TypeOK, OneHolder, CallersFit, RowsGood,
         \/ ExpireDueApprovals \/ GrantToolPermission \/ RevokeToolPermission
         \/ \E a \in Actions : Expire(a) \/ EffectEnds(a)
         \/ \E a \in Actions : CreateAction(a) \/ SuspendJob(a) \/ JobMovesOn(a)
         \/ \E a \in Actions, durable \in BOOLEAN : AskOwner(a, durable)
         \/ \E c \in Callers : ReadClock(c)
  PROVE  OneHolder' /\ CallersFit' /\ RowsGood'
<1>1. CASE ExpireDueApprovals
  <2>1. /\ approval' = [a \in Actions |->
              IF a \in late /\ approval[a] = "pending" THEN "expired" ELSE approval[a]]
        /\ UNCHANGED <<pc, act, outcome, via, attempt, dispatches, void, world, standing, issued>>
    BY <1>1 DEF ExpireDueApprovals, permVars, callerVars, histVars
  <2>2. ASSUME NEW d \in Callers, Holding(d, act[d]) PROVE approval'[act[d]] = approval[act[d]]
    <3>1. act[d] \in Actions
      BY <2>2, BusyHasAction DEF Holding, Claimed
    <3>2. approval[act[d]] # "pending"
      BY <2>2, <3>1, NoHolder
    <3> QED
      BY <2>1, <3>1, <3>2
  <2>3. OneHolder' /\ CallersFit'
    BY <2>1, <2>2, StillFit
  <2>4. ASSUME NEW b \in Actions PROVE RowGood(b)'
    <3>1. CASE b \in late /\ approval[b] = "pending"
      BY <2>1, <3>1 DEF RowsGood, RowGood, RowFits, Outcomes
    <3>2. CASE ~(b \in late /\ approval[b] = "pending")
      BY <2>1, <3>2, RowUntouched DEF RowsGood
    <3> QED
      BY <3>1, <3>2
  <2> QED
    BY <2>3, <2>4 DEF RowsGood
<1>2. CASE GrantToolPermission \/ RevokeToolPermission
  <2>1. UNCHANGED <<pc, act, outcome, approval, via, attempt, dispatches, void, world>>
    BY <1>2 DEF GrantToolPermission, RevokeToolPermission, rowVars, callerVars, histVars
  <2>2. standing' \in {standing, 0, issued + 1} /\ issued' \in {issued, issued + 1}
    BY <1>2 DEF GrantToolPermission, RevokeToolPermission
  <2>3. OneHolder' /\ CallersFit'
    BY <2>1, StillFit
  <2> QED
    BY <2>1, <2>2, <2>3, RowUntouched DEF RowsGood
<1>3. ASSUME NEW a \in Actions, EffectEnds(a) PROVE OneHolder' /\ CallersFit' /\ RowsGood'
  <2>1. /\ world[a] = "inflight"
        /\ \E w \in {"done", "threw"} : world' = [world EXCEPT ![a] = w]
        /\ UNCHANGED <<pc, act, outcome, approval, via, attempt, dispatches, void, standing, issued>>
    BY <1>3 DEF EffectEnds, rowVars, permVars, callerVars, histVars
  <2>2. world'[a] # "untouched" /\ \A b \in Actions \ {a} : world'[b] = world[b]
    BY <2>1 DEF TypeOK
  <2>3. OneHolder'
    BY <2>1 DEF OneHolder, Holding
  <2>4. ASSUME NEW d \in Callers PROVE CallerFits(d)'
    <3>1. CallerFits(d) /\ (pc[d] # "idle" => act[d] \in Actions)
      BY BusyHasAction DEF CallersFit
    <3> QED
      BY <2>1, <2>2, <3>1 DEF CallerFits
  <2>5. ASSUME NEW b \in Actions PROVE RowGood(b)'
    <3>1. CASE b = a
      BY <2>1, <2>2, <3>1 DEF RowsGood, RowGood, RowFits
    <3>2. CASE b # a
      BY <2>1, <2>2, <3>2, RowUntouched DEF RowsGood
    <3> QED
      BY <3>1, <3>2
  <2> QED
    BY <2>3, <2>4, <2>5 DEF CallersFit, RowsGood
<1>4. ASSUME NEW a \in Actions, CreateAction(a) PROVE OneHolder' /\ CallersFit' /\ RowsGood'
  <2>1. /\ approval[a] = "absent" /\ approval' = [approval EXCEPT ![a] = "pending"]
        /\ UNCHANGED <<pc, act, outcome, via, attempt, dispatches, void, world, standing, issued>>
    BY <1>4 DEF CreateAction, permVars, callerVars, histVars
  <2>2. approval'[a] = "pending" /\ \A b \in Actions \ {a} : approval'[b] = approval[b]
    BY <2>1 DEF TypeOK
  <2>3. ASSUME NEW d \in Callers, Holding(d, act[d]) PROVE approval'[act[d]] = approval[act[d]]
    <3>1. act[d] \in Actions
      BY <2>3, BusyHasAction DEF Holding, Claimed
    <3>2. act[d] # a
      BY <2>1, <2>3, <3>1, NoHolder
    <3> QED
      BY <2>2, <3>1, <3>2
  <2>4. OneHolder' /\ CallersFit'
    BY <2>1, <2>3, StillFit
  <2>5. ASSUME NEW b \in Actions PROVE RowGood(b)'
    <3>1. CASE b = a
      BY <2>1, <2>2, <3>1 DEF RowsGood, RowGood, RowFits, Outcomes
    <3>2. CASE b # a
      BY <2>1, <2>2, <3>2, RowUntouched DEF RowsGood
    <3> QED
      BY <3>1, <3>2
  <2> QED
    BY <2>4, <2>5 DEF RowsGood
<1>5. CASE \/ \E a \in Actions : Expire(a) \/ SuspendJob(a) \/ JobMovesOn(a)
           \/ \E a \in Actions, durable \in BOOLEAN : AskOwner(a, durable)
           \/ \E c \in Callers : ReadClock(c)
  <2>1. UNCHANGED <<pc, act, outcome, approval, via, attempt, dispatches, void, world, standing, issued>>
    BY <1>5 DEF Expire, SuspendJob, JobMovesOn, AskOwner, ReadClock,
                rowVars, permVars, callerVars, histVars
  <2>2. OneHolder' /\ CallersFit'
    BY <2>1, StillFit
  <2> QED
    BY <2>1, <2>2, RowUntouched DEF RowsGood
<1> QED
  BY <1>1, <1>2, <1>3, <1>4, <1>5

\* No permission is named before it was given.
LEMMA GrantsStep ==
  ASSUME TypeOK, GrantsFit, [Next]_vars
  PROVE  GrantsFit'
<1> standing \in Nat /\ issued \in Nat /\ using \in [Callers -> Nat]
  BY DEF TypeOK
<1>1. ASSUME UNCHANGED permVars, \A c \in Callers : using'[c] \in {using[c], 0, standing}
      PROVE  GrantsFit'
  BY <1>1 DEF GrantsFit, permVars
<1>2. ASSUME standing' \in {standing, 0, issued + 1}, issued' \in {issued, issued + 1},
             standing' = issued + 1 => issued' = issued + 1, UNCHANGED using
      PROVE  GrantsFit'
  BY <1>2 DEF GrantsFit
<1>3. ASSUME NEW c \in Callers, UNCHANGED permVars,
             \/ Leave(c) \/ Conclude(c) \/ \E l \in PC : Goto(c, l)
             \/ \E a \in Actions, p \in {0, standing} : Enter(c, a, p)
      PROVE  GrantsFit'
  <2>1. \A d \in Callers : using'[d] \in {using[d], 0, standing}
    BY <1>3 DEF Leave, Conclude, Goto, Enter
  <2> QED
    BY <1>1, <1>3, <2>1
<1>4. ASSUME UNCHANGED using, UNCHANGED permVars PROVE GrantsFit'
  BY <1>1, <1>4
<1>5. CASE Around \/ UNCHANGED vars
  <2>1. CASE GrantToolPermission \/ RevokeToolPermission
    BY <1>2, <2>1 DEF GrantToolPermission, RevokeToolPermission, callerVars
  <2>2. CASE UNCHANGED <<permVars, callerVars>>
    BY <1>4, <2>2 DEF callerVars
  <2> QED
    BY <1>5, <2>1, <2>2 DEF Around, ExpireDueApprovals, Expire, EffectEnds, vars
<1>6. ASSUME NEW a \in Actions, RunStep(a) PROVE GrantsFit'
  <2>1. CASE UNCHANGED <<permVars, callerVars>>
    BY <1>4, <2>1 DEF callerVars
  <2>2. ASSUME NEW c \in Callers, UseStanding(c, a) PROVE GrantsFit'
    BY <1>3, <2>2 DEF UseStanding
  <2> QED
    BY <1>6, <2>1, <2>2 DEF RunStep, CreateAction, SuspendJob, JobMovesOn, AskOwner
<1>7. ASSUME NEW c \in Callers, \E a \in Actions : Tap(c, a) PROVE GrantsFit'
  BY <1>3, <1>7 DEF Tap
<1>8. ASSUME NEW c \in Callers, ReadClock(c) PROVE GrantsFit'
  BY <1>4, <1>8 DEF ReadClock
<1>9. ASSUME NEW c \in Callers, Crash(c) PROVE GrantsFit'
  BY <1>3, <1>9 DEF Crash
<1>10. ASSUME NEW c \in Callers, CallerStep(c) PROVE GrantsFit'
  <2>1. ASSUME NEW answer \in {"approved", "rejected"}, NEW remember \in BOOLEAN,
               Decide(c, answer, remember)
        PROVE  GrantsFit'
    <3>1. standing' \in {standing, 0, issued + 1} /\ issued' \in {issued, issued + 1}
      BY <2>1 DEF Decide, permVars
    <3>2. standing' = issued + 1 => issued' = issued + 1
      BY <2>1 DEF Decide, permVars, GrantsFit
    <3>3. UNCHANGED using
      BY <2>1 DEF Decide, Goto
    <3> QED
      BY <1>2, <3>1, <3>2, <3>3
  <2>2. CASE DecideRefused(c) \/ Wake(c) \/ RefuseClaim(c) \/ SettleWithoutDispatch(c) \/ SettleApproval(c)
    BY <1>3, <2>2 DEF DecideRefused, Wake, RefuseClaim, SettleWithoutDispatch, SettleApproval
  <2>3. CASE \/ ExpireIfDue(c) \/ Claim(c) \/ CheckPermission(c) \/ StartAttempt(c)
             \/ Dispatch(c) \/ FinishAttempt(c) \/ \E same \in BOOLEAN : Recheck(c, same)
    <3>1. UNCHANGED permVars /\ UNCHANGED using
      BY <2>3 DEF ExpireIfDue, Claim, CheckPermission, StartAttempt, Dispatch, FinishAttempt,
                  Recheck, Goto, permVars
    <3> QED
      BY <1>4, <3>1
  <2>4. CASE CancelledFirst(c) \/ Answered(c) \/ Deadline(c)
    BY <1>4, <2>4 DEF CancelledFirst, Answered, Deadline, Resolve
  <2> QED
    BY <1>10, <2>1, <2>2, <2>3, <2>4 DEF CallerStep
<1> QED
  BY <1>5, <1>6, <1>7, <1>8, <1>9, <1>10 DEF Next, Steady

-----------------------------------------------------------------------------
(* The invariant holds                                                     *)

\* The invariant holds at first.
LEMMA InitGate == Init => GateInv
<1> SUFFICES ASSUME Init PROVE GateInv
  OBVIOUS
<1>1. TypeOK
  BY InitType
<1>2. \A c \in Callers : pc[c] = "idle" /\ act[c] = None /\ using[c] = 0
  BY DEF Init
<1>3. OneHolder /\ CallersFit
  BY <1>2 DEF OneHolder, Holding, CallersFit, CallerFits, Claimed
<1>4. \A a \in Actions : RowGood(a)
  BY DEF Init, RowGood, RowFits, Outcomes
<1>5. GrantsFit
  BY <1>2 DEF GrantsFit, Init
<1> QED
  BY <1>1, <1>3, <1>4, <1>5, GateInvParts DEF RowsGood

\* Every step, of whichever actor, preserves it.
LEMMA NextGate ==
  ASSUME GateInv, [Next]_vars
  PROVE  GateInv'
<1>1. TypeOK /\ OneHolder /\ CallersFit /\ RowsGood /\ GrantsFit
  BY GateInvParts
<1>2. TypeOK'
  BY <1>1, NextType
<1>3. GrantsFit'
  BY <1>1, GrantsStep
<1>4. OneHolder' /\ CallersFit' /\ RowsGood'
  <2>1. CASE Around
    BY <1>1, <2>1, AroundSteps DEF Around
  <2>2. ASSUME NEW a \in Actions, RunStep(a) PROVE OneHolder' /\ CallersFit' /\ RowsGood'
    <3>1. ASSUME NEW c \in Callers, UseStanding(c, a)
          PROVE  OneHolder' /\ CallersFit' /\ RowsGood'
      BY <1>1, <3>1, QuietSteps
    <3> QED
      BY <1>1, <2>2, <3>1, AroundSteps DEF RunStep
  <2>3. ASSUME NEW c \in Callers, CallerStep(c) PROVE OneHolder' /\ CallersFit' /\ RowsGood'
    BY <1>1, <2>3, QuietSteps, DecisionSteps, ExecutionSteps DEF CallerStep
  <2>4. ASSUME NEW c \in Callers, ReadClock(c) PROVE OneHolder' /\ CallersFit' /\ RowsGood'
    BY <1>1, <2>4, AroundSteps
  <2>5. ASSUME NEW c \in Callers, Crash(c) \/ \E a \in Actions : Tap(c, a)
        PROVE  OneHolder' /\ CallersFit' /\ RowsGood'
    BY <1>1, <2>5, QuietSteps
  <2>6. CASE UNCHANGED vars
    BY <1>1, <2>6 DEF vars, rowVars, permVars, callerVars, histVars, OneHolder, Holding,
                      CallersFit, CallerFits, RowsGood, RowGood, RowFits
  <2> QED
    BY <2>1, <2>2, <2>3, <2>4, <2>5, <2>6 DEF Next, Steady
<1>5. GateInv' <=> TypeOK' /\ OneHolder' /\ CallersFit' /\ RowsGood' /\ GrantsFit'
  BY GateInvParts, PTL
<1> QED
  BY <1>2, <1>3, <1>4, <1>5

\* The invariant holds of every reachable state: at most one caller holds the yes an
\* action was given, and where it is says what approval, ledger and world are.
THEOREM GateInvariant == Spec => []GateInv
<1>1. Init => GateInv
  BY InitGate
<1>2. GateInv /\ [Next]_vars => GateInv'
  BY NextGate
<1> QED
  BY <1>1, <1>2, PTL DEF Spec

\* executeApproved: taps on stale cards, standing permissions, the sweep, deadlines
\* and crashes in any order run the tool of an action at most once.
THEOREM EffectsHappenOnce == Spec => []EffectOnce
<1>1. GateInv => EffectOnce
  BY DEF GateInv
<1> QED
  BY <1>1, GateInvariant, PTL

\* What approvals and effect_attempts say about the effect is true when it is said
\* and stays true, whatever answers late.
THEOREM LedgerIsHonest == Spec => []LedgerHonest
<1>1. GateInv => LedgerHonest
  BY DEF GateInv
<1> QED
  BY <1>1, GateInvariant, PTL

\* stillPermitted: an effect claimed on a permission that was gone never runs, not
\* even when the owner gave another one in between.
THEOREM RevocationHolds == Spec => []RevokedGrantsNothing
<1>1. GateInv => RevokedGrantsNothing
  BY DEF GateInv
<1> QED
  BY <1>1, GateInvariant, PTL

-----------------------------------------------------------------------------
(* The machinery implements OwnerGate                                      *)

\* The record and the effect of one action are as they were.
RowKept(b) == approval'[b] = approval[b] /\ attempt'[b] = attempt[b] /\ world'[b] = world[b]

\* What nobody writes keeps its stage.
LEMMA StageKept ==
  ASSUME NEW b \in Actions, RowKept(b)
  PROVE  StageOf(b)' = StageOf(b) /\ (world'[b] = "done" <=> world[b] = "done")
BY DEF RowKept, StageOf

\* A step that moves no stage and lands nothing is none of the gate.
LEMMA GateStutters ==
  ASSUME \A b \in Actions : StageOf(b)' = StageOf(b) /\ (world'[b] = "done" <=> world[b] = "done")
  PROVE  UNCHANGED Gate!gate
<1>1. [b \in Actions |-> StageOf(b)]' = [b \in Actions |-> StageOf(b)]
  OBVIOUS
<1>2. {b \in Actions : world[b] = "done"}' = {b \in Actions : world[b] = "done"}
  OBVIOUS
<1> QED
  BY <1>1, <1>2 DEF Gate!gate

\* A row that moves alone makes one move of the gate.
LEMMA GateMoves ==
  ASSUME NEW a \in Actions, NEW from, NEW to, StageOf(a) \in from, StageOf(a)' = to,
         world'[a] = "done" <=> world[a] = "done", \A b \in Actions \ {a} : RowKept(b)
  PROVE  Gate!Move(a, from, to)
<1>1. \A b \in Actions \ {a} : StageOf(b)' = StageOf(b) /\ (world'[b] = "done" <=> world[b] = "done")
  BY StageKept
<1>2. [b \in Actions |-> StageOf(b)]' = [[b \in Actions |-> StageOf(b)] EXCEPT ![a] = to]
  BY <1>1
<1>3. {b \in Actions : world[b] = "done"}' = {b \in Actions : world[b] = "done"}
  BY <1>1
<1>4. [b \in Actions |-> StageOf(b)][a] \in from
  OBVIOUS
<1> QED
  BY <1>2, <1>3, <1>4 DEF Gate!Move

\* Steps nobody sees who reads the record only.
LEMMA HiddenSteps ==
  ASSUME TypeOK, UNCHANGED <<approval, attempt, world>>
  PROVE  UNCHANGED Gate!gate
BY GateStutters, StageKept DEF RowKept

\* The decision, the claim and what becomes of them before an attempt is opened.
LEMMA GateDecides ==
  ASSUME GateInv, NEW c \in Callers,
         \/ ExpireIfDue(c) \/ Claim(c) \/ RefuseClaim(c) \/ SettleWithoutDispatch(c)
         \/ \E answer \in {"approved", "rejected"}, remember \in BOOLEAN : Decide(c, answer, remember)
  PROVE  [Gate!Next]_(Gate!gate)
<1>0. TypeOK /\ CallersFit /\ RowsGood
  BY GateInvParts
<1>1. PICK a \in Actions : a = act[c] /\ CallerFits(c) /\ RowGood(a)
  BY <1>0, BusyHasAction
     DEF CallersFit, RowsGood, ExpireIfDue, Claim, RefuseClaim, SettleWithoutDispatch, Decide
<1>2. UNCHANGED <<attempt, world>>
  BY DEF ExpireIfDue, Claim, RefuseClaim, SettleWithoutDispatch, Decide, histVars
<1>3. ASSUME NEW s, approval' = [approval EXCEPT ![a] = s]
      PROVE  approval'[a] = s /\ \A b \in Actions \ {a} : RowKept(b)
  BY <1>0, <1>2, <1>3 DEF TypeOK, RowKept
<1>4. ASSUME NEW s \in {"rejected", "expired", "refused"}, approval' = [approval EXCEPT ![a] = s],
             StageOf(a) \in {"asked", "allowed"}
      PROVE  Gate!Next
  <2>1. StageOf(a)' = "refused"
    BY <1>3, <1>4 DEF StageOf
  <2>2. \A b \in Actions \ {a} : RowKept(b)
    BY <1>3, <1>4
  <2>3. world'[a] = "done" <=> world[a] = "done"
    BY <1>2
  <2>4. Gate!Refuse(a)
    BY <1>4, <2>1, <2>2, <2>3, GateMoves DEF Gate!Refuse
  <2> QED
    BY <2>4 DEF Gate!Next
<1>5. CASE ExpireIfDue(c)
  <2>1. CASE approval[a] = "pending" /\ c \notin early
    <3>1. approval' = [approval EXCEPT ![a] = "expired"] /\ StageOf(a) = "asked"
      BY <1>1, <1>5, <2>1 DEF ExpireIfDue, StageOf
    <3> QED
      BY <1>4, <3>1
  <2>2. CASE ~(approval[a] = "pending" /\ c \notin early)
    BY <1>0, <1>1, <1>2, <1>5, <2>2, HiddenSteps DEF ExpireIfDue
  <2> QED
    BY <2>1, <2>2
<1>6. CASE Claim(c)
  <2>1. approval[a] = "approved" /\ approval' = [approval EXCEPT ![a] = "executing"]
    BY <1>1, <1>6 DEF Claim
  <2>2. attempt[a] = "none"
    BY <1>1, <2>1 DEF RowGood, RowFits, Outcomes
  <2>3. StageOf(a) = "allowed" /\ StageOf(a)' = "allowed"
    BY <1>2, <1>3, <2>1, <2>2 DEF StageOf
  <2>4. \A b \in Actions : StageOf(b)' = StageOf(b) /\ (world'[b] = "done" <=> world[b] = "done")
    BY <1>2, <1>3, <2>1, <2>3, StageKept
  <2> QED
    BY <2>4, GateStutters
<1>7. CASE RefuseClaim(c)
  <2>1. approval' = [approval EXCEPT ![a] = "expired"] /\ approval[a] = "approved"
    BY <1>1, <1>7 DEF RefuseClaim, CallerFits
  <2>2. StageOf(a) = "allowed"
    BY <2>1 DEF StageOf
  <2> QED
    BY <1>4, <2>1, <2>2
<1>8. CASE SettleWithoutDispatch(c)
  <2>1. /\ approval' = [approval EXCEPT ![a] = "refused"]
        /\ approval[a] = "executing" /\ attempt[a] = "none"
    BY <1>1, <1>8 DEF SettleWithoutDispatch, CallerFits, Claimed, Attempting
  <2>2. StageOf(a) = "allowed"
    BY <2>1 DEF StageOf
  <2> QED
    BY <1>4, <2>1, <2>2
<1>9. ASSUME NEW answer \in {"approved", "rejected"}, NEW remember \in BOOLEAN,
             Decide(c, answer, remember)
      PROVE  Gate!Next
  <2>1. approval[a] = "pending" /\ approval' = [approval EXCEPT ![a] = answer]
    BY <1>1, <1>9 DEF Decide, Decidable
  <2>2. StageOf(a) = "asked"
    BY <2>1 DEF StageOf
  <2>3. CASE answer = "rejected"
    BY <1>4, <2>1, <2>2, <2>3
  <2>4. CASE answer = "approved"
    <3>1. StageOf(a)' = "allowed"
      BY <1>3, <2>1, <2>4 DEF StageOf
    <3>2. \A b \in Actions \ {a} : RowKept(b)
      BY <1>3, <2>1
    <3>3. world'[a] = "done" <=> world[a] = "done"
      BY <1>2
    <3>4. Gate!Allow(a)
      BY <2>2, <3>1, <3>2, <3>3, GateMoves DEF Gate!Allow
    <3> QED
      BY <3>4 DEF Gate!Next
  <2> QED
    BY <2>3, <2>4
<1> QED
  BY <1>5, <1>6, <1>7, <1>8, <1>9

\* The attempt is opened, dispatched, closed and reported.
LEMMA GateExecutes ==
  ASSUME GateInv, NEW c \in Callers,
         StartAttempt(c) \/ Dispatch(c) \/ FinishAttempt(c) \/ SettleApproval(c)
  PROVE  [Gate!Next]_(Gate!gate)
<1>0. TypeOK /\ CallersFit /\ RowsGood
  BY GateInvParts
<1>1. PICK a \in Actions : a = act[c] /\ CallerFits(c) /\ RowGood(a)
  BY <1>0, BusyHasAction
     DEF CallersFit, RowsGood, StartAttempt, Dispatch, FinishAttempt, SettleApproval
<1>2. approval[a] = "executing"
  BY <1>1 DEF CallerFits, Claimed, StartAttempt, Dispatch, FinishAttempt, SettleApproval
<1>3. ASSUME \A b \in Actions \ {a} : RowKept(b), StageOf(a)' = StageOf(a),
             world'[a] = "done" <=> world[a] = "done"
      PROVE  UNCHANGED Gate!gate
  BY <1>3, StageKept, GateStutters
<1>4. CASE StartAttempt(c)
  <2>1. /\ attempt' = [attempt EXCEPT ![a] = "executing"] /\ attempt[a] = "none"
        /\ UNCHANGED <<approval, world>>
    BY <1>1, <1>4 DEF StartAttempt, CallerFits, Claimed, Attempting
  <2>2. attempt'[a] = "executing" /\ \A b \in Actions \ {a} : RowKept(b)
    BY <1>0, <2>1 DEF TypeOK, RowKept
  <2>3. StageOf(a) = "allowed" /\ StageOf(a)' = "acting"
    BY <1>2, <2>1, <2>2 DEF StageOf
  <2>4. Gate!Act(a)
    BY <2>1, <2>2, <2>3, GateMoves DEF Gate!Act
  <2> QED
    BY <2>4 DEF Gate!Next
<1>5. CASE Dispatch(c)
  <2>1. world' = [world EXCEPT ![a] = "inflight"] /\ UNCHANGED <<approval, attempt>>
    BY <1>1, <1>5 DEF Dispatch, rowVars
  <2>2. world'[a] = "inflight" /\ \A b \in Actions \ {a} : RowKept(b)
    BY <1>0, <2>1 DEF TypeOK, RowKept
  <2>3. world[a] = "untouched"
    BY <1>1, <1>5 DEF Dispatch, CallerFits, Claimed, RowGood, RowFits
  <2>4. StageOf(a)' = StageOf(a)
    BY <2>1 DEF StageOf
  <2> QED
    BY <1>3, <2>2, <2>3, <2>4
<1>6. CASE FinishAttempt(c)
  <2>1. /\ attempt' = [attempt EXCEPT ![a] = outcome[c]] /\ outcome[c] \in Outcomes
        /\ attempt[a] = "executing" /\ UNCHANGED <<approval, world>>
    BY <1>1, <1>6 DEF FinishAttempt, CallerFits, histVars
  <2>2. attempt'[a] # "none" /\ \A b \in Actions \ {a} : RowKept(b)
    BY <1>0, <2>1 DEF TypeOK, RowKept, Outcomes
  <2>3. StageOf(a)' = StageOf(a)
    BY <1>2, <2>1, <2>2 DEF StageOf
  <2> QED
    BY <1>3, <2>1, <2>2, <2>3
<1>7. CASE SettleApproval(c)
  <2>1. /\ approval' = [approval EXCEPT ![a] = outcome[c]] /\ outcome[c] \in Outcomes
        /\ outcome[c] = "succeeded" => world[a] = "done"
        /\ outcome[c] = "failed" => world[a] = "threw"
        /\ attempt[a] = outcome[c] /\ UNCHANGED <<attempt, world>>
    BY <1>1, <1>7 DEF SettleApproval, CallerFits, histVars
  <2>2. approval'[a] = outcome[c] /\ \A b \in Actions \ {a} : RowKept(b)
    BY <1>0, <2>1 DEF TypeOK, RowKept
  <2>3. StageOf(a) = "acting"
    BY <1>2, <2>1 DEF StageOf, Outcomes
  <2>4. StageOf(a)' = IF outcome[c] = "succeeded" THEN "done"
                      ELSE IF outcome[c] = "failed" THEN "failed" ELSE "unsure"
    BY <2>1, <2>2 DEF StageOf, Outcomes
  <2>5. /\ outcome[c] = "succeeded" => a \in {b \in Actions : world[b] = "done"}
        /\ outcome[c] = "failed" => a \notin {b \in Actions : world[b] = "done"}
    BY <2>1
  <2>6. Gate!Move(a, {"acting"}, StageOf(a)')
    BY <2>1, <2>2, <2>3, GateMoves
  <2>7. Gate!Report(a)
    BY <2>4, <2>5, <2>6 DEF Gate!Report
  <2> QED
    BY <2>7 DEF Gate!Next
<1> QED
  BY <1>4, <1>5, <1>6, <1>7

\* The request, the sweep and the world outside.
LEMMA GateAround ==
  ASSUME GateInv,
         \/ ExpireDueApprovals \/ \E a \in Actions : CreateAction(a) \/ EffectEnds(a)
  PROVE  [Gate!Next]_(Gate!gate)
<1>0. TypeOK /\ RowsGood
  BY GateInvParts
<1>1. ASSUME NEW a \in Actions, CreateAction(a) PROVE Gate!Next
  <2>1. /\ approval[a] = "absent" /\ approval' = [approval EXCEPT ![a] = "pending"]
        /\ UNCHANGED <<attempt, world>>
    BY <1>1 DEF CreateAction
  <2>2. approval'[a] = "pending" /\ \A b \in Actions \ {a} : RowKept(b)
    BY <1>0, <2>1 DEF TypeOK, RowKept
  <2>3. StageOf(a) = "unasked" /\ StageOf(a)' = "asked"
    BY <2>1, <2>2 DEF StageOf
  <2>4. Gate!Ask(a)
    BY <2>1, <2>2, <2>3, GateMoves DEF Gate!Ask
  <2> QED
    BY <2>4 DEF Gate!Next
<1>2. ASSUME NEW a \in Actions, EffectEnds(a) PROVE [Gate!Next]_(Gate!gate)
  <2>1. PICK w \in {"done", "threw"} : world' = [world EXCEPT ![a] = w]
    BY <1>2 DEF EffectEnds
  <2>2. world[a] = "inflight" /\ UNCHANGED <<approval, attempt>>
    BY <1>2 DEF EffectEnds, rowVars
  <2>3. world'[a] = w /\ \A b \in Actions \ {a} : world'[b] = world[b]
    BY <1>0, <2>1 DEF TypeOK
  <2>4. \A b \in Actions : StageOf(b)' = StageOf(b)
    BY <2>2 DEF StageOf
  <2>5. CASE w = "threw"
    BY <2>2, <2>3, <2>4, <2>5, GateStutters
  <2>6. CASE w = "done"
    <3>1. approval[a] \in {"executing", "unknown"} /\ attempt[a] # "none"
      BY <1>0, <2>2 DEF RowsGood, RowGood, Outcomes
    <3>2. [b \in Actions |-> StageOf(b)][a] \in {"acting", "unsure"}
      BY <3>1 DEF StageOf
    <3>3. a \notin {b \in Actions : world[b] = "done"}
      BY <2>2
    <3>4. {b \in Actions : world[b] = "done"}' = {b \in Actions : world[b] = "done"} \cup {a}
      BY <2>3, <2>6
    <3>5. [b \in Actions |-> StageOf(b)]' = [b \in Actions |-> StageOf(b)]
      BY <2>4
    <3>6. Gate!Land(a)
      BY <3>2, <3>3, <3>4, <3>5 DEF Gate!Land
    <3> QED
      BY <3>6 DEF Gate!Next
  <2> QED
    BY <2>5, <2>6
<1>3. CASE ExpireDueApprovals
  <2> DEFINE S == {a \in late : approval[a] = "pending"}
  <2>1. /\ approval' = [a \in Actions |->
              IF a \in late /\ approval[a] = "pending" THEN "expired" ELSE approval[a]]
        /\ UNCHANGED <<attempt, world>>
    BY <1>3 DEF ExpireDueApprovals, histVars
  <2>2. S \subseteq Actions
    BY <1>0 DEF TypeOK
  <2>3. \A a \in S : [b \in Actions |-> StageOf(b)][a] = "asked"
    BY <2>2 DEF StageOf
  <2>4. ASSUME NEW b \in Actions PROVE StageOf(b)' = IF b \in S THEN "refused" ELSE StageOf(b)
    <3>1. CASE b \in S
      <4>1. approval'[b] = "expired"
        BY <2>1, <3>1
      <4> QED
        BY <3>1, <4>1 DEF StageOf
    <3>2. CASE b \notin S
      <4>1. RowKept(b)
        BY <2>1, <3>2 DEF RowKept
      <4> QED
        BY <3>2, <4>1, StageKept
    <3> QED
      BY <3>1, <3>2
  <2> HIDE DEF S
  <2>5. [b \in Actions |-> StageOf(b)]' = [a \in Actions |-> IF a \in S THEN "refused" ELSE [b \in Actions |-> StageOf(b)][a]]
    BY <2>4
  <2>6. {b \in Actions : world[b] = "done"}' = {b \in Actions : world[b] = "done"}
    BY <2>1
  <2>7. Gate!Lapse(S)
    BY <2>3, <2>5, <2>6 DEF Gate!Lapse
  <2> QED
    BY <2>2, <2>7 DEF Gate!Next
<1> QED
  BY <1>1, <1>2, <1>3

\* Every step is a step of the gate or hidden from it.
LEMMA GateStep ==
  ASSUME GateInv, [Next]_vars
  PROVE  [Gate!Next]_(Gate!gate)
<1>0. TypeOK
  BY GateInvParts
<1>1. CASE UNCHANGED <<approval, attempt, world>>
  BY <1>0, <1>1, HiddenSteps
<1>2. CASE Around
  BY <1>1, <1>2, GateAround
     DEF Around, GrantToolPermission, RevokeToolPermission, Expire, rowVars
<1>3. ASSUME NEW a \in Actions, RunStep(a) PROVE [Gate!Next]_(Gate!gate)
  BY <1>1, <1>3, GateAround
     DEF RunStep, SuspendJob, JobMovesOn, AskOwner, UseStanding, rowVars
<1>4. ASSUME NEW c \in Callers, CallerStep(c) PROVE [Gate!Next]_(Gate!gate)
  <2>1. CASE DecideRefused(c) \/ CheckPermission(c) \/ Wake(c) \/ \E same \in BOOLEAN : Recheck(c, same)
    BY <1>1, <2>1 DEF DecideRefused, CheckPermission, Wake, Recheck, rowVars
  <2>2. CASE CancelledFirst(c) \/ Answered(c) \/ Deadline(c)
    BY <1>1, <2>2 DEF CancelledFirst, Answered, Deadline, Resolve, rowVars
  <2> QED
    BY <1>4, <2>1, <2>2, GateDecides, GateExecutes DEF CallerStep
<1>5. ASSUME NEW c \in Callers, ReadClock(c) \/ Crash(c) \/ \E a \in Actions : Tap(c, a)
      PROVE  [Gate!Next]_(Gate!gate)
  BY <1>1, <1>5 DEF ReadClock, Crash, Tap, rowVars
<1>6. CASE UNCHANGED vars
  BY <1>1, <1>6 DEF vars, rowVars
<1> QED
  BY <1>2, <1>3, <1>4, <1>5, <1>6 DEF Next, Steady

\* The gate begins as the machinery does.
LEMMA GateInit == Init => Gate!Init
<1> SUFFICES ASSUME Init PROVE Gate!Init
  OBVIOUS
<1>1. \A a \in Actions : StageOf(a) = "unasked" /\ world[a] # "done"
  BY DEF Init, StageOf
<1> QED
  BY <1>1 DEF Gate!Init

\* Every behaviour of surfaces, executor, sweep, permissions and crashes is one of the
\* abstract gate's, with the record and the effect as its only state.
THEOREM GateIsImplemented == Spec => ImplementsGate
<1>1. Init => Gate!Init
  BY GateInit
<1>2. GateInv /\ [Next]_vars => [Gate!Next]_(Gate!gate)
  BY GateStep
<1> QED
  BY <1>1, <1>2, GateInvariant, PTL DEF Spec, ImplementsGate, Gate!Spec
=============================================================================
