------------------------ MODULE NotificationsProofs ------------------------
(***************************************************************************)
(* What holds of the record of what the owner is told for any number of    *)
(* rows, calls, loops and switches of the focus, and any messages: nobody  *)
(* is told twice what was written once, a focus is respected, and the      *)
(* statements implement MessageLife.                                       *)
(***************************************************************************)
EXTENDS Notifications, TLAPS

\* The steps, in four groups.
CallStep ==
  \E c \in Callers : LookUp(c) \/ FoldInto(c) \/ Update(c) \/ Insert(c) \/ \E m \in Messages : Call(c, m)
SettlingStep ==
  \/ \E t \in Ticks : Tick(t) \/ Escalate(t) \/ ClearDay(t) \/ CloseDay(t)
  \/ \E p \in Setters, m \in FocusModes : SetFocus(p, m)
  \/ \E p \in Settlers : Hold(p) \/ Clear(p) \/ Release(p)
SendStep == \E p \in Procs : Deliver(p) \/ Settle(p) \/ Refuse(p) \/ TurnOff(p)
WorldStep ==
  \/ \E r \in Rows : DueElapses(r) \/ See(r) \/ Act(r)
  \/ \E m \in FocusModes : FocusTurns(m)
  \/ \E p \in Procs : Die(p)

-----------------------------------------------------------------------------
(* Where a message goes                                                    *)

\* No focus holds a question.
LEMMA QuestionsPass ==
  ASSUME NEW m \in FocusModes
  PROVE  "question" \notin HeldKinds(m)
BY NotifyAssumption DEF HeldKinds, Modes

\* What route may give: the urgency fits the state, a question goes, and what is sent is not held.
LEMMA RouteFits ==
  ASSUME NEW m \in Messages, NEW md \in FocusModes, NEW put \in Route(m, md)
  PROVE  /\ m.kind \in Kinds
         /\ put.state \in {"shown", "held", "stored", "sending"}
         /\ put.urgency \in Urgencies /\ put.byFocus \in BOOLEAN
         /\ put.state = "shown" => put.urgency = "now"
         /\ put.byFocus => put.state = "held" /\ put.urgency = "now"
         /\ put.state = "held" /\ ~put.byFocus => put.urgency = "today"
         /\ m.kind = "question" => put.state \in {"shown", "sending"} /\ ~m.keyed
         /\ put.state = "sending" => m.kind \notin HeldKinds(md)
<1>1. m \in [kind : Kinds, urgency : Urgencies, keyed : BOOLEAN]
  BY NotifyAssumption
<1>2. m.kind = "question" => m.urgency = "now" /\ ~m.keyed /\ m.kind \notin HeldKinds(md)
  BY NotifyAssumption, QuestionsPass
<1>3. Lowered(m) \subseteq Urgencies /\ (m.kind = "question" => Lowered(m) = {"now"})
  BY <1>1, <1>2 DEF Lowered, Urgencies
<1>4. PICK u \in Lowered(m) :
        put \in (IF m.kind = "question" THEN {} ELSE {Put("stored", u, FALSE)}) \cup
          CASE u = "digest" -> {Put("stored", u, FALSE)}
            [] u = "today" -> {Put("held", u, FALSE)}
            [] u = "now" ->
                 {Put("shown", u, FALSE),
                  IF m.kind \in HeldKinds(md) THEN Put("held", u, TRUE) ELSE Put("sending", u, FALSE)}
  BY DEF Route
<1>5. u \in Urgencies /\ (m.kind = "question" => u = "now")
  BY <1>3
<1>6. \/ put = Put("stored", u, FALSE) /\ m.kind # "question"
      \/ put = Put("held", u, FALSE) /\ u = "today"
      \/ put = Put("shown", u, FALSE) /\ u = "now"
      \/ put = Put("held", u, TRUE) /\ u = "now" /\ m.kind \in HeldKinds(md)
      \/ put = Put("sending", u, FALSE) /\ u = "now" /\ m.kind \notin HeldKinds(md)
  <2>1. CASE u = "digest"
    BY <1>4, <1>5, <2>1
  <2>2. CASE u = "today"
    BY <1>4, <2>2
  <2>3. CASE u = "now"
    BY <1>4, <2>3
  <2> QED
    BY <1>5, <2>1, <2>2, <2>3 DEF Urgencies
<1>7. \/ put.state = "stored" /\ put.urgency = u /\ put.byFocus = FALSE /\ m.kind # "question"
      \/ put.state = "held" /\ put.urgency = u /\ put.byFocus = FALSE /\ u = "today"
      \/ put.state = "shown" /\ put.urgency = u /\ put.byFocus = FALSE /\ u = "now"
      \/ /\ put.state = "held" /\ put.urgency = u /\ put.byFocus = TRUE /\ u = "now"
         /\ m.kind \in HeldKinds(md)
      \/ /\ put.state = "sending" /\ put.urgency = u /\ put.byFocus = FALSE /\ u = "now"
         /\ m.kind \notin HeldKinds(md)
  BY <1>6 DEF Put
<1>8. m.kind \in Kinds
  BY <1>1
<1> QED
  BY <1>2, <1>5, <1>7, <1>8

\* What notifyOwner writes is well typed,
LEMMA WrittenType ==
  ASSUME TypeOK, NEW c \in Callers, NEW r \in Rows, NEW put \in Route(msg[c], mode[c]),
         msg[c] \in Messages, Written(c, r, put)
  PROVE  /\ state' \in [Rows -> RowState] /\ urgency' \in [Rows -> Urgencies \cup {None}]
         /\ focused' \subseteq Rows /\ due' \subseteq Rows /\ seen' \subseteq Rows
         /\ at' \in [Procs -> At] /\ mode' \in [Procs -> FocusModes]
         /\ ripe' \in [Settlers -> SUBSET Rows] /\ raced' \in [Settlers -> SUBSET Rows]
         /\ hand' \in [Procs -> SUBSET Rows] /\ msg' \in [Callers -> Messages \cup {None}]
         /\ keeps' \in [Callers -> Keeps] /\ taken' \in [Rows -> Nat]
<1>1. c \in Procs /\ mode[c] \in FocusModes
  BY DEF TypeOK, Procs
<1>2. put.state \in RowState /\ put.urgency \in Urgencies
  BY <1>1, RouteFits DEF RowState
<1>3. state' \in [Rows -> RowState] /\ urgency' \in [Rows -> Urgencies \cup {None}]
  BY <1>2 DEF TypeOK, Written
<1>4. focused' \subseteq Rows /\ seen' \subseteq Rows /\ hand' \in [Procs -> SUBSET Rows]
  BY DEF TypeOK, Written
<1>5. /\ due' \subseteq Rows /\ ripe' \in [Settlers -> SUBSET Rows] /\ raced' \in [Settlers -> SUBSET Rows]
  <2>1. CASE put.state = "shown" /\ keeps[c] # "no" /\ keeps[c] = "same" /\ found[c] = r
    BY <2>1 DEF TypeOK, Written, Restored
  <2>2. CASE put.state = "shown" /\ keeps[c] # "no" /\ ~(keeps[c] = "same" /\ found[c] = r)
    <3>1. Restored(c, r)
      BY <2>2 DEF Written
    <3>2. PICK over \in BOOLEAN, S \in SUBSET {p \in Settlers : at[p] \in Looking(p)} :
            /\ due' = IF over THEN due \cup {r} ELSE due
            /\ ripe' = [p \in Settlers |-> IF p \in S THEN ripe[p] \cup {r} ELSE ripe[p]]
            /\ raced' = [p \in Settlers |-> IF r \in ripe'[p] THEN raced[p] \cup {r} ELSE raced[p]]
      BY <2>2, <3>1 DEF Restored
    <3> QED
      BY <3>2 DEF TypeOK
  <2>3. CASE ~(put.state = "shown" /\ keeps[c] # "no")
    BY <2>3 DEF TypeOK, Written, Redated
  <2> QED
    BY <2>1, <2>2, <2>3
<1>6. at' \in [Procs -> At] /\ mode' \in [Procs -> FocusModes] /\ msg' \in [Callers -> Messages \cup {None}]
  BY NotifyAssumption DEF TypeOK, Written, Said, At
<1>7. keeps' \in [Callers -> Keeps] /\ taken' \in [Rows -> Nat]
  BY DEF TypeOK, Written, Keeps
<1> QED
  BY <1>3, <1>4, <1>5, <1>6, <1>7

\* and what a loop or a switch looks for stays as it was, but for the row written: that is not
\* ripe for it any more, came back under it, or was as unseen before.
LEMMA WrittenClock ==
  ASSUME TypeOK, NEW c \in Callers, NEW r \in Rows, NEW put, Written(c, r, put)
  PROVE  /\ \A x \in Rows \ {r} : /\ x \in seen' <=> x \in seen
                                  /\ x \in due' <=> x \in due
                                  /\ state'[x] = state[x]
         /\ \A p \in Settlers :
              /\ ripe[p] \subseteq due => ripe'[p] \subseteq due'
              /\ \A x \in Rows \ {r} : (x \in ripe'[p] <=> x \in ripe[p]) /\ (x \in raced'[p] <=> x \in raced[p])
              /\ r \in ripe'[p] => r \in raced'[p] \/ (r \in ripe[p] \ (seen \cup raced[p]) /\ keeps[c] = "same" /\ found[c] = r)
<1>1. \A x \in Rows \ {r} : (x \in seen' <=> x \in seen) /\ state'[x] = state[x]
  BY DEF TypeOK, Written
<1>2. CASE put.state = "shown" /\ keeps[c] # "no" /\ keeps[c] = "same" /\ found[c] = r
  BY <1>1, <1>2 DEF TypeOK, Written, Restored
<1>3. CASE put.state = "shown" /\ keeps[c] # "no" /\ ~(keeps[c] = "same" /\ found[c] = r)
  <2>1. Restored(c, r)
    BY <1>3 DEF Written
  <2>2. PICK over \in BOOLEAN, S \in SUBSET {p \in Settlers : at[p] \in Looking(p)} :
          /\ S # {} => over
          /\ due' = IF over THEN due \cup {r} ELSE due
          /\ ripe' = [p \in Settlers |-> IF p \in S THEN ripe[p] \cup {r} ELSE ripe[p]]
          /\ raced' = [p \in Settlers |-> IF r \in ripe'[p] THEN raced[p] \cup {r} ELSE raced[p]]
    BY <1>3, <2>1 DEF Restored
  <2> QED
    BY <1>1, <2>2 DEF TypeOK
<1>4. CASE ~(put.state = "shown" /\ keeps[c] # "no")
  BY <1>1, <1>4 DEF TypeOK, Written, Redated
<1> QED
  BY <1>2, <1>3, <1>4

-----------------------------------------------------------------------------
(* The invariant                                                           *)

\* It holds at the start.
LEMMA InitInv == Init => NotifyInv
<1> SUFFICES ASSUME Init PROVE NotifyInv
  OBVIOUS
<1>1. TypeOK
  BY NotifyAssumption DEF Init, TypeOK, RowState, At, Keeps, Procs, Settlers, Modes
<1>2. \A r \in Rows : RowFits(r)
  BY NotifyAssumption DEF Init, RowFits, Kinds
<1>3. \A c \in Callers : CallerFits(c)
  BY NotifyAssumption DEF Init, CallerFits, Procs
<1>4. \A p \in Settlers : SettlerFits(p)
  BY DEF Init, SettlerFits, Procs
<1>5. \A p \in Procs : HandFits(p)
  BY DEF Init, HandFits, Ready
<1> QED
  BY <1>1, <1>2, <1>3, <1>4, <1>5 DEF NotifyInv


\* Who writes a row had nothing in hand, and nobody else has that row.
LEMMA WrittenHands ==
  ASSUME NotifyInv, NEW c \in Callers, NEW r \in Rows, NEW put, at[c] = "write", state[r] # "sending",
         Written(c, r, put), carry' = carry
  PROVE  \A x \in Procs : HandFits(x)'
<1>1. c \in Procs /\ Ready(c)
  BY DEF Procs, NotifyInv, HandFits
<1>2. /\ at' = [at EXCEPT ![c] = "idle"] /\ taken' = [taken EXCEPT ![r] = 0]
      /\ hand' = [hand EXCEPT ![c] = IF put.state = "sending" THEN {r} ELSE {}]
      /\ state' = [state EXCEPT ![r] = put.state]
  BY DEF Written, Said
<1>3. \A p \in Procs : r \notin hand[p] /\ r \notin carry[p]
  BY DEF NotifyInv, HandFits
<1>4. \A p \in Procs : carry'[p] \subseteq hand'[p]
  BY <1>1, <1>2 DEF NotifyInv, TypeOK, HandFits, Ready
<1>5. ASSUME NEW p \in Procs, at'[p] \in {"lookUp", "write", "hold", "clear", "release", "closeDay"}
      PROVE  Ready(p)'
  BY <1>1, <1>2, <1>5 DEF NotifyInv, TypeOK, HandFits, Ready
<1>6. ASSUME NEW p \in Procs, NEW x \in hand'[p]
      PROVE  state'[x] = "sending" /\ (x \in carry'[p] <=> taken'[x] # 0)
  <2>1. CASE x = r
    BY <1>1, <1>2, <1>3, <1>6, <2>1 DEF NotifyInv, TypeOK
  <2>2. CASE x # r
    <3>1. x \in hand[p] /\ x \in Rows
      BY <1>1, <1>2, <1>6, <2>2 DEF NotifyInv, TypeOK
    <3> QED
      BY <1>2, <2>2, <3>1 DEF NotifyInv, TypeOK, HandFits
  <2> QED
    BY <2>1, <2>2
<1>7. ASSUME NEW p \in Procs, NEW q \in Procs \ {p} PROVE hand'[p] \cap hand'[q] = {}
  BY <1>1, <1>2, <1>3 DEF NotifyInv, TypeOK, HandFits
<1> QED
  BY <1>4, <1>5, <1>6, <1>7 DEF HandFits


\* A call keeps it,
LEMMA CallerKeeps ==
  ASSUME NotifyInv, CallStep
  PROVE  NotifyInv'
<1>1. ASSUME NEW c \in Callers, NEW m \in Messages, Call(c, m) PROVE NotifyInv'
  <2>1. TypeOK'
    BY NotifyAssumption, <1>1 DEF Kinds, Urgencies, Modes, At, RowState, Keeps, Unsent, TypeOK, NotifyInv, RowFits, CallerFits, SettlerFits, HandFits, Settlers, Procs, Ready, Call, rowVars, ownVars, sendVars, callVars, histVars
  <2>2. \A x \in Rows : RowFits(x)'
    BY NotifyAssumption, <1>1 DEF TypeOK, NotifyInv, RowFits, CallerFits, SettlerFits, HandFits, Settlers, Procs, Ready, Unsent, Urgencies, Call, rowVars, ownVars, sendVars, callVars, histVars
  <2>3. \A x \in Callers : CallerFits(x)'
    BY NotifyAssumption, <1>1 DEF TypeOK, NotifyInv, RowFits, CallerFits, SettlerFits, HandFits, Settlers, Procs, Ready, Unsent, Call, rowVars, ownVars, sendVars, callVars, histVars
  <2>4. \A x \in Settlers : SettlerFits(x)'
    BY NotifyAssumption, <1>1 DEF TypeOK, NotifyInv, RowFits, CallerFits, SettlerFits, HandFits, Settlers, Procs, Ready, Unseen, Unsent, Call, rowVars, ownVars, sendVars, callVars, histVars
  <2>5. \A x \in Procs : HandFits(x)'
    BY NotifyAssumption, <1>1 DEF TypeOK, NotifyInv, RowFits, CallerFits, SettlerFits, HandFits, Settlers, Procs, Ready, Unsent, Call, rowVars, ownVars, sendVars, callVars, histVars
  <2> QED
    BY <2>1, <2>2, <2>3, <2>4, <2>5 DEF NotifyInv
<1>2. ASSUME NEW c \in Callers, LookUp(c) PROVE NotifyInv'
  <2>1. TypeOK'
    <3>2. found' \in [Callers -> Rows \cup {None, Gone}] /\ keeps' \in [Callers -> Keeps]
      BY <1>2 DEF LookUp, NotifyInv, TypeOK, Keeps
    <3>3. at' \in [Procs -> At]
      BY <1>2 DEF LookUp, NotifyInv, TypeOK, At
    <3> QED
      BY <1>2, <3>2, <3>3 DEF LookUp, NotifyInv, TypeOK, rowVars, ownVars, sendVars, histVars
  <2>2. \A x \in Rows : RowFits(x)'
    BY NotifyAssumption, <1>2 DEF TypeOK, NotifyInv, RowFits, CallerFits, SettlerFits, HandFits, Settlers, Procs, Ready, Unsent, Urgencies, LookUp, Unseen, rowVars, ownVars, sendVars, callVars, histVars
  <2>3. \A x \in Callers : CallerFits(x)'
    <3>1. c \in Procs /\ at[c] = "lookUp" /\ at' = [at EXCEPT ![c] = "write"] /\ state' = state /\ keyed' = keyed /\ msg' = msg
      BY <1>2 DEF LookUp, Procs, rowVars
    <3>2. msg[c] # None /\ found[c] = None /\ keeps[c] = "no"
      BY <3>1 DEF NotifyInv, CallerFits
    <3>3. msg[c].keyed
      BY <3>1 DEF NotifyInv, CallerFits
    <3>4. CASE \E r \in keyed : /\ state[r] \in Unsent
                             /\ found' = [found EXCEPT ![c] = r]
                             /\ keeps' = [keeps EXCEPT ![c] = IF Unseen(r) THEN "same" ELSE "no"]
      BY NotifyAssumption, <3>1, <3>2, <3>3, <3>4 DEF NotifyInv, TypeOK, CallerFits, Unseen, Procs
    <3>5. CASE UNCHANGED <<found, keeps>>
      BY <3>1, <3>2, <3>5 DEF NotifyInv, TypeOK, CallerFits, Procs
    <3> QED
      BY <1>2, <3>4, <3>5 DEF LookUp
  <2>4. \A x \in Settlers : SettlerFits(x)'
    BY NotifyAssumption, <1>2 DEF TypeOK, NotifyInv, RowFits, CallerFits, SettlerFits, HandFits, Settlers, Procs, Ready, Unseen, Unsent, LookUp, rowVars, ownVars, sendVars, callVars, histVars
  <2>5. \A x \in Procs : HandFits(x)'
    BY NotifyAssumption, <1>2 DEF TypeOK, NotifyInv, RowFits, CallerFits, SettlerFits, HandFits, Settlers, Procs, Ready, Unsent, LookUp, Unseen, rowVars, ownVars, sendVars, callVars, histVars
  <2> QED
    BY <2>1, <2>2, <2>3, <2>4, <2>5 DEF NotifyInv
<1>3. ASSUME NEW c \in Callers, FoldInto(c) PROVE NotifyInv'
  <2>1. TypeOK'
    BY NotifyAssumption, <1>3 DEF Kinds, Urgencies, Modes, At, RowState, Keeps, Unsent, TypeOK, NotifyInv, RowFits, CallerFits, SettlerFits, HandFits, Settlers, Procs, Ready, FoldInto, Said, rowVars, ownVars, sendVars, callVars, histVars
  <2>2. \A x \in Rows : RowFits(x)'
    BY NotifyAssumption, <1>3 DEF TypeOK, NotifyInv, RowFits, CallerFits, SettlerFits, HandFits, Settlers, Procs, Ready, Unsent, Urgencies, FoldInto, Said, rowVars, ownVars, sendVars, callVars, histVars
  <2>3. \A x \in Callers : CallerFits(x)'
    BY NotifyAssumption, <1>3 DEF TypeOK, NotifyInv, RowFits, CallerFits, SettlerFits, HandFits, Settlers, Procs, Ready, Unsent, FoldInto, Said, rowVars, ownVars, sendVars, callVars, histVars
  <2>4. \A x \in Settlers : SettlerFits(x)'
    BY NotifyAssumption, <1>3 DEF TypeOK, NotifyInv, RowFits, CallerFits, SettlerFits, HandFits, Settlers, Procs, Ready, Unseen, Unsent, FoldInto, Said, rowVars, ownVars, sendVars, callVars, histVars
  <2>5. \A x \in Procs : HandFits(x)'
    BY NotifyAssumption, <1>3 DEF TypeOK, NotifyInv, RowFits, CallerFits, SettlerFits, HandFits, Settlers, Procs, Ready, Unsent, FoldInto, Said, rowVars, ownVars, sendVars, callVars, histVars
  <2> QED
    BY <2>1, <2>2, <2>3, <2>4, <2>5 DEF NotifyInv
<1>4. ASSUME NEW c \in Callers, Update(c) PROVE NotifyInv'
  <2>1. TypeOK'
    <3>1. msg[c] \in Messages
      BY <1>4 DEF Update, NotifyInv, TypeOK, CallerFits
    <3>2. PICK r \in Rows, put \in Route(msg[c], mode[c]) : Written(c, r, put)
      BY <1>4 DEF Update
    <3> QED
      BY <1>4, <3>1, <3>2, WrittenType DEF Update, NotifyInv, TypeOK
  <2>2. \A x \in Rows : RowFits(x)'
    BY NotifyAssumption, <1>4, RouteFits DEF TypeOK, NotifyInv, RowFits, CallerFits, SettlerFits, HandFits, Settlers, Procs, Ready, Unsent, Urgencies, Update, Written, Said, Redated, Restored, Looking, Over, Unseen, rowVars, ownVars, sendVars, callVars, histVars
  <2>3. \A x \in Callers : CallerFits(x)'
    BY NotifyAssumption, <1>4, RouteFits DEF TypeOK, NotifyInv, RowFits, CallerFits, SettlerFits, HandFits, Settlers, Procs, Ready, Unsent, Update, Written, Said, Redated, Restored, Looking, Over, Unseen, rowVars, ownVars, sendVars, callVars, histVars
  <2>4. \A x \in Settlers : SettlerFits(x)'
    <3>1. PICK r \in Rows, put \in Route(msg[c], mode[c]) : Written(c, r, put)
      BY <1>4 DEF Update
    <3>2. \A p \in Settlers : at'[p] = at[p] /\ mode'[p] = mode[p]
      BY NotifyAssumption, <3>1 DEF Written, Said, Settlers, NotifyInv, TypeOK, Procs
    <3>3. kind' = kind /\ acted' = acted
      BY <1>4 DEF Update
    <3>4. ASSUME NEW p \in Settlers PROVE SettlerFits(p)'
      <4>1. SettlerFits(p) /\ ripe'[p] \subseteq due'
        BY <3>1, WrittenClock DEF NotifyInv, SettlerFits
      <4>2. ASSUME NEW x \in ripe'[p] \ raced'[p], Unseen(x)' PROVE x \in ripe[p] \ raced[p] /\ Unseen(x)
        <5>1. x \in Rows
          BY <2>1, <4>2 DEF TypeOK
        <5>2. CASE x # r
          <6>1. state'[x] = state[x] /\ (x \in seen' <=> x \in seen)
            BY <3>1, <5>1, <5>2, WrittenClock DEF NotifyInv
          <6>2. (x \in ripe'[p] <=> x \in ripe[p]) /\ (x \in raced'[p] <=> x \in raced[p])
            BY <3>1, <5>1, <5>2, WrittenClock DEF NotifyInv
          <6> QED
            BY <3>3, <4>2, <6>1, <6>2 DEF Unseen
        <5>3. CASE x = r
          <6>1. r \in ripe[p] \ (seen \cup raced[p]) /\ keeps[c] = "same" /\ found[c] = r
            BY <3>1, <4>2, <5>3, WrittenClock DEF NotifyInv
          <6>2. state[r] = "shown"
            BY <6>1 DEF NotifyInv, CallerFits
          <6> QED
            BY <3>3, <4>2, <5>3, <6>1, <6>2 DEF Unseen
        <5> QED
          BY <5>2, <5>3
      <4> QED
        BY <3>2, <3>3, <4>1, <4>2 DEF SettlerFits
    <3> QED
      BY <3>4
  <2>5. \A x \in Procs : HandFits(x)'
    <3>1. PICK r \in Rows, put \in Route(msg[c], mode[c]) : state[r] \in Unsent /\ Written(c, r, put)
      BY <1>4 DEF Update
    <3> QED
      BY <1>4, <3>1, WrittenHands DEF Update, Unsent
  <2> QED
    BY <2>1, <2>2, <2>3, <2>4, <2>5 DEF NotifyInv
<1>5. ASSUME NEW c \in Callers, Insert(c) PROVE NotifyInv'
  <2>1. TypeOK'
    <3>1. msg[c] \in Messages
      BY <1>5 DEF Insert, NotifyInv, TypeOK, CallerFits
    <3>2. msg[c].kind \in Kinds
      BY <3>1, NotifyAssumption
    <3>3. PICK r \in Rows, put \in Route(msg[c], mode[c]) :
            /\ Written(c, r, put)
            /\ kind' = [kind EXCEPT ![r] = msg[c].kind]
            /\ keyed' = IF msg[c].keyed THEN keyed \cup {r} ELSE keyed \ {r}
            /\ found' = [k \in Callers |-> IF k = c THEN None ELSE IF found[k] = r THEN Gone ELSE found[k]]
            /\ acted' = acted \ {r}
      BY <1>5 DEF Insert
    <3>4. kind' \in [Rows -> Kinds \cup {None}] /\ keyed' \subseteq Rows /\ acted' \subseteq Rows
      BY <3>2, <3>3 DEF NotifyInv, TypeOK
    <3>5. found' \in [Callers -> Rows \cup {None, Gone}]
      BY <3>3 DEF NotifyInv, TypeOK
    <3> QED
      BY <1>5, <3>1, <3>3, <3>4, <3>5, WrittenType DEF Insert, NotifyInv, TypeOK
  <2>2. \A x \in Rows : RowFits(x)'
    BY NotifyAssumption, <1>5, RouteFits DEF TypeOK, NotifyInv, RowFits, CallerFits, SettlerFits, HandFits, Settlers, Procs, Ready, Unsent, Urgencies, Insert, Written, Said, Redated, Restored, Looking, Over, Unseen, rowVars, ownVars, sendVars, callVars, histVars
  <2>3. \A x \in Callers : CallerFits(x)'
    BY NotifyAssumption, <1>5, RouteFits DEF TypeOK, NotifyInv, RowFits, CallerFits, SettlerFits, HandFits, Settlers, Procs, Ready, Unsent, Insert, Written, Said, Redated, Restored, Looking, Over, Unseen, rowVars, ownVars, sendVars, callVars, histVars
  <2>4. \A x \in Settlers : SettlerFits(x)'
    <3>1. PICK r \in Rows, put \in Route(msg[c], mode[c]) :
            /\ Over(r) /\ Written(c, r, put)
            /\ kind' = [kind EXCEPT ![r] = msg[c].kind]
            /\ acted' = acted \ {r}
      BY <1>5 DEF Insert
    <3>2. state[r] # "shown" /\ \A p \in Settlers : p # c /\ at'[p] = at[p] /\ mode'[p] = mode[p]
      BY NotifyAssumption, <3>1 DEF Over, Written, Said, Settlers, NotifyInv, TypeOK, Procs
    <3>3. ~(keeps[c] = "same" /\ found[c] = r)
      BY <3>2 DEF NotifyInv, CallerFits
    <3>4. \A x \in Rows \ {r} : kind'[x] = kind[x] /\ (x \in acted' <=> x \in acted)
      BY <3>1 DEF NotifyInv, TypeOK
    <3>5. ASSUME NEW p \in Settlers PROVE SettlerFits(p)'
      <4>1. ripe'[p] \subseteq due'
        BY <3>1, WrittenClock DEF NotifyInv, SettlerFits
      <4>2. \A x \in ripe'[p] \ raced'[p] : x # r
        BY <3>1, <3>3, WrittenClock DEF NotifyInv
      <4>3. \A x \in ripe'[p] \ raced'[p] : x \in ripe[p] \ raced[p] /\ (Unseen(x)' => Unseen(x))
        BY <3>1, <3>4, <4>1, <4>2, WrittenClock, <2>1 DEF NotifyInv, TypeOK, Unseen
      <4>4. \A x \in ripe'[p] \ raced'[p] : kind'[x] = kind[x]
        BY <3>4, <4>2, <2>1 DEF TypeOK
      <4> QED
        BY <3>2, <4>1, <4>3, <4>4 DEF NotifyInv, SettlerFits
    <3> QED
      BY <3>5
  <2>5. \A x \in Procs : HandFits(x)'
    <3>1. PICK r \in Rows, put \in Route(msg[c], mode[c]) : Over(r) /\ Written(c, r, put)
      BY <1>5 DEF Insert
    <3> QED
      BY <1>5, <3>1, WrittenHands DEF Insert, Over
  <2> QED
    BY <2>1, <2>2, <2>3, <2>4, <2>5 DEF NotifyInv
<1> QED
  BY <1>1, <1>2, <1>3, <1>4, <1>5 DEF CallStep

\* so does what the clock and the owner's switch do,
LEMMA SettlerKeeps ==
  ASSUME NotifyInv, SettlingStep
  PROVE  NotifyInv'
<1>1. ASSUME NEW t \in Ticks, Tick(t) PROVE NotifyInv'
  <2>1. TypeOK'
    BY NotifyAssumption, <1>1 DEF Kinds, Urgencies, Modes, At, RowState, Keeps, Unsent, TypeOK, NotifyInv, RowFits, CallerFits, SettlerFits, HandFits, Settlers, Procs, Ready, Tick, rowVars, ownVars, sendVars, callVars, histVars
  <2>2. \A x \in Rows : RowFits(x)'
    BY NotifyAssumption, <1>1 DEF TypeOK, NotifyInv, RowFits, CallerFits, SettlerFits, HandFits, Settlers, Procs, Ready, Unsent, Urgencies, Tick, rowVars, ownVars, sendVars, callVars, histVars
  <2>3. \A x \in Callers : CallerFits(x)'
    BY NotifyAssumption, <1>1 DEF TypeOK, NotifyInv, RowFits, CallerFits, SettlerFits, HandFits, Settlers, Procs, Ready, Unsent, Tick, rowVars, ownVars, sendVars, callVars, histVars
  <2>4. \A x \in Settlers : SettlerFits(x)'
    BY NotifyAssumption, <1>1 DEF TypeOK, NotifyInv, RowFits, CallerFits, SettlerFits, HandFits, Settlers, Procs, Ready, Unseen, Unsent, Tick, rowVars, ownVars, sendVars, callVars, histVars
  <2>5. \A x \in Procs : HandFits(x)'
    BY NotifyAssumption, <1>1 DEF TypeOK, NotifyInv, RowFits, CallerFits, SettlerFits, HandFits, Settlers, Procs, Ready, Unsent, Tick, rowVars, ownVars, sendVars, callVars, histVars
  <2> QED
    BY <2>1, <2>2, <2>3, <2>4, <2>5 DEF NotifyInv
<1>2. ASSUME NEW p \in Setters, NEW m \in FocusModes, SetFocus(p, m) PROVE NotifyInv'
  <2>1. TypeOK'
    BY NotifyAssumption, <1>2 DEF Kinds, Urgencies, Modes, At, RowState, Keeps, Unsent, TypeOK, NotifyInv, RowFits, CallerFits, SettlerFits, HandFits, Settlers, Procs, Ready, SetFocus, rowVars, ownVars, sendVars, callVars, histVars
  <2>2. \A x \in Rows : RowFits(x)'
    BY NotifyAssumption, <1>2 DEF TypeOK, NotifyInv, RowFits, CallerFits, SettlerFits, HandFits, Settlers, Procs, Ready, Unsent, Urgencies, SetFocus, rowVars, ownVars, sendVars, callVars, histVars
  <2>3. \A x \in Callers : CallerFits(x)'
    BY NotifyAssumption, <1>2 DEF TypeOK, NotifyInv, RowFits, CallerFits, SettlerFits, HandFits, Settlers, Procs, Ready, Unsent, SetFocus, rowVars, ownVars, sendVars, callVars, histVars
  <2>4. \A x \in Settlers : SettlerFits(x)'
    BY NotifyAssumption, <1>2 DEF TypeOK, NotifyInv, RowFits, CallerFits, SettlerFits, HandFits, Settlers, Procs, Ready, Unseen, Unsent, SetFocus, rowVars, ownVars, sendVars, callVars, histVars
  <2>5. \A x \in Procs : HandFits(x)'
    BY NotifyAssumption, <1>2 DEF TypeOK, NotifyInv, RowFits, CallerFits, SettlerFits, HandFits, Settlers, Procs, Ready, Unsent, SetFocus, rowVars, ownVars, sendVars, callVars, histVars
  <2> QED
    BY <2>1, <2>2, <2>3, <2>4, <2>5 DEF NotifyInv
<1>3. ASSUME NEW p \in Settlers, Hold(p) PROVE NotifyInv'
  <2>1. TypeOK'
    BY NotifyAssumption, <1>3, QuestionsPass DEF Kinds, Urgencies, Modes, At, RowState, Keeps, Unsent, TypeOK, NotifyInv, RowFits, CallerFits, SettlerFits, HandFits, Settlers, Procs, Ready, Hold, Moved, Unseen, rowVars, ownVars, sendVars, callVars, histVars
  <2>2. \A x \in Rows : RowFits(x)'
    BY NotifyAssumption, <1>3, QuestionsPass DEF TypeOK, NotifyInv, RowFits, CallerFits, SettlerFits, HandFits, Settlers, Procs, Ready, Unsent, Urgencies, Hold, Moved, Unseen, rowVars, ownVars, sendVars, callVars, histVars
  <2>3. \A x \in Callers : CallerFits(x)'
    BY NotifyAssumption, <1>3, QuestionsPass DEF TypeOK, NotifyInv, RowFits, CallerFits, SettlerFits, HandFits, Settlers, Procs, Ready, Unsent, Hold, Moved, Unseen, rowVars, ownVars, sendVars, callVars, histVars
  <2>4. \A x \in Settlers : SettlerFits(x)'
    BY NotifyAssumption, <1>3, QuestionsPass DEF TypeOK, NotifyInv, RowFits, CallerFits, SettlerFits, HandFits, Settlers, Procs, Ready, Unseen, Unsent, Hold, Moved, rowVars, ownVars, sendVars, callVars, histVars
  <2>5. \A x \in Procs : HandFits(x)'
    BY NotifyAssumption, <1>3, QuestionsPass DEF TypeOK, NotifyInv, RowFits, CallerFits, SettlerFits, HandFits, Settlers, Procs, Ready, Unsent, Hold, Moved, Unseen, rowVars, ownVars, sendVars, callVars, histVars
  <2> QED
    BY <2>1, <2>2, <2>3, <2>4, <2>5 DEF NotifyInv
<1>4. ASSUME NEW p \in Settlers, Clear(p) PROVE NotifyInv'
  <2>1. TypeOK'
    BY NotifyAssumption, <1>4 DEF Kinds, Urgencies, Modes, At, RowState, Keeps, Unsent, TypeOK, NotifyInv, RowFits, CallerFits, SettlerFits, HandFits, Settlers, Procs, Ready, Clear, Moved, rowVars, ownVars, sendVars, callVars, histVars
  <2>2. \A x \in Rows : RowFits(x)'
    BY NotifyAssumption, <1>4 DEF TypeOK, NotifyInv, RowFits, CallerFits, SettlerFits, HandFits, Settlers, Procs, Ready, Unsent, Urgencies, Clear, Moved, rowVars, ownVars, sendVars, callVars, histVars
  <2>3. \A x \in Callers : CallerFits(x)'
    BY NotifyAssumption, <1>4 DEF TypeOK, NotifyInv, RowFits, CallerFits, SettlerFits, HandFits, Settlers, Procs, Ready, Unsent, Clear, Moved, rowVars, ownVars, sendVars, callVars, histVars
  <2>4. \A x \in Settlers : SettlerFits(x)'
    BY NotifyAssumption, <1>4 DEF TypeOK, NotifyInv, RowFits, CallerFits, SettlerFits, HandFits, Settlers, Procs, Ready, Unseen, Unsent, Clear, Moved, rowVars, ownVars, sendVars, callVars, histVars
  <2>5. \A x \in Procs : HandFits(x)'
    BY NotifyAssumption, <1>4 DEF TypeOK, NotifyInv, RowFits, CallerFits, SettlerFits, HandFits, Settlers, Procs, Ready, Unsent, Clear, Moved, rowVars, ownVars, sendVars, callVars, histVars
  <2> QED
    BY <2>1, <2>2, <2>3, <2>4, <2>5 DEF NotifyInv
<1>5. ASSUME NEW p \in Settlers, Release(p) PROVE NotifyInv'
  <2>1. TypeOK'
    BY NotifyAssumption, <1>5 DEF Kinds, Urgencies, Modes, At, RowState, Keeps, Unsent, TypeOK, NotifyInv, RowFits, CallerFits, SettlerFits, HandFits, Settlers, Procs, Ready, Release, Moved, Claimed, rowVars, ownVars, sendVars, callVars, histVars
  <2>2. \A x \in Rows : RowFits(x)'
    BY NotifyAssumption, <1>5 DEF TypeOK, NotifyInv, RowFits, CallerFits, SettlerFits, HandFits, Settlers, Procs, Ready, Unsent, Urgencies, Release, Moved, Claimed, rowVars, ownVars, sendVars, callVars, histVars
  <2>3. \A x \in Callers : CallerFits(x)'
    BY NotifyAssumption, <1>5 DEF TypeOK, NotifyInv, RowFits, CallerFits, SettlerFits, HandFits, Settlers, Procs, Ready, Unsent, Release, Moved, Claimed, rowVars, ownVars, sendVars, callVars, histVars
  <2>4. \A x \in Settlers : SettlerFits(x)'
    BY NotifyAssumption, <1>5 DEF TypeOK, NotifyInv, RowFits, CallerFits, SettlerFits, HandFits, Settlers, Procs, Ready, Unseen, Unsent, Release, Moved, Claimed, rowVars, ownVars, sendVars, callVars, histVars
  <2>5. \A x \in Procs : HandFits(x)'
    BY NotifyAssumption, <1>5 DEF TypeOK, NotifyInv, RowFits, CallerFits, SettlerFits, HandFits, Settlers, Procs, Ready, Unsent, Release, Moved, Claimed, rowVars, ownVars, sendVars, callVars, histVars
  <2> QED
    BY <2>1, <2>2, <2>3, <2>4, <2>5 DEF NotifyInv
<1>6. ASSUME NEW t \in Ticks, Escalate(t) PROVE NotifyInv'
  <2>1. TypeOK'
    BY NotifyAssumption, <1>6 DEF Kinds, Urgencies, Modes, At, RowState, Keeps, Unsent, TypeOK, NotifyInv, RowFits, CallerFits, SettlerFits, HandFits, Settlers, Procs, Ready, Escalate, Moved, Claimed, Unseen, rowVars, ownVars, sendVars, callVars, histVars
  <2>2. \A x \in Rows : RowFits(x)'
    BY NotifyAssumption, <1>6 DEF TypeOK, NotifyInv, RowFits, CallerFits, SettlerFits, HandFits, Settlers, Procs, Ready, Unsent, Urgencies, Escalate, Moved, Claimed, Unseen, rowVars, ownVars, sendVars, callVars, histVars
  <2>3. \A x \in Callers : CallerFits(x)'
    BY NotifyAssumption, <1>6 DEF TypeOK, NotifyInv, RowFits, CallerFits, SettlerFits, HandFits, Settlers, Procs, Ready, Unsent, Escalate, Moved, Claimed, Unseen, rowVars, ownVars, sendVars, callVars, histVars
  <2>4. \A x \in Settlers : SettlerFits(x)'
    BY NotifyAssumption, <1>6 DEF TypeOK, NotifyInv, RowFits, CallerFits, SettlerFits, HandFits, Settlers, Procs, Ready, Unseen, Unsent, Escalate, Moved, Claimed, rowVars, ownVars, sendVars, callVars, histVars
  <2>5. \A x \in Procs : HandFits(x)'
    BY NotifyAssumption, <1>6 DEF TypeOK, NotifyInv, RowFits, CallerFits, SettlerFits, HandFits, Settlers, Procs, Ready, Unsent, Escalate, Moved, Claimed, Unseen, rowVars, ownVars, sendVars, callVars, histVars
  <2> QED
    BY <2>1, <2>2, <2>3, <2>4, <2>5 DEF NotifyInv
<1>7. ASSUME NEW t \in Ticks, ClearDay(t) PROVE NotifyInv'
  <2>1. TypeOK'
    BY NotifyAssumption, <1>7 DEF Kinds, Urgencies, Modes, At, RowState, Keeps, Unsent, TypeOK, NotifyInv, RowFits, CallerFits, SettlerFits, HandFits, Settlers, Procs, Ready, ClearDay, Moved, rowVars, ownVars, sendVars, callVars, histVars
  <2>2. \A x \in Rows : RowFits(x)'
    BY NotifyAssumption, <1>7 DEF TypeOK, NotifyInv, RowFits, CallerFits, SettlerFits, HandFits, Settlers, Procs, Ready, Unsent, Urgencies, ClearDay, Moved, rowVars, ownVars, sendVars, callVars, histVars
  <2>3. \A x \in Callers : CallerFits(x)'
    BY NotifyAssumption, <1>7 DEF TypeOK, NotifyInv, RowFits, CallerFits, SettlerFits, HandFits, Settlers, Procs, Ready, Unsent, ClearDay, Moved, rowVars, ownVars, sendVars, callVars, histVars
  <2>4. \A x \in Settlers : SettlerFits(x)'
    BY NotifyAssumption, <1>7 DEF TypeOK, NotifyInv, RowFits, CallerFits, SettlerFits, HandFits, Settlers, Procs, Ready, Unseen, Unsent, ClearDay, Moved, rowVars, ownVars, sendVars, callVars, histVars
  <2>5. \A x \in Procs : HandFits(x)'
    BY NotifyAssumption, <1>7 DEF TypeOK, NotifyInv, RowFits, CallerFits, SettlerFits, HandFits, Settlers, Procs, Ready, Unsent, ClearDay, Moved, rowVars, ownVars, sendVars, callVars, histVars
  <2> QED
    BY <2>1, <2>2, <2>3, <2>4, <2>5 DEF NotifyInv
<1>8. ASSUME NEW t \in Ticks, CloseDay(t) PROVE NotifyInv'
  <2>1. TypeOK'
    BY NotifyAssumption, <1>8 DEF Kinds, Urgencies, Modes, At, RowState, Keeps, Unsent, TypeOK, NotifyInv, RowFits, CallerFits, SettlerFits, HandFits, Settlers, Procs, Ready, CloseDay, Moved, Claimed, rowVars, ownVars, sendVars, callVars, histVars
  <2>2. \A x \in Rows : RowFits(x)'
    BY NotifyAssumption, <1>8 DEF TypeOK, NotifyInv, RowFits, CallerFits, SettlerFits, HandFits, Settlers, Procs, Ready, Unsent, Urgencies, CloseDay, Moved, Claimed, rowVars, ownVars, sendVars, callVars, histVars
  <2>3. \A x \in Callers : CallerFits(x)'
    BY NotifyAssumption, <1>8 DEF TypeOK, NotifyInv, RowFits, CallerFits, SettlerFits, HandFits, Settlers, Procs, Ready, Unsent, CloseDay, Moved, Claimed, rowVars, ownVars, sendVars, callVars, histVars
  <2>4. \A x \in Settlers : SettlerFits(x)'
    BY NotifyAssumption, <1>8 DEF TypeOK, NotifyInv, RowFits, CallerFits, SettlerFits, HandFits, Settlers, Procs, Ready, Unseen, Unsent, CloseDay, Moved, Claimed, rowVars, ownVars, sendVars, callVars, histVars
  <2>5. \A x \in Procs : HandFits(x)'
    BY NotifyAssumption, <1>8 DEF TypeOK, NotifyInv, RowFits, CallerFits, SettlerFits, HandFits, Settlers, Procs, Ready, Unsent, CloseDay, Moved, Claimed, rowVars, ownVars, sendVars, callVars, histVars
  <2> QED
    BY <2>1, <2>2, <2>3, <2>4, <2>5 DEF NotifyInv
<1> QED
  BY <1>1, <1>2, <1>3, <1>4, <1>5, <1>6, <1>7, <1>8 DEF SettlingStep

\* so does the sending,
LEMMA SendKeeps ==
  ASSUME NotifyInv, SendStep
  PROVE  NotifyInv'
<1>1. ASSUME NEW p \in Procs, Deliver(p) PROVE NotifyInv'
  <2>1. TypeOK'
    BY NotifyAssumption, <1>1 DEF Kinds, Urgencies, Modes, At, RowState, Keeps, Unsent, TypeOK, NotifyInv, RowFits, CallerFits, SettlerFits, HandFits, Settlers, Procs, Ready, Deliver, Batches, Alone, rowVars, ownVars, sendVars, callVars, histVars
  <2>2. \A x \in Rows : RowFits(x)'
    BY NotifyAssumption, <1>1 DEF TypeOK, NotifyInv, RowFits, CallerFits, SettlerFits, HandFits, Settlers, Procs, Ready, Unsent, Urgencies, Deliver, Batches, Alone, rowVars, ownVars, sendVars, callVars, histVars
  <2>3. \A x \in Callers : CallerFits(x)'
    BY NotifyAssumption, <1>1 DEF TypeOK, NotifyInv, RowFits, CallerFits, SettlerFits, HandFits, Settlers, Procs, Ready, Unsent, Deliver, Batches, Alone, rowVars, ownVars, sendVars, callVars, histVars
  <2>4. \A x \in Settlers : SettlerFits(x)'
    BY NotifyAssumption, <1>1 DEF TypeOK, NotifyInv, RowFits, CallerFits, SettlerFits, HandFits, Settlers, Procs, Ready, Unseen, Unsent, Deliver, Batches, Alone, rowVars, ownVars, sendVars, callVars, histVars
  <2>5. \A x \in Procs : HandFits(x)'
    BY NotifyAssumption, <1>1 DEF TypeOK, NotifyInv, RowFits, CallerFits, SettlerFits, HandFits, Settlers, Procs, Ready, Unsent, Deliver, Batches, Alone, rowVars, ownVars, sendVars, callVars, histVars
  <2> QED
    BY <2>1, <2>2, <2>3, <2>4, <2>5 DEF NotifyInv
<1>2. ASSUME NEW p \in Procs, Settle(p) PROVE NotifyInv'
  <2>1. TypeOK'
    BY NotifyAssumption, <1>2 DEF Kinds, Urgencies, Modes, At, RowState, Keeps, Unsent, TypeOK, NotifyInv, RowFits, CallerFits, SettlerFits, HandFits, Settlers, Procs, Ready, Settle, Settled, rowVars, ownVars, sendVars, callVars, histVars
  <2>2. \A x \in Rows : RowFits(x)'
    BY NotifyAssumption, <1>2 DEF TypeOK, NotifyInv, RowFits, CallerFits, SettlerFits, HandFits, Settlers, Procs, Ready, Unsent, Urgencies, Settle, Settled, rowVars, ownVars, sendVars, callVars, histVars
  <2>3. \A x \in Callers : CallerFits(x)'
    BY NotifyAssumption, <1>2 DEF TypeOK, NotifyInv, RowFits, CallerFits, SettlerFits, HandFits, Settlers, Procs, Ready, Unsent, Settle, Settled, rowVars, ownVars, sendVars, callVars, histVars
  <2>4. \A x \in Settlers : SettlerFits(x)'
    BY NotifyAssumption, <1>2 DEF TypeOK, NotifyInv, RowFits, CallerFits, SettlerFits, HandFits, Settlers, Procs, Ready, Unseen, Unsent, Settle, Settled, rowVars, ownVars, sendVars, callVars, histVars
  <2>5. \A x \in Procs : HandFits(x)'
    BY NotifyAssumption, <1>2 DEF TypeOK, NotifyInv, RowFits, CallerFits, SettlerFits, HandFits, Settlers, Procs, Ready, Unsent, Settle, Settled, rowVars, ownVars, sendVars, callVars, histVars
  <2> QED
    BY <2>1, <2>2, <2>3, <2>4, <2>5 DEF NotifyInv
<1>3. ASSUME NEW p \in Procs, Refuse(p) PROVE NotifyInv'
  <2>1. TypeOK'
    BY NotifyAssumption, <1>3 DEF Kinds, Urgencies, Modes, At, RowState, Keeps, Unsent, TypeOK, NotifyInv, RowFits, CallerFits, SettlerFits, HandFits, Settlers, Procs, Ready, Refuse, Settled, Batches, Alone, rowVars, ownVars, sendVars, callVars, histVars
  <2>2. \A x \in Rows : RowFits(x)'
    BY NotifyAssumption, <1>3 DEF TypeOK, NotifyInv, RowFits, CallerFits, SettlerFits, HandFits, Settlers, Procs, Ready, Unsent, Urgencies, Refuse, Settled, Batches, Alone, rowVars, ownVars, sendVars, callVars, histVars
  <2>3. \A x \in Callers : CallerFits(x)'
    BY NotifyAssumption, <1>3 DEF TypeOK, NotifyInv, RowFits, CallerFits, SettlerFits, HandFits, Settlers, Procs, Ready, Unsent, Refuse, Settled, Batches, Alone, rowVars, ownVars, sendVars, callVars, histVars
  <2>4. \A x \in Settlers : SettlerFits(x)'
    BY NotifyAssumption, <1>3 DEF TypeOK, NotifyInv, RowFits, CallerFits, SettlerFits, HandFits, Settlers, Procs, Ready, Unseen, Unsent, Refuse, Settled, Batches, Alone, rowVars, ownVars, sendVars, callVars, histVars
  <2>5. \A x \in Procs : HandFits(x)'
    BY NotifyAssumption, <1>3 DEF TypeOK, NotifyInv, RowFits, CallerFits, SettlerFits, HandFits, Settlers, Procs, Ready, Unsent, Refuse, Settled, Batches, Alone, rowVars, ownVars, sendVars, callVars, histVars
  <2> QED
    BY <2>1, <2>2, <2>3, <2>4, <2>5 DEF NotifyInv
<1>4. ASSUME NEW p \in Procs, TurnOff(p) PROVE NotifyInv'
  <2>1. TypeOK'
    BY NotifyAssumption, <1>4 DEF Kinds, Urgencies, Modes, At, RowState, Keeps, Unsent, TypeOK, NotifyInv, RowFits, CallerFits, SettlerFits, HandFits, Settlers, Procs, Ready, TurnOff, Settled, Alone, rowVars, ownVars, sendVars, callVars, histVars
  <2>2. \A x \in Rows : RowFits(x)'
    BY NotifyAssumption, <1>4 DEF TypeOK, NotifyInv, RowFits, CallerFits, SettlerFits, HandFits, Settlers, Procs, Ready, Unsent, Urgencies, TurnOff, Settled, Alone, rowVars, ownVars, sendVars, callVars, histVars
  <2>3. \A x \in Callers : CallerFits(x)'
    BY NotifyAssumption, <1>4 DEF TypeOK, NotifyInv, RowFits, CallerFits, SettlerFits, HandFits, Settlers, Procs, Ready, Unsent, TurnOff, Settled, Alone, rowVars, ownVars, sendVars, callVars, histVars
  <2>4. \A x \in Settlers : SettlerFits(x)'
    BY NotifyAssumption, <1>4 DEF TypeOK, NotifyInv, RowFits, CallerFits, SettlerFits, HandFits, Settlers, Procs, Ready, Unseen, Unsent, TurnOff, Settled, Alone, rowVars, ownVars, sendVars, callVars, histVars
  <2>5. \A x \in Procs : HandFits(x)'
    BY NotifyAssumption, <1>4 DEF TypeOK, NotifyInv, RowFits, CallerFits, SettlerFits, HandFits, Settlers, Procs, Ready, Unsent, TurnOff, Settled, Alone, rowVars, ownVars, sendVars, callVars, histVars
  <2> QED
    BY <2>1, <2>2, <2>3, <2>4, <2>5 DEF NotifyInv
<1> QED
  BY <1>1, <1>2, <1>3, <1>4 DEF SendStep

\* and so does what happens around them.
LEMMA WorldKeeps ==
  ASSUME NotifyInv, WorldStep
  PROVE  NotifyInv'
<1>1. ASSUME NEW r \in Rows, DueElapses(r) PROVE NotifyInv'
  <2>1. TypeOK'
    BY NotifyAssumption, <1>1 DEF Kinds, Urgencies, Modes, At, RowState, Keeps, Unsent, TypeOK, NotifyInv, RowFits, CallerFits, SettlerFits, HandFits, Settlers, Procs, Ready, DueElapses, rowVars, ownVars, sendVars, callVars, histVars
  <2>2. \A x \in Rows : RowFits(x)'
    BY NotifyAssumption, <1>1 DEF TypeOK, NotifyInv, RowFits, CallerFits, SettlerFits, HandFits, Settlers, Procs, Ready, Unsent, Urgencies, DueElapses, rowVars, ownVars, sendVars, callVars, histVars
  <2>3. \A x \in Callers : CallerFits(x)'
    BY NotifyAssumption, <1>1 DEF TypeOK, NotifyInv, RowFits, CallerFits, SettlerFits, HandFits, Settlers, Procs, Ready, Unsent, DueElapses, rowVars, ownVars, sendVars, callVars, histVars
  <2>4. \A x \in Settlers : SettlerFits(x)'
    BY NotifyAssumption, <1>1 DEF TypeOK, NotifyInv, RowFits, CallerFits, SettlerFits, HandFits, Settlers, Procs, Ready, Unseen, Unsent, DueElapses, rowVars, ownVars, sendVars, callVars, histVars
  <2>5. \A x \in Procs : HandFits(x)'
    BY NotifyAssumption, <1>1 DEF TypeOK, NotifyInv, RowFits, CallerFits, SettlerFits, HandFits, Settlers, Procs, Ready, Unsent, DueElapses, rowVars, ownVars, sendVars, callVars, histVars
  <2> QED
    BY <2>1, <2>2, <2>3, <2>4, <2>5 DEF NotifyInv
<1>2. ASSUME NEW m \in FocusModes, FocusTurns(m) PROVE NotifyInv'
  <2>1. TypeOK'
    BY NotifyAssumption, <1>2 DEF Kinds, Urgencies, Modes, At, RowState, Keeps, Unsent, TypeOK, NotifyInv, RowFits, CallerFits, SettlerFits, HandFits, Settlers, Procs, Ready, FocusTurns, rowVars, ownVars, sendVars, callVars, histVars
  <2>2. \A x \in Rows : RowFits(x)'
    BY NotifyAssumption, <1>2 DEF TypeOK, NotifyInv, RowFits, CallerFits, SettlerFits, HandFits, Settlers, Procs, Ready, Unsent, Urgencies, FocusTurns, rowVars, ownVars, sendVars, callVars, histVars
  <2>3. \A x \in Callers : CallerFits(x)'
    BY NotifyAssumption, <1>2 DEF TypeOK, NotifyInv, RowFits, CallerFits, SettlerFits, HandFits, Settlers, Procs, Ready, Unsent, FocusTurns, rowVars, ownVars, sendVars, callVars, histVars
  <2>4. \A x \in Settlers : SettlerFits(x)'
    BY NotifyAssumption, <1>2 DEF TypeOK, NotifyInv, RowFits, CallerFits, SettlerFits, HandFits, Settlers, Procs, Ready, Unseen, Unsent, FocusTurns, rowVars, ownVars, sendVars, callVars, histVars
  <2>5. \A x \in Procs : HandFits(x)'
    BY NotifyAssumption, <1>2 DEF TypeOK, NotifyInv, RowFits, CallerFits, SettlerFits, HandFits, Settlers, Procs, Ready, Unsent, FocusTurns, rowVars, ownVars, sendVars, callVars, histVars
  <2> QED
    BY <2>1, <2>2, <2>3, <2>4, <2>5 DEF NotifyInv
<1>3. ASSUME NEW r \in Rows, See(r) PROVE NotifyInv'
  <2>1. TypeOK'
    BY NotifyAssumption, <1>3 DEF Kinds, Urgencies, Modes, At, RowState, Keeps, Unsent, TypeOK, NotifyInv, RowFits, CallerFits, SettlerFits, HandFits, Settlers, Procs, Ready, See, Unseen, rowVars, ownVars, sendVars, callVars, histVars
  <2>2. \A x \in Rows : RowFits(x)'
    BY NotifyAssumption, <1>3 DEF TypeOK, NotifyInv, RowFits, CallerFits, SettlerFits, HandFits, Settlers, Procs, Ready, Unsent, Urgencies, See, Unseen, rowVars, ownVars, sendVars, callVars, histVars
  <2>3. \A x \in Callers : CallerFits(x)'
    BY NotifyAssumption, <1>3 DEF TypeOK, NotifyInv, RowFits, CallerFits, SettlerFits, HandFits, Settlers, Procs, Ready, Unsent, See, Unseen, rowVars, ownVars, sendVars, callVars, histVars
  <2>4. \A x \in Settlers : SettlerFits(x)'
    BY NotifyAssumption, <1>3 DEF TypeOK, NotifyInv, RowFits, CallerFits, SettlerFits, HandFits, Settlers, Procs, Ready, Unseen, Unsent, See, rowVars, ownVars, sendVars, callVars, histVars
  <2>5. \A x \in Procs : HandFits(x)'
    BY NotifyAssumption, <1>3 DEF TypeOK, NotifyInv, RowFits, CallerFits, SettlerFits, HandFits, Settlers, Procs, Ready, Unsent, See, Unseen, rowVars, ownVars, sendVars, callVars, histVars
  <2> QED
    BY <2>1, <2>2, <2>3, <2>4, <2>5 DEF NotifyInv
<1>4. ASSUME NEW r \in Rows, Act(r) PROVE NotifyInv'
  <2>1. TypeOK'
    BY NotifyAssumption, <1>4 DEF Kinds, Urgencies, Modes, At, RowState, Keeps, Unsent, TypeOK, NotifyInv, RowFits, CallerFits, SettlerFits, HandFits, Settlers, Procs, Ready, Act, rowVars, ownVars, sendVars, callVars, histVars
  <2>2. \A x \in Rows : RowFits(x)'
    BY NotifyAssumption, <1>4 DEF TypeOK, NotifyInv, RowFits, CallerFits, SettlerFits, HandFits, Settlers, Procs, Ready, Unsent, Urgencies, Act, rowVars, ownVars, sendVars, callVars, histVars
  <2>3. \A x \in Callers : CallerFits(x)'
    BY NotifyAssumption, <1>4 DEF TypeOK, NotifyInv, RowFits, CallerFits, SettlerFits, HandFits, Settlers, Procs, Ready, Unsent, Act, rowVars, ownVars, sendVars, callVars, histVars
  <2>4. \A x \in Settlers : SettlerFits(x)'
    BY NotifyAssumption, <1>4 DEF TypeOK, NotifyInv, RowFits, CallerFits, SettlerFits, HandFits, Settlers, Procs, Ready, Unseen, Unsent, Act, rowVars, ownVars, sendVars, callVars, histVars
  <2>5. \A x \in Procs : HandFits(x)'
    BY NotifyAssumption, <1>4 DEF TypeOK, NotifyInv, RowFits, CallerFits, SettlerFits, HandFits, Settlers, Procs, Ready, Unsent, Act, rowVars, ownVars, sendVars, callVars, histVars
  <2> QED
    BY <2>1, <2>2, <2>3, <2>4, <2>5 DEF NotifyInv
<1>5. ASSUME NEW p \in Procs, Die(p) PROVE NotifyInv'
  <2>1. TypeOK'
    <3>1. /\ at' \in [Procs -> At] /\ mode' \in [Procs -> FocusModes]
          /\ hand' \in [Procs -> SUBSET Rows] /\ carry' \in [Procs -> SUBSET Rows]
      BY NotifyAssumption, <1>5 DEF Die, NotifyInv, TypeOK, At
    <3>2. /\ ripe' \in [Settlers -> SUBSET Rows] /\ raced' \in [Settlers -> SUBSET Rows]
          /\ stranded' \subseteq Rows /\ deaths' \in Nat
      BY <1>5 DEF Die, NotifyInv, TypeOK
    <3>3. /\ msg' \in [Callers -> Messages \cup {None}] /\ found' \in [Callers -> Rows \cup {None, Gone}]
          /\ keeps' \in [Callers -> Keeps]
      BY <1>5 DEF Die, NotifyInv, TypeOK, callVars, Keeps
    <3> QED
      BY <1>5, <3>1, <3>2, <3>3 DEF Die, NotifyInv, TypeOK, rowVars, ownVars
  <2>2. \A x \in Rows : RowFits(x)'
    BY NotifyAssumption, <1>5 DEF TypeOK, NotifyInv, RowFits, CallerFits, SettlerFits, HandFits, Settlers, Procs, Ready, Unsent, Urgencies, Die, rowVars, ownVars, sendVars, callVars, histVars
  <2>3. \A x \in Callers : CallerFits(x)'
    BY NotifyAssumption, <1>5 DEF TypeOK, NotifyInv, RowFits, CallerFits, SettlerFits, HandFits, Settlers, Procs, Ready, Unsent, Die, rowVars, ownVars, sendVars, callVars, histVars
  <2>4. \A x \in Settlers : SettlerFits(x)'
    BY NotifyAssumption, <1>5 DEF TypeOK, NotifyInv, RowFits, CallerFits, SettlerFits, HandFits, Settlers, Procs, Ready, Unseen, Unsent, Die, rowVars, ownVars, sendVars, callVars, histVars
  <2>5. \A x \in Procs : HandFits(x)'
    BY NotifyAssumption, <1>5 DEF TypeOK, NotifyInv, RowFits, CallerFits, SettlerFits, HandFits, Settlers, Procs, Ready, Unsent, Die, rowVars, ownVars, sendVars, callVars, histVars
  <2> QED
    BY <2>1, <2>2, <2>3, <2>4, <2>5 DEF NotifyInv
<1> QED
  BY <1>1, <1>2, <1>3, <1>4, <1>5 DEF WorldStep

\* A step that changes nothing keeps it.
LEMMA StutterKeeps ==
  ASSUME NotifyInv, UNCHANGED vars
  PROVE  NotifyInv'
<1>1. UNCHANGED <<state, kind, urgency, keyed, focused, due, seen, acted, focus>>
  BY DEF vars, rowVars, ownVars
<1>2. UNCHANGED <<at, mode, ripe, hand, carry, msg, found, keeps, taken, raced, stranded, deaths>>
  BY DEF vars, sendVars, callVars, histVars
<1> QED
  BY <1>1, <1>2 DEF NotifyInv, TypeOK, RowFits, CallerFits, SettlerFits, HandFits, Ready, Unseen

\* Every step is of one of the groups.
LEMMA StepIs == Next => CallStep \/ SettlingStep \/ SendStep \/ WorldStep
BY DEF Next, CallerStep, TickStep, SetterStep, SettleFocus, Send, CallStep, SettlingStep, SendStep, WorldStep,
       Procs, Settlers

\* The invariant holds of every behaviour: the rows, what a call read, what a loop is about to
\* tell and what somebody has in hand fit each other.
THEOREM NotifyInvariant == Spec => []NotifyInv
<1>1. NotifyInv /\ [Next]_vars => NotifyInv'
  BY StepIs, CallerKeeps, SettlerKeeps, SendKeeps, WorldKeeps, StutterKeeps
<1> QED
  BY InitInv, <1>1, PTL DEF Spec

-----------------------------------------------------------------------------
(* What the owner is promised                                              *)

\* What was written once is handed to a channel once at most: who hands it over has it in hand,
\* it is in nobody else's, and nobody told it before.
THEOREM TellsOnce == Spec => []SentOnce
<1>1. Init => SentOnce
  BY DEF Init, SentOnce
<1>2. NotifyInv /\ SentOnce /\ [Next]_vars => SentOnce'
  <2> SUFFICES ASSUME NotifyInv, SentOnce, [Next]_vars PROVE SentOnce'
    OBVIOUS
  <2>1. ASSUME NEW p \in Procs, Deliver(p) PROVE SentOnce'
    <3>1. PICK B \in Batches(p) : taken' = [r \in Rows |-> IF r \in B THEN taken[r] + 1 ELSE taken[r]]
      BY <2>1 DEF Deliver
    <3>2. B \subseteq hand[p] /\ carry[p] = {}
      BY <2>1 DEF Deliver, Batches
    <3>3. \A r \in B : taken[r] = 0
      BY <3>2 DEF NotifyInv, HandFits
    <3> QED
      BY <3>1, <3>3 DEF SentOnce
  <2>2. ASSUME NEW c \in Callers, Update(c) \/ Insert(c) PROVE SentOnce'
    <3>1. PICK r \in Rows : taken' = [taken EXCEPT ![r] = 0]
      BY <2>2 DEF Update, Insert, Written
    <3> QED
      BY <3>1 DEF SentOnce, NotifyInv, TypeOK
  <2>3. ASSUME UNCHANGED taken PROVE SentOnce'
    BY <2>3 DEF SentOnce
  <2>4. CASE CallStep
    BY <2>4, <2>2, <2>3 DEF CallStep, Call, LookUp, FoldInto, histVars
  <2>5. CASE SettlingStep
    BY <2>5, <2>3 DEF SettlingStep, Tick, SetFocus, Hold, Clear, Release, Escalate, ClearDay, CloseDay, Moved, histVars
  <2>6. CASE SendStep
    BY <2>6, <2>1, <2>3 DEF SendStep, Settle, Refuse, TurnOff
  <2>7. CASE WorldStep
    BY <2>7, <2>3 DEF WorldStep, DueElapses, FocusTurns, See, Act, Die, histVars
  <2>8. CASE UNCHANGED vars
    BY <2>8, <2>3 DEF vars, histVars
  <2> QED
    BY <2>4, <2>5, <2>6, <2>7, <2>8, StepIs
<1> QED
  BY NotifyInvariant, <1>1, <1>2, PTL DEF Spec

\* Who takes a message in hand that the focus it found holds is a loop or a switch that met a row
\* which came back unseen under it.
THEOREM FocusIsRespected == Spec => FocusRespected
<1> DEFINE Respects ==
      \A p \in Procs : \A r \in hand'[p] \ hand[p] :
        urgency'[r] = "now" /\ kind'[r] \in HeldKinds(mode[p]) => p \in Settlers /\ r \in raced[p]
<1>1. NotifyInv /\ [Next]_vars => Respects
  <2> SUFFICES ASSUME NotifyInv, [Next]_vars PROVE Respects
    OBVIOUS
  <2>1. ASSUME NEW c \in Callers, NEW r \in Rows, NEW put \in Route(msg[c], mode[c]), Written(c, r, put),
               at[c] = "write", kind'[r] = msg[c].kind
        PROVE  Respects
    <3>1. msg[c] \in Messages /\ mode[c] \in FocusModes
      BY <2>1 DEF NotifyInv, TypeOK, CallerFits, Procs
    <3>2. put.state = "sending" => msg[c].kind \notin HeldKinds(mode[c])
      BY <3>1, RouteFits
    <3> QED
      BY <2>1, <3>2 DEF Written, NotifyInv, TypeOK
  <2>2. ASSUME NEW c \in Callers, Update(c) \/ Insert(c) PROVE Respects
    <3>1. CASE Update(c)
      <4>1. PICK r \in Rows, put \in Route(msg[c], mode[c]) : found[c] = r /\ Written(c, r, put)
        BY <3>1 DEF Update
      <4>2. msg[c] \in Messages /\ msg[c].keyed /\ r \in keyed
        BY <4>1, <3>1 DEF Update, NotifyInv, TypeOK, CallerFits
      <4>3. kind'[r] = msg[c].kind
        BY <3>1, <4>2 DEF Update, NotifyInv, RowFits
      <4> QED
        BY <2>1, <3>1, <4>1, <4>3 DEF Update
    <3>2. CASE Insert(c)
      BY <2>1, <3>2 DEF Insert, NotifyInv, TypeOK
    <3> QED
      BY <2>2, <3>1, <3>2
  <2>3. ASSUME NEW p \in Procs, NEW S, S \subseteq Rows, hand' = [hand EXCEPT ![p] = S],
               \A r \in S : urgency'[r] = "now" /\ kind'[r] \in HeldKinds(mode[p]) => p \in Settlers /\ r \in raced[p]
        PROVE  Respects
    BY <2>3 DEF NotifyInv, TypeOK
  <2>4. ASSUME NEW p \in Settlers, Release(p) PROVE Respects
    <3> DEFINE S == {r \in focused \ acted : kind[r] \notin HeldKinds(mode[p])}
    <3>1. hand' = [hand EXCEPT ![p] = S] /\ kind' = kind
      BY <2>4 DEF Release, Claimed, Moved
    <3>2. S \subseteq Rows /\ p \in Procs
      BY DEF NotifyInv, TypeOK, Procs
    <3> QED
      BY <2>3, <3>1, <3>2
  <2>5. ASSUME NEW t \in Ticks, Escalate(t) PROVE Respects
    <3> DEFINE S == {r \in ripe[t] \ acted :
                       urgency[r] = "now" /\ (Unseen(r) \/ (state[r] = "held" /\ r \notin focused))}
    <3>1. hand' = [hand EXCEPT ![t] = S] /\ kind' = kind /\ at[t] = "escalate"
      BY <2>5 DEF Escalate, Claimed, Moved
    <3>2. t \in Settlers /\ t \in Procs /\ S \subseteq Rows
      BY DEF NotifyInv, TypeOK, Procs, Settlers
    <3>3. \A r \in S : Unseen(r)
      BY <3>2 DEF NotifyInv, RowFits
    <3>4. \A r \in S : r \in raced[t] \/ kind[r] \notin HeldKinds(mode[t])
      BY <3>1, <3>2, <3>3 DEF NotifyInv, SettlerFits
    <3> QED
      BY <2>3, <3>1, <3>2, <3>4
  <2>6. ASSUME NEW t \in Ticks, CloseDay(t) PROVE Respects
    <3> DEFINE S == {r \in ripe[t] \ acted : state[r] = "held" /\ urgency[r] = "today"}
    <3>1. hand' = [hand EXCEPT ![t] = S] /\ urgency' = urgency
      BY <2>6 DEF CloseDay, Claimed, Moved
    <3>2. t \in Procs /\ S \subseteq Rows
      BY DEF NotifyInv, TypeOK, Procs, Settlers
    <3> QED
      BY <2>3, <3>1, <3>2
  <2>7. ASSUME \A p \in Procs : hand'[p] \subseteq hand[p] PROVE Respects
    BY <2>7
  <2>8. CASE CallStep
    BY <2>8, <2>2, <2>7 DEF CallStep, Call, LookUp, FoldInto, sendVars
  <2>9. CASE SettlingStep
    BY <2>9, <2>4, <2>5, <2>6, <2>7 DEF SettlingStep, Tick, SetFocus, Hold, Clear, ClearDay, sendVars
  <2>10. CASE SendStep
    BY <2>10, <2>7 DEF SendStep, Deliver, Settle, Refuse, TurnOff, Settled, NotifyInv, TypeOK
  <2>11. CASE WorldStep
    BY <2>11, <2>7 DEF WorldStep, DueElapses, FocusTurns, See, Act, Die, sendVars, NotifyInv, TypeOK
  <2>12. CASE UNCHANGED vars
    BY <2>12, <2>7 DEF vars, sendVars
  <2> QED
    BY <2>8, <2>9, <2>10, <2>11, <2>12, StepIs
<1> QED
  BY NotifyInvariant, <1>1, PTL DEF Spec, FocusRespected

-----------------------------------------------------------------------------
(* What becomes of a message                                               *)

\* What is written of the rows S, and what channels took of them, gives all of them one life.
LEMMA LifeBecomes ==
  ASSUME NEW S, NEW l, \A r \in Rows : LifeOf(r)' = (IF r \in S THEN l ELSE LifeOf(r))
  PROVE  Message!Become(S, l)
BY DEF Message!Become

\* Who has nothing more to say speaks no more.
LEMMA SpeaksNoMore ==
  ASSUME TypeOK, NEW c \in Callers, msg' = [msg EXCEPT ![c] = None]
  PROVE  {k \in Callers : msg[k] # None}' = {k \in Callers : msg[k] # None} \ {c}
<1>1. ASSUME NEW k \in Callers PROVE msg'[k] # None <=> (msg[k] # None /\ k # c)
  BY DEF TypeOK
<1> QED
  BY <1>1

\* A row that is not being sent is not in the hands of anybody who could still send it.
LEMMA WriteMaps ==
  ASSUME NotifyInv, NEW c \in Callers, NEW r \in Rows, NEW put \in Route(msg[c], mode[c]), at[c] = "write",
         state[r] # "sending", Written(c, r, put), acted' \in {acted, acted \ {r}}
  PROVE  Message!Write(c, r)
<1>1. /\ c \in Procs /\ hand[c] = {} /\ msg[c] # None /\ msg[c] \in Messages /\ mode[c] \in FocusModes
  BY DEF Procs, NotifyInv, TypeOK, HandFits, CallerFits, Ready
<1>2. put.state \in {"shown", "held", "stored", "sending"}
  BY <1>1, RouteFits
<1>3. /\ state' = [state EXCEPT ![r] = put.state] /\ taken' = [taken EXCEPT ![r] = 0]
      /\ msg' = [msg EXCEPT ![c] = None]
      /\ hand' = [hand EXCEPT ![c] = IF put.state = "sending" THEN {r} ELSE {}]
  BY DEF Written, Said
<1>4. \A x \in Rows \ {r} : LifeOf(x)' = LifeOf(x)
  BY <1>3 DEF NotifyInv, TypeOK, LifeOf
<1>5. state'[r] = put.state /\ taken'[r] = 0
  BY <1>3 DEF NotifyInv, TypeOK
<1>6. LifeOf(r) \notin {"claimed", "taken"}
  BY DEF LifeOf, NotifyInv, TypeOK, RowState
<1>7. {k \in Callers : msg[k] # None}' = {k \in Callers : msg[k] # None} \ {c}
  BY <1>3, SpeaksNoMore DEF NotifyInv
<1>8. CASE put.state = "sending"
  <2>1. LifeOf(r)' = "claimed"
    BY <1>5, <1>8 DEF LifeOf
  <2>2. Message!Become({r}, "claimed")
    BY <1>4, <2>1, LifeBecomes
  <2> QED
    BY <1>1, <1>3, <1>6, <1>7, <1>8, <2>2 DEF Message!Write
<1>9. CASE put.state # "sending"
  <2>1. hand' = hand
    BY <1>1, <1>3, <1>9 DEF NotifyInv, TypeOK
  <2>2. LifeOf(r)' \in {"waiting", "kept"}
    BY <1>2, <1>5, <1>9 DEF LifeOf
  <2>3. Message!Become({r}, "waiting") \/ Message!Become({r}, "kept")
    BY <1>4, <2>2, LifeBecomes
  <2> QED
    BY <1>1, <1>6, <1>7, <2>1, <2>3 DEF Message!Write
<1> QED
  BY <1>8, <1>9

\* A call speaks, and writes its message or finds that it is there.
LEMMA CallMaps ==
  ASSUME NotifyInv, CallStep
  PROVE  [Message!Next]_(Message!vars)
<1>1. ASSUME NEW c \in Callers, NEW m \in Messages, Call(c, m) PROVE Message!Speak(c)
  <2>1. c \in Procs /\ msg[c] = None /\ hand[c] = {} /\ m # None
    BY NotifyAssumption, <1>1 DEF Call, Procs, Ready, NotifyInv, CallerFits
  <2>2. \A r \in Rows : LifeOf(r)' = LifeOf(r)
    BY <1>1 DEF Call, rowVars, histVars, LifeOf
  <2>3. {k \in Callers : msg[k] # None}' = {k \in Callers : msg[k] # None} \cup {c}
    BY <1>1, <2>1 DEF Call, NotifyInv, TypeOK
  <2> QED
    BY <1>1, <2>1, <2>2, <2>3 DEF Call, Message!Speak, ownVars, sendVars
<1>2. ASSUME NEW c \in Callers, LookUp(c) PROVE UNCHANGED Message!vars
  BY <1>2 DEF LookUp, Message!vars, LifeOf, rowVars, ownVars, sendVars, histVars
<1>3. ASSUME NEW c \in Callers, FoldInto(c) PROVE Message!Fold(c)
  <2>1. msg[c] # None
    BY <1>3 DEF FoldInto, NotifyInv, CallerFits
  <2>2. {k \in Callers : msg[k] # None}' = {k \in Callers : msg[k] # None} \ {c}
    BY <1>3, SpeaksNoMore DEF FoldInto, Said, NotifyInv
  <2>3. \A r \in Rows : LifeOf(r)' = LifeOf(r)
    BY <1>3 DEF FoldInto, rowVars, histVars, LifeOf
  <2> QED
    BY <1>3, <2>1, <2>2, <2>3 DEF FoldInto, Message!Fold, ownVars, sendVars
<1>4. ASSUME NEW c \in Callers, Update(c) PROVE \E r \in Rows : Message!Write(c, r)
  <2>1. PICK r \in Rows, put \in Route(msg[c], mode[c]) : state[r] \in Unsent /\ Written(c, r, put)
    BY <1>4 DEF Update
  <2>2. state[r] # "sending" /\ at[c] = "write" /\ acted' = acted
    BY <1>4, <2>1 DEF Update, Unsent
  <2> QED
    BY <2>1, <2>2, WriteMaps
<1>5. ASSUME NEW c \in Callers, Insert(c) PROVE \E r \in Rows : Message!Write(c, r)
  <2>1. PICK r \in Rows, put \in Route(msg[c], mode[c]) : Over(r) /\ Written(c, r, put) /\ acted' = acted \ {r}
    BY <1>5 DEF Insert
  <2>2. state[r] # "sending" /\ at[c] = "write"
    BY <1>5, <2>1 DEF Insert, Over
  <2> QED
    BY <2>1, <2>2, WriteMaps
<1> QED
  BY <1>1, <1>2, <1>3, <1>4, <1>5 DEF CallStep, Message!Next

\* A statement on rows moves these and leaves the others.
LEMMA MovedMaps ==
  ASSUME TypeOK, NEW p, NEW S \in SUBSET Rows, NEW to, NEW next, NEW l, Moved(p, S, to, next),
         \A r \in S : to = "held" => LifeOf(r) = "waiting",
         \A r \in S : to = "sending" => taken[r] = 0,
         \/ to = "held" /\ l = "waiting"
         \/ to = "stored" /\ l = "kept"
         \/ to = "sending" /\ l = "claimed"
  PROVE  /\ Message!Become(S, l) /\ msg' = msg /\ acted' = acted
         /\ {k \in Callers : msg[k] # None}' = {k \in Callers : msg[k] # None}
<1>1. state' = [r \in Rows |-> IF r \in S THEN to ELSE state[r]] /\ taken' = taken /\ msg' = msg /\ acted' = acted
  BY DEF Moved
<1>2. ASSUME NEW r \in Rows PROVE LifeOf(r)' = (IF r \in S THEN l ELSE LifeOf(r))
  BY <1>1 DEF LifeOf
<1> QED
  BY <1>1, <1>2, LifeBecomes

\* Those that wait are claimed by one that has nothing in hand, unless the owner dealt with them.
LEMMA ClaimMaps ==
  ASSUME NotifyInv, NEW p \in Settlers, NEW S \in SUBSET Rows, NEW next, Moved(p, S, "sending", next),
         \A r \in S : state[r] \in {"shown", "held"} /\ r \notin acted,
         hand[p] = {}, hand' = [hand EXCEPT ![p] = S]
  PROVE  Message!Claim(p, S)
<1>1. \A r \in S : LifeOf(r) = "waiting" /\ taken[r] = 0
  BY DEF LifeOf, NotifyInv, RowFits
<1>2. /\ Message!Become(S, "claimed") /\ acted' = acted
      /\ {k \in Callers : msg[k] # None}' = {k \in Callers : msg[k] # None}
  BY <1>1, MovedMaps DEF NotifyInv
<1>3. Message!Are(S, "waiting")
  BY <1>1 DEF Message!Are
<1> QED
  BY <1>2, <1>3 DEF Message!Claim

\* What the owner dealt with is put aside.
LEMMA SetAsideMaps ==
  ASSUME NotifyInv, NEW p, NEW S \in SUBSET Rows, NEW next, Moved(p, S, "stored", next),
         \A r \in S : state[r] = "held" /\ r \in acted, hand' = hand
  PROVE  Message!SetAside(S)
<1>1. \A r \in S : LifeOf(r) = "waiting"
  BY DEF LifeOf
<1>2. /\ Message!Become(S, "kept") /\ acted' = acted
      /\ {k \in Callers : msg[k] # None}' = {k \in Callers : msg[k] # None}
  BY MovedMaps DEF NotifyInv
<1>3. Message!Are(S, "waiting")
  BY <1>1 DEF Message!Are
<1> QED
  BY <1>2, <1>3 DEF Message!SetAside

\* A loop or a switch claims what waits, puts aside what was dealt with, or goes unseen.
LEMMA SettlingMaps ==
  ASSUME NotifyInv, SettlingStep
  PROVE  [Message!Next]_(Message!vars)
<1>1. ASSUME NEW t \in Ticks, Tick(t) PROVE UNCHANGED Message!vars
  BY <1>1 DEF Tick, Message!vars, LifeOf, rowVars, ownVars, sendVars, callVars, histVars
<1>2. ASSUME NEW p \in Setters, NEW m \in FocusModes, SetFocus(p, m) PROVE UNCHANGED Message!vars
  BY <1>2 DEF SetFocus, Message!vars, LifeOf, rowVars, ownVars, sendVars, callVars, histVars
<1>3. ASSUME NEW p \in Settlers, Hold(p) PROVE UNCHANGED Message!vars
  <2>1. PICK S \in SUBSET Rows :
          S = {r \in ripe[p] : Unseen(r) /\ urgency[r] = "now" /\ kind[r] \in HeldKinds(mode[p])}
    BY DEF NotifyInv, TypeOK
  <2>2. Moved(p, S, "held", "clear") /\ hand' = hand
    BY <1>3, <2>1 DEF Hold
  <2>3. /\ state' = [r \in Rows |-> IF r \in S THEN "held" ELSE state[r]]
        /\ taken' = taken /\ msg' = msg /\ acted' = acted
    BY <2>2 DEF Moved
  <2>4. \A r \in S : state[r] = "shown"
    BY <2>1 DEF Unseen
  <2>5. \A r \in Rows : LifeOf(r)' = LifeOf(r)
    BY <2>3, <2>4 DEF LifeOf
  <2> QED
    BY <2>2, <2>3, <2>5 DEF Message!vars
<1>4. ASSUME NEW p \in Settlers, Clear(p) PROVE \E S \in SUBSET Rows : Message!SetAside(S)
  <2>1. PICK S \in SUBSET Rows : S = {r \in focused \cap acted : kind[r] \notin HeldKinds(mode[p])}
    BY DEF NotifyInv, TypeOK
  <2>2. Moved(p, S, "stored", "release") /\ hand' = hand
    BY <1>4, <2>1 DEF Clear
  <2>3. \A r \in S : state[r] = "held" /\ r \in acted
    BY <2>1 DEF NotifyInv, RowFits
  <2> QED
    BY <2>2, <2>3, SetAsideMaps
<1>5. ASSUME NEW p \in Settlers, Release(p) PROVE \E S \in SUBSET Rows : Message!Claim(p, S)
  <2>1. PICK S \in SUBSET Rows : S = {r \in focused \ acted : kind[r] \notin HeldKinds(mode[p])}
    BY DEF NotifyInv, TypeOK
  <2>2. PICK next \in {"escalate", "idle"} : next = IF p \in Ticks THEN "escalate" ELSE "idle"
    OBVIOUS
  <2>3. Moved(p, S, "sending", next) /\ hand' = [hand EXCEPT ![p] = S]
    BY <1>5, <2>1, <2>2 DEF Release, Claimed
  <2>4. \A r \in S : state[r] = "held" /\ r \notin acted
    BY <2>1 DEF NotifyInv, RowFits
  <2>5. hand[p] = {}
    BY <1>5 DEF Release, NotifyInv, HandFits, Ready, Procs
  <2> QED
    BY <2>3, <2>4, <2>5, ClaimMaps
<1>6. ASSUME NEW t \in Ticks, Escalate(t) PROVE t \in Settlers /\ \E S \in SUBSET Rows : Message!Claim(t, S)
  <2>1. t \in Settlers
    BY DEF Settlers
  <2>2. PICK S \in SUBSET Rows :
          S = {r \in ripe[t] \ acted : urgency[r] = "now" /\ (Unseen(r) \/ (state[r] = "held" /\ r \notin focused))}
    BY <2>1 DEF NotifyInv, TypeOK
  <2>3. Moved(t, S, "sending", "clearDay") /\ hand' = [hand EXCEPT ![t] = S] /\ hand[t] = {}
    BY <1>6, <2>2 DEF Escalate, Claimed, Ready
  <2>4. \A r \in S : state[r] \in {"shown", "held"} /\ r \notin acted
    BY <2>2 DEF Unseen
  <2> QED
    BY <2>1, <2>3, <2>4, ClaimMaps
<1>7. ASSUME NEW t \in Ticks, ClearDay(t) PROVE \E S \in SUBSET Rows : Message!SetAside(S)
  <2>1. PICK S \in SUBSET Rows : S = {r \in acted : state[r] = "held" /\ urgency[r] = "today"}
    BY DEF NotifyInv, TypeOK
  <2>2. Moved(t, S, "stored", "closeDay") /\ hand' = hand
    BY <1>7, <2>1 DEF ClearDay
  <2> QED
    BY <2>1, <2>2, SetAsideMaps
<1>8. ASSUME NEW t \in Ticks, CloseDay(t) PROVE t \in Settlers /\ \E S \in SUBSET Rows : Message!Claim(t, S)
  <2>1. t \in Settlers /\ t \in Procs
    BY DEF Settlers, Procs
  <2>2. PICK S \in SUBSET Rows : S = {r \in ripe[t] \ acted : state[r] = "held" /\ urgency[r] = "today"}
    BY <2>1 DEF NotifyInv, TypeOK
  <2>3. Moved(t, S, "sending", "idle") /\ hand' = [hand EXCEPT ![t] = S]
    BY <1>8, <2>2 DEF CloseDay, Claimed
  <2>4. \A r \in S : state[r] = "held" /\ r \notin acted
    BY <2>2
  <2>5. hand[t] = {}
    BY <1>8, <2>1 DEF CloseDay, NotifyInv, HandFits, Ready
  <2> QED
    BY <2>1, <2>3, <2>4, <2>5, ClaimMaps
<1> QED
  BY <1>1, <1>2, <1>3, <1>4, <1>5, <1>6, <1>7, <1>8 DEF SettlingStep, Message!Next

\* What comes of the batch B: it was claimed and no channel has it, or it was taken.
LEMMA SettledMaps ==
  ASSUME NotifyInv, NEW p \in Procs, NEW B \in SUBSET Rows, NEW to, Settled(p, B, to), taken' = taken,
         B \subseteq hand[p],
         \/ carry[p] = {} /\ to \in {"stored", "failed"}
         \/ carry[p] = B /\ to \in {"sent", "failed"}
  PROVE  Message!Settle(p, B)
<1>1. /\ state' = [r \in Rows |-> IF r \in B /\ state[r] = "sending" THEN to ELSE state[r]]
      /\ hand' = [hand EXCEPT ![p] = @ \ B] /\ acted' = IF to = "sent" THEN acted \ B ELSE acted
      /\ msg' = msg
  BY DEF Settled, callVars
<1>2. \A r \in B : state[r] = "sending" /\ (r \in carry[p] <=> taken[r] # 0)
  BY DEF NotifyInv, HandFits
<1>3. to = "stored" => Message!Become(B, "kept")
  <2>1. ASSUME to = "stored", NEW r \in Rows PROVE LifeOf(r)' = (IF r \in B THEN "kept" ELSE LifeOf(r))
    BY <1>1, <1>2, <2>1 DEF LifeOf
  <2> QED
    BY <2>1, LifeBecomes
<1>4. to \in {"sent", "failed"} => Message!Become(B, to)
  <2>1. ASSUME to \in {"sent", "failed"}, NEW r \in Rows PROVE LifeOf(r)' = (IF r \in B THEN to ELSE LifeOf(r))
    BY <1>1, <1>2, <2>1 DEF LifeOf
  <2> QED
    BY <2>1, LifeBecomes
<1>5. CASE carry[p] = {} /\ to \in {"stored", "failed"}
  <2>1. Message!Are(B, "claimed")
    BY <1>2, <1>5 DEF Message!Are, LifeOf
  <2>2. Message!Become(B, "kept") \/ Message!Become(B, "failed")
    BY <1>3, <1>4, <1>5
  <2> QED
    BY <1>1, <1>5, <2>1, <2>2 DEF Message!Settle
<1>6. CASE carry[p] = B /\ to \in {"sent", "failed"}
  <2>1. Message!Are(B, "taken")
    BY <1>2, <1>6 DEF Message!Are, LifeOf
  <2>2. Message!Become(B, to)
    BY <1>4, <1>6
  <2> QED
    BY <1>1, <1>6, <2>1, <2>2 DEF Message!Settle
<1> QED
  BY <1>5, <1>6

\* Who has messages in hand hands them to a channel, and settles them.
LEMMA SendMaps ==
  ASSUME NotifyInv, SendStep
  PROVE  [Message!Next]_(Message!vars)
<1>1. ASSUME NEW p \in Procs, Deliver(p) PROVE \E B \in SUBSET Rows : Message!Deliver(p, B)
  <2>1. PICK B \in Batches(p) :
          /\ taken' = [r \in Rows |-> IF r \in B THEN taken[r] + 1 ELSE taken[r]]
    BY <1>1 DEF Deliver
  <2>2. B \subseteq hand[p] /\ B \in SUBSET Rows /\ carry[p] = {}
    BY <1>1 DEF Deliver, Batches, NotifyInv, TypeOK
  <2>3. \A r \in B : state[r] = "sending" /\ taken[r] = 0
    BY <2>2 DEF NotifyInv, HandFits
  <2>4. state' = state /\ hand' = hand /\ msg' = msg /\ acted' = acted
    BY <1>1 DEF Deliver, rowVars, ownVars, callVars
  <2>5. ASSUME NEW r \in Rows PROVE LifeOf(r)' = (IF r \in B THEN "taken" ELSE LifeOf(r))
    <3>1. CASE r \in B
      <4>1. taken'[r] = 1 /\ state'[r] = "sending"
        BY <2>1, <2>3, <2>4, <3>1
      <4> QED
        BY <3>1, <4>1 DEF LifeOf
    <3>2. CASE r \notin B
      BY <2>1, <2>4, <3>2 DEF LifeOf
    <3> QED
      BY <3>1, <3>2
  <2>6. Message!Become(B, "taken")
    BY <2>5, LifeBecomes
  <2>7. Message!Are(B, "claimed")
    BY <2>2, <2>3 DEF Message!Are, LifeOf
  <2> QED
    BY <2>2, <2>4, <2>6, <2>7 DEF Message!Deliver
<1>2. ASSUME NEW p \in Procs, Settle(p) PROVE \E B \in SUBSET Rows : Message!Settle(p, B)
  <2>1. PICK B \in SUBSET Rows : B = carry[p]
    BY DEF NotifyInv, TypeOK
  <2>2. PICK to \in {"sent", "failed"} : Settled(p, B, to)
    BY <1>2, <2>1 DEF Settle
  <2>3. B \subseteq hand[p] /\ taken' = taken
    BY <1>2, <2>1 DEF Settle, NotifyInv, HandFits
  <2> QED
    BY <2>1, <2>2, <2>3, SettledMaps
<1>3. ASSUME NEW p \in Procs, Refuse(p) PROVE \E B \in SUBSET Rows : Message!Settle(p, B)
  <2>1. PICK B \in Batches(p) : Settled(p, B, "failed")
    BY <1>3 DEF Refuse
  <2>2. B \subseteq hand[p] /\ B \in SUBSET Rows /\ carry[p] = {} /\ taken' = taken
    BY <1>3 DEF Refuse, Batches, NotifyInv, TypeOK
  <2> QED
    BY <2>1, <2>2, SettledMaps
<1>4. ASSUME NEW p \in Procs, TurnOff(p) PROVE \E B \in SUBSET Rows : Message!Settle(p, B)
  <2>1. PICK r \in hand[p] : Settled(p, {r}, "stored")
    BY <1>4 DEF TurnOff
  <2>2. {r} \in SUBSET Rows /\ {r} \subseteq hand[p] /\ carry[p] = {} /\ taken' = taken
    BY <1>4 DEF TurnOff, NotifyInv, TypeOK
  <2> QED
    BY <2>1, <2>2, SettledMaps
<1> QED
  BY <1>1, <1>2, <1>3, <1>4 DEF SendStep, Message!Next, Message!Procs, Procs

\* The owner deals with a message, and a process may die with what it claimed.
LEMMA WorldMaps ==
  ASSUME NotifyInv, WorldStep
  PROVE  [Message!Next]_(Message!vars)
<1>1. ASSUME NEW r \in Rows, DueElapses(r) \/ See(r) PROVE UNCHANGED Message!vars
  BY <1>1 DEF DueElapses, See, Message!vars, LifeOf, rowVars, ownVars, sendVars, callVars, histVars
<1>2. ASSUME NEW m \in FocusModes, FocusTurns(m) PROVE UNCHANGED Message!vars
  BY <1>2 DEF FocusTurns, Message!vars, LifeOf, rowVars, ownVars, sendVars, callVars, histVars
<1>3. ASSUME NEW r \in Rows, Act(r) PROVE Message!Deal(r)
  <2>1. state[r] \notin {"none", "sent"} /\ acted' = acted \cup {r} /\ state' = state /\ taken' = taken
    BY <1>3 DEF Act, rowVars, histVars
  <2>2. msg' = msg /\ hand' = hand
    BY <1>3 DEF Act, callVars, sendVars
  <2>3. LifeOf(r) \notin {"none", "sent"} /\ \A x \in Rows : LifeOf(x)' = LifeOf(x)
    BY <2>1 DEF LifeOf
  <2> QED
    BY <2>1, <2>2, <2>3 DEF Message!Deal
<1>4. ASSUME NEW p \in Procs, Die(p) PROVE Message!Die(p)
  <2>1. hand' = [hand EXCEPT ![p] = {}] /\ acted' = acted /\ state' = state /\ taken' = taken
    BY <1>4 DEF Die, rowVars, ownVars
  <2>2. \A x \in Rows : LifeOf(x)' = LifeOf(x)
    BY <2>1 DEF LifeOf
  <2>3. {k \in Callers : msg[k] # None}' = {k \in Callers : msg[k] # None} \ {p}
    <3>1. CASE p \in Callers
      BY <1>4, <3>1, SpeaksNoMore DEF Die, NotifyInv
    <3>2. CASE p \notin Callers
      BY <1>4, <3>2 DEF Die, callVars
    <3> QED
      BY <3>1, <3>2
  <2> QED
    BY <2>1, <2>2, <2>3 DEF Message!Die
<1> QED
  BY <1>1, <1>2, <1>3, <1>4 DEF WorldStep, Message!Next, Message!Procs, Procs

\* A message waits, is kept, or goes out through one process that claims it, once; a repeat of
\* the key never writes over it while it is claimed.
THEOREM MessageLifeIsImplemented == Spec => ImplementsMessageLife
<1>1. Init => Message!Init
  BY DEF Init, Message!Init, Message!Procs, Procs, LifeOf
<1>2. NotifyInv /\ [Next]_vars => [Message!Next]_(Message!vars)
  <2>1. ASSUME UNCHANGED vars PROVE UNCHANGED Message!vars
    BY <2>1 DEF vars, rowVars, ownVars, sendVars, callVars, histVars, Message!vars, LifeOf
  <2> QED
    BY <2>1, StepIs, CallMaps, SettlingMaps, SendMaps, WorldMaps
<1> QED
  BY NotifyInvariant, <1>1, <1>2, PTL DEF Spec, ImplementsMessageLife, Message!Spec
=============================================================================
