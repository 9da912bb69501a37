----------------------------- MODULE MessageLife -----------------------------
(***************************************************************************)
(* What becomes of a message to the owner, for those who write one: no     *)
(* clock, no focus, no channel, no key.  A call writes one message or adds *)
(* it to one that is there.  A message waits, is kept for whoever looks,   *)
(* or goes out through one process that claims it; that process alone      *)
(* hands it to a channel, once, and writes what came of it.  What the      *)
(* owner dealt with is claimed no more, and only that is put aside.  A     *)
(* claim whose process died is nobody's.                                   *)
(***************************************************************************)
CONSTANTS
  Rows,         \* places for messages
  Callers,      \* who may write one
  Settlers      \* who may claim those that wait

VARIABLES
  life,         \* what became of the message in a place
  speaks,       \* the callers that have something to say
  claims,       \* the messages a process has claimed and not settled
  dealt         \* those the owner dealt with
vars == <<life, speaks, claims, dealt>>

Procs == Callers \cup Settlers
Life == {"none", "waiting", "kept", "claimed", "taken", "sent", "failed"}

TypeOK ==
  /\ life \in [Rows -> Life] /\ claims \in [Procs -> SUBSET Rows]
  /\ speaks \subseteq Callers /\ dealt \subseteq Rows

Init ==
  /\ life = [r \in Rows |-> "none"]
  /\ claims = [p \in Procs |-> {}]
  /\ speaks = {} /\ dealt = {}

Become(S, l) == life' = [r \in Rows |-> IF r \in S THEN l ELSE life[r]]
Are(S, l) == \A r \in S : life[r] = l

Speak(c) ==
  /\ c \notin speaks /\ claims[c] = {}
  /\ speaks' = speaks \cup {c}
  /\ UNCHANGED <<life, claims, dealt>>

\* A message that is there says it already.
Fold(c) ==
  /\ c \in speaks
  /\ speaks' = speaks \ {c}
  /\ UNCHANGED <<life, claims, dealt>>

\* A message is written, or written anew over one that nobody has claimed, to wait, to be
\* kept, or to be sent by the caller.
Write(c, r) ==
  /\ c \in speaks /\ life[r] \notin {"claimed", "taken"}
  /\ speaks' = speaks \ {c}
  /\ \/ (Become({r}, "waiting") \/ Become({r}, "kept")) /\ UNCHANGED claims
     \/ Become({r}, "claimed") /\ claims' = [claims EXCEPT ![c] = {r}]
  /\ dealt' \in {dealt, dealt \ {r}}

Claim(p, S) ==
  /\ Are(S, "waiting") /\ S \cap dealt = {} /\ claims[p] = {}
  /\ Become(S, "claimed")
  /\ claims' = [claims EXCEPT ![p] = S]
  /\ UNCHANGED <<speaks, dealt>>

SetAside(S) ==
  /\ Are(S, "waiting") /\ S \subseteq dealt
  /\ Become(S, "kept")
  /\ UNCHANGED <<speaks, claims, dealt>>

\* A channel takes them.
Deliver(p, S) ==
  /\ S \subseteq claims[p] /\ Are(S, "claimed")
  /\ Become(S, "taken")
  /\ UNCHANGED <<speaks, claims, dealt>>

\* What came of it; a channel may take a message and fail to say so.
Settle(p, S) ==
  /\ S \subseteq claims[p]
  /\ claims' = [claims EXCEPT ![p] = @ \ S]
  /\ \/ Are(S, "claimed") /\ (Become(S, "kept") \/ Become(S, "failed")) /\ UNCHANGED dealt
     \/ Are(S, "taken") /\ Become(S, "failed") /\ UNCHANGED dealt
     \/ Are(S, "taken") /\ Become(S, "sent") /\ dealt' = dealt \ S
  /\ UNCHANGED speaks

Deal(r) ==
  /\ life[r] \notin {"none", "sent"}
  /\ dealt' = dealt \cup {r}
  /\ UNCHANGED <<life, speaks, claims>>

Die(p) ==
  /\ claims' = [claims EXCEPT ![p] = {}]
  /\ speaks' = speaks \ {p}
  /\ UNCHANGED <<life, dealt>>

Next ==
  \/ \E c \in Callers : Speak(c) \/ Fold(c) \/ \E r \in Rows : Write(c, r)
  \/ \E p \in Settlers, S \in SUBSET Rows : Claim(p, S)
  \/ \E p \in Procs, S \in SUBSET Rows : Deliver(p, S) \/ Settle(p, S)
  \/ \E S \in SUBSET Rows : SetAside(S)
  \/ \E r \in Rows : Deal(r)
  \/ \E p \in Procs : Die(p)

Spec == Init /\ [][Next]_vars
=============================================================================
