---------------------------- MODULE SweepLedger ----------------------------
(***************************************************************************)
(* What a checkpointed sweep promises the user who interrupts and restarts  *)
(* it: a ledger of recorded configurations that only grows, one entry at a  *)
(* time, and is closed only when every configuration has an entry or was    *)
(* given up during the pass that closes it.                                 *)
(***************************************************************************)
CONSTANT Config

VARIABLES
  recorded,   \* configurations with a record in the output file
  givenUp,    \* configurations whose evaluation raised in the current pass
  phase       \* "open" while a pass runs or is interrupted, else "closed"

vars == <<recorded, givenUp, phase>>

TypeOK ==
  /\ recorded \subseteq Config
  /\ givenUp \subseteq Config
  /\ phase \in {"open", "closed"}

Init ==
  /\ recorded = {}
  /\ givenUp = {}
  /\ phase = "open"

Record(c) ==
  /\ phase = "open"
  /\ c \notin recorded
  /\ recorded' = recorded \cup {c}
  /\ UNCHANGED <<givenUp, phase>>

GiveUp(c) ==
  /\ phase = "open"
  /\ c \notin recorded
  /\ givenUp' = givenUp \cup {c}
  /\ UNCHANGED <<recorded, phase>>

Close ==
  /\ phase = "open"
  /\ recorded \cup givenUp = Config
  /\ phase' = "closed"
  /\ UNCHANGED <<recorded, givenUp>>

\* A new pass, after an interruption or on request.
NewPass ==
  /\ phase' = "open"
  /\ givenUp' = {}
  /\ UNCHANGED recorded

Next ==
  \/ \E c \in Config : Record(c) \/ GiveUp(c)
  \/ Close
  \/ NewPass

Spec == Init /\ [][Next]_vars
=============================================================================
