-------------------------- MODULE MCAdaptiveSearch --------------------------
(***************************************************************************)
(* The lean levels; searches whose budget ends in the middle of a profile,  *)
(* just after the last one and in the second phase.                         *)
(***************************************************************************)
EXTENDS AdaptiveSearch

Lean == <<4, 8>>

Configured(strategy, budget, profiles, skipPhase2) ==
  [strategy |-> strategy, budget |-> budget, profiles |-> profiles,
   skipPhase2 |-> skipPhase2]

SomeSearches ==
  { Configured("adaptive", 1, 1, FALSE),
    Configured("adaptive", 3, 2, FALSE),
    Configured("adaptive", 4, 1, FALSE),
    Configured("adaptive", 3, 1, TRUE),
    Configured("tpe", 2, 1, FALSE) }

SomeScores == 0..2
=============================================================================
