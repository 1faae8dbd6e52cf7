--------------------------- MODULE AdaptiveSearch ---------------------------
(***************************************************************************)
(* The two budgeted searches of BLISRunner.  run_search tries every tensor- *)
(* parallel level with a few profiles, picks the winner and lets a TPE      *)
(* sampler spend what is left of the budget on it (_run_phase2_tpe).        *)
(* run_tpe_search gives the sampler the whole budget.  Neither loads a      *)
(* checkpoint: an interrupted search starts again from nothing, behind      *)
(* whatever the output file holds.                                          *)
(*                                                                         *)
(* A write here is whole or absent; SweepRunner models the ones cut short.  *)
(***************************************************************************)
EXTENDS Integers, Sequences

CONSTANTS
  TPs,         \* tensor-parallel levels, in the order of SEARCH_TP_CONFIGS_*;
               \* run_tpe_search may try any of SEARCH_VALID_TP_INSTANCES
  Searches,    \* configured searches: strategy, budget, profiles, skipPhase2
  Scores,      \* fitness scores of evaluations that return
  MaxCrashes,  \* bound: crashes
  MaxRuns      \* bound: processes started

Levels == {TPs[j] : j \in 1..Len(TPs)}

ASSUME SearchAssumption ==
  /\ Len(TPs) \in Nat \ {0} /\ TPs \in Seq(Levels)
  /\ Searches \subseteq [strategy : {"adaptive", "tpe"}, budget : Nat,
                         profiles : Nat, skipPhase2 : BOOLEAN]
  /\ 0 \in Scores /\ Scores \subseteq Nat
  /\ MaxCrashes \in Nat
  /\ MaxRuns \in Nat

\* What the properties need of a ConfigResult: the process that made it (not
\* in the file), search_phase, tensor_parallel_size, search_profile_idx (0 if
\* none) and fitness_score.
Record ==
  [run : 1..MaxRuns, phase : 0..2, tp : Levels, profile : Nat, score : Scores]

VARIABLES
  search,    \* what is configured
  pc,        \* "down", "screen", "append", "trial", "flush", "done"
  n,         \* phase 1: number of the (profile, level) pair at hand
  evals,     \* eval_count
  best,      \* max of phase1_tp_scores per level, 0 if there are none
  winner,    \* winning_tp
  trials,    \* trials of the study so far
  pending,   \* the records about to be appended, first one next: the record
             \* at hand, or phase2_results
  log,       \* the output file: the records in it
  runs,      \* processes started
  before,    \* history: records in the file when this process started
  produced,  \* history: this process's results, in the order obtained
  lost,      \* history: results of crashed processes that are not in the file
  crashes

memory == <<n, evals, best, winner, trials, pending>>
history == <<before, produced, lost, crashes>>
vars == <<search, pc, memory, log, runs, history>>

----------------------------------------------------------------------------
NoScores == [tp \in Levels |-> 0]

\* for profile in profiles: for tp in tp_configs: the pairs are numbered in
\* the order of the loops.
Pairs == search.profiles * Len(TPs)
ProfileOf(m) == 1 + ((m - 1) \div Len(TPs))
LevelOf(m) == TPs[1 + ((m - 1) % Len(TPs))]

\* The break when the budget is used up ends phase 1: the loop over the
\* remaining profiles breaks again at once.
Screening == n <= Pairs /\ evals < search.budget

\* MUTANT of Remaining: phase 1 is free.
MutRemainingAll == search.budget

\* remaining, and n_trials of run_tpe_search, whose evals is 0.
Remaining == search.budget - evals

\* MUTANT of Wins: whichever level comes first.
MutWinsFirst(tp) == tp = TPs[1]

\* The first level with the highest score; the last one if all have failed.
Wins(tp) ==
  IF \A tq \in Levels : best[tq] = 0
  THEN tp = TPs[Len(TPs)]
  ELSE \E j \in 1..Len(TPs) :
         /\ tp = TPs[j]
         /\ \A k \in 1..Len(TPs) :
              IF k < j THEN best[TPs[k]] < best[tp] ELSE best[TPs[k]] <= best[tp]

Result(phase, tp, profile, score) ==
  [run |-> runs, phase |-> phase, tp |-> tp, profile |-> profile,
   score |-> score]

----------------------------------------------------------------------------
Init ==
  /\ search \in Searches
  /\ pc = "down"
  /\ n = 1 /\ evals = 0 /\ best = NoScores /\ winner = TPs[1] /\ trials = 0
  /\ pending = <<>>
  /\ log = <<>>
  /\ runs = 0
  /\ before = 0 /\ produced = <<>> /\ lost = 0 /\ crashes = 0

\* cmd_sweep starts the configured search: the first time, after a crash, or
\* because the user asks for it again.
Start ==
  /\ pc \in {"down", "done"}
  /\ runs < MaxRuns
  /\ runs' = runs + 1
  /\ pc' = IF search.strategy = "tpe" THEN "trial" ELSE "screen"
  /\ n' = 1 /\ evals' = 0 /\ best' = NoScores /\ winner' = TPs[1]
  /\ trials' = 0 /\ pending' = <<>>
  /\ before' = Len(log) /\ produced' = <<>>
  /\ UNCHANGED <<search, log, lost, crashes>>

\* MUTANT of Obtain: kept in memory until the search ends.
MutObtainKeeps(r) == pending' = Append(pending, r) /\ UNCHANGED pc

\* A result to be appended at once.
Obtain(r) == pending' = <<r>> /\ pc' = "append"

\* Phase 1 evaluates the next pair.  _run_scored_eval turns every failure into
\* None, and None is recorded with score 0.
Screen ==
  /\ pc = "screen"
  /\ Screening
  /\ \E score \in Scores :
       LET r == Result(1, LevelOf(n), ProfileOf(n), score)
       IN  /\ best' = [best EXCEPT ![r.tp] = IF score > @ THEN score ELSE @]
           /\ produced' = Append(produced, r)
           /\ Obtain(r)
  /\ n' = n + 1
  /\ evals' = evals + 1
  /\ UNCHANGED <<search, winner, trials, log, runs, before, lost, crashes>>

\* append_result, of a record that is appended as soon as it is there.
AppendResult ==
  /\ pc = "append"
  /\ log' = Append(log, pending[1])
  /\ pending' = <<>>
  /\ pc' = IF search.strategy = "tpe" THEN "trial" ELSE "screen"
  /\ UNCHANGED <<search, n, evals, best, winner, trials, runs, history>>

\* Phase 1 is over: the winner is picked, and phase 2 begins if it may.
PickWinner ==
  /\ pc = "screen"
  /\ ~Screening
  /\ \E tp \in Levels : Wins(tp) /\ winner' = tp
  /\ pc' = IF ~search.skipPhase2 /\ Remaining > 0 THEN "trial" ELSE "done"
  /\ UNCHANGED <<search, n, evals, best, trials, pending, log, runs, history>>

\* A trial of run_search runs at the winner and its result is collected; one
\* of run_tpe_search runs at any level and its result is appended.
TrialReturns ==
  \E score \in Scores :
    IF search.strategy = "adaptive"
    THEN LET r == Result(2, winner, 0, score)
         IN  /\ pending' = Append(pending, r)
             /\ produced' = Append(produced, r)
             /\ UNCHANGED pc
    ELSE \E tp \in Levels :
           LET r == Result(0, tp, 0, score)
           IN  Obtain(r) /\ produced' = Append(produced, r)

\* One call of objective.  A failed evaluation counts as a trial of value 0
\* and leaves no result.
Trial ==
  /\ pc = "trial"
  /\ trials < Remaining
  /\ \/ TrialReturns
     \/ UNCHANGED <<pc, pending, produced>>
  /\ trials' = trials + 1
  /\ UNCHANGED <<search, n, evals, best, winner, log, runs, before, lost,
                 crashes>>

\* MUTANT of StudyOver: waits for as many results, not trials.
MutStudyOverResults == Len(pending) = Remaining

StudyOver == trials = Remaining

StudyEnds ==
  /\ pc = "trial"
  /\ StudyOver
  /\ pc' = IF search.strategy = "tpe" THEN "done" ELSE "flush"
  /\ UNCHANGED <<search, memory, log, runs, history>>

\* MUTANT of Flushed: the last result of the second phase is left out.
MutFlushedEarly == Len(pending) <= 1

Flushed == pending = <<>>

\* The loop over phase2_results appends them one by one.
Flush ==
  /\ pc = "flush"
  /\ IF Flushed
     THEN pc' = "done" /\ UNCHANGED <<log, pending>>
     ELSE /\ log' = Append(log, Head(pending))
          /\ pending' = Tail(pending)
          /\ UNCHANGED pc
  /\ UNCHANGED <<search, n, evals, best, winner, trials, runs, history>>

\* The process dies (kill, exception of append_result or of the sampler).
Crash ==
  /\ pc \notin {"down", "done"}
  /\ crashes < MaxCrashes
  /\ crashes' = crashes + 1
  /\ lost' = lost + Len(produced) - (Len(log) - before)
  /\ pc' = "down"
  /\ n' = 1 /\ evals' = 0 /\ best' = NoScores /\ winner' = TPs[1]
  /\ trials' = 0 /\ pending' = <<>>
  /\ UNCHANGED <<search, log, runs, before, produced>>

Progress ==
  \/ Screen \/ AppendResult \/ PickWinner \/ Trial \/ StudyEnds \/ Flush

Next == Start \/ Progress \/ Crash

Spec == Init /\ [][Next]_vars

\* Every evaluation ends, by its timeout, so a running search proceeds.
FairSpec == Spec /\ WF_vars(Progress)

----------------------------------------------------------------------------
TypeOK ==
  /\ search \in Searches
  /\ pc \in {"down", "screen", "append", "trial", "flush", "done"}
  /\ n \in 1..(Pairs + 1)
  /\ evals \in 0..search.budget
  /\ best \in [Levels -> Scores]
  /\ winner \in Levels
  /\ trials \in Nat
  /\ pending \in Seq(Record) /\ (pc = "append" => pending # <<>>)
  /\ log \in Seq(Record)
  /\ runs \in 0..MaxRuns
  /\ before \in 0..Len(log)
  /\ produced \in Seq(Record)
  /\ lost \in Nat
  /\ crashes \in 0..MaxCrashes

\* search_budget bounds the simulations of one search over both phases, also
\* when the budget ends in the middle of a profile.
WithinBudget == evals + trials <= search.budget

\* The file explains itself: before a record of the second phase come all
\* first-phase records of the same process, and none of them names a level
\* with a better score, however many searches were cut off before.
SecondPhaseIsExplained ==
  \A j \in 1..Len(log) : log[j].phase = 2 =>
    LET first == {k \in 1..(j - 1) : log[k].phase = 1 /\ log[k].run = log[j].run}
        planned == {m \in 1..Pairs : m <= search.budget}
    IN  /\ \A m \in planned : \E k \in first :
             log[k].tp = LevelOf(m) /\ log[k].profile = ProfileOf(m)
        /\ \A k \in first : log[k].score > 0 =>
             \E l \in first :
               log[l].tp = log[j].tp /\ log[l].score >= log[k].score

\* What this process has added to the file.
Added == SubSeq(log, before + 1, Len(log))

\* When a search ends, it has written all its results, each once and in the
\* order they were obtained.
DoneIsLogged == pc = "done" => Added = produced

\* A crash costs one result, the one about to be appended, or those of the
\* second phase of run_search.
LossIsBounded ==
  LET second == IF search.strategy = "tpe" \/ search.skipPhase2 THEN 0
                ELSE search.budget - Pairs
  IN  lost <= crashes * (IF second > 1 THEN second ELSE 1)

\* In the first phase, and in run_tpe_search throughout, nothing but the
\* record at hand is in memory only.
FirstPhaseIsDurable ==
  pc = "screen" \/ (pc = "trial" /\ search.strategy = "tpe") =>
    Added = produced

\* A search that has been started and does not crash ends.
Terminates == pc # "down" ~> pc \in {"down", "done"}
=============================================================================
