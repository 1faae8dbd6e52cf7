------------------------ MODULE AdaptiveSearchProofs ------------------------
(***************************************************************************)
(* What run_search and run_tpe_search guarantee for any budget, profiles,   *)
(* levels, scores and number of crashes.                                    *)
(***************************************************************************)
EXTENDS AdaptiveSearch, SequenceTheorems, TLAPS

\* How far a search is, as its counters tell.
Counters ==
  /\ evals = n - 1
  /\ search.strategy = "tpe" => n = 1 /\ pc \notin {"screen", "flush"}
  /\ pc \in {"down", "screen"} => trials = 0
  /\ pc = "append" /\ search.strategy = "adaptive" => trials = 0
  /\ trials <= Remaining
  /\ pc # "down" => runs >= 1

\* What may be waiting to be appended.
Waiting ==
  /\ pc \in {"down", "screen", "done"} => pending = <<>>
  /\ pc = "trial" /\ search.strategy = "tpe" => pending = <<>>
  /\ pc = "append" => Len(pending) = 1
  /\ pc # "down" => Len(produced) = (Len(log) - before) + Len(pending)

CountInv == TypeOK /\ Counters /\ Waiting

----------------------------------------------------------------------------
\* Levels and profiles of the pairs are what they should be.
LEMMA PairTypes ==
  ASSUME NEW m \in Nat \ {0}
  PROVE  LevelOf(m) \in Levels /\ ProfileOf(m) \in Nat
<1>1. m - 1 \in Nat /\ Len(TPs) \in Nat \ {0}
  BY SearchAssumption
<1>2. (m - 1) % Len(TPs) \in 0..(Len(TPs) - 1) /\ (m - 1) \div Len(TPs) \in Nat
  BY <1>1
<1>3. 1 + ((m - 1) % Len(TPs)) \in 1..Len(TPs)
  BY <1>1, <1>2
<1> QED BY <1>2, <1>3 DEF LevelOf, ProfileOf, Levels

\* The configured search never changes.
LEMMA SearchFixed ==
  ASSUME TypeOK, [Next]_vars
  PROVE  /\ search' = search /\ Pairs' = Pairs
         /\ Pairs \in Nat /\ search.budget \in Nat
         /\ search.strategy \in {"adaptive", "tpe"}
<1>1. search' = search
  BY DEF Next, Start, Progress, Screen, AppendResult, PickWinner, Trial,
    StudyEnds, Flush, Crash, vars
<1>2. /\ search.profiles \in Nat /\ search.budget \in Nat
      /\ search.strategy \in {"adaptive", "tpe"}
  BY SearchAssumption DEF TypeOK
<1>3. Pairs \in Nat
  BY <1>2, SearchAssumption DEF Pairs
<1> QED BY <1>1, <1>2, <1>3 DEF Pairs

\* A result of a live process is a record.
LEMMA ResultType ==
  ASSUME TypeOK, runs >= 1, NEW phase \in 0..2, NEW tp \in Levels,
         NEW profile \in Nat, NEW score \in Scores
  PROVE  Result(phase, tp, profile, score) \in Record
  BY SearchAssumption DEF TypeOK, Result, Record

\* A fresh memory is well typed.
LEMMA FreshTypes ==
  NoScores \in [Levels -> Scores] /\ TPs[1] \in Levels
  BY SearchAssumption DEF NoScores, Levels

LEMMA CountStep ==
  ASSUME CountInv, [Next]_vars
  PROVE  CountInv'
<1> USE DEF CountInv
<1>0. /\ search' = search /\ Pairs' = Pairs
      /\ Pairs \in Nat /\ search.budget \in Nat
      /\ search.strategy \in {"adaptive", "tpe"}
  BY SearchFixed
<1> USE DEF Counters, Waiting, Remaining
<1>1. CASE Start
  BY <1>0, <1>1, FreshTypes, SearchAssumption DEF Start, TypeOK
<1>2. CASE Screen
  <2>1. PICK score \in Scores :
          /\ best' = [best EXCEPT ![LevelOf(n)] = IF score > @ THEN score ELSE @]
          /\ produced' = Append(produced, Result(1, LevelOf(n), ProfileOf(n), score))
          /\ pending' = <<Result(1, LevelOf(n), ProfileOf(n), score)>>
    BY <1>2 DEF Screen, Obtain, Result
  <2>2. Result(1, LevelOf(n), ProfileOf(n), score) \in Record
    BY <1>2, PairTypes, ResultType DEF Screen, TypeOK
  <2>3. /\ pc = "screen" /\ pc' = "append" /\ n <= Pairs /\ evals < search.budget
        /\ n' = n + 1 /\ evals' = evals + 1
        /\ UNCHANGED <<winner, trials, log, runs, before, lost, crashes>>
    BY <1>2 DEF Screen, Screening, Obtain
  <2>4. best' \in [Levels -> Scores]
    BY <2>1 DEF TypeOK
  <2>5. TypeOK'
    BY <1>0, <2>1, <2>2, <2>3, <2>4 DEF TypeOK
  <2> QED BY <1>0, <2>1, <2>3, <2>5 DEF TypeOK
<1>3. CASE AppendResult
  <2>1. pending[1] \in Record
    BY <1>3 DEF AppendResult, TypeOK
  <2>2. log' \in Seq(Record) /\ Len(log') = Len(log) + 1
    BY <1>3, <2>1 DEF AppendResult, TypeOK
  <2>3. /\ pc = "append" /\ pending' = <<>> /\ Len(pending) = 1
        /\ pc' = IF search.strategy = "tpe" THEN "trial" ELSE "screen"
        /\ UNCHANGED <<n, evals, best, winner, trials, runs, before, produced,
                       lost, crashes>>
    BY <1>3 DEF AppendResult, history
  <2>4. TypeOK'
    BY <1>0, <2>2, <2>3 DEF TypeOK
  <2>5. Counters'
    BY <1>0, <2>3
  <2> QED BY <1>0, <2>2, <2>3, <2>4, <2>5 DEF TypeOK
<1>4. CASE PickWinner
  <2>1. pc' \in {"trial", "done"} /\ pc = "screen" /\ winner' \in Levels
    BY <1>4 DEF PickWinner
  <2> QED BY <1>0, <1>4, <2>1 DEF PickWinner, TypeOK, history
<1>5. CASE Trial
  <2>1. /\ pc = "trial" /\ trials < Remaining /\ trials' = trials + 1
        /\ UNCHANGED <<n, evals, best, winner, log, runs, before, lost, crashes>>
    BY <1>5 DEF Trial
  <2>2. CASE UNCHANGED <<pc, pending, produced>>
    BY <1>0, <2>1, <2>2 DEF TypeOK
  <2>3. CASE TrialReturns /\ search.strategy = "adaptive"
    <3>1. PICK score \in Scores :
            /\ pending' = Append(pending, Result(2, winner, 0, score))
            /\ produced' = Append(produced, Result(2, winner, 0, score))
            /\ pc' = pc
      BY <2>3 DEF TrialReturns
    <3>2. Result(2, winner, 0, score) \in Record
      BY <2>1, ResultType DEF TypeOK
    <3> QED BY <1>0, <2>1, <2>3, <3>1, <3>2 DEF TypeOK
  <2>4. CASE TrialReturns /\ search.strategy # "adaptive"
    <3>1. PICK score \in Scores, tp \in Levels :
            /\ pending' = <<Result(0, tp, 0, score)>>
            /\ produced' = Append(produced, Result(0, tp, 0, score))
            /\ pc' = "append"
      BY <2>4 DEF TrialReturns, Obtain
    <3>2. Result(0, tp, 0, score) \in Record
      BY <2>1, ResultType DEF TypeOK
    <3> QED BY <1>0, <2>1, <2>4, <3>1, <3>2 DEF TypeOK
  <2> QED BY <1>5, <2>2, <2>3, <2>4 DEF Trial
<1>6. CASE StudyEnds
  BY <1>0, <1>6 DEF StudyEnds, TypeOK, memory, history
<1>7. CASE Flush
  <2>1. /\ pc = "flush"
        /\ UNCHANGED <<n, evals, best, winner, trials, runs, before, produced,
                       lost, crashes>>
    BY <1>7 DEF Flush, history
  <2>2. CASE Flushed
    BY <1>0, <1>7, <2>1, <2>2 DEF Flush, Flushed, TypeOK
  <2>3. CASE ~Flushed
    <3>1. /\ log' = Append(log, Head(pending)) /\ pending' = Tail(pending)
          /\ pc' = "flush" /\ pending # <<>>
      BY <1>7, <2>3 DEF Flush, Flushed
    <3>2. Head(pending) \in Record /\ Tail(pending) \in Seq(Record)
      BY <3>1 DEF TypeOK
    <3> QED BY <1>0, <2>1, <3>1, <3>2 DEF TypeOK
  <2> QED BY <2>2, <2>3
<1>8. CASE Crash
  <2>1. lost' \in Nat
    BY <1>8 DEF Crash, TypeOK
  <2> QED BY <1>0, <1>8, <2>1, FreshTypes, SearchAssumption DEF Crash, TypeOK
<1>9. CASE UNCHANGED vars
  BY <1>0, <1>9 DEF vars, memory, history, TypeOK
<1> QED BY <1>1, <1>2, <1>3, <1>4, <1>5, <1>6, <1>7, <1>8, <1>9
        DEF Next, Progress

LEMMA CountInvariant == Spec => []CountInv
<1>1. Init => CountInv
  <2> SUFFICES ASSUME Init PROVE CountInv
    OBVIOUS
  <2>1. Pairs \in Nat /\ search.budget \in Nat
    BY SearchAssumption DEF Init, Pairs
  <2> QED BY <2>1, FreshTypes, SearchAssumption
          DEF Init, CountInv, TypeOK, Counters, Waiting, Remaining
<1>2. CountInv /\ [Next]_vars => CountInv'
  BY CountStep
<1> QED BY <1>1, <1>2, PTL DEF Spec

\* The state of a search has the types declared for it, in particular no more
\* evaluations than the budget and a level among those configured.
THEOREM AdaptiveTypeCorrect == Spec => []TypeOK
BY CountInvariant, PTL DEF CountInv

\* The two phases together stay within the budget, wherever it ends.
THEOREM BudgetHolds == Spec => []WithinBudget
<1>1. CountInv => WithinBudget
  BY SearchAssumption DEF CountInv, Counters, TypeOK, Remaining, WithinBudget
<1> QED BY <1>1, CountInvariant, PTL

----------------------------------------------------------------------------
\* What a live process has obtained is what it has added to the file, followed
\* by what waits to be appended.
Synced ==
  pc # "down" =>
    /\ \A k \in 1..(Len(log) - before) : produced[k] = log[before + k]
    /\ \A k \in 1..Len(pending) :
         produced[Len(log) - before + k] = pending[k]

LEMMA SyncedStep ==
  ASSUME CountInv, Synced, [Next]_vars
  PROVE  Synced'
<1>0. /\ before \in 0..Len(log) /\ pending \in Seq(Record)
      /\ log \in Seq(Record) /\ produced \in Seq(Record)
      /\ pc # "down" => Len(produced) = (Len(log) - before) + Len(pending)
  BY DEF CountInv, TypeOK, Waiting
<1>1. CASE Start
  BY <1>0, <1>1 DEF Start, Synced
<1>2. ASSUME NEW r \in Record, pending = <<>>, pc # "down",
             pending' = <<r>>, produced' = Append(produced, r),
             UNCHANGED <<log, before>>
      PROVE  Synced'
  <2>1. /\ Len(pending') = 1 /\ pending'[1] = r
        /\ Len(produced) = Len(log) - before
        /\ produced'[Len(produced) + 1] = r
        /\ \A k \in 1..Len(produced) : produced'[k] = produced[k]
    BY <1>0, <1>2
  <2>2. \A k \in 1..(Len(log') - before') : produced'[k] = log'[before' + k]
    BY <1>0, <1>2, <2>1 DEF Synced
  <2>3. \A k \in 1..Len(pending') :
          produced'[Len(log') - before' + k] = pending'[k]
    <3>1. produced'[Len(log) - before + 1] = r
      BY <1>0, <2>1
    <3>2. \A k \in 1..1 : produced'[Len(log) - before + k] = pending'[k]
      BY <2>1, <3>1
    <3> QED BY <1>2, <2>1, <3>2
  <2> QED BY <2>2, <2>3 DEF Synced
<1>3. CASE Screen
  <2>1. PICK score \in Scores :
          LET r == Result(1, LevelOf(n), ProfileOf(n), score)
          IN  pending' = <<r>> /\ produced' = Append(produced, r)
    BY <1>3 DEF Screen, Obtain, Result
  <2>2. Result(1, LevelOf(n), ProfileOf(n), score) \in Record
    BY <1>3, PairTypes, ResultType DEF Screen, CountInv, Counters, TypeOK
  <2> QED BY <1>2, <1>3, <2>1, <2>2 DEF Screen, CountInv, Waiting
<1>4. CASE AppendResult
  <2>1. /\ pc = "append" /\ log' = Append(log, pending[1]) /\ pending' = <<>>
        /\ UNCHANGED <<before, produced>>
    BY <1>4 DEF AppendResult, history
  <2>2. Len(pending) = 1
    BY <2>1 DEF CountInv, Waiting
  <2>3. pending[1] \in Record
    <3>1. 1 \in 1..Len(pending)
      BY <2>2
    <3> QED BY <1>0, <3>1, ElementOfSeq
  <2>4. Len(log') = Len(log) + 1 /\ log'[Len(log) + 1] = pending[1]
        /\ \A k \in 1..Len(log) : log'[k] = log[k]
    BY <1>0, <2>1, <2>3
  <2>5. \A k \in 1..(Len(log) - before) : produced[k] = log'[before + k]
    BY <1>0, <2>1, <2>4 DEF Synced
  <2>6. produced[Len(log) - before + 1] = log'[before + (Len(log) - before + 1)]
    BY <1>0, <2>1, <2>2, <2>4 DEF Synced
  <2>7. \A k \in 1..(Len(log') - before) : produced[k] = log'[before + k]
    <3>1. Len(log) \in Nat /\ before \in Nat /\ Len(log) - before >= 0
      BY <1>0
    <3> SUFFICES ASSUME NEW k \in 1..(Len(log) - before + 1)
                 PROVE  produced[k] = log'[before + k]
      BY <2>4, <3>1
    <3>2. k \in 1..(Len(log) - before) \/ k = Len(log) - before + 1
      BY <3>1
    <3> QED BY <2>5, <2>6, <3>2
  <2>8. \A k \in 1..Len(pending') :
          produced[Len(log') - before + k] = pending'[k]
    BY <2>1
  <2> QED BY <2>1, <2>7, <2>8 DEF Synced
<1>5. CASE Trial
  <2>1. pc = "trial" /\ UNCHANGED <<log, before>>
    BY <1>5 DEF Trial
  <2>2. CASE UNCHANGED <<pc, pending, produced>>
    BY <2>1, <2>2 DEF Synced
  <2>3. CASE TrialReturns /\ search.strategy = "adaptive"
    <3>1. PICK score \in Scores :
            /\ pending' = Append(pending, Result(2, winner, 0, score))
            /\ produced' = Append(produced, Result(2, winner, 0, score))
      BY <2>3 DEF TrialReturns
    <3>2. Result(2, winner, 0, score) \in Record
      BY <2>1, ResultType DEF CountInv, Counters, TypeOK
    <3> DEFINE r == Result(2, winner, 0, score)
    <3>3. /\ Len(pending') = Len(pending) + 1 /\ pending'[Len(pending) + 1] = r
          /\ \A k \in 1..Len(pending) : pending'[k] = pending[k]
      BY <1>0, <3>1, <3>2
    <3>4. /\ produced'[Len(produced) + 1] = r
          /\ \A k \in 1..Len(produced) : produced'[k] = produced[k]
      BY <1>0, <3>1, <3>2
    <3> HIDE DEF r
    <3>5. \A k \in 1..(Len(log) - before) : produced'[k] = log[before + k]
      BY <1>0, <2>1, <3>4 DEF Synced
    <3>6. \A k \in 1..Len(pending') :
            produced'[Len(log) - before + k] = pending'[k]
      <4>1. /\ Len(pending) \in Nat /\ Len(log) - before \in Nat
            /\ Len(produced) = (Len(log) - before) + Len(pending)
        BY <1>0, <2>1
      <4> SUFFICES ASSUME NEW k \in 1..(Len(pending) + 1)
                   PROVE  produced'[Len(log) - before + k] = pending'[k]
        BY <3>3
      <4>2. CASE k \in 1..Len(pending)
        <5>1. Len(log) - before + k \in 1..Len(produced)
          BY <4>1, <4>2
        <5>2. produced[Len(log) - before + k] = pending[k]
          BY <2>1, <4>2 DEF Synced
        <5> QED BY <3>3, <3>4, <4>2, <5>1, <5>2
      <4>3. CASE k = Len(pending) + 1
        <5>1. Len(log) - before + k = Len(produced) + 1
          BY <4>1, <4>3
        <5> QED BY <3>3, <3>4, <4>3, <5>1
      <4> QED BY <4>1, <4>2, <4>3
    <3> QED BY <2>1, <3>5, <3>6 DEF Synced
  <2>4. CASE TrialReturns /\ search.strategy # "adaptive"
    <3>1. PICK score \in Scores, tp \in Levels :
            /\ pending' = <<Result(0, tp, 0, score)>>
            /\ produced' = Append(produced, Result(0, tp, 0, score))
      BY <2>4 DEF TrialReturns, Obtain
    <3>2. Result(0, tp, 0, score) \in Record
      BY <2>1, ResultType DEF CountInv, Counters, TypeOK
    <3>3. pending = <<>>
      BY <2>1, <2>4, SearchFixed DEF CountInv, Waiting
    <3> QED BY <1>2, <2>1, <3>1, <3>2, <3>3
  <2> QED BY <1>5, <2>2, <2>3, <2>4 DEF Trial
<1>6. CASE Flush /\ ~Flushed
  <2>1. /\ pc = "flush" /\ log' = Append(log, Head(pending))
        /\ pending' = Tail(pending) /\ pending # <<>>
        /\ UNCHANGED <<before, produced>>
    BY <1>6 DEF Flush, Flushed, history
  <2>2. Head(pending) \in Record /\ Head(pending) = pending[1]
        /\ Len(pending) >= 1 /\ Len(Tail(pending)) = Len(pending) - 1
        /\ \A k \in 1..(Len(pending) - 1) : Tail(pending)[k] = pending[k + 1]
    BY <1>0, <2>1
  <2>3. Len(log') = Len(log) + 1 /\ log'[Len(log) + 1] = pending[1]
        /\ \A k \in 1..Len(log) : log'[k] = log[k]
    BY <1>0, <2>1, <2>2
  <2>4. \A k \in 1..(Len(log') - before) : produced[k] = log'[before + k]
    BY <1>0, <2>1, <2>2, <2>3 DEF Synced
  <2>5. \A k \in 1..Len(pending') :
          produced[Len(log') - before + k] = pending'[k]
    BY <1>0, <2>1, <2>2, <2>3 DEF Synced
  <2> QED BY <2>1, <2>4, <2>5 DEF Synced
<1>7. CASE \/ PickWinner \/ StudyEnds \/ (Flush /\ Flushed) \/ Crash
           \/ UNCHANGED vars
  <2>1. \/ pc' = "down"
        \/ pc # "down" /\ UNCHANGED <<log, before, produced, pending>>
        \/ UNCHANGED <<pc, log, before, produced, pending>>
    BY <1>7 DEF PickWinner, StudyEnds, Flush, Crash, vars, memory, history
  <2> QED BY <2>1 DEF Synced
<1> QED BY <1>1, <1>3, <1>4, <1>5, <1>6, <1>7 DEF Next, Progress

LEMMA SyncedInvariant == Spec => []Synced
<1>1. Init => Synced
  BY DEF Init, Synced
<1>2. CountInv /\ Synced /\ [Next]_vars => Synced'
  BY SyncedStep
<1> QED BY <1>1, <1>2, CountInvariant, PTL DEF Spec

\* With nothing waiting, the process has added exactly what it obtained.
LEMMA NothingWaiting ==
  ASSUME CountInv, Synced, pc # "down", pending = <<>>
  PROVE  Added = produced
<1>1. /\ before \in 0..Len(log) /\ log \in Seq(Record)
      /\ produced \in Seq(Record) /\ Len(produced) = Len(log) - before
  BY DEF CountInv, TypeOK, Waiting
<1>2. \A k \in 1..Len(produced) : produced[k] = log[before + k]
  BY <1>1 DEF Synced
<1>3. /\ Added \in Seq(Record)
      /\ Len(Added) = Len(produced)
      /\ \A k \in 1..Len(produced) : Added[k] = log[before + k]
  BY <1>1 DEF Added
<1> QED BY <1>1, <1>2, <1>3, SeqEqual

\* A search that ends has written every result once and in order, and as long
\* as the second phase has not begun nothing is in memory only.
THEOREM ResultsReachTheFile == Spec => [](DoneIsLogged /\ FirstPhaseIsDurable)
<1>1. CountInv /\ Synced => DoneIsLogged /\ FirstPhaseIsDurable
  BY NothingWaiting DEF CountInv, Waiting, DoneIsLogged, FirstPhaseIsDurable
<1> QED BY <1>1, CountInvariant, SyncedInvariant, PTL

----------------------------------------------------------------------------
\* What one crash may cost.
CrashCost ==
  LET second == IF search.strategy = "tpe" \/ search.skipPhase2 THEN 0
                ELSE search.budget - Pairs
  IN  IF second > 1 THEN second ELSE 1

\* The second phase begins when all pairs have been tried, with what is left
\* of the budget, and the winner has no better level beside it.
SecondPhase ==
  pc \in {"trial", "flush"} /\ search.strategy = "adaptive" =>
    /\ n > Pairs /\ ~search.skipPhase2
    /\ Len(pending) <= trials
    /\ \A tq \in Levels : best[tq] <= best[winner]

\* The winner has the highest score.
LEMMA WinnerIsBest ==
  ASSUME TypeOK, NEW tp \in Levels, Wins(tp)
  PROVE  \A tq \in Levels : best[tq] <= best[tp]
<1>1. \A tq \in Levels : best[tq] \in Nat
  BY SearchAssumption DEF TypeOK
<1>2. CASE \A tq \in Levels : best[tq] = 0
  BY <1>2
<1>3. CASE ~(\A tq \in Levels : best[tq] = 0)
  <2>1. PICK j \in 1..Len(TPs) :
          \A k \in 1..Len(TPs) :
            IF k < j THEN best[TPs[k]] < best[tp] ELSE best[TPs[k]] <= best[tp]
    BY <1>3 DEF Wins
  <2> SUFFICES ASSUME NEW k \in 1..Len(TPs) PROVE best[TPs[k]] <= best[tp]
    BY DEF Levels
  <2>2. TPs[k] \in Levels
    BY DEF Levels
  <2> QED BY <1>1, <2>1, <2>2
<1> QED BY <1>2, <1>3

LEMMA SecondPhaseStep ==
  ASSUME CountInv, SecondPhase, [Next]_vars
  PROVE  SecondPhase'
<1>0. /\ search' = search /\ Pairs' = Pairs
      /\ Pairs \in Nat /\ search.budget \in Nat
      /\ search.strategy \in {"adaptive", "tpe"}
  BY SearchFixed DEF CountInv
<1>1. CASE Start \/ Screen \/ Crash
  BY <1>0, <1>1 DEF Start, Screen, Obtain, Crash, SecondPhase
<1>2. CASE AppendResult
  BY <1>0, <1>2 DEF AppendResult, SecondPhase
<1>3. CASE PickWinner
  <2>1. /\ pc = "screen" /\ ~Screening
        /\ winner' \in Levels /\ Wins(winner')
        /\ pc' = IF ~search.skipPhase2 /\ Remaining > 0 THEN "trial" ELSE "done"
        /\ UNCHANGED <<n, evals, best, trials, pending>>
    BY <1>3 DEF PickWinner
  <2>2. \A tq \in Levels : best[tq] <= best[winner']
    BY <2>1, WinnerIsBest DEF CountInv
  <2>3. pending = <<>> /\ trials \in Nat /\ n \in Nat /\ evals \in Nat
    BY <2>1 DEF CountInv, Waiting, TypeOK
  <2>4. Remaining > 0 => n > Pairs
    BY <1>0, <2>1, <2>3 DEF Screening, Remaining
  <2> QED BY <1>0, <2>1, <2>2, <2>3, <2>4 DEF SecondPhase
<1>4. CASE Trial
  <2>1. /\ pc = "trial" /\ trials \in Nat /\ trials' = trials + 1
        /\ pending \in Seq(Record)
        /\ UNCHANGED <<n, best, winner>>
    BY <1>4 DEF Trial, CountInv, TypeOK
  <2>2. CASE UNCHANGED <<pc, pending, produced>>
    BY <1>0, <2>1, <2>2 DEF SecondPhase
  <2>3. CASE TrialReturns
    <3>1. SUFFICES ASSUME search.strategy = "adaptive"
                   PROVE  SecondPhase'
      BY <1>0 DEF SecondPhase
    <3>2. PICK score \in Scores :
            pending' = Append(pending, Result(2, winner, 0, score))
      BY <2>3, <3>1 DEF TrialReturns
    <3>3. Len(pending') = Len(pending) + 1
      BY <2>1, <3>2
    <3> QED BY <1>0, <2>1, <3>1, <3>3 DEF SecondPhase
  <2> QED BY <1>4, <2>2, <2>3 DEF Trial
<1>5. CASE StudyEnds
  BY <1>0, <1>5 DEF StudyEnds, SecondPhase, memory
<1>6. CASE Flush
  <2>1. /\ pc = "flush" /\ trials \in Nat /\ pending \in Seq(Record)
        /\ UNCHANGED <<n, best, winner, trials>>
        /\ pending' = pending \/ (pending # <<>> /\ pending' = Tail(pending))
    BY <1>6 DEF Flush, Flushed, CountInv, TypeOK
  <2>2. Len(pending') <= Len(pending)
    BY <2>1
  <2> QED BY <1>0, <2>1, <2>2 DEF SecondPhase
<1>7. CASE UNCHANGED vars
  BY <1>0, <1>7 DEF vars, memory, SecondPhase
<1> QED BY <1>1, <1>2, <1>3, <1>4, <1>5, <1>6, <1>7 DEF Next, Progress

LEMMA SecondPhaseInvariant == Spec => []SecondPhase
<1>1. Init => SecondPhase
  BY DEF Init, SecondPhase
<1>2. CountInv /\ SecondPhase /\ [Next]_vars => SecondPhase'
  BY SecondPhaseStep
<1> QED BY <1>1, <1>2, CountInvariant, PTL DEF Spec

\* No more is waiting than a crash may cost: one record, or what the trials
\* of the second phase have returned.
LEMMA WaitingIsBounded ==
  ASSUME CountInv, SecondPhase, pc # "down"
  PROVE  Len(pending) <= CrashCost
<1>0. /\ Pairs \in Nat /\ search.budget \in Nat
      /\ search.strategy \in {"adaptive", "tpe"}
      /\ pending \in Seq(Record) /\ Len(pending) \in Nat
      /\ pc \in {"down", "screen", "append", "trial", "flush", "done"}
      /\ n \in Nat /\ evals = n - 1 /\ trials <= search.budget - evals
      /\ trials \in Nat
  <2>1. Pairs \in Nat /\ search.budget \in Nat
        /\ search.strategy \in {"adaptive", "tpe"}
    BY SearchAssumption DEF CountInv, TypeOK, Pairs
  <2> QED BY <2>1 DEF CountInv, TypeOK, Counters, Remaining
<1>1. CrashCost \in Nat /\ CrashCost >= 1
  BY <1>0 DEF CrashCost
<1>2. CASE Len(pending) <= 1
  BY <1>0, <1>1, <1>2
<1>3. CASE ~(Len(pending) <= 1)
  <2>1. search.strategy = "adaptive" /\ pc \in {"trial", "flush"}
    <3>0. pc \in {"down", "screen", "done"} => Len(pending) <= 1
      BY DEF CountInv, Waiting
    <3>1. pc = "append" => Len(pending) <= 1
      <4>1. pc = "append" => Len(pending) = 1
        BY Zenon DEF CountInv, Waiting
      <4>2. Len(pending) = 1 => Len(pending) <= 1
        OBVIOUS
      <4> QED BY <4>1, <4>2
    <3>2. pc = "trial" /\ search.strategy = "tpe" => Len(pending) <= 1
      BY DEF CountInv, Waiting
    <3>3. search.strategy = "tpe" => pc # "flush"
      BY DEF CountInv, Counters
    <3> QED BY <1>0, <1>3, <3>0, <3>1, <3>2, <3>3, Zenon
  <2>2. n > Pairs /\ ~search.skipPhase2 /\ Len(pending) <= trials
    BY <2>1 DEF SecondPhase
  <2>3. Len(pending) <= search.budget - Pairs
    BY <1>0, <2>2
  <2> QED BY <1>0, <2>1, <2>2, <2>3 DEF CrashCost
<1> QED BY <1>0, <1>2, <1>3

LEMMA LossStep ==
  ASSUME CountInv, SecondPhase, LossIsBounded, [Next]_vars
  PROVE  LossIsBounded'
<1>0. search' = search /\ Pairs' = Pairs /\ CrashCost' = CrashCost
  BY SearchFixed DEF CountInv, CrashCost
<1>1. lost <= crashes * CrashCost
  BY DEF LossIsBounded, CrashCost
<1>2. SUFFICES lost' <= crashes' * CrashCost
  BY <1>0 DEF LossIsBounded, CrashCost
<1>3. CASE Crash
  <2>1. /\ pc # "down" /\ crashes' = crashes + 1
        /\ lost' = lost + Len(produced) - (Len(log) - before)
    BY <1>3 DEF Crash
  <2>2. /\ Len(produced) = (Len(log) - before) + Len(pending)
        /\ Len(log) \in Nat /\ before \in Nat /\ Len(pending) \in Nat
        /\ lost \in Nat /\ crashes \in Nat
    BY <2>1, SearchAssumption DEF CountInv, TypeOK, Waiting
  <2>3. lost' = lost + Len(pending)
    BY <2>1, <2>2
  <2>4. Len(pending) <= CrashCost
    BY <2>1, WaitingIsBounded
  <2>5. CrashCost \in Nat
    <3>1. Pairs \in Nat /\ search.budget \in Nat
      BY SearchFixed DEF CountInv
    <3> QED BY <3>1 DEF CrashCost
  <2>6. (crashes + 1) * CrashCost = crashes * CrashCost + CrashCost
    BY <2>2, <2>5
  <2>7. crashes * CrashCost \in Nat
    BY <2>2, <2>5
  <2> HIDE DEF CrashCost
  <2> QED BY <1>1, <2>1, <2>2, <2>3, <2>4, <2>5, <2>6, <2>7
<1>4. CASE ~Crash
  <2>1. UNCHANGED <<lost, crashes>>
    BY <1>4 DEF Next, Progress, Start, Screen, AppendResult, PickWinner, Trial,
      StudyEnds, Flush, vars, history
  <2> QED BY <1>1, <2>1
<1> QED BY <1>3, <1>4

\* Crashes cost at most a result each, or the unwritten part of a second phase.
THEOREM CrashesCostLittle == Spec => []LossIsBounded
<1>1. Init => LossIsBounded
  <2> SUFFICES ASSUME Init PROVE LossIsBounded
    OBVIOUS
  <2>1. Pairs \in Nat /\ search.budget \in Nat
    BY SearchAssumption DEF Init, Pairs
  <2> QED BY <2>1 DEF Init, LossIsBounded
<1>2. CountInv /\ SecondPhase /\ LossIsBounded /\ [Next]_vars => LossIsBounded'
  BY LossStep
<1> QED BY <1>1, <1>2, CountInvariant, SecondPhaseInvariant, PTL DEF Spec

----------------------------------------------------------------------------
\* Which process a record in the file is from: this process's are behind the
\* first `before' ones.
Provenance ==
  /\ \A k \in 1..Len(log) : log[k].run <= runs
  /\ pc # "down" =>
       /\ \A k \in 1..before : log[k].run < runs
       /\ \A m \in 1..Len(produced) : produced[m].run = runs

\* What a process has obtained: in run_search first one record for each pair,
\* then those of the second phase at the winner.
Phases ==
  /\ pc # "down" /\ search.strategy = "tpe" =>
       \A m \in 1..Len(produced) : produced[m].phase = 0
  /\ pc # "down" /\ search.strategy = "adaptive" =>
       /\ evals <= Len(produced)
       /\ \A m \in 1..evals :
            /\ produced[m].phase = 1 /\ produced[m].tp = LevelOf(m)
            /\ produced[m].profile = ProfileOf(m)
       /\ \A m \in (evals + 1)..Len(produced) :
            produced[m].phase = 2 /\ produced[m].tp = winner
  /\ pc \in {"screen", "append"} /\ search.strategy = "adaptive" =>
       Len(produced) = evals

\* The scores kept per level are the best of the first phase.
BestScores ==
  pc # "down" /\ search.strategy = "adaptive" =>
    /\ \A m \in 1..evals : produced[m].score <= best[LevelOf(m)]
    /\ \A tp \in Levels : best[tp] > 0 =>
         \E m \in 1..evals : LevelOf(m) = tp /\ produced[m].score = best[tp]

\* The first-phase records of the same process before a record, and how they
\* explain it.
FirstOf(j) == {k \in 1..(j - 1) : log[k].phase = 1 /\ log[k].run = log[j].run}
Explained(j) ==
  /\ \A m \in {i \in 1..Pairs : i <= search.budget} : \E k \in FirstOf(j) :
       log[k].tp = LevelOf(m) /\ log[k].profile = ProfileOf(m)
  /\ \A k \in FirstOf(j) : log[k].score > 0 =>
       \E l \in FirstOf(j) :
         log[l].tp = log[j].tp /\ log[l].score >= log[k].score

LEMMA ExplainedEach ==
  SecondPhaseIsExplained <=>
    \A j \in 1..Len(log) : log[j].phase = 2 => Explained(j)
BY DEF SecondPhaseIsExplained, Explained, FirstOf

\* A new process, a new result, a new record: what Append does to each.
LEMMA AppendTo ==
  ASSUME NEW s \in Seq(Record), NEW r \in Record
  PROVE  /\ Append(s, r) \in Seq(Record)
         /\ Len(Append(s, r)) = Len(s) + 1
         /\ Append(s, r)[Len(s) + 1] = r
         /\ \A k \in 1..Len(s) : Append(s, r)[k] = s[k]
OBVIOUS

\* A record stays explained when the file grows.
LEMMA StaysExplained ==
  ASSUME TypeOK, NEW r \in Record, log' = Append(log, r), search' = search,
         NEW j \in 1..Len(log), Explained(j)
  PROVE  Explained(j)'
<1>1. \A k \in 1..Len(log) : log'[k] = log[k]
  BY AppendTo DEF TypeOK
<1>2. Len(log) \in Nat
  BY DEF TypeOK
<1>3. \A k \in 1..(j - 1) : k \in 1..Len(log)
  BY <1>2
<1>4. FirstOf(j)' = FirstOf(j)
  BY <1>1, <1>3 DEF FirstOf
<1>5. FirstOf(j) \subseteq 1..Len(log)
  BY <1>3 DEF FirstOf
<1>6. Pairs' = Pairs
  BY DEF Pairs
<1> QED BY <1>1, <1>4, <1>5, <1>6 DEF Explained

\* Appending a record that is not of the second phase, or one that is explained.
LEMMA GrowsExplained ==
  ASSUME TypeOK, SecondPhaseIsExplained, search' = search,
         NEW r \in Record, log' = Append(log, r),
         NEW end, end = Len(log) + 1, r.phase = 2 => Explained(end)'
  PROVE  SecondPhaseIsExplained'
<1>1. /\ Len(log') = Len(log) + 1 /\ log'[Len(log) + 1] = r
      /\ \A k \in 1..Len(log) : log'[k] = log[k]
      /\ Len(log) \in Nat
  BY AppendTo DEF TypeOK
<1>2. SUFFICES ASSUME NEW j \in 1..Len(log'), log'[j].phase = 2
               PROVE  Explained(j)'
  BY DEF SecondPhaseIsExplained, Explained, FirstOf
<1>3. CASE j \in 1..Len(log)
  <2>1. Explained(j)
    BY <1>1, <1>2, <1>3, ExplainedEach
  <2> QED BY <1>3, <2>1, StaysExplained
<1>4. CASE j = Len(log) + 1
  BY <1>1, <1>2, <1>4
<1> QED BY <1>1, <1>3, <1>4

\* Screen obtains the record of the next pair, whose score may be the best.
LEMMA ScreenYields ==
  ASSUME CountInv, Screen
  PROVE  \E r \in Record :
           /\ produced' = Append(produced, r) /\ r.run = runs /\ r.phase = 1
           /\ r.tp = LevelOf(n) /\ r.profile = ProfileOf(n)
           /\ best' = [best EXCEPT ![LevelOf(n)] =
                         IF r.score > @ THEN r.score ELSE @]
<1>1. PICK score \in Scores :
        /\ best' = [best EXCEPT ![LevelOf(n)] = IF score > @ THEN score ELSE @]
        /\ produced' = Append(produced, Result(1, LevelOf(n), ProfileOf(n), score))
  BY DEF Screen, Result
<1>2. Result(1, LevelOf(n), ProfileOf(n), score) \in Record
  BY PairTypes, ResultType DEF Screen, CountInv, Counters, TypeOK
<1> QED BY <1>1, <1>2 DEF Result

\* A trial obtains nothing or a record: of the winner in the second phase of
\* run_search, of no phase in run_tpe_search.
LEMMA TrialYields ==
  ASSUME CountInv, Trial
  PROVE  \/ UNCHANGED <<pc, produced>>
         \/ \E r \in Record :
              /\ produced' = Append(produced, r) /\ r.run = runs
              /\ IF search.strategy = "adaptive"
                 THEN r.phase = 2 /\ r.tp = winner /\ pc' = pc
                 ELSE r.phase = 0
<1>1. runs >= 1 /\ winner \in Levels
  BY DEF Trial, CountInv, Counters, TypeOK
<1>2. CASE TrialReturns /\ search.strategy = "adaptive"
  <2>1. PICK score \in Scores :
          produced' = Append(produced, Result(2, winner, 0, score)) /\ pc' = pc
    BY <1>2 DEF TrialReturns
  <2>2. Result(2, winner, 0, score) \in Record
    BY <1>1, ResultType DEF CountInv
  <2> QED BY <1>2, <2>1, <2>2 DEF Result
<1>3. CASE TrialReturns /\ search.strategy # "adaptive"
  <2>1. PICK score \in Scores, tp \in Levels :
          produced' = Append(produced, Result(0, tp, 0, score))
    BY <1>3 DEF TrialReturns, Obtain
  <2>2. Result(0, tp, 0, score) \in Record
    BY <1>1, ResultType DEF CountInv
  <2> QED BY <1>3, <2>1, <2>2 DEF Result
<1> QED BY <1>2, <1>3 DEF Trial

\* The other steps begin or end a process, append the next record, or leave
\* file and results alone.
LEMMA StepKinds ==
  ASSUME CountInv, [Next]_vars
  PROVE  \/ Start \/ Screen \/ Trial \/ PickWinner \/ UNCHANGED vars
         \/ /\ pc' = "down" /\ UNCHANGED <<log, runs>>
         \/ /\ pc \in {"append", "flush"} /\ pc' \notin {"down", "append"}
            /\ pending # <<>> /\ pending[1] \in Record
            /\ log' = Append(log, pending[1])
            /\ pc = "append" \/ pc' = "flush"
            /\ UNCHANGED <<runs, before, produced, evals, best, winner>>
         \/ /\ pc # "down" /\ pc' \notin {"down", "screen", "append"}
            /\ UNCHANGED <<log, runs, before, produced, evals, best, winner>>
<1>0. pending \in Seq(Record) /\ search.strategy \in {"adaptive", "tpe"}
  BY SearchFixed DEF CountInv, TypeOK
<1>1. CASE AppendResult
  <2>1. /\ pc = "append" /\ log' = Append(log, pending[1])
        /\ pc' = IF search.strategy = "tpe" THEN "trial" ELSE "screen"
        /\ UNCHANGED <<runs, before, produced, evals, best, winner>>
    BY <1>1 DEF AppendResult, history
  <2>2. pending # <<>> /\ pending[1] \in Record
    BY <1>0, <2>1 DEF CountInv, TypeOK
  <2> QED BY <1>0, <2>1, <2>2
<1>2. CASE Flush
  <2>1. pc = "flush" /\ UNCHANGED <<runs, before, produced, evals, best, winner>>
    BY <1>2 DEF Flush, history
  <2>2. CASE Flushed
    BY <1>2, <2>1, <2>2 DEF Flush
  <2>3. CASE ~Flushed
    <3>1. /\ pending # <<>> /\ log' = Append(log, Head(pending))
          /\ pc' = "flush"
      BY <1>2, <2>3 DEF Flush, Flushed
    <3>2. Head(pending) = pending[1] /\ pending[1] \in Record
      BY <1>0, <3>1
    <3> QED BY <2>1, <3>1, <3>2
  <2> QED BY <2>2, <2>3
<1>3. CASE StudyEnds \/ Crash
  BY <1>3 DEF StudyEnds, Crash, memory, history
<1> QED BY <1>1, <1>2, <1>3 DEF Next, Progress

\* The record about to be appended is the next of this process's results.
LEMMA NextToAppend ==
  ASSUME CountInv, Synced, pc # "down", pending # <<>>
  PROVE  /\ Len(log) - before + 1 \in 1..Len(produced)
         /\ produced[Len(log) - before + 1] = pending[1]
<1>1. /\ pending \in Seq(Record) /\ Len(log) \in Nat /\ before \in 0..Len(log)
      /\ Len(produced) = (Len(log) - before) + Len(pending)
  BY DEF CountInv, TypeOK, Waiting
<1>2. Len(pending) \in Nat /\ Len(pending) >= 1
  BY <1>1
<1>3. produced[Len(log) - before + 1] = pending[1]
  BY <1>2 DEF Synced
<1> QED BY <1>1, <1>2, <1>3

LEMMA ProvenanceStep ==
  ASSUME CountInv, Synced, Provenance, [Next]_vars
  PROVE  Provenance'
<1>0. /\ log \in Seq(Record) /\ produced \in Seq(Record) /\ runs \in Nat
      /\ Len(log) \in Nat /\ before \in 0..Len(log)
      /\ \A r \in Record : r.run \in Nat
  BY SearchAssumption DEF CountInv, TypeOK, Record
<1>1. CASE Start
  <2>1. /\ runs' = runs + 1 /\ before' = Len(log) /\ produced' = <<>>
        /\ log' = log
    BY <1>1 DEF Start
  <2>2. \A k \in 1..Len(log) : log[k].run <= runs /\ log[k].run \in Nat
    BY <1>0 DEF Provenance
  <2> QED BY <1>0, <2>1, <2>2 DEF Provenance
<1>2. CASE pc' = "down" /\ UNCHANGED <<log, runs>>
  BY <1>2 DEF Provenance
<1>3. ASSUME NEW r \in Record, r.run = runs, pc # "down",
             produced' = Append(produced, r), UNCHANGED <<log, runs, before>>
      PROVE  Provenance'
  <2>1. /\ Len(produced') = Len(produced) + 1 /\ produced'[Len(produced) + 1] = r
        /\ \A k \in 1..Len(produced) : produced'[k] = produced[k]
        /\ Len(produced) \in Nat
    BY <1>0, <1>3, AppendTo
  <2>2. \A m \in 1..Len(produced') : produced'[m].run = runs
    BY <1>3, <2>1 DEF Provenance
  <2> QED BY <1>3, <2>2 DEF Provenance
<1>4. CASE Screen \/ Trial
  <2>1. pc # "down" /\ UNCHANGED <<log, runs, before>>
    BY <1>4 DEF Screen, Trial
  <2>2. CASE UNCHANGED produced
    BY <2>1, <2>2 DEF Provenance
  <2>3. CASE ~(UNCHANGED produced)
    <3>1. PICK r \in Record : produced' = Append(produced, r) /\ r.run = runs
      BY <1>4, <2>3, ScreenYields, TrialYields
    <3> QED BY <1>3, <2>1, <3>1
  <2> QED BY <2>2, <2>3
<1>5. CASE /\ pc \in {"append", "flush"} /\ pc' # "down" /\ pending # <<>>
           /\ pending[1] \in Record /\ log' = Append(log, pending[1])
           /\ UNCHANGED <<runs, before, produced>>
  <2>1. pending[1].run = runs
    BY <1>5, NextToAppend DEF Provenance
  <2>2. /\ Len(log') = Len(log) + 1 /\ log'[Len(log) + 1] = pending[1]
        /\ \A k \in 1..Len(log) : log'[k] = log[k]
    BY <1>0, <1>5, AppendTo
  <2>3. \A k \in 1..Len(log') : log'[k].run <= runs
    BY <1>0, <2>1, <2>2 DEF Provenance
  <2>4. \A k \in 1..before : k \in 1..Len(log)
    BY <1>0
  <2> QED BY <1>5, <2>2, <2>3, <2>4 DEF Provenance
<1>6. CASE UNCHANGED <<log, runs, before, produced>> /\ pc # "down"
  BY <1>6 DEF Provenance
<1>7. CASE UNCHANGED vars
  BY <1>7 DEF vars, history, Provenance
<1>8. PickWinner => UNCHANGED <<log, runs, before, produced>> /\ pc # "down"
  BY DEF PickWinner, history
<1> QED BY <1>1, <1>2, <1>4, <1>5, <1>6, <1>7, <1>8, StepKinds

LEMMA PhasesStep ==
  ASSUME CountInv, Phases, [Next]_vars
  PROVE  Phases'
<1>0. /\ produced \in Seq(Record) /\ Len(produced) \in Nat
      /\ evals \in Nat /\ n \in Nat /\ evals = n - 1
      /\ search' = search /\ search.strategy \in {"adaptive", "tpe"}
  <2>1. evals \in Nat /\ n \in Nat
    BY SearchFixed DEF CountInv, TypeOK
  <2> QED BY <2>1, SearchFixed DEF CountInv, TypeOK, Counters
<1>1. CASE Start
  <2>1. evals' = 0 /\ produced' = <<>> /\ Len(produced') = 0
    BY <1>1 DEF Start
  <2> QED BY <1>0, <2>1 DEF Phases
<1>2. CASE pc' = "down"
  BY <1>2 DEF Phases
<1>3. CASE Screen
  <2>1. /\ pc = "screen" /\ pc' = "append" /\ evals' = evals + 1
        /\ search.strategy = "adaptive"
    BY <1>0, <1>3 DEF Screen, Obtain, CountInv, Counters
  <2>2. PICK r \in Record :
          /\ produced' = Append(produced, r)
          /\ r.phase = 1 /\ r.tp = LevelOf(n) /\ r.profile = ProfileOf(n)
    BY <1>3, ScreenYields
  <2>3. /\ Len(produced') = Len(produced) + 1 /\ produced'[Len(produced) + 1] = r
        /\ \A k \in 1..Len(produced) : produced'[k] = produced[k]
    BY <1>0, <2>2, AppendTo
  <2>4. Len(produced) = evals
    BY <2>1 DEF Phases
  <2>5. \A m \in 1..evals' :
          /\ produced'[m].phase = 1 /\ produced'[m].tp = LevelOf(m)
          /\ produced'[m].profile = ProfileOf(m)
    <3> SUFFICES ASSUME NEW m \in 1..(evals + 1)
                 PROVE  /\ produced'[m].phase = 1 /\ produced'[m].tp = LevelOf(m)
                        /\ produced'[m].profile = ProfileOf(m)
      BY <2>1
    <3>1. CASE m \in 1..evals
      BY <2>1, <2>3, <2>4, <3>1 DEF Phases
    <3>2. CASE m = evals + 1
      <4>1. m = n
        BY <1>0, <3>2
      <4> QED BY <2>2, <2>3, <2>4, <3>2, <4>1
    <3> QED BY <1>0, <3>1, <3>2
  <2>6. Len(produced') = evals'
    BY <2>1, <2>3, <2>4
  <2>7. evals' \in Nat /\ (evals' + 1)..Len(produced') = {}
    BY <1>0, <2>1, <2>6
  <2> QED BY <1>0, <2>1, <2>5, <2>6, <2>7 DEF Phases
<1>4. CASE Trial
  <2>1. pc = "trial" /\ evals' = evals /\ winner' = winner
    BY <1>4 DEF Trial
  <2>2. CASE UNCHANGED <<pc, produced>>
    BY <1>0, <2>1, <2>2 DEF Phases
  <2>3. CASE ~(UNCHANGED <<pc, produced>>)
    <3>1. PICK r \in Record :
            /\ produced' = Append(produced, r)
            /\ IF search.strategy = "adaptive"
               THEN r.phase = 2 /\ r.tp = winner /\ pc' = "trial"
               ELSE r.phase = 0
      BY <2>1, <1>4, <2>3, TrialYields
    <3>2. /\ Len(produced') = Len(produced) + 1 /\ produced'[Len(produced) + 1] = r
          /\ \A k \in 1..Len(produced) : produced'[k] = produced[k]
      BY <1>0, <3>1, AppendTo
    <3>3. CASE search.strategy = "adaptive"
      <4>1. evals <= Len(produced)
        BY <2>1, <3>3 DEF Phases
      <4>2. \A m \in 1..evals : m \in 1..Len(produced)
        BY <1>0, <4>1
      <4>3. \A m \in (evals + 1)..Len(produced') :
              produced'[m].phase = 2 /\ produced'[m].tp = winner
        BY <1>0, <2>1, <3>1, <3>2, <3>3, <4>1 DEF Phases
      <4>4. \A m \in 1..evals :
              /\ produced'[m].phase = 1 /\ produced'[m].tp = LevelOf(m)
              /\ produced'[m].profile = ProfileOf(m)
        BY <2>1, <3>2, <3>3, <4>2 DEF Phases
      <4>5. evals' <= Len(produced') /\ pc' = "trial"
        BY <1>0, <2>1, <3>1, <3>2, <3>3, <4>1
      <4> QED BY <1>0, <2>1, <3>3, <4>3, <4>4, <4>5 DEF Phases
    <3>4. CASE search.strategy # "adaptive"
      <4>1. \A m \in 1..Len(produced') : produced'[m].phase = 0
        BY <1>0, <2>1, <3>1, <3>2, <3>4 DEF Phases
      <4> QED BY <1>0, <3>4, <4>1 DEF Phases
    <3> QED BY <3>3, <3>4
  <2> QED BY <2>2, <2>3
<1>5. CASE /\ pc \in {"append", "flush"} /\ pc' \notin {"down", "append"}
           /\ pc = "append" \/ pc' = "flush"
           /\ UNCHANGED <<produced, evals, winner>>
  BY <1>0, <1>5 DEF Phases
<1>6. CASE PickWinner
  <2>1. /\ pc = "screen" /\ pc' \in {"trial", "done"} /\ UNCHANGED <<evals, produced>>
        /\ search.strategy = "adaptive"
    BY <1>0, <1>6 DEF PickWinner, history, CountInv, Counters
  <2>2. Len(produced) = evals /\ (evals + 1)..Len(produced) = {}
    BY <1>0, <2>1 DEF Phases
  <2> QED BY <1>0, <2>1, <2>2 DEF Phases
<1>7. CASE /\ pc # "down" /\ pc' \notin {"down", "screen", "append"}
           /\ UNCHANGED <<produced, evals, winner>>
  BY <1>0, <1>7 DEF Phases
<1>8. CASE UNCHANGED vars
  BY <1>0, <1>8 DEF vars, memory, history, Phases
<1> QED BY <1>1, <1>2, <1>3, <1>4, <1>5, <1>6, <1>7, <1>8, StepKinds

LEMMA BestScoresStep ==
  ASSUME CountInv, Phases, BestScores, [Next]_vars
  PROVE  BestScores'
<1>0. /\ produced \in Seq(Record) /\ Len(produced) \in Nat
      /\ evals \in Nat /\ n \in Nat /\ evals = n - 1 /\ best \in [Levels -> Nat]
      /\ search' = search /\ search.strategy \in {"adaptive", "tpe"}
  <2>1. evals \in Nat /\ n \in Nat
    BY SearchFixed DEF CountInv, TypeOK
  <2>2. best \in [Levels -> Nat]
    BY SearchAssumption DEF CountInv, TypeOK
  <2> QED BY <2>1, <2>2, SearchFixed DEF CountInv, TypeOK, Counters
<1>1. CASE Start
  <2>1. evals' = 0 /\ best' = NoScores
    BY <1>1 DEF Start
  <2> QED BY <2>1 DEF BestScores, NoScores
<1>2. CASE pc' = "down"
  BY <1>2 DEF BestScores
<1>3. CASE Screen
  <2>1. /\ pc = "screen" /\ pc' = "append" /\ evals' = evals + 1
        /\ search.strategy = "adaptive"
    BY <1>0, <1>3 DEF Screen, Obtain, CountInv, Counters
  <2>2. PICK r \in Record :
          /\ produced' = Append(produced, r)
          /\ best' = [best EXCEPT ![LevelOf(n)] = IF r.score > @ THEN r.score ELSE @]
    BY <1>3, ScreenYields
  <2>3. /\ produced'[evals + 1] = r
        /\ \A k \in 1..evals : produced'[k] = produced[k]
    <3>1. Len(produced) = evals
      BY <2>1 DEF Phases
    <3> QED BY <1>0, <2>2, <3>1, AppendTo
  <2>4. r.score \in Nat /\ LevelOf(n) \in Levels /\ n = evals + 1
    <3>1. n = evals + 1 /\ n \in Nat \ {0}
      BY <1>0
    <3> QED BY <3>1, PairTypes, SearchAssumption DEF Record
  <2>5. /\ best' \in [Levels -> Nat]
        /\ best'[LevelOf(n)] >= r.score
        /\ \A tp \in Levels : best'[tp] >= best[tp]
        /\ \A tp \in Levels : \/ best'[tp] = best[tp]
                              \/ tp = LevelOf(n) /\ best'[tp] = r.score
    <3> DEFINE high == IF r.score > best[LevelOf(n)] THEN r.score ELSE best[LevelOf(n)]
    <3>1. best[LevelOf(n)] \in Nat
      BY <1>0, <2>4
    <3>2. /\ high \in Nat /\ high >= r.score /\ high >= best[LevelOf(n)]
          /\ high = best[LevelOf(n)] \/ high = r.score
      BY <2>4, <3>1
    <3>3. best' = [best EXCEPT ![LevelOf(n)] = high]
      BY <1>0, <2>2, <2>4
    <3> HIDE DEF high
    <3>4. /\ best' \in [Levels -> Nat] /\ best'[LevelOf(n)] = high
          /\ \A tp \in Levels : tp # LevelOf(n) => best'[tp] = best[tp]
      BY <1>0, <2>4, <3>2, <3>3
    <3>5. \A tp \in Levels : best[tp] \in Nat /\ best[tp] >= best[tp]
      BY <1>0
    <3>6. \A tp \in Levels : tp = LevelOf(n) \/ best'[tp] = best[tp]
      BY <3>4
    <3>7. \A tp \in Levels : best'[tp] >= best[tp]
      BY <3>2, <3>4, <3>5, <3>6
    <3>8. \A tp \in Levels : \/ best'[tp] = best[tp]
                             \/ tp = LevelOf(n) /\ best'[tp] = r.score
      BY <3>2, <3>4, <3>6
    <3> QED BY <3>2, <3>4, <3>7, <3>8
  <2>6. \A m \in 1..evals' : produced'[m].score <= best'[LevelOf(m)]
    <3> SUFFICES ASSUME NEW m \in 1..(evals + 1)
                 PROVE  produced'[m].score <= best'[LevelOf(m)]
      BY <2>1
    <3>1. CASE m \in 1..evals
      <4>1. LevelOf(m) \in Levels
        BY PairTypes
      <4>2. produced[m].score <= best[LevelOf(m)] /\ m \in 1..Len(produced)
        BY <2>1, <3>1 DEF BestScores, Phases
      <4>3. produced[m].score \in Nat
        <5>1. produced[m] \in Record
          BY <1>0, <4>2, ElementOfSeq
        <5> QED BY <5>1, SearchAssumption DEF Record
      <4> QED BY <1>0, <2>3, <2>5, <3>1, <4>1, <4>2, <4>3
    <3>2. CASE m = evals + 1
      BY <2>2, <2>3, <2>4, <2>5, <3>2
    <3> QED BY <1>0, <3>1, <3>2
  <2>7. ASSUME NEW tp \in Levels, best'[tp] > 0
        PROVE  \E m \in 1..evals' : LevelOf(m) = tp /\ produced'[m].score = best'[tp]
    <3>1. CASE best'[tp] = best[tp]
      <4>1. PICK m \in 1..evals : LevelOf(m) = tp /\ produced[m].score = best[tp]
        BY <2>1, <2>7, <3>1 DEF BestScores
      <4>2. m \in 1..evals'
        BY <1>0, <2>1
      <4> QED BY <2>3, <3>1, <4>1, <4>2
    <3>2. CASE tp = LevelOf(n) /\ best'[tp] = r.score
      <4>1. n \in 1..evals'
        BY <1>0, <2>1
      <4> QED BY <2>2, <2>3, <2>4, <3>2, <4>1
    <3> QED BY <2>5, <3>1, <3>2
  <2> QED BY <2>6, <2>7 DEF BestScores
<1>4. CASE Trial
  <2>1. pc = "trial" /\ UNCHANGED <<evals, best>>
    BY <1>4 DEF Trial
  <2>2. produced' = produced \/ \E r \in Record : produced' = Append(produced, r)
    BY <1>4, TrialYields
  <2>3. SUFFICES ASSUME search.strategy = "adaptive"
                 PROVE  BestScores'
    BY <1>0 DEF BestScores
  <2>4. evals <= Len(produced)
    BY <2>1, <2>3 DEF Phases
  <2>5. \A m \in 1..evals : produced'[m] = produced[m]
    BY <1>0, <2>2, <2>4, AppendTo
  <2> QED BY <1>0, <2>1, <2>3, <2>5 DEF BestScores
<1>5. CASE pc # "down" /\ UNCHANGED <<produced, evals, best>>
  BY <1>0, <1>5 DEF BestScores
<1>6. PickWinner => pc # "down" /\ UNCHANGED <<produced, evals, best>>
  BY DEF PickWinner, history
<1>7. CASE UNCHANGED vars
  BY <1>0, <1>7 DEF vars, memory, history, BestScores
<1> QED BY <1>1, <1>2, <1>3, <1>4, <1>5, <1>6, <1>7, StepKinds

\* The parts that concern what the records tell.
ExplainInv ==
  /\ CountInv /\ Synced /\ SecondPhase /\ Provenance /\ Phases /\ BestScores

\* A record of the second phase is appended behind everything that explains
\* it: the whole first phase of this process, whose winner has the best score.
LEMMA AppendedIsExplained ==
  ASSUME ExplainInv, pc = "flush", pending # <<>>, pending[1] \in Record,
         log' = Append(log, pending[1]), search' = search, pending[1].phase = 2,
         NEW end, end = Len(log) + 1
  PROVE  Explained(end)'
<1> USE DEF ExplainInv
<1> DEFINE first == (before + 1)..(before + evals)
<1>0. /\ Len(log) \in Nat /\ before \in 0..Len(log) /\ runs \in Nat
      /\ evals \in Nat /\ n \in Nat /\ evals = n - 1 /\ Pairs \in Nat
      /\ produced \in Seq(Record) /\ search.strategy = "adaptive"
      /\ winner \in Levels /\ best \in [Levels -> Scores]
  <2>1. search.strategy \in {"adaptive", "tpe"} /\ search.profiles \in Nat
        /\ search.budget \in Nat
    BY SearchAssumption DEF CountInv, TypeOK
  <2>2. Pairs \in Nat
    BY <2>1, SearchAssumption DEF Pairs
  <2>3. search.strategy = "adaptive"
    BY <2>1 DEF CountInv, Counters
  <2> QED BY <2>1, <2>2, <2>3, SearchAssumption DEF CountInv, TypeOK, Counters
<1>1. /\ log'[end] = pending[1]
      /\ \A k \in 1..Len(log) : log'[k] = log[k]
  BY AppendTo DEF CountInv, TypeOK
<1>2. /\ Len(log) - before + 1 \in 1..Len(produced)
      /\ produced[Len(log) - before + 1] = pending[1]
  BY NextToAppend
<1>3. pending[1].run = runs /\ pending[1].tp = winner /\ evals <= Len(log) - before
  <2>1. Len(log) - before + 1 \notin 1..evals
    BY <1>0, <1>2 DEF Phases
  <2>2. evals <= Len(log) - before
    BY <1>0, <2>1
  <2>3. Len(log) - before + 1 \in (evals + 1)..Len(produced)
    BY <1>0, <1>2, <2>2
  <2>4. pending[1].run = runs
    BY <1>2 DEF Provenance
  <2>5. pending[1].tp = winner
    BY <1>0, <1>2, <2>3 DEF Phases
  <2> QED BY <2>2, <2>4, <2>5
<1>4. \A m \in 1..evals :
        /\ before + m \in 1..Len(log)
        /\ log[before + m] = produced[m] /\ produced[m] \in Record
        /\ log[before + m].run = runs /\ log[before + m].phase = 1
        /\ log[before + m].tp = LevelOf(m)
        /\ log[before + m].profile = ProfileOf(m)
  <2> SUFFICES ASSUME NEW m \in 1..evals
               PROVE  /\ before + m \in 1..Len(log)
                      /\ log[before + m] = produced[m] /\ produced[m] \in Record
                      /\ log[before + m].run = runs /\ log[before + m].phase = 1
                      /\ log[before + m].tp = LevelOf(m)
                      /\ log[before + m].profile = ProfileOf(m)
    OBVIOUS
  <2>1. before + m \in 1..Len(log) /\ m \in 1..(Len(log) - before)
    BY <1>0, <1>3
  <2>2. m \in 1..Len(produced)
    BY <1>0, <1>2, <2>1
  <2>3. produced[m] \in Record
    BY <1>0, <2>2, ElementOfSeq
  <2>4. log[before + m] = produced[m]
    BY <2>1 DEF Synced
  <2>5. produced[m].run = runs
    BY <2>2 DEF Provenance
  <2>6. /\ produced[m].phase = 1 /\ produced[m].tp = LevelOf(m)
        /\ produced[m].profile = ProfileOf(m)
    BY <1>0 DEF Phases
  <2> QED BY <2>1, <2>3, <2>4, <2>5, <2>6
<1>5. first \subseteq 1..Len(log)
  BY <1>0, <1>3
<1>6. FirstOf(end)' = first
  <2>1. FirstOf(end)' = {k \in 1..(end - 1) : log'[k].phase = 1 /\ log'[k].run = log'[end].run}
    BY DEF FirstOf
  <2>2. end - 1 = Len(log)
    BY <1>0
  <2>3. FirstOf(end)' = {k \in 1..Len(log) : log[k].phase = 1 /\ log[k].run = runs}
    BY <1>1, <1>3, <2>1, <2>2
  <2>4. ASSUME NEW k \in first
        PROVE  log[k].phase = 1 /\ log[k].run = runs
    <3>1. k - before \in 1..evals /\ before + (k - before) = k
      BY <1>0, <2>4
    <3> QED BY <1>4, <3>1
  <2>5. ASSUME NEW k \in 1..Len(log), log[k].phase = 1, log[k].run = runs
        PROVE  k \in first
    <3>1. k \notin 1..before
      <4> SUFFICES ASSUME k \in 1..before PROVE FALSE
        OBVIOUS
      <4>1. log[k].run < runs
        BY DEF Provenance
      <4> QED BY <1>0, <2>5, <4>1
    <3>2. k - before \in 1..(Len(log) - before) /\ before + (k - before) = k
      BY <1>0, <3>1
    <3>3. produced[k - before] = log[k]
      BY <3>2 DEF Synced
    <3>4. k - before \in 1..Len(produced)
      BY <1>0, <1>2, <3>2
    <3>5. k - before \notin (evals + 1)..Len(produced)
      <4> DEFINE m == k - before
      <4>1. produced[m].phase = 1
        BY <2>5, <3>3
      <4> HIDE DEF m
      <4>2. m \notin (evals + 1)..Len(produced)
        BY <1>0, <4>1 DEF Phases
      <4> QED BY <4>2 DEF m
    <3> QED BY <1>0, <3>2, <3>4, <3>5
  <2> QED BY <1>5, <2>3, <2>4, <2>5
<1>7. Pairs' = Pairs
  BY DEF Pairs
<1>8. ASSUME NEW m \in 1..Pairs
      PROVE  \E k \in first :
               log'[k].tp = LevelOf(m) /\ log'[k].profile = ProfileOf(m)
  <2>1. n > Pairs
    BY <1>0 DEF SecondPhase
  <2>2. m \in 1..evals /\ before + m \in first
    BY <1>0, <2>1
  <2> QED BY <1>1, <1>4, <2>2
<1>9. ASSUME NEW k \in first, log'[k].score > 0
      PROVE  \E l \in first :
               log'[l].tp = log'[end].tp /\ log'[l].score >= log'[k].score
  <2>1. k - before \in 1..evals /\ before + (k - before) = k
    BY <1>0
  <2> DEFINE m == k - before
  <2>2. log'[k] = produced[m] /\ produced[m] \in Record
    BY <1>1, <1>4, <2>1
  <2>3. produced[m].score \in Nat /\ LevelOf(m) \in Levels
    <3>1. m \in Nat \ {0}
      BY <1>0, <2>1
    <3> HIDE DEF m
    <3> QED BY <2>2, <3>1, PairTypes, SearchAssumption DEF Record
  <2>4. produced[m].score <= best[LevelOf(m)] /\ best[LevelOf(m)] <= best[winner]
    BY <1>0, <2>1, <2>3 DEF BestScores, SecondPhase
  <2>5. best[winner] \in Nat /\ best[LevelOf(m)] \in Nat
    BY <1>0, <2>3, SearchAssumption
  <2>6. best[winner] > 0 /\ best[winner] >= produced[m].score
    BY <1>9, <2>2, <2>3, <2>4, <2>5
  <2>7. PICK i \in 1..evals : LevelOf(i) = winner /\ produced[i].score = best[winner]
    BY <1>0, <2>6 DEF BestScores
  <2>8. before + i \in first
    BY <1>0
  <2>9. log'[before + i].tp = winner /\ log'[before + i].score = best[winner]
    BY <1>1, <1>4, <2>7
  <2> QED BY <1>1, <1>3, <2>2, <2>6, <2>8, <2>9
<1> HIDE DEF first
<1> QED BY <1>6, <1>7, <1>8, <1>9 DEF Explained

LEMMA ExplainedStep ==
  ASSUME ExplainInv, SecondPhaseIsExplained, [Next]_vars
  PROVE  SecondPhaseIsExplained'
<1>0. TypeOK /\ search' = search
  BY SearchFixed DEF ExplainInv, CountInv
<1>1. CASE log' = log
  BY <1>0, <1>1 DEF SecondPhaseIsExplained, Pairs
<1>2. CASE log' # log
  <2>1. /\ pc \in {"append", "flush"} /\ pending # <<>> /\ pending[1] \in Record
        /\ log' = Append(log, pending[1])
    BY <1>2, StepKinds DEF ExplainInv, Start, Screen, Trial, PickWinner, vars
  <2>2. pc = "append" => pending[1].phase # 2
    <3> SUFFICES ASSUME pc = "append" PROVE pending[1].phase # 2
      OBVIOUS
    <3>1. /\ Len(log) - before + 1 \in 1..Len(produced)
          /\ produced[Len(log) - before + 1] = pending[1]
      BY <2>1, NextToAppend DEF ExplainInv
    <3>2. search.strategy = "adaptive" => Len(produced) = evals
      BY DEF ExplainInv, Phases
    <3>3. search.strategy \in {"adaptive", "tpe"}
      BY SearchFixed DEF ExplainInv, CountInv
    <3> QED BY <3>1, <3>2, <3>3 DEF ExplainInv, Phases
  <2>3. ASSUME NEW end, end = Len(log) + 1, pending[1].phase = 2
        PROVE  Explained(end)'
    BY <1>0, <2>1, <2>2, <2>3, AppendedIsExplained
  <2> QED BY <1>0, <2>1, <2>3, GrowsExplained
<1> QED BY <1>1, <1>2

LEMMA ExplainInvariant == Spec => []ExplainInv
<1> DEFINE Told == Provenance /\ Phases /\ BestScores
<1>1. Init => Told
  BY DEF Init, Provenance, Phases, BestScores
<1>2. CountInv /\ Synced /\ Told /\ [Next]_vars => Told'
  BY ProvenanceStep, PhasesStep, BestScoresStep
<1>3. CountInv /\ Synced /\ SecondPhase /\ Told => ExplainInv
  BY DEF ExplainInv
<1> HIDE DEF Told
<1> QED BY <1>1, <1>2, <1>3, CountInvariant, SyncedInvariant,
           SecondPhaseInvariant, PTL DEF Spec

\* The file explains every record of a second phase, however many searches,
\* finished or cut off, it holds.
THEOREM SecondPhaseExplained == Spec => []SecondPhaseIsExplained
<1>1. Init => SecondPhaseIsExplained
  BY DEF Init, SecondPhaseIsExplained
<1>2. ExplainInv /\ SecondPhaseIsExplained /\ [Next]_vars => SecondPhaseIsExplained'
  BY ExplainedStep
<1> QED BY <1>1, <1>2, ExplainInvariant, PTL DEF Spec

----------------------------------------------------------------------------
\* What a process has left to do: evaluations, for each of which there is a
\* trial or a pair and an append, then the records that wait.
ToDo ==
  CASE pc \in {"down", "done"} -> 0
    [] pc = "screen" -> 3 * Remaining + 3
    [] pc = "append" -> 3 * (Remaining - trials) + 4
    [] pc = "trial"  -> 3 * (Remaining - trials) + 2 + Len(pending)
    [] pc = "flush"  -> 1 + Len(pending)

LEMMA Counts ==
  ASSUME CountInv
  PROVE  /\ Remaining \in Nat /\ trials \in Nat /\ Remaining - trials \in Nat
         /\ evals \in Nat /\ search.budget \in Nat
         /\ pending \in Seq(Record) /\ Len(pending) \in Nat
         /\ pc \in {"down", "screen", "append", "trial", "flush", "done"}
<1>1. search.budget \in Nat
  BY SearchAssumption DEF CountInv, TypeOK
<1>2. evals \in 0..search.budget /\ trials \in Nat /\ pending \in Seq(Record)
      /\ trials <= Remaining
      /\ pc \in {"down", "screen", "append", "trial", "flush", "done"}
  BY DEF CountInv, TypeOK, Counters
<1> QED BY <1>1, <1>2 DEF Remaining

\* A search ends if it keeps going (Terminates): whatever it measures and the
\* sampler proposes, every step of a process leaves it less to do.
THEOREM AdaptiveMakesProgress ==
  Spec => [](ToDo \in Nat) /\ [][Start \/ ToDo' < ToDo]_vars
<1>1. CountInv => ToDo \in Nat
  <2> SUFFICES ASSUME CountInv PROVE ToDo \in Nat
    OBVIOUS
  <2>1. PICK t \in Nat : t = Remaining - trials
    BY Counts
  <2>2. PICK r \in Nat : r = Remaining
    BY Counts
  <2>3. PICK k \in Nat : k = Len(pending)
    BY Counts
  <2>4. /\ pc \in {"down", "done"} => ToDo = 0
        /\ pc = "screen" => ToDo = 3 * r + 3
        /\ pc = "append" => ToDo = 3 * t + 4
        /\ pc = "trial" => ToDo = 3 * t + 2 + k
        /\ pc = "flush" => ToDo = 1 + k
    BY <2>1, <2>2, <2>3 DEF ToDo
  <2>5. 3 * r + 3 \in Nat /\ 3 * t + 4 \in Nat /\ 3 * t + 2 + k \in Nat /\ 1 + k \in Nat
    OBVIOUS
  <2> QED BY <2>4, <2>5, Counts
<1>2. CountInv /\ CountInv' /\ [Next]_vars => [Start \/ ToDo' < ToDo]_vars
  <2> SUFFICES ASSUME CountInv, CountInv', Progress \/ Crash PROVE ToDo' < ToDo
    BY DEF Next, vars
  <2> PICK t \in Nat : t = Remaining - trials
    BY Counts
  <2> PICK r \in Nat : r = Remaining
    BY Counts
  <2> PICK k \in Nat : k = Len(pending)
    BY Counts
  <2>0. /\ pc = "screen" => ToDo = 3 * r + 3
        /\ pc = "append" => ToDo = 3 * t + 4
        /\ pc = "trial" => ToDo = 3 * t + 2 + k
        /\ pc = "flush" => ToDo = 1 + k
    BY DEF ToDo
  <2>1. CASE Screen
    <3>1. /\ pc = "screen" /\ pc' = "append" /\ evals' = evals + 1
          /\ UNCHANGED <<search, trials>>
      BY <2>1 DEF Screen, Obtain
    <3>2. trials = 0
      BY <3>1 DEF CountInv, Counters
    <3>3. (Remaining - trials)' = r - 1
      BY <3>1, <3>2, Counts DEF Remaining
    <3>4. ToDo' = 3 * (r - 1) + 4
      BY <3>1, <3>3 DEF ToDo
    <3> QED BY <2>0, <3>1, <3>4
  <2>2. CASE AppendResult
    <3>1. /\ pc = "append" /\ pending' = <<>> /\ UNCHANGED <<search, evals, trials>>
          /\ pc' = IF search.strategy = "tpe" THEN "trial" ELSE "screen"
      BY <2>2 DEF AppendResult
    <3>2. CASE search.strategy = "tpe"
      <4>1. (Remaining - trials)' = t /\ Len(pending') = 0 /\ pc' = "trial"
        BY <3>1, <3>2 DEF Remaining
      <4>2. ToDo' = 3 * t + 2 + 0
        BY <4>1 DEF ToDo
      <4> QED BY <2>0, <3>1, <4>2
    <3>3. CASE search.strategy # "tpe"
      <4>1. search.strategy = "adaptive"
        BY <3>3, SearchAssumption DEF CountInv, TypeOK
      <4>2. trials = 0
        BY <3>1, <4>1 DEF CountInv, Counters
      <4>3. Remaining' = t /\ pc' = "screen"
        BY <3>1, <3>3, <4>2, Counts DEF Remaining
      <4>4. ToDo' = 3 * t + 3
        BY <4>3 DEF ToDo
      <4> QED BY <2>0, <3>1, <4>4
    <3> QED BY <3>2, <3>3
  <2>3. CASE PickWinner
    <3>1. /\ pc = "screen" /\ pc' \in {"trial", "done"}
          /\ UNCHANGED <<search, evals, trials, pending>>
      BY <2>3 DEF PickWinner
    <3>2. trials = 0 /\ pending = <<>>
      BY <3>1 DEF CountInv, Counters, Waiting
    <3>3. (Remaining - trials)' = r /\ Len(pending') = 0
      BY <3>1, <3>2, Counts DEF Remaining
    <3>4. ToDo' = 0 \/ ToDo' = 3 * r + 2 + 0
      BY <3>1, <3>3 DEF ToDo
    <3> QED BY <2>0, <3>1, <3>4
  <2>4. CASE Trial
    <3>1. /\ pc = "trial" /\ trials' = trials + 1 /\ UNCHANGED <<search, evals>>
      BY <2>4 DEF Trial
    <3>2. (Remaining - trials)' = t - 1
      BY <3>1, Counts DEF Remaining
    <3>3. CASE pc' = "append"
      <4>1. ToDo' = 3 * (t - 1) + 4
        BY <3>2, <3>3 DEF ToDo
      <4> QED BY <2>0, <3>1, <4>1
    <3>4. ASSUME pc' = "trial", NEW m \in Nat, m = Len(pending'), m <= k + 1
          PROVE  ToDo' < ToDo
      <4>1. ToDo' = 3 * (t - 1) + 2 + m
        BY <3>2, <3>4 DEF ToDo
      <4> QED BY <2>0, <3>1, <3>4, <4>1
    <3>5. \/ pc' = "append"
          \/ pc' = "trial" /\ Len(pending') <= k + 1 /\ Len(pending') \in Nat
      <4>1. CASE UNCHANGED <<pc, pending, produced>>
        BY <3>1, <4>1
      <4>2. CASE TrialReturns
        BY <3>1, <4>2, Counts DEF TrialReturns, Obtain
      <4> QED BY <2>4, <4>1, <4>2 DEF Trial
    <3> QED BY <3>3, <3>4, <3>5
  <2>5. CASE StudyEnds
    <3>1. /\ pc = "trial" /\ UNCHANGED pending /\ pc' \in {"done", "flush"}
      BY <2>5 DEF StudyEnds, memory
    <3>2. ToDo' = 0 \/ ToDo' = 1 + k
      BY <3>1 DEF ToDo
    <3> QED BY <2>0, <3>1, <3>2
  <2>6. CASE Flush
    <3>1. pc = "flush"
      BY <2>6 DEF Flush
    <3>2. \/ pc' = "done"
          \/ pc' = "flush" /\ Len(pending') = k - 1
      BY <2>6, Counts DEF Flush, Flushed
    <3>3. ToDo' = 0 \/ ToDo' = 1 + (k - 1)
      BY <3>2 DEF ToDo
    <3> QED BY <2>0, <3>1, <3>3
  <2>7. CASE Crash
    <3>1. pc \in {"screen", "append", "trial", "flush"} /\ pc' = "down"
      BY <2>7, Counts DEF Crash
    <3>2. ToDo' = 0
      BY <3>1 DEF ToDo
    <3> QED BY <2>0, <3>1, <3>2
  <2> QED BY <2>1, <2>2, <2>3, <2>4, <2>5, <2>6, <2>7 DEF Progress
<1> QED BY <1>1, <1>2, CountInvariant, PTL DEF Spec
=============================================================================
