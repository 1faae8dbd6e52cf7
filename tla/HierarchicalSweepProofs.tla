----------------------- MODULE HierarchicalSweepProofs -----------------------
(***************************************************************************)
(* What successive halving guarantees for any topologies, any numbers of    *)
(* configurations, any stages and any throughputs.                          *)
(*                                                                         *)
(* The argument: a stage keeps somebody of every topology that had          *)
(* somebody, and if the scores are true, somebody at least as good as       *)
(* everybody it drops; and a finalist is always at exactly one place: still *)
(* queued, completed, raised or recorded.                                   *)
(***************************************************************************)
EXTENDS HierarchicalSweep, FiniteSetTheorems, TLAPS

\* Nothing is completed or recorded before the finalists are known.
Screening ==
  pc = "screening" => finished = {} /\ finalists = {} /\ log = <<>>

TypeInv == TypeOK /\ Screening

----------------------------------------------------------------------------
\* What is needed of the constants and of the ranking.
LEMMA ConfigFinite ==
  /\ IsFiniteSet(Config)
  /\ \A t \in Topology : IsFiniteSet(Of(t)) /\ Of(t) \subseteq Config
<1>1. ASSUME NEW t \in Topology
      PROVE  IsFiniteSet(Of(t)) /\ Of(t) \subseteq Config
  <2>1. Size[t] \in Nat
    BY HalvingAssumption
  <2>2. IsFiniteSet(1..Size[t])
    <3>1. 1 \in Int /\ Size[t] \in Int
      BY <2>1
    <3> QED BY <3>1, FS_Interval
  <2>3. IsFiniteSet({t} \X (1..Size[t]))
    BY <2>2, FS_Product, FS_Singleton
  <2> QED BY <2>3 DEF Of, Config
<1>2. IsFiniteSet(Config)
  <2> DEFINE f == [t \in Topology |-> Of(t)]
             Lists == {Of(t) : t \in Topology}
  <2>1. f \in Surjection(Topology, Lists)
    BY DEF Surjection
  <2>2. IsFiniteSet(Lists)
    BY <2>1, HalvingAssumption, FS_Surjection DEF ExistsSurjection
  <2>3. \A L \in Lists : IsFiniteSet(L)
    BY <1>1
  <2>4. IsFiniteSet(UNION Lists)
    BY <2>2, <2>3, FS_UNION
  <2>5. UNION Lists = Config
    BY DEF Config, Of
  <2> QED BY <2>4, <2>5
<1> QED BY <1>1, <1>2

LEMMA NoiseTypes ==
  ASSUME TypeOK, NEW S \in Noisy
  PROVE  /\ Cardinality(S) \in Nat
         /\ noise + Cardinality(S) \in 0..MaxNoise
         /\ noise + Cardinality(S) = 0 => noise = 0 /\ S = {}
<1>1. IsFiniteSet(S)
  BY ConfigFinite, FS_Subset DEF Noisy, TypeOK
<1>2. Cardinality(S) \in Nat /\ (Cardinality(S) = 0 => S = {})
  BY <1>1, FS_CardinalityType, FS_EmptySet
<1>3. Cardinality(S) <= MaxNoise - noise /\ noise \in 0..MaxNoise
  BY DEF Noisy, TypeOK
<1> QED BY <1>2, <1>3, HalvingAssumption

\* Short runs that all find the throughput leave nothing but the truth.
LEMMA TrueScores ==
  ASSUME NEW score \in Scores({})
  PROVE  \A c \in Config : score[c] = truth[c]
  BY DEF Scores

LEMMA QuotaTypes ==
  ASSUME stage \in 1..Len(Keep), NEW n \in Nat
  PROVE  Quota(n) \in Nat \ {0}
<1>1. PICK k \in Nat : k = Keep[stage]
  <2> DEFINE Percent == 0..100
  <2>1. Keep \in Seq(Percent) /\ \A x \in Percent : x \in Nat
    BY HalvingAssumption
  <2> HIDE DEF Percent
  <2>2. Keep[stage] \in Percent
    BY <2>1
  <2> QED BY <2>1, <2>2
<1>2. n * k \in Nat
  OBVIOUS
<1>3. (n * Keep[stage]) \div 100 \in Nat
  BY <1>1, <1>2
<1> QED BY <1>3, HalvingAssumption DEF Quota

\* Of each topology that has a candidate one survives, and nobody that is
\* dropped has a better score than the survivor of its topology.
LEMMA SomebodySurvives ==
  ASSUME TypeOK, NEW score, NEW C \in Survivors(score),
         NEW t \in Topology, NEW d \in Of(t) \cap candidates
  PROVE  \E c \in Of(t) \cap C : c = d \/ score[c] >= score[d]
<1> DEFINE all  == Of(t) \cap candidates
           kept == Of(t) \cap C
           n    == Quota(Cardinality(all))
<1>1. /\ Cardinality(kept) = IF n < Cardinality(all) THEN n
                                                     ELSE Cardinality(all)
      /\ Ranked(kept, all \ kept, score)
  BY DEF Survivors
<1>2. Cardinality(all) \in Nat \ {0}
  <2>1. IsFiniteSet(all)
    BY ConfigFinite, FS_Subset
  <2> QED BY <2>1, FS_CardinalityType, FS_EmptySet
<1>3. n \in Nat \ {0}
  BY <1>2, QuotaTypes DEF TypeOK
<1>4. kept # {}
  <2>1. Cardinality(kept) # 0
    BY <1>1, <1>2, <1>3
  <2> QED BY <2>1, FS_EmptySet
<1>5. CASE d \in kept
  BY <1>5
<1>6. CASE d \notin kept
  BY <1>1, <1>4, <1>6 DEF Ranked
<1> QED BY <1>5, <1>6
----------------------------------------------------------------------------
\* What the actions that only move a task have in common.
LEMMA RestTypes ==
  ASSUME TypeInv, NEW c \in Config,
         Screen(c) \/ Confirm(c) \/ Collect(c) \/ Raise(c) \/ Drain(c)
  PROVE  TypeInv'
<1> USE DEF TypeInv, TypeOK, Screening
<1>1. CASE Screen(c)
  BY <1>1 DEF Screen
<1>2. CASE Confirm(c)
  BY <1>2 DEF Confirm
<1>3. CASE Collect(c)
  BY <1>3 DEF Collect
<1>4. CASE Raise(c)
  BY <1>4, HalvingAssumption DEF Raise
<1>5. CASE Drain(c)
  BY <1>5 DEF Drain
<1> QED BY <1>1, <1>2, <1>3, <1>4, <1>5

LEMMA TypeStep ==
  ASSUME TypeInv, [Next]_vars
  PROVE  TypeInv'
<1> USE DEF TypeInv, TypeOK, Screening
<1>1. CASE Halve
  <2>0. PICK S \in Noisy : \E score \in Scores(S) :
          /\ candidates' \in Survivors(score)
          /\ noise' = noise + Cardinality(S)
    BY <1>1 DEF Halve
  <2>1. PICK score \in Scores(S) :
          /\ candidates' \in Survivors(score)
          /\ noise' = noise + Cardinality(S)
    BY <2>0
  <2>2. candidates' \subseteq candidates /\ noise' \in 0..MaxNoise
    BY <2>1, NoiseTypes DEF Survivors
  <2>3. /\ stage' = stage + 1 /\ stage < Len(Keep) /\ queued' = candidates'
        /\ raised = {} /\ finished = {} /\ finalists = {}
        /\ UNCHANGED <<pc, finished, raised, finalists, log, truth, faults>>
    BY <1>1 DEF Halve, StageOver
  <2>4. stage' \in 1..Len(Keep) /\ Len(Keep) \in Nat
    BY <2>3, HalvingAssumption
  <2> QED BY <2>2, <2>3, <2>4
<1>2. CASE StartFinals
  <2>0. PICK S \in Noisy : \E score \in Scores(S) :
          /\ finalists' = {c \in candidates : score[c] > 0}
          /\ noise' = noise + Cardinality(S)
    BY <1>2 DEF StartFinals
  <2>1. PICK score \in Scores(S) :
          /\ finalists' = {c \in candidates : score[c] > 0}
          /\ noise' = noise + Cardinality(S)
    BY <2>0
  <2>2. finalists' \subseteq candidates /\ noise' \in 0..MaxNoise
    BY <2>1, NoiseTypes
  <2>3. /\ queued' = finalists' /\ pc' = "confirming"
        /\ UNCHANGED <<stage, candidates, finished, raised, log, truth, faults>>
    BY <1>2 DEF StartFinals
  <2> QED BY <2>2, <2>3
<1>3. CASE Finish \/ Drained \/ Over \/ UNCHANGED vars
  BY <1>3 DEF Finish, Drained, Over, vars
<1>4. CASE Abort
  <2>1. /\ finished' \subseteq finished /\ faults' \in 0..MaxFaults
        /\ pc' = "draining"
        /\ UNCHANGED <<stage, candidates, queued, raised, finalists, log, truth,
                       noise>>
    BY <1>4, HalvingAssumption DEF Abort
  <2> QED BY <2>1
<1> QED BY <1>1, <1>2, <1>3, <1>4, RestTypes DEF Next

\* The state of the sweep has the types declared for it.
THEOREM HalvingTypeCorrect == Spec => []TypeInv
<1>1. Init => TypeInv
  <2> SUFFICES ASSUME Init PROVE TypeInv
    OBVIOUS
  <2>1. 1 \in 1..Len(Keep) /\ Len(Keep) \in Nat /\ <<>> \in Seq(Config)
    BY HalvingAssumption
  <2>2. 0 \in 0..MaxNoise /\ 0 \in 0..MaxFaults
    BY HalvingAssumption
  <2> QED BY <2>1, <2>2 DEF Init, TypeInv, TypeOK, Screening
<1> QED BY <1>1, TypeStep, PTL DEF Spec

\* Only the end of a stage changes the candidates.
LEMMA CandidatesStep ==
  ASSUME [Next]_vars
  PROVE  Halve \/ UNCHANGED candidates
  BY DEF Next, Screen, Confirm, Collect, Raise, Drain, StartFinals, Finish,
         Abort, Drained, Over, vars

\* Every topology that has a configuration has a candidate, however many
\* stages, whatever they keep and whatever the short runs measure.
THEOREM CoverageSafe == Spec => []CoverageKept
<1>1. Init => CoverageKept
  <2> SUFFICES ASSUME Init, NEW t \in Topology, Size[t] > 0
               PROVE  Of(t) \cap candidates # {}
    BY DEF CoverageKept
  <2>1. Size[t] \in Nat
    BY HalvingAssumption
  <2>2. <<t, 1>> \in Of(t)
    BY <2>1 DEF Of
  <2> QED BY <2>2, ConfigFinite DEF Init
<1>2. TypeInv /\ CoverageKept /\ [Next]_vars => CoverageKept'
  <2> SUFFICES ASSUME TypeInv, CoverageKept, [Next]_vars
               PROVE  CoverageKept'
    OBVIOUS
  <2>1. CASE UNCHANGED candidates
    BY <2>1 DEF CoverageKept, Of
  <2>2. CASE Halve
    <3>1. PICK score : candidates' \in Survivors(score)
      BY <2>2 DEF Halve
    <3>2. ASSUME NEW t \in Topology, Size[t] > 0
          PROVE  Of(t) \cap candidates' # {}
      <4>1. PICK d : d \in Of(t) \cap candidates
        BY <3>2 DEF CoverageKept
      <4> QED BY <3>1, <4>1, SomebodySurvives DEF TypeInv
    <3> QED BY <3>2 DEF CoverageKept, Of
  <2> QED BY <2>1, <2>2, CandidatesStep
<1> QED BY <1>1, <1>2, HalvingTypeCorrect, PTL DEF Spec
----------------------------------------------------------------------------
\* A finalist is at one place: queued, completed, raised or recorded.
Placed ==
  /\ queued \cap finished = {}
  /\ (queued \cup finished) \cap Recorded = {}
  /\ pc = "confirming" => finalists = queued \cup finished \cup raised \cup Recorded
  /\ FinalistsAreRecorded

LEMMA RecordedTypes ==
  ASSUME TypeOK
  PROVE  /\ Recorded \subseteq Config /\ IsFiniteSet(Recorded)
         /\ log = <<>> => Recorded = {}
<1>1. Recorded \subseteq Config
  BY DEF Recorded, TypeOK
<1>2. IsFiniteSet(Recorded)
  BY <1>1, ConfigFinite, FS_Subset
<1>3. log = <<>> => Recorded = {}
  BY DEF Recorded
<1> QED BY <1>1, <1>2, <1>3

LEMMA RecordedOnce ==
  ASSUME TypeOK, NEW c \in Config, log' = Append(log, c)
  PROVE  Recorded' = Recorded \cup {c} /\ Len(log') = Len(log) + 1
<1>1. /\ Len(log') = Len(log) + 1 /\ Len(log) \in Nat
      /\ DOMAIN log = 1..Len(log) /\ DOMAIN log' = 1..(Len(log) + 1)
      /\ \A k \in 1..Len(log) : log'[k] = log[k]
      /\ log'[Len(log) + 1] = c
  BY DEF TypeOK
<1>2. \A x : x \in Recorded' <=> x \in Recorded \/ x = c
  BY <1>1 DEF Recorded
<1> QED BY <1>1, <1>2

LEMMA PlacedStep ==
  ASSUME TypeInv, Placed, [Next]_vars
  PROVE  Placed'
<1> USE DEF Placed
<1>1. ASSUME NEW c \in Config, Collect(c) PROVE Placed'
  <2>1. /\ pc = "confirming" /\ pc' = pc /\ c \in finished
        /\ finished' = finished \ {c} /\ log' = Append(log, c)
        /\ UNCHANGED <<queued, raised, finalists>>
    BY <1>1 DEF Collect
  <2>2. Recorded' = Recorded \cup {c} /\ Len(log') = Len(log) + 1
    BY <2>1, RecordedOnce DEF TypeInv
  <2>3. c \notin Recorded
    BY <2>1
  <2>4. Cardinality(Recorded') = Cardinality(Recorded) + 1
    BY <2>2, <2>3, RecordedTypes, FS_AddElement DEF TypeInv
  <2>5. Len(log') = Cardinality(Recorded')
    BY <2>2, <2>4 DEF FinalistsAreRecorded
  <2> QED BY <2>1, <2>2, <2>5 DEF FinalistsAreRecorded
<1>2. ASSUME NEW c \in Config,
             Screen(c) \/ Confirm(c) \/ Raise(c) \/ Drain(c)
      PROVE  Placed'
  <2>1. Recorded' = Recorded /\ log' = log
    BY <1>2 DEF Screen, Confirm, Raise, Drain, Recorded
  <2> QED BY <1>2, <2>1 DEF Screen, Confirm, Raise, Drain, FinalistsAreRecorded
<1>3. CASE Halve \/ StartFinals
  <2>1. Recorded' = Recorded /\ log' = log /\ pc = "screening"
    BY <1>3 DEF Halve, StartFinals, StageOver, Recorded
  <2>2. Recorded = {} /\ finished = {} /\ raised = {}
    BY <1>3, <2>1, RecordedTypes
       DEF TypeInv, Screening, Halve, StartFinals, StageOver
  <2>3. UNCHANGED <<finished, raised>>
    BY <1>3 DEF Halve, StartFinals
  <2>4. pc' = "screening" \/ (pc' = "confirming" /\ queued' = finalists')
    BY <1>3, <2>1 DEF Halve, StartFinals
  <2> QED BY <2>1, <2>2, <2>3, <2>4 DEF FinalistsAreRecorded
<1>4. CASE Finish
  BY <1>4 DEF Finish, FinalsOver, FinalistsAreRecorded, Recorded
<1>5. CASE Abort \/ Drained
  <2>1. /\ Recorded' = Recorded /\ log' = log /\ pc' \in {"draining", "aborted"}
        /\ finished' \subseteq finished /\ queued' = queued
    BY <1>5 DEF Abort, Drained, Recorded
  <2> QED BY <2>1 DEF FinalistsAreRecorded
<1>6. CASE Over \/ UNCHANGED vars
  BY <1>6 DEF Over, vars, FinalistsAreRecorded, Recorded
<1> QED BY <1>1, <1>2, <1>3, <1>4, <1>5, <1>6 DEF Next

LEMMA PlacedAlways == Spec => []Placed
<1>1. Init => Placed
  <2> SUFFICES ASSUME Init PROVE Placed
    OBVIOUS
  <2>1. Recorded = {} /\ Len(log) = 0
    BY DEF Init, Recorded
  <2> QED BY <2>1, FS_EmptySet DEF Init, Placed, FinalistsAreRecorded
<1> QED BY <1>1, PlacedStep, HalvingTypeCorrect, PTL DEF Spec

\* A sweep that returns has recorded each finalist, and none twice.
THEOREM FinalistsSafe == Spec => []FinalistsAreRecorded
<1>1. Placed => FinalistsAreRecorded
  BY DEF Placed
<1> QED BY <1>1, PlacedAlways, PTL
----------------------------------------------------------------------------
\* While no short run was wrong, whoever was dropped is matched by a
\* candidate, and the finalists are the candidates with a throughput.
Matched ==
  noise = 0 =>
    /\ \A t \in Topology : \A d \in Of(t) :
         \E c \in Of(t) \cap candidates : truth[c] >= truth[d]
    /\ pc \in {"confirming", "done"} =>
         finalists = {c \in candidates : truth[c] > 0}

LEMMA TruthTypes ==
  ASSUME TypeOK, NEW c \in Config
  PROVE  truth[c] \in Nat
  BY HalvingAssumption DEF TypeOK

LEMMA MatchedStep ==
  ASSUME TypeInv, Matched, [Next]_vars
  PROVE  Matched'
<1> USE DEF Matched
<1>1. CASE Halve
  <2>0. PICK S \in Noisy : \E score \in Scores(S) :
          /\ candidates' \in Survivors(score)
          /\ noise' = noise + Cardinality(S)
    BY <1>1 DEF Halve
  <2>1. PICK score \in Scores(S) :
          /\ candidates' \in Survivors(score)
          /\ noise' = noise + Cardinality(S)
    BY <2>0
  <2>2. pc' = "screening" /\ truth' = truth
    BY <1>1 DEF Halve, StageOver
  <2>3. ASSUME noise' = 0, NEW t \in Topology, NEW d \in Of(t)
        PROVE  \E c \in Of(t) \cap candidates' : truth[c] >= truth[d]
    <3>1. noise = 0 /\ S = {}
      BY <2>1, <2>3, NoiseTypes DEF TypeInv
    <3>2. PICK b \in Of(t) \cap candidates : truth[b] >= truth[d]
      BY <3>1
    <3>3. PICK c \in Of(t) \cap candidates' : c = b \/ score[c] >= score[b]
      BY <2>1, SomebodySurvives DEF TypeInv
    <3>4. b \in Config /\ c \in Config /\ d \in Config
      BY ConfigFinite
    <3>5. score[b] = truth[b] /\ score[c] = truth[c]
      BY <3>1, <3>4, TrueScores
    <3>6. truth[b] \in Nat /\ truth[c] \in Nat /\ truth[d] \in Nat
      BY <3>4, TruthTypes DEF TypeInv
    <3>7. truth[c] >= truth[d]
      BY <3>2, <3>3, <3>5, <3>6
    <3> QED BY <3>7
  <2> QED BY <2>2, <2>3 DEF Of
<1>2. CASE StartFinals
  <2>0. PICK S \in Noisy : \E score \in Scores(S) :
          /\ finalists' = {c \in candidates : score[c] > 0}
          /\ noise' = noise + Cardinality(S)
    BY <1>2 DEF StartFinals
  <2>1. PICK score \in Scores(S) :
          /\ finalists' = {c \in candidates : score[c] > 0}
          /\ noise' = noise + Cardinality(S)
    BY <2>0
  <2>2. truth' = truth /\ candidates' = candidates
    BY <1>2 DEF StartFinals
  <2>3. noise' = 0 => noise = 0 /\ finalists' = {c \in candidates : truth[c] > 0}
    <3> SUFFICES ASSUME noise' = 0
                 PROVE  noise = 0 /\ finalists' = {c \in candidates : truth[c] > 0}
      OBVIOUS
    <3>1. noise = 0 /\ S = {}
      BY <2>1, NoiseTypes DEF TypeInv
    <3>2. \A c \in candidates : score[c] = truth[c]
      BY <3>1, TrueScores DEF TypeInv, TypeOK
    <3> QED BY <2>1, <3>1, <3>2
  <2> QED BY <2>2, <2>3 DEF Of
<1>3. ASSUME UNCHANGED <<candidates, finalists, truth, noise>>,
             pc' \in {"confirming", "done"} => pc \in {"confirming", "done"}
      PROVE  Matched'
  BY <1>3 DEF Of
<1>4. Halve \/ StartFinals \/ UNCHANGED <<candidates, finalists, truth, noise>>
  BY DEF Next, Screen, Confirm, Collect, Raise, Drain, Finish, Abort, Drained,
         Over, vars
<1>5. \/ StartFinals
      \/ pc' \in {"confirming", "done"} => pc \in {"confirming", "done"}
  BY DEF Next, Screen, Confirm, Collect, Raise, Drain, Finish, FinalsOver,
         Halve, StageOver, Abort, Drained, Over, vars
<1> QED BY <1>1, <1>2, <1>3, <1>4, <1>5

\* However many rounds of ranking there are: unless a short run was wrong,
\* whatever has a throughput is recorded or matched by a recorded
\* configuration of its topology.
THEOREM BestSafe == Spec => []BestIsRecorded
<1>1. Init => Matched
  <2> SUFFICES ASSUME Init, NEW t \in Topology, NEW d \in Of(t)
               PROVE  d \in candidates /\ truth[d] >= truth[d]
    BY DEF Init, Matched
  <2>1. d \in Config
    BY ConfigFinite
  <2>2. truth[d] \in Nat
    BY <2>1, HalvingAssumption DEF Init
  <2> QED BY <2>1, <2>2 DEF Init
<1>2. TypeInv /\ Placed /\ Matched => BestIsRecorded
  <2> SUFFICES ASSUME TypeInv, Placed, Matched, pc = "done", noise = 0,
                      NEW t \in Topology, NEW d \in Of(t), truth[d] > 0
               PROVE  \E c \in Of(t) \cap Recorded : truth[c] >= truth[d]
    BY DEF BestIsRecorded
  <2>1. PICK c \in Of(t) \cap candidates : truth[c] >= truth[d]
    BY DEF Matched
  <2>2. c \in Config /\ d \in Config
    BY ConfigFinite
  <2>3. truth[c] > 0
    BY <2>1, <2>2, TruthTypes DEF TypeInv
  <2>4. c \in Recorded
    BY <2>1, <2>3 DEF Matched, Placed, FinalistsAreRecorded
  <2> QED BY <2>1, <2>4
<1> QED
  BY <1>1, <1>2, MatchedStep, PlacedAlways, HalvingTypeCorrect, PTL DEF Spec
==============================================================================
