------------------------- MODULE HierarchicalSweep -------------------------
(***************************************************************************)
(* BLISRunner.run_hierarchical_sweep: successive halving.  Each stage       *)
(* evaluates the remaining candidates on a thread pool, ranks those of each *)
(* topology by throughput and keeps a part of them; the candidates of the   *)
(* last stage with any throughput are evaluated once more at full length,   *)
(* and only those evaluations are recorded.                                 *)
(*                                                                          *)
(* A screening result is looked at when all of its stage have been          *)
(* collected, so evaluating and collecting it are one step; as_completed    *)
(* may yield results in any order and the sort is stable, so which of two   *)
(* equal candidates survives is left open.                                  *)
(***************************************************************************)
EXTENDS Naturals, Sequences, FiniteSets

CONSTANTS
  Topology,      \* the keys of configs_by_topo
  Size,          \* the number of configurations of each
  Keep,          \* HALVING_STAGES: keep_ratio of each stage in per cent
  MinSurvivors,  \* HALVING_MIN_SURVIVORS_PER_TOPO
  Truths,        \* throughputs a simulator may stand for: [Config -> Nat]
  MaxNoise,      \* bound: scores of short runs that differ from the truth
  MaxFaults      \* bound: evaluations or appends that raise

\* The position of a configuration in its topology's list is its name.
Config == UNION {{t} \X (1..Size[t]) : t \in Topology}
Of(t)  == {t} \X (1..Size[t])

ASSUME HalvingAssumption ==
  /\ IsFiniteSet(Topology)
  /\ Size \in [Topology -> Nat]
  /\ Keep \in Seq(0..100) /\ Len(Keep) >= 1
  /\ MinSurvivors \in Nat \ {0}
  /\ Truths \subseteq [Config -> Nat]
  /\ MaxNoise \in Nat
  /\ MaxFaults \in Nat

VARIABLES
  pc,         \* "screening", "confirming", "draining", "done", "aborted"
  stage,      \* the stage being screened
  candidates, \* configurations still in the pool
  queued,     \* futures submitted and not completed
  finished,   \* completed futures of finalists not collected yet
  raised,     \* futures whose evaluation raised
  finalists,  \* candidates of the last stage with a throughput
  log,        \* the configurations recorded, in order
  truth,      \* the throughput a noise-free evaluation finds
  noise,      \* scores that differed from it
  faults

vars == <<pc, stage, candidates, queued, finished, raised, finalists, log,
          truth, noise, faults>>

Recorded == {log[k] : k \in DOMAIN log}

Init ==
  /\ pc = "screening"
  /\ stage = 1
  /\ candidates = Config
  /\ queued = Config
  /\ finished = {}
  /\ raised = {}
  /\ finalists = {}
  /\ log = <<>>
  /\ truth \in Truths
  /\ noise = 0
  /\ faults = 0

----------------------------------------------------------------------------
\* _eval_rate_worker returns and its result is collected.
Screen(c) ==
  /\ pc = "screening"
  /\ c \in queued
  /\ queued' = queued \ {c}
  /\ UNCHANGED <<pc, stage, candidates, finished, raised, finalists, log,
                 truth, noise, faults>>

\* The scores of a stage: the truth, but for some short runs.
Noisy == {S \in SUBSET candidates : Cardinality(S) <= MaxNoise - noise}

Scores(S) ==
  {[c \in Config |-> IF c \in S THEN wrong[c] ELSE truth[c]] :
     wrong \in [S -> {0} \cup {truth[c] : c \in Config}]}

\* MUTANT of Quota: nothing is kept of a small topology.
MutQuotaNoMinimum(n) == (n * Keep[stage]) \div 100

\* n_keep
Quota(n) ==
  LET share == (n * Keep[stage]) \div 100
  IN  IF share < MinSurvivors THEN MinSurvivors ELSE share

\* MUTANT of Ranked: the sort is ascending.
MutRankedAscending(kept, others, score) ==
  \A c \in kept, d \in others : score[c] <= score[d]

\* sort(key=throughput, reverse=True): nothing left out beats what is kept.
Ranked(kept, others, score) ==
  \A c \in kept, d \in others : score[c] >= score[d]

\* results[:n_keep] of each topology
Survivors(score) ==
  {C \in SUBSET candidates :
     \A t \in Topology :
       LET all  == Of(t) \cap candidates
           kept == Of(t) \cap C
           n    == Quota(Cardinality(all))
       IN  /\ Cardinality(kept) = IF n < Cardinality(all) THEN n
                                                          ELSE Cardinality(all)
           /\ Ranked(kept, all \ kept, score)}

\* All futures of the stage have been collected.
StageOver == pc = "screening" /\ queued = {} /\ raised = {}

Halve ==
  /\ StageOver
  /\ stage < Len(Keep)
  /\ \E S \in Noisy : \E score \in Scores(S) :
       /\ candidates' \in Survivors(score)
       /\ noise' = noise + Cardinality(S)
  /\ queued' = candidates'
  /\ stage' = stage + 1
  /\ UNCHANGED <<pc, finished, raised, finalists, log, truth, faults>>

StartFinals ==
  /\ StageOver
  /\ stage = Len(Keep)
  /\ \E S \in Noisy : \E score \in Scores(S) :
       /\ finalists' = {c \in candidates : score[c] > 0}
       /\ noise' = noise + Cardinality(S)
  /\ queued' = finalists'
  /\ pc' = "confirming"
  /\ UNCHANGED <<stage, candidates, finished, raised, log, truth, faults>>

----------------------------------------------------------------------------
\* evaluate_config returns in a thread of the pool ...
Confirm(c) ==
  /\ pc = "confirming"
  /\ c \in queued
  /\ queued' = queued \ {c}
  /\ finished' = finished \cup {c}
  /\ UNCHANGED <<pc, stage, candidates, raised, finalists, log, truth, noise,
                 faults>>

\* ... and the main thread records its result.
Collect(c) ==
  /\ pc = "confirming"
  /\ c \in finished
  /\ finished' = finished \ {c}
  /\ log' = Append(log, c)
  /\ UNCHANGED <<pc, stage, candidates, queued, raised, finalists, truth,
                 noise, faults>>

\* MUTANT of FinalsOver: completed futures count before they are collected.
MutFinalsOverCompleted == pc = "confirming" /\ queued = {}

FinalsOver == pc = "confirming" /\ queued \cup finished \cup raised = {}

Finish ==
  /\ FinalsOver
  /\ pc' = "done"
  /\ UNCHANGED <<stage, candidates, queued, finished, raised, finalists, log,
                 truth, noise, faults>>

----------------------------------------------------------------------------
\* An evaluation raises in its thread ...
Raise(c) ==
  /\ c \in queued
  /\ faults < MaxFaults
  /\ faults' = faults + 1
  /\ queued' = queued \ {c}
  /\ raised' = raised \cup {c}
  /\ UNCHANGED <<pc, stage, candidates, finished, finalists, log, truth,
                 noise>>

\* ... and future.result() raises in the main thread, or append_result does;
\* leaving the "with" block waits for every other task.
Abort ==
  /\ pc \in {"screening", "confirming"}
  /\ \/ raised # {} /\ UNCHANGED <<finished, faults>>
     \/ /\ finished # {}
        /\ faults < MaxFaults
        /\ faults' = faults + 1
        /\ \E c \in finished : finished' = finished \ {c}
  /\ pc' = "draining"
  /\ UNCHANGED <<stage, candidates, queued, raised, finalists, log, truth,
                 noise>>

Drain(c) ==
  /\ pc = "draining"
  /\ c \in queued
  /\ queued' = queued \ {c}
  /\ UNCHANGED <<pc, stage, candidates, finished, raised, finalists, log,
                 truth, noise, faults>>

Drained ==
  /\ pc = "draining"
  /\ queued = {}
  /\ pc' = "aborted"
  /\ UNCHANGED <<stage, candidates, queued, finished, raised, finalists, log,
                 truth, noise, faults>>

\* The sweep has returned or raised.
Over == pc \in {"done", "aborted"} /\ UNCHANGED vars

Next ==
  \/ \E c \in Config : Screen(c) \/ Confirm(c) \/ Collect(c) \/ Raise(c)
                         \/ Drain(c)
  \/ Halve \/ StartFinals \/ Finish \/ Abort \/ Drained \/ Over

Spec == Init /\ [][Next]_vars

----------------------------------------------------------------------------
TypeOK ==
  /\ pc \in {"screening", "confirming", "draining", "done", "aborted"}
  /\ stage \in 1..Len(Keep)
  /\ candidates \subseteq Config
  /\ queued \subseteq candidates
  /\ finished \subseteq candidates
  /\ raised \subseteq candidates
  /\ finalists \subseteq candidates
  /\ log \in Seq(Config)
  /\ truth \in Truths
  /\ noise \in 0..MaxNoise
  /\ faults \in 0..MaxFaults

----------------------------------------------------------------------------
\* "Guarantees at least 1 survivor per topology at each stage", whatever the
\* short runs measured and however few configurations the topology has.
CoverageKept == \A t \in Topology : Size[t] > 0 => Of(t) \cap candidates # {}

\* Three rounds of ranking on different threads and in any order lose nothing
\* that matters: when no short run misled the sweep, every configuration with
\* a throughput is recorded or matched by a recorded one of its topology.
BestIsRecorded ==
  pc = "done" /\ noise = 0 =>
    \A t \in Topology : \A d \in Of(t) :
      truth[d] > 0 => \E c \in Of(t) \cap Recorded : truth[c] >= truth[d]

\* A sweep that returns has recorded each finalist, and no sweep, aborted or
\* not, records a configuration twice.
FinalistsAreRecorded ==
  /\ pc = "done" => Recorded = finalists
  /\ Len(log) = Cardinality(Recorded)
=============================================================================
