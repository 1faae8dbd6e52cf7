# Formal model of the configuration exploration

This directory holds a TLA+ model of the program under `src/experiments/`: it
drives performance simulators of LLM serving (BLIS, Vidur, LLMServingSim,
AIConfigurator, llm-optimizer) over large configuration spaces, searches for the
highest request rate each configuration sustains under a TTFT objective, writes
one JSON record per configuration, and picks a Pareto-optimal selection. The
modules are checked with TLC on small instances; the statements that matter most
are proved with TLAPS for every value of the constants.

Run one instance with `tlc -config SweepLoops.cfg MCSweepRunner.tla`, check one
proof module with `tlapm SweepRunnerProofs.tla`.

## 1. The system

### Components, their state, their operations

| component | source | state | operations |
|---|---|---|---|
| result log | `runners/base.py:24-43` | a JSONL file per tool or shard | `append_result`, `load_completed_hashes`, the reader of `cmd_analyze` |
| checkpointed sweep loops | `base.py:45-79` (`run_batch`), `run_vidur.py:357-401`, `run_llmservingsim.py:418-462` (`run_full_sweep`), `run_all.py:144-184` (`_blis_worker`), `blis_shard.py:35-90` | loop index, in-memory set of completed hashes; on disk the log | enumerate, load, skip, evaluate, append, handle an exception |
| rate search of Vidur and LLMServingSim | `run_vidur.py:129-278`, `run_llmservingsim.py:131-213` | bracket, last good metrics, iteration counter | ramp, minimal-rate fallback, bisection, one simulator subprocess per step |
| rate search of BLIS | `run_blis.py:138-342` | bracket, best rate and metrics | ramp, bisection, full-length confirmation |
| adaptive search, TPE search (the default for BLIS) | `run_blis.py:544-904` | scores per tensor-parallel level, evaluation count, results of the second phase | screen, pick the winner, sampler trials, append |
| parallel brute-force sweep | `run_all.py:239-270` | worker processes, shard files, the aggregate | start, join, concatenate |
| hierarchical sweep | `run_blis.py:354-474` | survivors per topology | parallel evaluation, halving, final evaluation |
| selection and charts | `analysis/pareto.py`, `select.py`, `chart1.py`, `run_all.py:348-408` | records of a tool, front, selection | sort and sweep, filter and truncate |
| configuration spaces | `config/topology.py`, `config/blis_configs.py`, the `_enumerate_configs` methods | none | pure enumeration |
| pruning | `config/pruning.py`, `run_all.py:81-141` | a saved list of topologies | filter, save |
| AIConfigurator and llm-optimizer sweeps | `run_aiconfigurator.py`, `run_llm_optimizer.py` | GPU budget at hand | one call per budget, rows or parsed text to records, append |
| schema and hash | `schema/output.py` | none | `compute_config_hash`, data classes |
| Kubernetes jobs | `k8s/*.yaml` | pods, a shared volume | restart up to `backoffLimit` |
| workload and scenario generation, profiler patch | `workloads/generate.py`, `sim2real/`, `k8s/patch_profiler.py` | none | straight-line generators |

### How they interact

`cmd_sweep` builds a runner and calls one of its sweeps. A sweep evaluates one
configuration at a time; an evaluation is a rate search or a scored simulation,
each step of which is a subprocess with a timeout. Records go to a file in append
mode. The only thing that survives a process is its file, and the only things read
from a file are the hashes of a later process (`load_completed_hashes`) and the
records of the analysis (`cmd_analyze`). Brute-force workers share nothing while
they run; their shard files meet in the aggregate the parent writes after joining
them.

### What is hard here

- Crashes: a process can be killed anywhere, also inside a write, and it is
  started again on the same file (by a user or by a job controller).
- Partial failure: an evaluation raises, an append raises, the append that records
  an exception raises; three loops treat that in three ways.
- Stale and mismatched state: hashes of different processes are compared; hashes
  leave out parts of the configuration.
- Searches against a simulator that may crash, time out at high rates or answer
  inconsistently; rate and metrics are kept in separate variables, over three
  phases; boundaries (first rate, cap, minimal rate, rounding).
- Several processes and threads: workers that outlive their parent, a restart with
  another number of workers on the same shard files, exceptions that surface in
  another thread while the pool still works.
- Budgets that end between or inside phases, and results held in memory.
- Sort order and ties in the one-pass Pareto sweeps.

What makes each component correct:

- log: a complete record is never damaged, and a restart sees what was recorded;
- sweep loops: no configuration is lost, none is evaluated or recorded twice, a
  fault costs a bounded number of results, every sweep ends;
- rate searches: what is reported was measured, it is the best that was measured,
  it is near the best there is, no simulation exceeds the cap;
- adaptive search: the budget holds, the second phase works on the winner the file
  shows, the file of a finished search is complete;
- Pareto and selection: nothing of value is lost, nothing dominated is shown, the
  selection made from the front is right about all records;
- parallel sweep: whoever dies and whoever is left behind, no shard record is
  damaged, what the aggregate lacks is accounted for, and it holds each configuration
  once per sweep, and once at all unless the number of workers or the hashes changed or
  two sweeps overlapped;
- hierarchical sweep: every topology survives each stage, ranking loses nothing
  better than what is recorded, each finalist is recorded once;
- analytical tools: the calls together cover the topologies, repeated records agree,
  what is plotted of a record was measured at one operating point (its requests/s,
  which are not plotted, may be from another);
- configuration spaces and pruning: pruned spaces keep every behaviour, a hash
  stands for one evaluation, verdicts survive their file.

`PROJECT.json` lists the hazards one by one, at their lines.

## 2. Modules

### `ResultLog`, `SweepRunner`, `SweepLedger`

`ResultLog` reduces a JSONL file to the sequence of the pieces written to it:
records, line ends, and prefixes of records. `Readable` is what
`load_completed_hashes` and `cmd_analyze` can parse: records that are alone on
their line. `AppendLine` is `append_result`, `PartialAppends` what a write leaves
that stops part-way.

`SweepRunner` is one checkpointed loop, process after process, on one file.

| model | code |
|---|---|
| `file` | the output file |
| `i`, `completed` | loop index and `completed` set of the running process |
| `hash` | its hash function: one for all (`compute_config_hash`), or one per process (`str.__hash__` in the brute-force BLIS sweep) |
| `policy` | what happens to an exception: `record` (`run_batch` writes a crashed record), `log` (`run_full_sweep`, `_blis_worker`), `die` (`blis_shard` has no handler) |
| `poison` | the configurations whose evaluation always raises |
| `givenUp` | configurations this process logged as failed |
| `clean`, `evaluated`, `runs`, `faults` | history and bounds |
| `Restart`, `Rerun` | a process enumerates and loads the checkpoint |
| `Skip`, `Begin`, `Return`, `Raise`, `AppendEntry`, `Finish` | the loop |
| `WriteError`, `Kill` | append raises; the process is killed, possibly inside a write |

`ResubmittedSpec` adds a user who runs a finished sweep again when, and only when,
results of configurations that can be evaluated are missing (`Outstanding`).

`SweepLedger` is the abstract promise: a set of recorded configurations that only
grows, one at a time, closed only when every configuration is recorded or was given up
in the pass that closes it. `SweepRunner` implements it (`KeepsLedger`) under every
fault: `recorded` are the configurations with a sealed record, one that is followed by
its line end and that nothing can damage any more, and the ledger is closed by a pass
that is `clean`, that is, found its file terminated and whose own writes succeeded.

### `RateSearch`

`_binary_search_qps` and `_binary_search_rate`. A simulation answers *good*,
*slow* or *none* according to the configuration's capacity and the simulator's
limit; up to `MaxNoise` answers may be anything, which covers crashes, spurious
timeouts and non-monotone measurements. Rates are integers in a unit in which all
halvings are exact. `Tick` is the resolution at which the simulator receives the
rate (`{qps:.2f}` for Vidur).

### `BlisRateSearch`

The three phases of `evaluate_config`: ramp and bisection with short simulations,
confirmation with full-length ones starting at half the rate found. Capacity and
limit exist per length. With `ConfirmIters = 0` it is `_find_max_rate`.

### `AdaptiveSearch`

`run_search` and `run_tpe_search`. `Screen` evaluates a (profile, level) pair and
hands its record to `AppendResult`; `PickWinner` ends the first phase; `Trial` is
one call of `objective` by the sampler, which may propose anything, so the sampler
itself is external. Results of the second phase wait in `pending` until
`StudyEnds`, and `Flush` appends them one by one. `Start` is `cmd_sweep` and resets
all memory: neither search loads a checkpoint. Writes are whole or absent here;
cut writes are `SweepRunner`'s subject.

### `ParetoScan`

`compute_pareto_front` followed by `select_top_k`, and `compute_upper_envelope`
(`chart`), which is the same sweep over TTFT with a sort that leaves ties in file
order. Iterating over a sorted list is taking the least element of a set.

### `ParallelSweep`

The brute-force sweep with `--workers`: `StartSweep` and `StartWorker` start a sweep,
its worker processes `<<sweep, index>>` load the checkpoint of their shard (`Load`)
and take their slice in order, `Join` waits for them and truncates the aggregate,
`Aggregate` copies one shard after the other. `KillParent` leaves the workers
running, so that the workers of two sweeps may write to one shard; it leaves of the
aggregate any prefix (`Flushed`), since the text is buffered. `KillWorker` may cut a
write. A sweep that is started again may choose another number of workers.

Each worker draws its hash function from `HashFns` when it loads its shard, since
`str.__hash__` differs from process to process; the values are the eight digits the code
keeps, and a function may map two configurations to one value. `Known` compares them as
`load_completed_hashes` and the loop do: a configuration is skipped for any record with
its hash, whichever configuration was evaluated for it, and after a record is appended
so are the ones that share its hash (`Alike`, the `completed.add` of the loop). Those
skipped without a record of their own are `mistaken`. A worker that has nothing left
forgets its function (`Forget`), which nothing depends on from then on. A record has the
sweep of its worker as history, to tell a second record of a restart from one of the
same sweep. A worker evaluates and appends in one step, because an evaluation touches
nothing shared; `SweepRunner` has the steps apart.

### `HierarchicalSweep`

`run_hierarchical_sweep`: `Screen` completes an evaluation of a stage, `Halve` ranks
and keeps per topology, `StartFinals` submits those with a throughput at full length,
`Confirm` is a thread that returns and `Collect` the main thread that records it.
`Raise` and `Abort` are an exception in a thread and in the main thread; `Drain` is
the `with` block that waits for the pool. Futures complete in any order, so the width
of the pool does not matter. A short run may misjudge a configuration (`Noisy`).

### `EstimateSweeps`

`run_full_sweep` of the two analytical tools, side by side: one call per GPU budget, an
answer (rows of a frontier, or what a text output tells), records appended one by one,
no checkpoint. What the tools answer (`frontier`, `answer`) is a constant of the
behaviour, because they are deterministic; a call may fail. A row is any triple of a
tensor degree, a pipeline degree and a batch size: `Rows` is not bounded by the GPUs,
and it is `Call` that keeps what fits. An answer has tokens/s in two sections, the best
throughput without a constraint and the one under it, but requests/s in the first only,
and `FromAnswer` puts these into the record whichever tokens/s it takes. An answer has a
constrained throughput exactly if it has a time and a concurrency, because one
expression matches them all (`run_llm_optimizer.py:75`).

### `ConfigSpace`, `TopologyPruning`

`ConfigSpace` holds the enumerations as sets, the pruning predicates of the BLIS
space and the tuples that enter `compute_config_hash`, with the hash taken as
injective on them. It also has the two parameters of the experiment that both modules
built on it use, `MaxGpus` and `Slo`. `TopologyPruning` is `prune_topologies` (`Evaluate`,
one topology at a time), `cmd_prune` (`PassAll`, which passes every topology), the saved
file and `load_pruned_topologies` (`Load`, one record at a time, until `EndLoading`). No
sweep reads that file.

`EstimateSweeps`, `TopologyPruning` and `ParetoScan` share no variable, and the first two
name their specification after themselves (`EstimateSpec`, `PruneSpec`), so that one
module of proofs, `AnalysisProofs`, extends all three.

The modules named `MC...` give the constants values, the modules named
`...Proofs` hold the theorems.

## 3. Runs

| run | shows | instance |
|---|---|---|
| `SweepLoops` | under kills, cut writes, failed writes and exceptions, with each of the three policies: no damaged record, no repeated evaluation, no duplicate, loss bounded by two results per fault, and a run on a terminated file with no failed write of its own is complete; together they keep the promise of the ledger | 3 configurations, 3 faults, 3 processes |
| `SweepLive` | with `record` and `log`: a sweep ends, and what can be evaluated and is missing, because it raised once and was logged, was killed, or was glued to a torn record, is recorded for good if the sweep is run again as long as results are missing | 3 configurations, 3 faults of any kind, 7 processes |
| `SweepTornTail` (violated) | a restart after a cut write loses the record it appends first: `append_result` does not look at how the file ends | 1 fault |
| `SweepRandomHash` (violated) | with `str.__hash__` a restarted process recognises none of its predecessor's records | 2 processes |
| `RateVidur` | the report was measured, the best measured rate is returned; without noise it is within a factor of two of what is sustainable, and within a bisection step and a tick if the simulator copes above the capacity; the search ends | the real constants, the capacities and limits of `MCRateSearch`, one noisy answer |
| `RateBlis` | the report was measured, no simulation above the cap, a confirmed rate is below half the screening rate and tight, the screening rate is tight | the real constants, 7 capacities, 4 limits per length, one noisy answer |
| `SearchTwoPhase` | the budget holds over both phases, a second-phase record is preceded in the file by its search's screening and follows its best level, a finished search has written everything in order, a crash costs one result or those of the second phase; a search that does not crash ends | five configured searches, 3 scores, 1 crash, 2 processes |
| `ParetoTop` | the sweep computes the Pareto front; the top-k selection is right about all viable records; the chart's envelope loses nothing and shows nothing beaten in both coordinates | 4 records, 3 prices, 4 throughputs, top 2 |
| `ParallelSweep` | what the aggregate lacks was logged, was skipped for another's record with the same digits, belongs to a worker that died, or is at most two records per cut or failed write; it holds a configuration at most once per sweep, and twice only if its hash or the number of workers changed or sweeps overlapped; no shard record is damaged | 3 configurations, 2 or 3 workers, two hash functions that collide within a shard and across processes, 2 faults of any kind, 2 sweeps |
| `Halving` | every topology survives each stage; without a misled short run every configuration is matched by a recorded one of its topology; a sweep that returns has recorded each finalist once, one that aborts repeats nothing | 8 configurations and 1, the real stages 25/50/100 %, one misled score, one exception |
| `Estimates` | AIConfigurator's calls cover every topology on its frontier, whatever is recorded twice agrees; llm-optimizer's tokens/s, TTFT and concurrency belong to one operating point, its requests/s to the unconstrained one | 4 GPUs, 6 rows, 4 answers, 2 passes, 2 faults |
| `ConfigSpaces` | pruned topologies survive their file; pruning the BLIS space loses no behaviour but the mixed policies; hash inputs tell configurations apart, but for LLMServingSim's positive thresholds | 1 to 8 GPUs, passes over up to 4 topologies |

Each violated run states what a document of the repository says; `PROJECT.json`
quotes the lines.

### Why these bounds are enough

- Three configurations give a first, a middle and a last one, so that something is
  skipped, lost and recorded in one run; three faults allow a cut write, a restart
  that appends behind it and another fault of the restarted process. Poison sets
  range over all subsets.
- The rate searches run at the constants of the code, so their bounds are the
  code's own. The capacities lie on, just below and just above every rate the ramp
  stops at, inside each bracket, below the first rate and beyond the cap. One noisy
  answer can fall on any step; the proofs allow any number.
- The five searches end their budget in the middle of the first profile, in the
  middle of the second, and with two trials left; one skips the second phase, one
  is the TPE search. Three scores give a tie, a winner and an all-zero screening.
- In `ParallelSweep` widths 2 and 3 give slices of one and two configurations, a
  shard that the next sweep does not aggregate, and a configuration that moves to
  another shard; two sweeps and two faults allow a killed parent whose orphans write
  next to the second sweep's workers, one of which dies or is cut. Each worker draws one
  of two hash functions. The first tells all configurations apart, so that a restart that
  draws it twice is one with `PYTHONHASHSEED` set; under the second, configurations 1 and
  3, which share a shard, collide, and 3 has the same hash under both. So a restart may
  recognise a record, fail to recognise it, or mistake it for another configuration's,
  and a worker may pass over a configuration for a record it has just written.
  `DuplicatesExplained` and `LossBounded` are proved for any functions.
- In `SweepLive` seven processes are one for the first run and two for each fault: the
  restart, and the run again that makes up for what was lost.
- In `Halving` eight configurations have quotas of 2, 1 and 1, the single one has a
  share of 0 at the first stage and lives by the minimum. Throughputs 0, 1, 2 give
  ties, a leader and useless configurations; they may be taken in descending order,
  since nothing depends on a position.
- Four GPUs give the analytical tools budgets that several numbers of replicas share
  and budgets a pair does not fit; the answers have each section present and absent.
  The configuration spaces are checked at every size the experiment allows.
- Four records with three prices show every order of ties in either coordinate,
  fronts of three, and more adequate records than are selected.

Deadlock checking is off where a program stops at its end; in `Halving`, whose pool
could be left waiting, it is on and only a sweep that returned or raised may stop.

### Fairness

`FairSpec` is weak fairness of the program's own steps (`Progress`, or `Next` where
nothing else exists), and so is the first fairness condition of `ResubmittedSpec`. Every
simulation is a subprocess with a timeout, every loop of a search is bounded, and so a
running process takes its next step. For `SweepLive` the restart of a dead process is
among these steps: a job controller with `backoffLimit` 20 (`k8s/blis-sweep.yaml`) or
the user, who is told the sweep is safe to restart. `ResubmittedSpec` adds that a user
who sees results missing runs the sweep again, and only then (`Resubmit`): the log names
what failed, and to resume is what the checkpoint is for (README.md:125). This is an
assumption about him, not about the program; without it `log` leaves a configuration
that raised once without a record for good. Kills, failed writes and noise are never
assumed to happen. `SearchTwoPhase` assumes nothing about restarts; it claims only that
a search ends or crashes. No liveness is claimed of `ParallelSweep`.

## 4. Proofs

| theorem | says | assumes |
|---|---|---|
| `SweepRunnerProofs!TypeCorrect` | `TypeOK`, and the index names a configuration where one is being worked on | |
| `SweepRunnerProofs!SealedSafe` | no step damages a record that has its line end | |
| `SweepRunnerProofs!CleanRuns` | `CleanRunIsComplete` | `NoCollisions` |
| `SweepRunnerProofs!Checkpointed` | `NoRework` | `StableHashing` |
| `SweepRunnerProofs!NoneTwice` | `NoDuplicates` | `StableHashing` |
| `SweepRunnerProofs!LossBound` | `LossIsBounded`, for every hash and policy | |
| `SweepRunnerProofs!LedgerKept` | `KeepsLedger`: the sweep refines the ledger, under every fault | `StableHashing`, `NoCollisions` |
| `RateSearchProofs!SearchTypeCorrect`, `AlwaysBracketed`, `ReportsAreMeasured` | `TypeOK`, `Bracketed`, `ReportIsMeasured`, for every simulator | |
| `RateSearchProofs!HighestIsReturned` | `ReturnsHighestGood` | `Tick = 1` |
| `RateSearchProofs!ReportsWithinFactorTwo` | `WithinFactorTwo` | `StartInRange` |
| `RateSearchProofs!SearchIsAccurate` | `Accurate` | `StartInRange`, `StartIsWhole` |
| `BlisRateSearchProofs!BlisTypeCorrect`, `BlisReportsAreMeasured`, `NeverAboveCap`, `ConfirmationIsConservative` | `TypeOK`, `ReportIsMeasured`, `WithinCap`, `ConfirmedIsConservative` | |
| `BlisRateSearchProofs!ScreeningIsAccurate`, `ConfirmationIsTight` | `ScreeningIsTight`, `ConfirmedIsTight` | |
| `AdaptiveSearchProofs!AdaptiveTypeCorrect`, `BudgetHolds` | `TypeOK`, `WithinBudget` | |
| `AdaptiveSearchProofs!ResultsReachTheFile` | `DoneIsLogged` and `FirstPhaseIsDurable` | |
| `AdaptiveSearchProofs!SecondPhaseExplained`, `CrashesCostLittle` | `SecondPhaseIsExplained`, `LossIsBounded` | |
| `AnalysisProofs!FrontLosesNothing`, `FrontIsPareto`, `EnvelopeIsSound`, `SelectionIsRight` | the properties of `ParetoTop`, `FrontIsAChain`, `ShortSelectionIsComplete` | |
| `ParallelSweepProofs!ParallelTypeCorrect`, `ShardsSafe` | `TypeOK`, `SealedShardsSurvive` | |
| `ParallelSweepProofs!DuplicatesExplained`, `LossBounded` | `DuplicatesAreExplained`, `LossIsBounded`, for any hash functions: they may collide and differ from process to process | |
| `HierarchicalSweepProofs!HalvingTypeCorrect`, `CoverageSafe` | `TypeOK`, `CoverageKept` | |
| `HierarchicalSweepProofs!FinalistsSafe`, `BestSafe` | `FinalistsAreRecorded`, `BestIsRecorded` | |
| `AnalysisProofs!EstimateInvariant` | `EstimateInv`: types, every record is what the tool said of its budget, no budget behind an unfailed pass lacks a record | |
| `AnalysisProofs!FiguresMatch`, `CopiesAgree`, `TopologiesCovered` | `PlottedFiguresBelongTogether`, `RepeatedRecordsAgree`, `CallsCoverTopologies`, for any rows, answers and number of GPUs | |
| `AnalysisProofs!PruneInvariant` | `PruneInv`: types, results in the order of the topologies, what passed and what was loaded as increasing selections of them | |
| `AnalysisProofs!RoundTripSafe` | `PruningRoundTrip`, for any SLO and any measurements | |
| `AnalysisProofs!BehavioursKept`, `HashesApart` | `PruningKeepsBehaviours`, `HashesTellApart`, for any number of GPUs | |
| `SweepRunnerProofs!RunsMakeProgress`, `RateSearchProofs!SearchMakesProgress`, `BlisRateSearchProofs!BlisMakesProgress`, `AdaptiveSearchProofs!AdaptiveMakesProgress` | every step but the start of a process decreases a natural number | |

Besides these, the theorems rest on the named assumptions about constants in the
modules (`SweepAssumption`, `RateAssumption`, ...). Of these `UnitAssumption` of the
two rate searches says that the unit in which rates are counted goes into the first
rate and the cap a power of two of times: the code halves floating-point numbers,
which is exact for as many halvings as it makes, and this is what exactness comes to
for integers. `StartInRange` (a tick, the first rate and the cap are in order) and
`StartIsWhole` (the first rate is a whole number of ticks) hold of the rates in the
code, 10, a cap of 500, and a tick of 0.01 or none, and TLC's instance has them; they are
hypotheses because the first rate is a parameter of both constructors
(`run_vidur.py:54`, `run_llmservingsim.py:59`) that nothing checks. `TypeOK` of each module,
`Bracketed`, `FirstPhaseIsDurable`, `FrontIsAChain`, `ShortSelectionIsComplete` and the
variants are proved and in no run; the other theorems state properties that the runs check.

- `ResultLogProofs` states what appends do to sequences of pieces: an append
  extends, a whole append adds at most its record to what is readable, exactly its
  record if the file was terminated, and sealed records survive any extension.
- *Sweep loops.* `CleanRunIsComplete` speaks of the end of a run only. Its
  strengthening `CleanInv` says at every point of a clean run that what was passed
  has a recorded hash or was given up, that every completed hash is backed by a
  readable record, and that every record carries a hash computed for its
  configuration; `NoCollisions` (no two configurations share a hash) turns recorded
  hashes into recorded configurations. `NoRework` needs another fact, `Ahead`: a
  readable record of a configuration at or beyond the index was known when the
  process started; `StableHashing` then says that its hash is the one looked up.
  `LossIsBounded` follows from a bound on `Unsafe`, the results without a record that
  has its line end, of which a fault can add two: the record it cut, and the one that
  the next append glues to it, which an unterminated file still owes. `NoDuplicates`
  needs `Fresh`: a readable record of the configuration at hand can only be the last
  piece of the file, one whose write failed before its line end. For the refinement
  `AppendKeeps` says that an append seals its own record or none and a cut append none;
  `Fresh` then makes the record a new entry of the ledger, and a configuration that is
  logged one without an entry. When a clean pass finishes, its file is terminated
  (`CleanInv`), so that all it can read is sealed (`TerminatedSeals`) and the ledger may
  be closed. The run `SweepRandomHash` shows that `StableHashing` does not hold of all
  of the code, and eight digits do not imply `NoCollisions`; that is why both are
  hypotheses. The brute-force sweep, whose hashes have neither property, is
  `ParallelSweep`, where both are allowed to fail.
- *Rate searches.* `SearchInv` relates the bracket, the best metrics and the two
  histories in each phase: `ReportIsMeasured` at the end needs that the rate being
  bracketed is the one whose metrics are kept. `HighestIsReturned` adds that nothing
  above the upper end has succeeded. `BlisInv` does the same over three phases, with
  the short-run rate remembered in `found`.
- *Accuracy.* Without noise the two histories are honest (`Honest`, `HonestRuns`): what
  met the objective is sustained, what did not is not. `FactorInv` follows the ramp,
  whose upper end is twice the last good rate. For the last bisection step, `WidthInv`
  says that the width of the bracket is `q * 2^left` where `q * 2^Iters` is at most the
  lower end: the bisection divides what the ramp doubled. BLIS adds `GridInv`, that
  both ends stay on a grid that leaves room for the halvings of the confirmation, and
  `ConfirmWidthInv`, that those divide half the screening rate without a remainder.
  The prover knows powers of two only as an operator defined by recursion; the lemmas
  take `2^(n+1) = 2 * 2^n` from the library's theorem on the number of subsets.
- *Adaptive search.* `Synced`: what a live process has obtained is what it added to the
  file, then what waits. `Phases` and `BestScores` say what was obtained, pair by pair,
  and which score each level has; `Provenance` separates the processes in the file;
  `SecondPhase` that the winner has no better level beside it and that no more waits
  than trials were made, which is what a crash may cost.
- *Parallel sweep.* The claim about duplicates is one invariant under two keys; `Once(f,
  key)` says that a file has one record per key. Within a sweep the key is the
  configuration with the sweep (`BySweep`), and nothing depends on hashes: a record is
  in the shard of its slice, and the worker of its sweep that wrote it is done with its
  configuration (`ShardsSliced`). Across sweeps it is the configuration with the hash
  (`ByHash`): what a worker has to do has no readable record under the hash it computes
  (`TodoUnrecorded`), since that hash would have been loaded, and each shard has one
  writer (`SoleWriters`); this part is void once the width changed or sweeps overlapped
  (`Steady`). Hence a shard holds each key once (`ShardsOnce`), and so does the
  aggregate as far as it was copied (`OutputOnce`). Gluing two shards may destroy the
  two records at the seam, and never makes one. `LossIsBounded` is a matter of accounts:
  each write that stopped part-way pays for two configurations, and `Due` counts what
  these are spent on, one for each configuration that is `Gone` from its shard without a
  trace, two for each shard that is `Open`, ending without a line end, since a later
  write, or the seam of the aggregate, may cost the record it ends with and the one that
  is added. A cut write adds at most two to `Due`, no other step adds anything
  (`DueStep`). A configuration skipped for another's hash is `mistaken`, not `Gone`,
  from the step that skips it on. While the parent aggregates, `LossInv` moves the
  account of each copied shard to what the aggregate lacks and to its open end
  (`GluePays`); an orphan that still writes is charged to its own shard only, and the
  workers of the sweep are done, as the parent has waited for them.
- *Hierarchical sweep.* `Placed` says that a finalist is queued, finished, raised,
  dropped or in the log, at one of these places only. `Matched` says that while no
  short run was wrong, each configuration with a throughput is matched by a candidate
  of its topology; halving keeps this because a quota is at least one and what is
  kept is ranked above what is not. `CoverageKept` is inductive by the same argument
  without the ranking.
- *Pareto.* What is left to visit is sorted behind what was visited, and the best
  throughput so far bounds what was visited; hence a visited record is covered by
  the front, and one put on the front cannot be beaten by what comes later.
  `SelectInv` says that selected and remaining records make up the adequate part of
  the front, in order of price.
- *Analytical tools.* `RecordsFromTool` says that a record, written or about to be, is
  what the tool said of the budget it is filed under. `FiguresMatch` follows at once
  (`AnswerGivesFigures` goes through the sections an answer may lack), and `CopiesAgree`
  because a row's figures are per replica, so that two records of one deployment come
  from one row whatever the budgets. `TopologiesCovered` needs in addition that nothing
  was missed: `BudgetsComplete` says that a pass without failures has all rows of the
  budgets behind it, and of the budget at hand those that are not left to write. The
  number of replicas `k` of a pair of `n` GPUs is then found at the budget `k * n`.
- *Pruning.* The topologies are enumerated in lexicographic order, as the nested loops
  do. `Enumerated` names the topology at a position by the number of those before it,
  and `OrderedIsEnumeration` shows that this is a sequence without repetition: the rank
  is a bijection from the finite space to its positions. `ResultsInOrder` ties the k-th
  result to the k-th topology. `Selection` says that an increasing function picks the
  results that passed, and that what was read of the file is the same selection cut
  off where reading has come to; at the end what was loaded
  describes what passed, one by one, without repetition because `ToDict` is injective.
- *Configuration spaces.* `BehavioursKept` goes policy by policy: a policy that is not
  mixed has a counterpart of the same behaviour that the pruning predicates admit
  (`KeptAs`); that needs `None` to be no admission policy. `HashesApart` shows that the
  keys are injective on the spaces, for which `None` must be no number (a Vidur
  scheduler without a token limit hashes like one with 4096, and only the scheduler
  tells them apart), and that the spaces are finite, as subsets of a product of finite
  sets; the number of keys is then that of the configurations. Both facts about `None`
  are `NoneIsNoValue`.
- *Termination.* What the prover can do of liveness is the variant: `ToDo` counts what
  a process has left, and every step but a start decreases it, whatever the simulators
  answer, whatever raises and at any number of faults. So no process runs for ever;
  that it does not stop half-way, which needs ENABLED, is TLC's part.

Model-checked only: the liveness properties `SweepFinishes`, `MissingAreMadeUpFor` and
`Terminates`, which are beyond the prover, and the two statements of documents that the
runs refute (`SafeToRestart`, and `NoRework` with a hash per process). Every invariant
and every action property that a passing run checks is also the statement of a theorem,
and so is the refinement of the ledger.

## 5. What the model shows beside its properties, and what it leaves out

Observations, each at its line, that restrict a property or that a reader of the
results should know. "Spec" is
`docs/superpowers/specs/2026-05-07-config-exploration-experiment-design.md`.

- *Hashing.* The brute-force sweep of BLIS has 30,240 configurations, of which about
  five pairs are expected to share their eight digits; one of a pair is skipped if both
  are in one shard, or if a restart finds the other's digits among the records
  (`run_all.py:165-173`). `LossIsBounded` of `ParallelSweep` counts these apart. Where the
  design speaks of skipping, it is "already-evaluated configs" that a worker skips
  (`docs/superpowers/specs/2026-05-14-blis-config-search-design.md:154`). The hash of
  LLMServingSim keeps of the prefill threshold only whether it is positive
  (`run_llmservingsim.py:402`): in the full space, where the design (spec :198) counts
  four thresholds, a configuration is skipped as completed for one with another positive
  threshold. The lean space, the default, is not affected; `HashesTellApart` says both.
- *Low capacities.* A capacity between the minimal and the first rate is reported at
  the minimal rate (`run_vidur.py:144`, `run_llmservingsim.py:146`), where the design
  (spec :265) asks for the highest rate. `WithinFactorTwo` excludes these.
- *Unconfirmed rates.* If every full-length run fails, BLIS's short-run rate is
  reported as `ok` (`run_blis.py:219`). `ConfirmedIsConservative` speaks of confirmed
  rates.
- *The cap.* A BLIS search that never misses the objective up to the cap is reported
  as `ok` (`run_blis.py:300`), where the design's error table asks for `unconverged`.
- *Results in memory.* The second phase writes after its last trial
  (`run_blis.py:773`), where the design (spec :607) appends each result at once, and
  neither search nor the two analytical tools load a checkpoint.
- *Analytical tools.* The requests/s of an llm-optimizer record are those of the tool's
  unconstrained section (`run_llm_optimizer.py:71-73`, `:193`), also beside constrained
  tokens/s, so that a record with both sections names two operating points:
  `test_parse_estimate_output_full` has such an answer and
  `results/raw/llm-optimizer.jsonl` such records. The analysis reads tokens/s only, and
  `PlottedFiguresBelongTogether` says which figures do belong together. A record without a
  constrained section carries a TTFT of 0 and meets the objective (spec :107 filters by
  the constraint); its cost is that of all GPUs of the budget even if the deployment uses
  fewer.
- *Replicas.* Vidur and LLMServingSim sweep one replica and the most that fit,
  LLMServingSim without tensor parallelism of 8, where the design (spec :181)
  enumerates every triple that fits.
- *Aggregate.* It is truncated and rewritten (`run_all.py:263`), also when the file
  holds what another strategy of the same tool appended.
- *Pruning.* `cmd_prune` evaluates nothing, and nothing reads its file.
- *Envelope.* With several records of the lowest TTFT, which of them the chart's
  envelope shows depends on their order in the file (`chart1.py:80`): it need not be
  the strict Pareto frontier. `NoneBothBetter` is what does hold.
- *Scenarios.* `build_scenario` (`generate_scenarios.py:132`) drops the routing
  strategy and `kv_cache_dtype`, which its list of known fields names.
- *`blis_shard`* with a configuration that always raises: with policy `die` every
  process ends at the same place and nothing behind it is evaluated, so
  `MissingAreMadeUpFor` and `SweepFinishes` are checked for the other policies.
- *Logged exceptions.* One run with policy `log` may end without a record of a
  configuration that can be evaluated, because its evaluation raised once
  (`run_all.py:175`, `run_vidur.py:397`): `CleanRunIsComplete` and `LossIsBounded` allow
  for it, and `MissingAreMadeUpFor` says that later runs make up for it.
- *Aborted halving.* An exception in one finalist ends the hierarchical sweep
  (`run_blis.py:445`); the pool still evaluates the others to the end, and their results
  are dropped. `FinalistsAreRecorded` says that nothing is missing when the sweep
  returns, and nothing repeated when it does not.
- *Mixed policies.* `PruningKeepsBehaviours` is about the combinations that the design's
  rules admit (`blis_configs.py:35`); that a simulation would behave differently under
  the mixed ones, which the rules leave out, is not its subject.

Not modelled:

- The sampler of optuna, the simulators and the two analytical tools themselves:
  external. Any proposal and any answer within the model's data is allowed.
- Parsing of simulator output, drawing, workload and scenario generation, the
  profiler patch, image building: formatting or straight-line code without state.
- `compute_pareto_indices`, which repeats `compute_pareto_front` and is called by a
  test only; the grids of `config/` that no sweep uses.
- A change of workload or objective between two sweeps on one file: the hash covers
  the configuration only (`schema/output.py:91`), so the old results stay.

## 6. What is left

The composition of sweep and analysis when the workload or the objective changes
between two runs on one file: the analysis would mix results of both, since neither the
hash nor the reader looks at the workload.
