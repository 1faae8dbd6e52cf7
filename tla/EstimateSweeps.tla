-------------------------- MODULE EstimateSweeps --------------------------
(***************************************************************************)
(* The two analytical tools, run_full_sweep of AIConfiguratorRunner and of *)
(* LLMOptimizerRunner.  Each asks its tool once per GPU budget, turns the  *)
(* answer into records and appends them one by one, without a checkpoint: a *)
(* sweep that is killed or run again starts from the first budget.         *)
(***************************************************************************)
EXTENDS ConfigSpace

CONSTANTS
  Rows,       \* AIConfigurator: rows it may offer, <<TP, PP, batch size>>
  Rate,       \* tokens/s of one replica of a row
  Requests,   \* requests/s of one replica of a row
  TTFT,       \* time to first token of a row
  Answers,    \* llm-optimizer: what its text output may tell of a budget
  MaxPasses,  \* bound: sweeps started
  MaxFaults   \* bound: failed calls and kills

ASSUME EstimateAssumption ==
  /\ Rows \subseteq TP_VALUES \X PP_VALUES \X Nat
  /\ Rate \in [Rows -> Nat]
  /\ Requests \in [Rows -> Nat]
  /\ TTFT \in [Rows -> Nat]
  \* one expression matches all figures of the constrained section
  /\ \A a \in Answers : /\ a.constrained = None <=> a.ttft = None
                        /\ a.constrained = None <=> a.concurrency = None
  /\ MaxPasses \in Nat
  /\ MaxFaults \in Nat

VARIABLES
  estimator,  \* "AIConfigurator" or "llm-optimizer"
  frontier,   \* the rows AIConfigurator has on its frontiers
  answer,     \* what llm-optimizer tells of each budget
  stage,      \* "down", "call", "rows", "done"
  pass,       \* the sweep running or run last
  budget,     \* the GPU count at hand
  rows,       \* rows of the answer that have no record yet
  log,        \* the records, each with the pass and the budget it is from
  failed,     \* a call of this pass failed
  faults

estimateVars ==
  <<estimator, frontier, answer, stage, pass, budget, rows, log, failed,
    faults>>

EstimateInit ==
  /\ estimator \in {"AIConfigurator", "llm-optimizer"}
  /\ frontier \in IF estimator = "AIConfigurator" THEN SUBSET Rows ELSE {{}}
  /\ answer \in IF estimator = "llm-optimizer" THEN [1..MaxGpus -> Answers]
                                             ELSE {<<>>}
  /\ stage = "down"
  /\ pass = 0
  /\ budget = 1
  /\ rows = {}
  /\ log = {}
  /\ failed = FALSE
  /\ faults = 0

----------------------------------------------------------------------------
\* AIConfigurator: the rows of best_configs["agg"].

\* MUTANT of Copies: the replicas are those of the largest budget.
MutCopiesOfMax(r) == MaxGpus \div (r[1] * r[2])

\* replicas: total_gpus // num_total_gpus
Copies(r) == budget \div (r[1] * r[2])

\* MUTANT of Cluster: a figure is scaled by GPUs instead of replicas.
MutClusterByBudget(figure, r) == figure[r] * budget

\* A figure of one replica, for all replicas.
Cluster(figure, r) == figure[r] * Copies(r)

FromRow(r) ==
  [tp |-> r[1], pp |-> r[2], replicas |-> Copies(r), dp |-> 1, batch |-> r[3],
   throughput |-> Cluster(Rate, r), qps |-> Cluster(Requests, r),
   ttft |-> TTFT[r], meets |-> TTFT[r] <= Slo, gpus |-> r[1] * r[2] * Copies(r)]

----------------------------------------------------------------------------
\* llm-optimizer: an answer is a record of what its text reports, None for
\* what is absent: tp and pp; of the "Best Throughput (unconstrained)" best
\* (tokens/s) and requests (requests/s); of the "Performance under
\* Constraints" constrained (tokens/s), ttft and concurrency; and optimal, the
\* "Empirical Optimal Concurrency".
Default(value, default) == IF value = None THEN default ELSE value

\* MUTANT of Throughput: the best throughput is preferred.
MutThroughputBest(a) == Default(a.best, a.constrained)

Throughput(a) == Default(a.constrained, a.best)

\* parse_estimate_output returns None without any throughput.
Parsed(a) == a.best # None \/ a.constrained # None

FromAnswer(a) ==
  LET tp   == Default(a.tp, budget)
      pp   == Default(a.pp, 1)
      ttft == Default(a.ttft, 0)
  IN  [tp |-> tp, pp |-> pp, replicas |-> 1,
       dp |-> IF tp * pp <= budget THEN budget \div (tp * pp) ELSE 1,
       batch |-> Default(a.concurrency, Default(a.optimal, 128)),
       throughput |-> Throughput(a), qps |-> Default(a.requests, 0),
       ttft |-> ttft, meets |-> ttft <= Slo, gpus |-> budget]

----------------------------------------------------------------------------
\* cmd_sweep starts the runner, again after a kill or on request.
Start ==
  /\ stage \in {"down", "done"}
  /\ pass < MaxPasses
  /\ pass' = pass + 1
  /\ stage' = "call"
  /\ budget' = 1
  /\ rows' = {}
  /\ failed' = FALSE
  /\ UNCHANGED <<estimator, frontier, answer, log, faults>>

\* The tool answers.
Call ==
  /\ stage = "call"
  /\ budget <= MaxGpus
  /\ rows' =
       IF estimator = "AIConfigurator"
         THEN {FromRow(r) : r \in {q \in frontier : q[1] * q[2] <= budget}}
         ELSE {FromAnswer(a) : a \in {b \in {answer[budget]} : Parsed(b)}}
  /\ stage' = "rows"
  /\ UNCHANGED <<estimator, frontier, answer, pass, budget, log, failed,
                 faults>>

\* It fails or times out: the budget is left out.
CallFails ==
  /\ stage = "call"
  /\ budget <= MaxGpus
  /\ faults < MaxFaults
  /\ faults' = faults + 1
  /\ failed' = TRUE
  /\ budget' = budget + 1
  /\ UNCHANGED <<estimator, frontier, answer, stage, pass, rows, log>>

AppendRow ==
  /\ stage = "rows"
  /\ \E r \in rows :
       /\ log' = log \cup {[pass |-> pass, budget |-> budget, result |-> r]}
       /\ rows' = rows \ {r}
  /\ UNCHANGED <<estimator, frontier, answer, stage, pass, budget, failed,
                 faults>>

\* MUTANT of RowsOver: the first row ends the answer.
MutRowsOverFirst == \E r \in log : r.pass = pass /\ r.budget = budget

RowsOver == rows = {}

NextBudget ==
  /\ stage = "rows"
  /\ RowsOver
  /\ budget' = budget + 1
  /\ rows' = {}
  /\ stage' = "call"
  /\ UNCHANGED <<estimator, frontier, answer, pass, log, failed, faults>>

Finish ==
  /\ stage = "call"
  /\ budget > MaxGpus
  /\ stage' = "done"
  /\ UNCHANGED <<estimator, frontier, answer, pass, budget, rows, log, failed,
                 faults>>

\* The process is killed, or an append raises.
Kill ==
  /\ stage \in {"call", "rows"}
  /\ faults < MaxFaults
  /\ faults' = faults + 1
  /\ stage' = "down"
  /\ rows' = {}
  /\ UNCHANGED <<estimator, frontier, answer, pass, budget, log, failed>>

EstimateNext ==
  Start \/ Call \/ CallFails \/ AppendRow \/ NextBudget \/ Finish \/ Kill

EstimateSpec == EstimateInit /\ [][EstimateNext]_estimateVars

----------------------------------------------------------------------------
\* "Together, the 8 calls cover all 25 valid topology triples": a sweep none
\* of whose calls failed has a record of every number of replicas of every
\* pair on the frontier that fits the GPUs, and of nothing else.
CallsCoverTopologies ==
  stage = "done" /\ estimator = "AIConfigurator" /\ ~failed =>
    {<<e.result.tp, e.result.pp, e.result.replicas>> :
       e \in {x \in log : x.pass = pass}}
      = {t \in Topologies(MaxGpus) :
           \E r \in frontier : r[1] = t[1] /\ r[2] = t[2]}

\* Neighbouring budgets yield the same deployment more than once, and so does
\* a sweep that is killed and repeated: all its records agree, so that which
\* of them the analysis picks makes no difference.
RepeatedRecordsAgree ==
  estimator = "AIConfigurator" =>
    \A e, f \in log :
      /\ e.result.tp = f.result.tp
      /\ e.result.pp = f.result.pp
      /\ e.result.replicas = f.result.replicas
      /\ e.result.batch = f.result.batch
      => e.result = f.result

\* What the analysis plots and ranks by is one operating point: a record's
\* tokens/s were reached at the time to first token and the concurrency it
\* names, under the constraint, or, when the tool reports no such point, are
\* the unconstrained best and no time (0) stands beside them.  The requests/s
\* of a record are another matter: in either case they are those of the
\* unconstrained section, so that a record with a constrained one names two
\* operating points.
PlottedFiguresBelongTogether ==
  \A e \in log :
    estimator = "llm-optimizer" =>
      LET a == answer[e.budget]
          r == e.result
      IN  /\ \/ /\ r.throughput = a.constrained
                /\ r.ttft = a.ttft
                /\ r.batch = a.concurrency
             \/ /\ a.constrained = None
                /\ r.throughput = a.best
                /\ r.ttft = 0
          /\ r.qps = Default(a.requests, 0)
=============================================================================
