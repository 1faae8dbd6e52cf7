---------------------------- MODULE ConfigSpace ----------------------------
(***************************************************************************)
(* The configurations the sweeps walk: topologies of a GPU budget          *)
(* (config/topology.py), crossed with the parameters of BLIS               *)
(* (config/blis_configs.py), Vidur and LLMServingSim (_enumerate_configs), *)
(* and what of a configuration enters its hash.  The lists are sets here:  *)
(* no property depends on their order.                                     *)
(***************************************************************************)
EXTENDS Naturals, FiniteSets

CONSTANTS
  None,     \* Python's None
  MaxGpus,  \* max_gpus: the GPUs of the experiment
  Slo       \* ttft_mean_ms of the SLO

ASSUME ExperimentAssumption ==
  /\ MaxGpus \in Nat
  /\ Slo \in Nat

----------------------------------------------------------------------------
TP_VALUES == {1, 2, 4, 8}
PP_VALUES == {1, 2, 4}

Pairs(gpus) == {p \in TP_VALUES \X PP_VALUES : p[1] * p[2] <= gpus}

\* enumerate_topologies, and enumerate_topologies_dp with dp for replicas
Topologies(gpus) ==
  UNION {{<<p[1], p[2], r>> : r \in 1..(gpus \div (p[1] * p[2]))} :
           p \in Pairs(gpus)}

\* enumerate_topologies_no_pp
TopologiesNoPP(gpus) ==
  UNION {{<<tp, r>> : r \in 1..(gpus \div tp)} :
           tp \in {v \in TP_VALUES : v <= gpus}}

----------------------------------------------------------------------------
\* BLIS
SCHEDULERS == {"fcfs", "priority-fcfs", "sjf", "reverse-priority"}
PRIORITY_AWARE_SCHEDULERS == {"priority-fcfs", "reverse-priority"}
ADMISSION_POLICIES == {"always-admit", "tier-shed"}
PREEMPTION_POLICIES == {"fcfs", "priority"}
ASSUME NoneIsNoValue == None \notin Nat /\ None \notin ADMISSION_POLICIES

BLOCK_SIZES == {16, 32}
\* two simple policies, four lists of weighted scorers
ROUTING == {"round-robin", "least-loaded",
            "weighted1", "weighted2", "weighted3", "weighted4"}

\* _batching_combos: max_num_seqs, max_batched_tokens, threshold (0 is off)
BatchingCombos(seqs) ==
  {b \in seqs \X {2048, 4096, 8192} \X {0, 1024, 2048, 4096} : b[3] < b[2]}

Policies(replicas) ==
  [scheduler : SCHEDULERS,
   admission : IF replicas > 1 THEN ADMISSION_POLICIES ELSE {None},
   preemption : PREEMPTION_POLICIES,
   routing : IF replicas > 1 THEN ROUTING ELSE {None}]

\* MUTANT of ValidMultiReplica: tier-shed is dropped altogether.
MutValidNeverSheds(c) == c.admission = "always-admit" /\ c.preemption = "fcfs"

\* _is_valid_multi_replica_policy
ValidMultiReplica(c) ==
  IF c.scheduler \notin PRIORITY_AWARE_SCHEDULERS
    THEN c.admission = "always-admit" /\ c.preemption = "fcfs"
    ELSE c.admission = "tier-shed" <=> c.preemption = "priority"

\* _is_valid_single_replica_policy
ValidSingleReplica(c) ==
  c.preemption = "priority" => c.scheduler \in PRIORITY_AWARE_SCHEDULERS

PrunedPolicies(replicas) ==
  {c \in Policies(replicas) :
     IF replicas > 1 THEN ValidMultiReplica(c) ELSE ValidSingleReplica(c)}

\* Topology, batching, policy and block size of each configuration.
BlisConfigs(gpus) ==
  UNION {{t} \X BatchingCombos({32, 64, 128, 256, 512})
             \X Policies(t[2]) \X BLOCK_SIZES : t \in TopologiesNoPP(gpus)}

PrunedBlisConfigs(gpus) ==
  UNION {{t} \X BatchingCombos({32, 64, 128, 256})
             \X PrunedPolicies(t[2]) \X BLOCK_SIZES :
           t \in TopologiesNoPP(gpus)}

----------------------------------------------------------------------------
\* Vidur and LLMServingSim: replica_vals
Replicas(gpus, p) == {1, gpus \div (p[1] * p[2])}

\* _scheduler_variants: max_batched_tokens or chunk_size of a scheduler
Variants(scheduler, lean) ==
  IF scheduler = "vllm"
    THEN IF lean THEN {4096} ELSE {2048, 4096, 8192}
    ELSE IF scheduler = "sarathi"
           THEN IF lean THEN {2048} ELSE {1024, 2048, 4096}
           ELSE {None}

Routed(replicas, routings) == IF replicas > 1 THEN routings ELSE {None}

Base(gpus, pairs, batches) ==
  UNION {{[tp |-> p[1], pp |-> p[2], replicas |-> r, max_num_seqs |-> b] :
            r \in Replicas(gpus, p), b \in batches} : p \in pairs}

Batches(lean) == IF lean THEN {128, 512} ELSE {32, 64, 128, 256, 512}

ServedPairs(gpus, lean) == {p \in Pairs(gpus) : lean => p[2] = 1}

VidurSchedulers(lean) ==
  IF lean THEN {"vllm", "sarathi"} ELSE {"vllm", "sarathi", "orca"}

VidurRoutings(lean) ==
  IF lean THEN {"round_robin"} ELSE {"round_robin", "lor", "random"}

VidurConfigs(gpus, lean) ==
  UNION {UNION {[base : {b}, scheduler : {s}, tokens : Variants(s, lean),
                 routing : Routed(b.replicas, VidurRoutings(lean))] :
                  b \in Base(gpus, ServedPairs(gpus, lean), Batches(lean))} :
           s \in VidurSchedulers(lean)}

\* max_batched_tokens and long_prefill_token_threshold
Prefills(lean) ==
  IF lean THEN {<<4096, 0>>}
          ELSE {q \in {2048, 4096, 8192} \X {0, 1024, 2048, 4096} : q[2] < q[1]}

SimPairs(gpus, lean) == {p \in ServedPairs(gpus, lean) : p[1] \in {1, 2, 4}}

SimBlocks(lean) == IF lean THEN {16} ELSE {16, 32}

SimPrefix(lean) == IF lean THEN {FALSE} ELSE BOOLEAN

SimRoutings(lean) == IF lean THEN {"LOAD"} ELSE {"LOAD", "RR", "RAND"}

ServingSimConfigs(gpus, lean) ==
  UNION {[base : {b}, prefill : Prefills(lean), block : SimBlocks(lean),
          prefix : SimPrefix(lean), routing : Routed(b.replicas, SimRoutings(lean))] :
           b \in Base(gpus, SimPairs(gpus, lean), Batches(lean))}

----------------------------------------------------------------------------
\* What compute_config_hash sees of a configuration (_config_to_vllm_args,
\* _config_to_routing, ToolConfig).

\* MUTANT of VidurKey: the scheduler is left out of tool_config.
MutVidurKeyNoScheduler(c) ==
  [base |-> c.base, tokens |-> IF c.tokens = None THEN 4096 ELSE c.tokens,
   chunked |-> c.scheduler = "sarathi", routing |-> c.routing]

VidurKey(c) ==
  [base |-> c.base, tokens |-> IF c.tokens = None THEN 4096 ELSE c.tokens,
   chunked |-> c.scheduler = "sarathi", routing |-> c.routing,
   scheduler |-> c.scheduler]

ServingSimKey(c) ==
  [base |-> c.base, tokens |-> c.prefill[1], chunked |-> c.prefill[2] > 0,
   block |-> c.block, prefix |-> c.prefix, routing |-> c.routing]
=============================================================================
