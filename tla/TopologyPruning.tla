-------------------------- MODULE TopologyPruning --------------------------
(***************************************************************************)
(* The pruning pass over a tool's topologies (config/pruning.py and        *)
(* cmd_prune): each topology is evaluated at a fixed load, or passed       *)
(* without evaluation, the results are saved, and the passing topologies   *)
(* are read back.                                                          *)
(***************************************************************************)
EXTENDS ConfigSpace, Sequences, Functions

CONSTANTS
  MaxEvaluated, \* bound: topologies evaluated one by one
  TTFTs         \* what an evaluation may measure, or None

ASSUME PruningAssumption ==
  /\ MaxEvaluated \in Nat
  /\ TTFTs \subseteq Nat \cup {None}

VARIABLES
  maxGpus,  \* the GPU budget
  tool,     \* which of the three enumerations applies
  phase,    \* "start", "pruning", "saving", "saved", "loaded"
  results,  \* one result per topology so far
  passing,  \* the topologies prune_topologies would return
  file,     \* the saved results
  read,     \* records of the file load_pruned_topologies has gone through
  loaded    \* the topologies it returns

pruneVars == <<maxGpus, tool, phase, results, passing, file, read, loaded>>

\* Topologies in the order of the nested loops.
Earlier(s, t) ==
  \E k \in DOMAIN s : s[k] < t[k] /\ \A j \in 1..(k - 1) : s[j] = t[j]

Enumerated ==
  LET S == IF tool = "blis" THEN TopologiesNoPP(maxGpus)
                            ELSE Topologies(maxGpus)
  IN  [k \in 1..Cardinality(S) |->
         CHOOSE t \in S : Cardinality({s \in S : Earlier(s, t)}) = k - 1]

\* MUTANT of ToDict: a dp topology is written like one with replicas.
MutToDictReplicas(t) ==
  IF Len(t) = 2 THEN [tp |-> t[1], replicas |-> t[2]]
                ELSE [tp |-> t[1], pp |-> t[2], replicas |-> 1]

\* _topology_to_dict
ToDict(t) ==
  IF tool = "llm-optimizer" THEN [tp |-> t[1], pp |-> t[2], dp |-> t[3]]
  ELSE IF tool = "blis"     THEN [tp |-> t[1], replicas |-> t[2]]
                            ELSE [tp |-> t[1], pp |-> t[2], replicas |-> t[3]]

Result(t, ttft, status, passes) ==
  [topology |-> ToDict(t), ttft |-> ttft, status |-> status,
   passes |-> passes]

PruneInit ==
  /\ maxGpus \in 1..MaxGpus
  /\ tool \in {"blis", "vidur", "llm-optimizer"}
  /\ phase = "start"
  /\ results = <<>>
  /\ passing = <<>>
  /\ file = <<>>
  /\ read = 0
  /\ loaded = <<>>

\* cmd_prune: every topology passes.
PassAll ==
  /\ phase = "start"
  /\ results' = [k \in DOMAIN Enumerated |->
                   Result(Enumerated[k], None, "skipped", TRUE)]
  /\ passing' = Enumerated
  /\ phase' = "saving"
  /\ UNCHANGED <<maxGpus, tool, file, read, loaded>>

\* prune_topologies
StartPruning ==
  /\ phase = "start"
  /\ Len(Enumerated) <= MaxEvaluated
  /\ phase' = "pruning"
  /\ UNCHANGED <<maxGpus, tool, results, passing, file, read, loaded>>

\* within threshold_multiplier = 1.5 of the SLO
Passes(ttft, status) ==
  status = "ok" /\ ttft # None /\ 2 * ttft <= 3 * Slo

Evaluate ==
  /\ phase = "pruning"
  /\ Len(results) < Len(Enumerated)
  /\ LET t == Enumerated[Len(results) + 1]
     IN  \E ttft \in TTFTs, status \in {"ok", "timeout"} :
           /\ results' = Append(results,
                                Result(t, ttft, status, Passes(ttft, status)))
           /\ passing' = IF Passes(ttft, status) THEN Append(passing, t)
                                                 ELSE passing
  /\ UNCHANGED <<maxGpus, tool, phase, file, read, loaded>>

EndPruning ==
  /\ phase = "pruning"
  /\ Len(results) = Len(Enumerated)
  /\ phase' = "saving"
  /\ UNCHANGED <<maxGpus, tool, results, passing, file, read, loaded>>

\* save_prune_results
Save ==
  /\ phase = "saving"
  /\ file' = results
  /\ phase' = "saved"
  /\ UNCHANGED <<maxGpus, tool, results, passing, read, loaded>>

\* load_pruned_topologies, record by record
Load ==
  /\ phase = "saved"
  /\ read < Len(file)
  /\ LET r == file[read + 1]
     IN  loaded' = IF r.passes THEN Append(loaded, r.topology) ELSE loaded
  /\ read' = read + 1
  /\ UNCHANGED <<maxGpus, tool, phase, results, passing, file>>

EndLoading ==
  /\ phase = "saved"
  /\ read = Len(file)
  /\ phase' = "loaded"
  /\ UNCHANGED <<maxGpus, tool, results, passing, file, read, loaded>>

PruneNext ==
  \/ PassAll \/ StartPruning \/ Evaluate \/ EndPruning
  \/ Save \/ Load \/ EndLoading

PruneSpec == PruneInit /\ [][PruneNext]_pruneVars

----------------------------------------------------------------------------
\* The GPUs of a topology, and of a topology as a dictionary.
Gpus(t) == IF tool = "blis" THEN t[1] * t[2] ELSE t[1] * t[2] * t[3]

DictGpus(d) ==
  d.tp * (IF "pp" \in DOMAIN d THEN d.pp ELSE 1)
       * (IF "dp" \in DOMAIN d THEN d.dp ELSE d.replicas)

\* The topologies read back are, one for one, those a pruning pass would
\* return: no two alike, each with the parallelism and the number of GPUs of
\* the topology it stands for, and each measured within 1.5 times the SLO or
\* passed without being evaluated at all.
PruningRoundTrip ==
  phase = "loaded" =>
    /\ Len(loaded) = Len(passing)
    /\ IsInjective(loaded)
    /\ \A k \in DOMAIN loaded :
         /\ loaded[k].tp = passing[k][1]
         /\ DictGpus(loaded[k]) = Gpus(passing[k])
         /\ \E j \in DOMAIN results :
              /\ results[j].topology = loaded[k]
              /\ \/ results[j].status = "skipped"
                 \/ results[j].ttft \in Nat /\ 2 * results[j].ttft <= 3 * Slo

\* What a simulator can tell apart of a BLIS policy: admission by tier and
\* preemption by priority do nothing under a scheduler without priorities.
Behaviour(c) ==
  IF c[3].scheduler \in PRIORITY_AWARE_SCHEDULERS THEN c
  ELSE <<c[1], c[2],
         [c[3] EXCEPT !.preemption = "fcfs",
                      !.admission = IF @ = None THEN @ ELSE "always-admit"],
         c[4]>>

\* Pruning the BLIS space removes names, not behaviours: every configuration
\* with fewer than 512 sequences behaves like one that is kept, but for the
\* mixed policies of multi-replica priority schedulers, and none of those is.
PruningKeepsBehaviours ==
  phase = "start" /\ tool = "blis" =>
    LET full  == {c \in BlisConfigs(maxGpus) : c[2][1] # 512}
        kept  == PrunedBlisConfigs(maxGpus)
        mixed == {c \in full :
                    /\ c[3].scheduler \in PRIORITY_AWARE_SCHEDULERS
                    /\ c[3].admission # None
                    /\ ~(c[3].admission = "tier-shed"
                            <=> c[3].preemption = "priority")}
    IN  /\ kept \subseteq full \ mixed
        /\ {Behaviour(c) : c \in full \ mixed} \subseteq kept

\* A configuration of Vidur or LLMServingSim is taken as completed only for
\* one that is evaluated in the same way: equal hash inputs mean equal
\* configurations, but for the positive prefill thresholds of LLMServingSim,
\* which one hash stands for.
HashesTellApart ==
  phase = "start" /\ tool = "vidur" =>
    \A lean \in BOOLEAN :
      LET vidur   == VidurConfigs(maxGpus, lean)
          sim     == ServingSimConfigs(maxGpus, lean)
          Merged(c) == [c EXCEPT !.prefill = <<@[1], IF @[2] > 0 THEN 1 ELSE 0>>]
      IN  /\ Cardinality({VidurKey(c) : c \in vidur}) = Cardinality(vidur)
          /\ Cardinality({ServingSimKey(c) : c \in sim})
               = Cardinality({Merged(c) : c \in sim})
          /\ lean => Cardinality({ServingSimKey(c) : c \in sim})
                       = Cardinality(sim)
=============================================================================
