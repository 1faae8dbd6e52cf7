---------------------------- MODULE SweepRunner ----------------------------
(***************************************************************************)
(* One checkpointed sweep: BaseRunner.run_batch and the three loops that    *)
(* repeat it with another treatment of exceptions (run_full_sweep of Vidur  *)
(* and LLMServingSim, _blis_worker, blis_shard.main).  A process loads the  *)
(* hashes of the records already in its output file, walks the              *)
(* configurations in order, skips those whose hash is loaded, evaluates     *)
(* the others and appends one record each.  Processes are killed and        *)
(* started again; the file is all that survives.                            *)
(***************************************************************************)
EXTENDS Naturals, Sequences, FiniteSets, ResultLog

CONSTANTS
  N,          \* how many configurations the sweep enumerates
  Hashes,     \* the values of config_hash
  HashFns,    \* the hash functions a process may start with: one for
              \* compute_config_hash, several for the per-process str hash
  Policies,   \* what a loop may do with an exception: "record" (run_batch),
              \* "log" (run_full_sweep, _blis_worker), "die" (blis_shard)
  FaultKinds, \* which faults the environment produces
  MaxFaults,  \* bound: faults in a behaviour
  MaxRuns     \* bound: processes started (backoffLimit, user restarts)

Config == 1..N

ASSUME SweepAssumption ==
  /\ N \in Nat
  /\ HashFns # {} /\ HashFns \subseteq [Config -> Hashes]
  /\ Policies # {} /\ Policies \subseteq {"record", "log", "die"}
  /\ FaultKinds \subseteq {"kill", "cut", "write", "raise"}
  /\ MaxFaults \in Nat
  /\ MaxRuns \in Nat

\* A record names the configuration it was evaluated from, and what became
\* of the evaluation: it returned (with whatever result) or it raised.
Record == [config : Config, hash : Hashes, status : {"returned", "crashed"}]

ASSUME RecordAssumption == NL \notin Record /\ Torn \notin Record

VARIABLES
  policy,     \* the policy of the loop that owns the output file
  file,       \* the output file
  pc,         \* "down", "loop", "evaluating", "appending", "recording", "done"
  i,          \* loop index: the configuration at hand
  completed,  \* the in-memory set of completed hashes
  hash,       \* this process's hash function
  poison,     \* configurations whose evaluation always raises
  givenUp,    \* configurations this process logged as failed and left
  clean,      \* the file was newline-terminated when this process loaded it,
              \* and none of its writes has failed
  evaluated,  \* history: configurations some evaluation returned a result for
  runs,       \* processes started
  faults      \* faults so far

vars == <<policy, file, pc, i, completed, hash, poison, givenUp, clean,
          evaluated, runs, faults>>

----------------------------------------------------------------------------
HashesIn(f) == {r.hash : r \in Readable(f)}
Recorded(f) == {r.config : r \in Readable(f)}

Entry(status) == [config |-> i, hash |-> hash[i], status |-> status]

\* What the process is about to write.
Pending == Entry(IF pc = "recording" THEN "crashed" ELSE "returned")

Alive == pc \notin {"down", "done"}

Init ==
  /\ policy \in Policies
  /\ file = <<>>
  /\ pc = "down"
  /\ i = 1
  /\ completed = {}
  /\ hash \in HashFns
  /\ poison \in SUBSET Config
  /\ givenUp = {}
  /\ clean = TRUE
  /\ evaluated = {}
  /\ runs = 0
  /\ faults = 0

----------------------------------------------------------------------------
\* MUTANT of LoadCompleted: the checkpoint is ignored.
MutNothingCompleted(f) == {}

\* MUTANT of LoadCompleted: hashes are also picked out of lines that do not
\* parse.
MutUnparsedCompleted(f) == {f[k].hash : k \in {n \in DOMAIN f : IsRecord(f[n])}}

\* load_completed_hashes.
LoadCompleted(f) == HashesIn(f)

\* A process starts: it enumerates, loads the checkpoint and enters the loop.
Start ==
  /\ runs < MaxRuns
  /\ runs' = runs + 1
  /\ hash' \in HashFns
  /\ completed' = LoadCompleted(file)
  /\ i' = 1
  /\ givenUp' = {}
  /\ clean' = Terminated(file)
  /\ pc' = "loop"
  /\ UNCHANGED <<policy, file, poison, evaluated, faults>>

\* The job controller replaces a dead process ...
Restart == pc = "down" /\ Start

\* ... and a user may run a finished sweep again.
Rerun == pc = "done" /\ Start

Advance == i' = i + 1

\* MUTANT of Skip: a configuration is skipped without looking at its hash.
MutSkipAny ==
  /\ pc = "loop"
  /\ i <= N
  /\ Advance
  /\ UNCHANGED <<policy, file, pc, completed, hash, poison, givenUp, clean,
                 evaluated, runs, faults>>

Skip ==
  /\ pc = "loop"
  /\ i <= N
  /\ hash[i] \in completed
  /\ Advance
  /\ UNCHANGED <<policy, file, pc, completed, hash, poison, givenUp, clean,
                 evaluated, runs, faults>>

Begin ==
  /\ pc = "loop"
  /\ i <= N
  /\ hash[i] \notin completed
  /\ pc' = "evaluating"
  /\ UNCHANGED <<policy, file, i, completed, hash, poison, givenUp, clean,
                 evaluated, runs, faults>>

\* evaluate_config returns a ConfigResult.
Return ==
  /\ pc = "evaluating"
  /\ i \notin poison
  /\ pc' = "appending"
  /\ evaluated' = evaluated \cup {i}
  /\ UNCHANGED <<policy, file, i, completed, hash, poison, givenUp, clean,
                 runs, faults>>

\* The record of the result, or run_batch's record of the exception, is
\* written, its hash is completed, and the loop moves on.
AppendEntry ==
  /\ pc \in {"appending", "recording"}
  /\ file' = AppendLine(file, Pending)
  /\ completed' = completed \cup {hash[i]}
  /\ Advance
  /\ pc' = "loop"
  /\ UNCHANGED <<policy, hash, poison, givenUp, clean, evaluated, runs,
                 faults>>

Finish ==
  /\ pc = "loop"
  /\ i = N + 1
  /\ pc' = "done"
  /\ UNCHANGED <<policy, file, i, completed, hash, poison, givenUp, clean,
                 evaluated, runs, faults>>

----------------------------------------------------------------------------
\* The process ends; its memory is gone.
Exit ==
  /\ pc' = "down"
  /\ i' = 1
  /\ completed' = {}
  /\ givenUp' = {}

RecordException ==
  /\ policy = "record"
  /\ pc' = "recording"
  /\ UNCHANGED <<i, completed, givenUp>>

\* MUTANT of LogException: the failed configuration is tried again at once.
MutLogAndRetry ==
  /\ policy = "log"
  /\ givenUp' = givenUp \cup {i}
  /\ pc' = "loop"
  /\ UNCHANGED <<i, completed>>

LogException ==
  /\ policy = "log"
  /\ givenUp' = givenUp \cup {i}
  /\ Advance
  /\ pc' = "loop"
  /\ UNCHANGED completed

\* The except clause around evaluate_config and append_result, if any.
Except ==
  \/ RecordException
  \/ LogException
  \/ policy = "die" /\ Exit

\* evaluate_config raises, always for a poison configuration and once in a
\* while for another.
Raise ==
  /\ pc = "evaluating"
  /\ \/ i \in poison /\ UNCHANGED faults
     \/ /\ i \notin poison
        /\ "raise" \in FaultKinds
        /\ faults < MaxFaults
        /\ faults' = faults + 1
  /\ Except
  /\ UNCHANGED <<policy, file, hash, poison, clean, evaluated, runs>>

\* append_result raises (disk full, I/O error) after a partial write.  The
\* except clause covers the append of a result; the append it makes itself
\* is not covered, so its failure ends the process.
WriteError ==
  /\ pc \in {"appending", "recording"}
  /\ "write" \in FaultKinds
  /\ faults < MaxFaults
  /\ faults' = faults + 1
  /\ file' \in PartialAppends(file, Pending)
  /\ clean' = FALSE
  /\ IF pc = "appending" THEN Except ELSE Exit
  /\ UNCHANGED <<policy, hash, poison, evaluated, runs>>

\* The process is killed (eviction, OOM, Ctrl-C, loss of the node); a "cut"
\* also leaves the write in progress half done.
Kill ==
  /\ Alive
  /\ "kill" \in FaultKinds
  /\ faults < MaxFaults
  /\ faults' = faults + 1
  /\ \/ UNCHANGED file
     \/ /\ "cut" \in FaultKinds
        /\ pc \in {"appending", "recording"}
        /\ file' \in PartialAppends(file, Pending)
  /\ Exit
  /\ UNCHANGED <<policy, hash, poison, clean, evaluated, runs>>

----------------------------------------------------------------------------
\* What a started process does by itself.
Progress ==
  \/ Restart \/ Skip \/ Begin \/ Return \/ Raise \/ AppendEntry \/ Finish

Next == Progress \/ Rerun \/ WriteError \/ Kill

Spec == Init /\ [][Next]_vars

\* What the results lack although a simulator can evaluate it.
Outstanding == Config \ (poison \cup Recorded(file))

Resubmit == Outstanding # {} /\ Rerun

\* A live process keeps executing its loop, since every evaluation ends
\* (subprocess timeouts, bounded searches), and a dead one is replaced.  The
\* user runs a finished sweep again when, and only when, results are missing.
ResubmittedSpec ==
  /\ Init /\ [][Next /\ (Rerun => Resubmit)]_vars
  /\ WF_vars(Progress)
  /\ WF_vars(Resubmit)

----------------------------------------------------------------------------
TypeOK ==
  /\ policy \in Policies
  /\ file \in Seq(Record \cup {NL, Torn})
  /\ pc \in {"down", "loop", "evaluating", "appending", "recording", "done"}
  /\ i \in 1..(N + 1)
  /\ completed \subseteq Hashes
  /\ hash \in HashFns
  /\ poison \subseteq Config
  /\ givenUp \subseteq Config
  /\ clean \in BOOLEAN
  /\ evaluated \subseteq Config
  /\ runs \in Nat
  /\ faults \in Nat

----------------------------------------------------------------------------
\* Completed records are never damaged: whatever is killed, cut short or run
\* again, a record followed by its line end stays readable (append mode of
\* append_result).
SealedRecordsSurvive == [][Sealed(file) \subseteq Sealed(file')]_file

\* Checkpointing works: no evaluation starts for a configuration that has a
\* readable record (load_completed_hashes and the skip in every loop).
NoRework ==
  [][pc' = "evaluating" /\ pc = "loop" => i \notin Recorded(file)]_<<pc, i, file>>

\* No configuration is counted twice by the analysis: it has at most one
\* readable record, over any number of interrupted runs.
NoDuplicates ==
  \A j, k \in ReadableAt(file) : file[j].config = file[k].config => j = k

\* A run that finds its file newline-terminated and whose own writes succeed
\* leaves a readable record of every configuration it did not give up,
\* whatever happened to earlier runs.
CleanRunIsComplete ==
  pc = "done" /\ clean => Config \subseteq Recorded(file) \cup givenUp

\* An interruption costs little: of all results ever computed, at most two
\* per fault have no readable record, besides the one about to be written.
\* (A kill alone costs the evaluation in flight; a cut write also takes the
\* record appended behind it.)
LossIsBounded ==
  Cardinality(evaluated \ Recorded(file))
    <= 2 * faults + (IF pc = "appending" THEN 1 ELSE 0)

\* Every sweep ends: processes that die are replaced and each run advances.
SweepFinishes == <>(pc = "done")

\* What a run loses, the next ones make up for: if the sweep is run again as
\* long as results are missing, every configuration that can be evaluated has
\* a record for good, whatever raised by chance and was only logged, was
\* killed, or was glued to a torn record.  The record is that of a result,
\* unless it is run_batch that made one of the exception.
MissingAreMadeUpFor ==
  \A c \in Config :
    <>[](\/ c \in poison
        \/ \E r \in Readable(file) :
              r.config = c /\ (r.status = "returned" \/ policy = "record"))

\* README.md:125, "safe to interrupt and restart": a run that ends leaves a
\* record of every configuration it did not give up, also after a run that
\* was cut off while writing.
SafeToRestart == pc = "done" => Config \subseteq Recorded(file) \cup givenUp

\* The sweep keeps the promise of the ledger, whatever is killed, cut short or
\* fails: a record is entered when its line end is written, and a pass closes
\* the ledger if it found its file newline-terminated and its own writes
\* succeeded.
Ledger == INSTANCE SweepLedger WITH
  recorded <- {r.config : r \in Sealed(file)},
  givenUp  <- givenUp,
  phase    <- IF pc = "done" /\ clean THEN "closed" ELSE "open"

KeepsLedger == Ledger!Spec
=============================================================================
