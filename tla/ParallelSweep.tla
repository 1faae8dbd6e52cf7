--------------------------- MODULE ParallelSweep ---------------------------
(***************************************************************************)
(* The brute-force sweep of BLIS with several workers: cmd_sweep starts one *)
(* process per shard (_blis_worker), waits for all of them and concatenates *)
(* the shard files into the file the analysis reads.  A sweep that is       *)
(* killed leaves its workers behind; the next one starts workers, possibly  *)
(* another number of them, on the same shard files.                         *)
(*                                                                          *)
(* An evaluation touches nothing that is shared, so a worker handles a      *)
(* configuration in one step: evaluate, append.  What stops it on the way   *)
(* (Raise, WriteError, KillWorker) is a step of its own.                    *)
(***************************************************************************)
EXTENDS Naturals, Sequences, FiniteSets, ResultLog

CONSTANTS
  N,          \* how many configurations the sweep enumerates
  Widths,     \* the values of --workers the user may choose
  Hashes,     \* the values a hash cut to eight digits may take
  HashFns,    \* the hash functions a process may draw: str.__hash__ differs
              \* from process to process, unless PYTHONHASHSEED is set
  FaultKinds, \* which faults the environment produces
  MaxFaults,  \* bound: faults in a behaviour
  MaxSweeps   \* bound: sweeps started

Config == 1..N
Index  == UNION {0..(w - 1) : w \in Widths}   \* of a worker and its shard

ASSUME ParallelAssumption ==
  /\ N \in Nat
  /\ Widths # {} /\ Widths \subseteq Nat \ {0, 1} /\ IsFiniteSet(Widths)
  /\ HashFns # {} /\ HashFns \subseteq [Config -> Hashes]
  /\ FaultKinds \subseteq {"worker", "cut", "write", "parent"}
  /\ MaxFaults \in Nat
  /\ MaxSweeps \in Nat

\* A record names its configuration, its hash and, as history, the sweep whose
\* worker made it.
Record == [config : Config, hash : Hashes, sweep : 1..MaxSweeps]

ASSUME ParallelRecordAssumption == NL \notin Record /\ Torn \notin Record

\* The worker processes: those of each sweep, by index.
Proc == (1..MaxSweeps) \X Index

VARIABLES
  shard,    \* the shard files
  output,   \* the aggregate
  parent,   \* "down", "starting", "aggregating", "done"
  next,     \* the worker to start, or the shard to aggregate, next
  widths,   \* the number of workers of each sweep started so far
  worker,   \* of each worker: "none", "loading", "running", "died"
  hash,     \* hash function of each worker, while it has something to do
  todo,     \* configurations each worker has still to evaluate
  givenUp,  \* configurations the workers of this sweep logged as failed
  mistaken, \* history: unrecorded configurations they took for completed
  overlap,  \* history: a sweep was started while a worker of another lived
  tears,    \* history: writes that stopped part-way
  faults    \* faults so far

vars == <<shard, output, parent, next, widths, worker, hash, todo, givenUp,
          mistaken, overlap, tears, faults>>

workerVars == <<worker, hash, todo, mistaken>>
parentVars == <<output, parent, next, widths, overlap>>

----------------------------------------------------------------------------
Sweeps == Len(widths)
Width  == widths[Sweeps]

Recorded(f) == {r.config : r \in Readable(f)}

\* configs[i::w]
Slice(i, w) == {c \in Config : (c - 1) % w = i}

\* MUTANT of Known: the checkpoint is ignored.
MutKnownNothing(f, h) == {}

\* The configurations whose hash load_completed_hashes finds in the file,
\* whichever configuration's record it stands in.
Known(f, h) == {c \in Config : \E r \in Readable(f) : r.hash = h[c]}

Busy(p) == worker[p] = "running" /\ todo[p] # {}
Live(p) == worker[p] = "loading" \/ Busy(p)

\* The value of hash that stands for none.
Unhashed == CHOOSE h \in HashFns : TRUE

Init ==
  /\ shard = [i \in Index |-> <<>>]
  /\ output = <<>>
  /\ parent = "down"
  /\ next = 0
  /\ widths = <<>>
  /\ worker = [p \in Proc |-> "none"]
  /\ hash = [p \in Proc |-> Unhashed]
  /\ todo = [p \in Proc |-> {}]
  /\ givenUp = {}
  /\ mistaken = {}
  /\ overlap = FALSE
  /\ tears = 0
  /\ faults = 0

----------------------------------------------------------------------------
\* The parent: a sweep is started, after a crash or once more.
StartSweep ==
  /\ parent \in {"down", "done"}
  /\ Sweeps < MaxSweeps
  /\ \E w \in Widths : widths' = Append(widths, w)
  /\ parent' = "starting"
  /\ next' = 0
  /\ overlap' = (overlap \/ \E p \in Proc : Live(p))
  /\ givenUp' = {}
  /\ mistaken' = {}
  /\ UNCHANGED <<shard, output, worker, hash, todo, tears, faults>>

StartWorker ==
  /\ parent = "starting"
  /\ next < Width
  /\ worker' = [worker EXCEPT ![<<Sweeps, next>>] = "loading"]
  /\ next' = next + 1
  /\ UNCHANGED <<shard, output, parent, widths, hash, todo, givenUp, mistaken,
                 overlap, tears, faults>>

\* MUTANT of Joined: aggregation does not wait for the workers.
MutJoinedAtOnce == TRUE

\* join returns for a worker that is gone, however it went.
Joined == \A i \in 0..(Width - 1) : ~Live(<<Sweeps, i>>)

\* open(output, "w") truncates what an earlier sweep aggregated.
Join ==
  /\ parent = "starting"
  /\ next = Width
  /\ Joined
  /\ parent' = "aggregating"
  /\ output' = <<>>
  /\ next' = 0
  /\ UNCHANGED <<shard, widths, workerVars, givenUp, overlap, tears, faults>>

\* read_text and write: the text of the shard as it is.
Copied(f) == f

Aggregate ==
  /\ parent = "aggregating"
  /\ output' = output \o Copied(shard[next])
  /\ IF next + 1 < Width
       THEN next' = next + 1 /\ UNCHANGED parent
       ELSE next' = 0 /\ parent' = "done"
  /\ UNCHANGED <<shard, widths, workerVars, givenUp, overlap, tears, faults>>

----------------------------------------------------------------------------
\* A worker passes over configurations whose hash is in completed.  Those that
\* have no record of their own it takes for completed by mistake.
Skip(p, S) ==
  mistaken' = IF p[1] = Sweeps THEN mistaken \cup (S \ Recorded(shard[p[2]]))
                               ELSE mistaken

\* It loads the hashes of its shard once ...
Load(p) ==
  /\ worker[p] = "loading"
  /\ \E h \in HashFns :
       LET slice == Slice(p[2], widths[p[1]])
           known == Known(shard[p[2]], h)
       IN  /\ todo' = [todo EXCEPT ![p] = slice \ known]
           /\ hash' = IF slice \subseteq known THEN hash
                                             ELSE [hash EXCEPT ![p] = h]
           /\ Skip(p, slice \cap known)
  /\ worker' = [worker EXCEPT ![p] = "running"]
  /\ UNCHANGED <<shard, parentVars, givenUp, tears, faults>>

\* ... takes the other configurations of its slice in order ...
AtHand(p) == {c \in todo[p] : \A d \in todo[p] : c <= d}

Entry(p, c) == [config |-> c, hash |-> hash[p][c], sweep |-> p[1]]

MoveOn(p, c) == todo' = [todo EXCEPT ![p] = @ \ {c}]

\* A worker with nothing left to do exits, and its hash function is gone.
Forget(p) ==
  hash' = IF todo'[p] = {} THEN [hash EXCEPT ![p] = Unhashed] ELSE hash

\* The configurations that completed.add takes off the list with c.
Alike(p, c) == {d \in todo[p] : hash[p][d] = hash[p][c]}

\* ... writes a record of each and adds its hash to completed ...
AppendEntry(p) ==
  /\ Busy(p)
  /\ \E c \in AtHand(p) :
       /\ shard' = [shard EXCEPT ![p[2]] = AppendLine(@, Entry(p, c))]
       /\ todo' = [todo EXCEPT ![p] = @ \ Alike(p, c)]
       /\ Skip(p, Alike(p, c) \ {c})
  /\ Forget(p)
  /\ UNCHANGED <<parentVars, worker, givenUp, tears, faults>>

LogException(p, c) ==
  /\ givenUp' = IF p[1] = Sweeps THEN givenUp \cup {c} ELSE givenUp
  /\ MoveOn(p, c)

\* ... logs those whose evaluation raises, and exits after the last ...
Raise(p) ==
  /\ Busy(p)
  /\ \E c \in AtHand(p) : LogException(p, c)
  /\ Forget(p)
  /\ UNCHANGED <<shard, parentVars, worker, mistaken, tears, faults>>

\* ... and logs those whose append fails after a partial write.
WriteError(p) ==
  /\ Busy(p)
  /\ "write" \in FaultKinds
  /\ faults < MaxFaults
  /\ faults' = faults + 1
  /\ tears' = tears + 1
  /\ \E c \in AtHand(p) :
       /\ \E f \in PartialAppends(shard[p[2]], Entry(p, c)) :
            shard' = [shard EXCEPT ![p[2]] = f]
       /\ LogException(p, c)
  /\ Forget(p)
  /\ UNCHANGED <<parentVars, worker, mistaken>>

----------------------------------------------------------------------------
\* A worker is killed (out of memory), possibly inside a write.
KillWorker(p) ==
  /\ Live(p)
  /\ faults < MaxFaults
  /\ faults' = faults + 1
  /\ worker' = [worker EXCEPT ![p] = "died"]
  /\ todo' = [todo EXCEPT ![p] = {}]
  /\ \/ "worker" \in FaultKinds /\ UNCHANGED <<shard, tears>>
     \/ /\ "cut" \in FaultKinds
        /\ Busy(p)
        /\ tears' = tears + 1
        /\ \E c \in AtHand(p) :
             \E f \in PartialAppends(shard[p[2]], Entry(p, c)) :
               shard' = [shard EXCEPT ![p[2]] = f]
  /\ Forget(p)
  /\ UNCHANGED <<parentVars, givenUp, mistaken>>

\* What of the buffered text has reached the file: a prefix, which may end
\* inside a record.
Flushed(f) ==
  {SubSeq(f, 1, k) : k \in 0..Len(f)}
    \cup {SubSeq(f, 1, k - 1) \o <<Torn>> : k \in 1..Len(f)}

\* The parent is killed; its workers are not.  (The last of the bounded
\* number of sweeps is spared.)
KillParent ==
  /\ parent \in {"starting", "aggregating"}
  /\ Sweeps < MaxSweeps
  /\ "parent" \in FaultKinds
  /\ faults < MaxFaults
  /\ faults' = faults + 1
  /\ parent' = "down"
  /\ next' = 0
  /\ IF parent = "aggregating" THEN output' \in Flushed(output)
                               ELSE UNCHANGED output
  /\ UNCHANGED <<shard, widths, workerVars, givenUp, overlap, tears>>

----------------------------------------------------------------------------
ParentStep == StartWorker \/ Join \/ Aggregate
WorkerStep(p) == Load(p) \/ AppendEntry(p) \/ Raise(p)

Next ==
  \/ StartSweep
  \/ ParentStep
  \/ \E p \in Proc : WorkerStep(p) \/ WriteError(p) \/ KillWorker(p)
  \/ KillParent

Spec == Init /\ [][Next]_vars

----------------------------------------------------------------------------
TypeOK ==
  /\ shard \in [Index -> Seq(Record \cup {NL, Torn})]
  /\ output \in Seq(Record \cup {NL, Torn})
  /\ parent \in {"down", "starting", "aggregating", "done"}
  /\ next \in Nat
  /\ widths \in Seq(Widths) /\ Len(widths) <= MaxSweeps
  /\ worker \in [Proc -> {"none", "loading", "running", "died"}]
  /\ hash \in [Proc -> HashFns]
  /\ todo \in [Proc -> SUBSET Config]
  /\ givenUp \subseteq Config
  /\ mistaken \subseteq Config
  /\ overlap \in BOOLEAN
  /\ tears \in Nat
  /\ faults \in Nat

----------------------------------------------------------------------------
\* Shard files with several writers: whoever appends, dies or is left behind
\* by a killed sweep, a record followed by its line end stays readable.
SealedShardsSurvive ==
  [][\A i \in Index : Sealed(shard[i]) \subseteq Sealed(shard'[i])]_shard

\* The configurations the aggregate of a finished sweep lacks although their
\* worker neither died nor logged them as failed nor mistook another's record
\* for theirs.
Lost ==
  {c \in Config :
     LET p == <<Sweeps, (c - 1) % Width>>
     IN  /\ c \notin Recorded(output) \cup givenUp \cup mistaken
         /\ worker[p] # "died"}

\* join ignores exit codes and shards are glued together as they are, yet
\* what the analysis of a finished sweep does not see was logged, was skipped
\* for another's record with the same eight digits, or is in the slice of a
\* worker that died, but for two configurations per write that stopped
\* part-way, in this sweep or an earlier one.  Workers left behind by a killed
\* sweep, changed worker counts and changed hash functions take nothing away.
LossIsBounded == parent = "done" => Cardinality(Lost) <= 2 * tears

\* The analysis counts a configuration at most once per sweep that was
\* started, and again only if the later worker could not know: the two records
\* have different hashes, or are in the shards of different worker counts, or
\* a sweep was started while workers of a killed one lived.
DuplicatesAreExplained ==
  parent = "done" =>
    \A j, k \in ReadableAt(output) :
      j # k /\ output[j].config = output[k].config =>
        /\ output[j].sweep # output[k].sweep
        /\ \/ output[j].hash # output[k].hash
           \/ overlap
           \/ \E s \in 1..Sweeps : widths[s] # Width
=============================================================================
