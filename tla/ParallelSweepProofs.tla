------------------------ MODULE ParallelSweepProofs ------------------------
(***************************************************************************)
(* What the sweep with workers guarantees for any number of configurations, *)
(* workers, sweeps and faults.                                              *)
(***************************************************************************)
EXTENDS ParallelSweep, ResultLogProofs, FiniteSetTheorems

Piece == Record \cup {NL, Torn}

\* The parent counts what it has.
Cursor ==
  /\ parent \in {"starting", "aggregating", "done"} => Sweeps \in 1..MaxSweeps
  /\ parent = "starting" => next <= Width
  /\ parent = "aggregating" => next < Width

\* Workers are started in order; only a running one has something to do, and
\* what it has to do is in its slice.
Workers ==
  \A p \in Proc :
    /\ worker[p] # "none" =>
         /\ p[1] \in 1..Sweeps
         /\ parent = "starting" /\ p[1] = Sweeps => p[2] < next
    /\ todo[p] # {} => /\ worker[p] = "running"
                       /\ todo[p] \subseteq Slice(p[2], widths[p[1]])

TypeInv == TypeOK /\ Cursor /\ Workers

----------------------------------------------------------------------------
\* What is needed of the constants.
LEMMA Pieces ==
  NL \in Piece /\ Torn \in Piece /\ \A r \in Record : r \in Piece /\ IsRecord(r)
  BY ParallelRecordAssumption DEF Piece, IsRecord

LEMMA WidthTypes ==
  ASSUME TypeOK, NEW s \in 1..Sweeps
  PROVE  /\ widths[s] \in Nat \ {0}
         /\ \A i \in 0..(widths[s] - 1) : i \in Index
<1>1. widths[s] \in Widths
  BY DEF TypeOK, Sweeps
<1> QED BY <1>1, ParallelAssumption DEF Index

\* A file has no two records that are the same configuration's ...
Once(f, key) == \A j, k \in ReadableAt(f) : key[f[j]] = key[f[k]] => j = k

\* ... under one hash, or in one sweep.
ByHash  == [r \in Record |-> <<r.config, r.hash>>]
BySweep == [r \in Record |-> <<r.config, r.sweep>>]

\* A record that is appended, whole or cut, is the only thing that becomes
\* readable, and becomes so at one place.

LEMMA WriteShape ==
  ASSUME NEW f \in Seq(Piece), NEW r \in Record,
         NEW g, g = AppendLine(f, r) \/ g \in PartialAppends(f, r)
  PROVE  /\ g \in Seq(Piece)
         /\ Extends(g, f)
         /\ Readable(g) \subseteq Readable(f) \cup {r}
         /\ \A k \in ReadableAt(g) : k <= Len(f) + 1
<1>0. r \in Piece /\ NL \in Piece /\ Torn \in Piece
  BY Pieces
<1>1. CASE g = AppendLine(f, r)
  <2>1. /\ g \in Seq(Piece) /\ Extends(g, f)
        /\ Len(g) = Len(f) + 2 /\ g[Len(f) + 2] = NL
    BY <1>0, <1>1, AppendLineShape
  <2>2. Readable(g) \subseteq Readable(f) \cup {r}
    BY <1>0, <1>1, AppendLineReads
  <2>3. \A k \in ReadableAt(g) : k \in 1..(Len(f) + 2) /\ k # Len(f) + 2
    BY <2>1 DEF ReadableAt, IsRecord
  <2> QED BY <2>1, <2>2, <2>3
<1>2. CASE g \in PartialAppends(f, r)
  <2>1. /\ g \in Seq(Piece) /\ Extends(g, f)
        /\ g = f \/ (Len(g) = Len(f) + 1 /\ g[Len(f) + 1] \in {Torn, r})
    BY <1>0, <1>2, PartialShape
  <2>2. Readable(g) \subseteq Readable(f) \cup {r}
    BY <1>0, <1>2, PartialReads
  <2>3. \A k \in ReadableAt(g) : k <= Len(f) + 1
    BY <2>1 DEF ReadableAt
  <2> QED BY <2>1, <2>2, <2>3
<1> QED BY <1>1, <1>2

\* A record whose key the file does not have yet is appended without
\* repetition.
LEMMA WriteUnique ==
  ASSUME NEW f \in Seq(Piece), NEW r \in Record, NEW key,
         NEW g, g = AppendLine(f, r) \/ g \in PartialAppends(f, r),
         Once(f, key), \A x \in Readable(f) : key[x] # key[r]
  PROVE  Once(g, key)
<1>1. /\ g \in Seq(Piece) /\ Extends(g, f)
      /\ Readable(g) \subseteq Readable(f) \cup {r}
      /\ \A k \in ReadableAt(g) : k \in 1..Len(g) /\ k <= Len(f) + 1
  BY WriteShape DEF ReadableAt
<1>2. \A k \in ReadableAt(g) :
        k <= Len(f) => k \in ReadableAt(f) /\ g[k] = f[k]
  BY <1>1, ReadableBefore
<1>3. SUFFICES ASSUME NEW j \in ReadableAt(g), NEW k \in ReadableAt(g),
                      key[g[j]] = key[g[k]], j < k
               PROVE  FALSE
  <2>1. \A j, k \in ReadableAt(g) : j \in Nat /\ k \in Nat
    BY <1>1
  <2> QED BY <2>1 DEF Once
<1>4. j \in ReadableAt(f) /\ g[j] = f[j] /\ key[f[j]] # key[r]
  BY <1>1, <1>2, <1>3 DEF Readable
<1>5. CASE k <= Len(f)
  <2>1. k \in ReadableAt(f) /\ g[k] = f[k]
    BY <1>2, <1>5
  <2>2. key[f[j]] = key[f[k]]
    BY <1>3, <1>4, <2>1
  <2>3. j = k
    BY <1>4, <2>1, <2>2 DEF Once
  <2> QED BY <1>1, <1>3, <2>3
<1>6. CASE k = Len(f) + 1
  <2>2. ASSUME f = g PROVE FALSE
    BY <1>1, <1>6, <2>2
  <2>3. g[k] = r
    <3>1. CASE g = AppendLine(f, r)
      BY <1>6, <3>1, Pieces, AppendLineShape
    <3>2. CASE g \in PartialAppends(f, r)
      <4>1. g[Len(f) + 1] \in {Torn, r}
        BY <2>2, <3>2, Pieces, PartialShape
      <4> QED BY <1>3, <1>6, <4>1 DEF ReadableAt, IsRecord
    <3> QED BY <3>1, <3>2
  <2> QED BY <1>3, <1>4, <2>3
<1> QED BY <1>1, <1>3, <1>5, <1>6

\* Files that are glued together make no record readable that was not, and
\* none twice.
LEMMA Glued ==
  ASSUME NEW f \in Seq(Piece), NEW g \in Seq(Piece)
  PROVE  /\ f \o g \in Seq(Piece)
         /\ Readable(f \o g) \subseteq Readable(f) \cup Readable(g)
         /\ \A key :
              /\ Once(f, key) /\ Once(g, key)
              /\ \A x \in Readable(f), y \in Readable(g) : key[x] # key[y]
              => Once(f \o g, key)
<1> DEFINE h == f \o g
<1>1. /\ h \in Seq(Piece) /\ Extends(h, f) /\ Len(h) = Len(f) + Len(g)
      /\ \A k \in 1..Len(g) : h[Len(f) + k] = g[k]
  BY AppendExtends
<1>2. \A k \in ReadableAt(h) :
        k <= Len(f) => k \in ReadableAt(f) /\ h[k] = f[k]
  BY <1>1, ReadableBefore
<1> HIDE DEF h
<1>3. ASSUME NEW k \in ReadableAt(h), k > Len(f)
      PROVE  k - Len(f) \in ReadableAt(g) /\ h[k] = g[k - Len(f)]
  <2> DEFINE j == k - Len(f)
  <2>1. /\ k \in 1..Len(h) /\ IsRecord(h[k]) /\ StartsLine(h, k) /\ EndsLine(h, k)
    BY DEF ReadableAt
  <2>2. j \in 1..Len(g) /\ h[k] = g[j] /\ k = Len(f) + j
    BY <1>1, <1>3, <2>1
  <2>3. j = 1 \/ h[k - 1] = g[j - 1]
    <3>1. ASSUME j # 1 PROVE j - 1 \in 1..Len(g) /\ Len(f) + (j - 1) = k - 1
      BY <2>2, <3>1
    <3> QED BY <1>1, <3>1
  <2>4. j = Len(g) \/ h[k + 1] = g[j + 1]
    <3>1. ASSUME j # Len(g) PROVE j + 1 \in 1..Len(g) /\ Len(f) + (j + 1) = k + 1
      BY <2>2, <3>1
    <3> QED BY <1>1, <3>1
  <2>5. StartsLine(g, j)
    BY <2>1, <2>2, <2>3 DEF StartsLine
  <2>6. EndsLine(g, j)
    BY <1>1, <2>1, <2>2, <2>4 DEF EndsLine
  <2> QED BY <2>1, <2>2, <2>5, <2>6 DEF ReadableAt
<1>4. Readable(h) \subseteq Readable(f) \cup Readable(g)
  <2> SUFFICES ASSUME NEW k \in ReadableAt(h)
               PROVE  h[k] \in Readable(f) \cup Readable(g)
    BY DEF Readable
  <2>1. k \in Nat /\ Len(f) \in Nat
    BY <1>1 DEF ReadableAt
  <2> QED BY <1>2, <1>3, <2>1 DEF Readable
<1>5. ASSUME NEW key, Once(f, key), Once(g, key),
             \A x \in Readable(f), y \in Readable(g) : key[x] # key[y],
             NEW j \in ReadableAt(h), NEW k \in ReadableAt(h),
             key[h[j]] = key[h[k]]
      PROVE  j = k
  <2>1. j \in Nat /\ k \in Nat /\ Len(f) \in Nat
    BY <1>1 DEF ReadableAt
  <2>2. CASE j <= Len(f) /\ k <= Len(f)
    BY <1>2, <1>5, <2>2 DEF Once
  <2>3. CASE j > Len(f) /\ k > Len(f)
    <3>1. j - Len(f) = k - Len(f)
      BY <1>3, <1>5, <2>3 DEF Once
    <3> QED BY <2>1, <3>1
  <2>4. CASE j <= Len(f) /\ k > Len(f)
    <3>1. h[j] \in Readable(f) /\ h[k] \in Readable(g)
      BY <1>2, <1>3, <2>4 DEF Readable
    <3> QED BY <1>5, <3>1
  <2>5. CASE j > Len(f) /\ k <= Len(f)
    <3>1. h[k] \in Readable(f) /\ h[j] \in Readable(g)
      BY <1>2, <1>3, <2>5 DEF Readable
    <3> QED BY <1>5, <3>1
  <2> QED BY <2>1, <2>2, <2>3, <2>4, <2>5
<1>6. \A key :
        /\ Once(f, key) /\ Once(g, key)
        /\ \A x \in Readable(f), y \in Readable(g) : key[x] # key[y]
        => Once(h, key)
  BY <1>5 DEF Once
<1> QED BY <1>1, <1>4, <1>6 DEF h
----------------------------------------------------------------------------
\* Whoever writes to a shard has a configuration of its slice at hand.
LEMMA AtHandTypes ==
  ASSUME TypeInv, NEW p \in Proc, NEW c \in AtHand(p)
  PROVE  /\ c \in todo[p] /\ c \in Config
         /\ Entry(p, c) \in Record
         /\ p[2] \in Index /\ shard[p[2]] \in Seq(Piece)
<1>1. c \in todo[p] /\ c \in Config
  BY DEF AtHand, TypeInv, TypeOK
<1>2. hash[p][c] \in Hashes
  BY <1>1, ParallelAssumption DEF TypeInv, TypeOK
<1>3. p[1] \in 1..MaxSweeps /\ p[2] \in Index
  BY DEF Proc
<1> QED BY <1>1, <1>2, <1>3 DEF Entry, Record, TypeInv, TypeOK, Piece

\* The possible changes of the shards: none, or one write of one worker.
Written(p, c, g) ==
  /\ c \in AtHand(p)
  /\ \/ g = AppendLine(shard[p[2]], Entry(p, c))
     \/ g \in PartialAppends(shard[p[2]], Entry(p, c))
  /\ shard' = [shard EXCEPT ![p[2]] = g]
  /\ c \notin todo'[p]

LEMMA WrittenTypes ==
  ASSUME TypeInv, NEW p \in Proc, NEW c, NEW g, Written(p, c, g)
  PROVE  /\ g \in Seq(Piece)
         /\ Extends(g, shard[p[2]])
         /\ shard' \in [Index -> Seq(Piece)]
<1>1. /\ Entry(p, c) \in Record
      /\ p[2] \in Index /\ shard[p[2]] \in Seq(Piece)
  BY AtHandTypes DEF Written
<1>2. g \in Seq(Piece) /\ Extends(g, shard[p[2]])
  BY <1>1, WriteShape DEF Written
<1> QED BY <1>1, <1>2 DEF Written, TypeInv, TypeOK, Piece

\* A worker's hash function stays while it has something to do.
HashKept ==
  /\ hash' \in [Proc -> HashFns]
  /\ \A q \in Proc : todo'[q] # {} => hash'[q] = hash[q]

LEMMA Forgets ==
  ASSUME TypeInv, NEW p \in Proc, Forget(p)
  PROVE  HashKept
<1>1. Unhashed \in HashFns
  BY ParallelAssumption DEF Unhashed
<1>2. hash \in [Proc -> HashFns]
  BY DEF TypeInv, TypeOK
<1> QED BY <1>1, <1>2 DEF Forget, HashKept

\* AppendEntry, Raise, WriteError and KillWorker at a glance: they write at
\* most once and leave the worker with less to do.
LEMMA WorkerSteps ==
  ASSUME TypeInv, NEW p \in Proc,
         AppendEntry(p) \/ Raise(p) \/ WriteError(p) \/ KillWorker(p)
  PROVE  /\ UNCHANGED shard \/ \E c, g : Written(p, c, g)
         /\ \E D \in SUBSET todo[p] : todo' = [todo EXCEPT ![p] = D]
         /\ \/ UNCHANGED worker
            \/ /\ worker' = [worker EXCEPT ![p] = "died"]
               /\ todo'[p] = {}
         /\ givenUp' \in SUBSET Config /\ mistaken' \in SUBSET Config
         /\ tears' \in Nat /\ faults' \in Nat
         /\ UNCHANGED parentVars /\ HashKept
<1>00. HashKept
  BY Forgets DEF AppendEntry, Raise, WriteError, KillWorker
<1>0. /\ todo \in [Proc -> SUBSET Config]
      /\ givenUp \in SUBSET Config /\ mistaken \in SUBSET Config
      /\ tears \in Nat /\ faults \in Nat
  BY DEF TypeInv, TypeOK
<1>1. CASE AppendEntry(p)
  <2>1. PICK c \in AtHand(p) :
          /\ shard' = [shard EXCEPT ![p[2]] = AppendLine(@, Entry(p, c))]
          /\ todo' = [todo EXCEPT ![p] = @ \ Alike(p, c)]
          /\ Skip(p, Alike(p, c) \ {c})
    BY <1>1 DEF AppendEntry
  <2>2. /\ todo' = [todo EXCEPT ![p] = todo[p] \ Alike(p, c)]
        /\ c \notin todo'[p]
        /\ mistaken' \in SUBSET Config
    BY <1>0, <2>1, AtHandTypes DEF Alike, Skip
  <2>3. p[2] \in Index /\ shard \in [Index -> Seq(Piece)]
    BY AtHandTypes, <2>1 DEF TypeInv, TypeOK, Piece
  <2>4. Written(p, c, AppendLine(shard[p[2]], Entry(p, c)))
    BY <2>1, <2>2, <2>3 DEF Written
  <2> QED BY <1>00, <1>0, <1>1, <2>2, <2>4 DEF AppendEntry
<1>2. CASE Raise(p)
  <2>1. PICK c \in AtHand(p) : LogException(p, c)
    BY <1>2 DEF Raise
  <2>2. c \in Config
    BY AtHandTypes
  <2>3. todo' = [todo EXCEPT ![p] = todo[p] \ {c}]
    BY <2>1 DEF LogException, MoveOn
  <2>4. givenUp' \in SUBSET Config
    BY <1>0, <2>1, <2>2 DEF LogException
  <2> QED BY <1>00, <1>0, <1>2, <2>3, <2>4 DEF Raise
<1>3. CASE WriteError(p)
  <2>1. PICK c \in AtHand(p) :
          /\ \E f \in PartialAppends(shard[p[2]], Entry(p, c)) :
               shard' = [shard EXCEPT ![p[2]] = f]
          /\ LogException(p, c)
    BY <1>3 DEF WriteError
  <2>2. c \in Config
    BY AtHandTypes
  <2>3. todo' = [todo EXCEPT ![p] = todo[p] \ {c}] /\ c \notin todo'[p]
    BY <1>0, <2>1 DEF LogException, MoveOn
  <2>4. givenUp' \in SUBSET Config
    BY <1>0, <2>1, <2>2 DEF LogException
  <2>5. \E g : Written(p, c, g)
    BY <2>1, <2>3 DEF Written
  <2>6. /\ tears' \in Nat /\ faults' \in Nat
        /\ UNCHANGED <<parentVars, worker, mistaken>>
    BY <1>0, <1>3 DEF WriteError
  <2> QED BY <1>00, <1>0, <2>3, <2>4, <2>5, <2>6
<1>4. CASE KillWorker(p)
  <2>1. /\ todo' = [todo EXCEPT ![p] = {}] /\ todo'[p] = {}
        /\ worker' = [worker EXCEPT ![p] = "died"]
        /\ UNCHANGED <<parentVars, givenUp, mistaken>>
        /\ faults' \in Nat
    BY <1>0, <1>4 DEF KillWorker
  <2>2. CASE UNCHANGED <<shard, tears>>
    BY <1>00, <1>0, <2>1, <2>2
  <2>3. CASE /\ tears' = tears + 1
             /\ \E c \in AtHand(p) :
                  \E f \in PartialAppends(shard[p[2]], Entry(p, c)) :
                    shard' = [shard EXCEPT ![p[2]] = f]
    <3>1. \E c, g : Written(p, c, g)
      BY <2>1, <2>3 DEF Written
    <3>2. tears' \in Nat
      BY <1>0, <2>3
    <3> QED BY <1>00, <1>0, <2>1, <3>1, <3>2
  <2> QED BY <1>4, <2>2, <2>3 DEF KillWorker
<1> QED BY <1>1, <1>2, <1>3, <1>4
\* Whatever prefix of the buffer reaches the disk is a file.
LEMMA FlushedTypes ==
  ASSUME NEW f \in Seq(Piece)
  PROVE  Flushed(f) \subseteq Seq(Piece)
<1>1. \A k \in 0..Len(f) : SubSeq(f, 1, k) \in Seq(Piece)
  OBVIOUS
<1>2. ASSUME NEW k \in 1..Len(f)
      PROVE  SubSeq(f, 1, k - 1) \o <<Torn>> \in Seq(Piece)
  <2>1. SubSeq(f, 1, k - 1) \in Seq(Piece)
    BY <1>1
  <2>2. <<Torn>> \in Seq(Piece)
    BY Pieces
  <2> QED BY <2>1, <2>2
<1> QED BY <1>1, <1>2 DEF Flushed

LEMMA TypeStep ==
  ASSUME TypeInv, [Next]_vars
  PROVE  TypeInv'
<1> USE DEF TypeInv
<1>0. shard \in [Index -> Seq(Piece)] /\ output \in Seq(Piece)
  BY DEF TypeOK, Piece
<1>1. CASE StartSweep
  <2>1. PICK w \in Widths : widths' = Append(widths, w)
    BY <1>1 DEF StartSweep
  <2>2. /\ parent' = "starting" /\ next' = 0 /\ givenUp' = {} /\ mistaken' = {}
        /\ Len(widths) < MaxSweeps /\ overlap' \in BOOLEAN
        /\ UNCHANGED <<shard, output, worker, hash, todo, tears, faults>>
    BY <1>1 DEF StartSweep, Sweeps, TypeOK
  <2>3. /\ widths' \in Seq(Widths) /\ Len(widths') = Len(widths) + 1
        /\ \A s \in 1..Len(widths) : widths'[s] = widths[s]
        /\ Len(widths) \in Nat /\ Width' = w /\ w \in Nat
    BY <2>1, ParallelAssumption DEF TypeOK, Width, Sweeps
  <2>4. TypeOK'
    BY <2>2, <2>3, ParallelAssumption DEF TypeOK, Sweeps
  <2>5. Cursor'
    BY <2>2, <2>3, ParallelAssumption DEF Cursor, Sweeps
  <2>6. Workers'
    BY <2>2, <2>3 DEF Workers, Sweeps, Slice
  <2> QED BY <2>4, <2>5, <2>6
<1>2. CASE StartWorker
  <2> DEFINE q == <<Sweeps, next>>
  <2>1. /\ parent = "starting" /\ next < Width /\ next' = next + 1
        /\ worker' = [worker EXCEPT ![q] = "loading"]
        /\ UNCHANGED <<shard, output, parent, widths, hash, todo, givenUp,
                       mistaken, overlap, tears, faults>>
    BY <1>2 DEF StartWorker
  <2>2. /\ Sweeps \in 1..MaxSweeps /\ Width \in Nat \ {0}
        /\ next \in Nat /\ next \in Index
    <3>1. Sweeps \in 1..MaxSweeps /\ next \in Nat
      BY <2>1 DEF Cursor, TypeOK
    <3>2. Width \in Nat \ {0} /\ \A i \in 0..(Width - 1) : i \in Index
      BY <3>1, WidthTypes DEF Width
    <3> QED BY <2>1, <3>1, <3>2
  <2>3. q \in Proc /\ worker[q] = "none" /\ todo[q] = {}
    <3>1. q \in Proc /\ q[1] = Sweeps /\ q[2] = next
      BY <2>2 DEF Proc
    <3>2. worker[q] # "none" => q[2] < next
      BY <2>1, <3>1 DEF Workers
    <3>3. worker[q] = "none"
      BY <2>2, <3>1, <3>2
    <3> QED BY <3>1, <3>3 DEF Workers
  <2>4. TypeOK'
    <3>1. worker' \in [Proc -> {"none", "loading", "running", "died"}]
      BY <2>1 DEF TypeOK
    <3>2. next' \in Nat
      BY <2>1, <2>2
    <3> QED BY <2>1, <3>1, <3>2 DEF TypeOK
  <2>5. Cursor'
    BY <2>1, <2>2 DEF Cursor, Sweeps, Width
  <2>6. ASSUME NEW p \in Proc, p # q
        PROVE  worker'[p] = worker[p]
    BY <2>1, <2>6 DEF TypeOK
  <2>7. ASSUME NEW p \in Proc
        PROVE  /\ worker'[p] # "none" =>
                    p[1] \in 1..Sweeps /\ (p[1] = Sweeps => p[2] < next + 1)
               /\ todo[p] # {} => worker'[p] = "running"
    <3>1. CASE p = q
      BY <2>2, <2>3, <3>1
    <3>2. CASE p # q
      <4>1. p[2] \in Nat
        BY ParallelAssumption DEF Proc, Index
      <4> QED BY <2>1, <2>2, <2>6, <3>2, <4>1 DEF Workers
    <3> QED BY <3>1, <3>2
  <2>8. Workers'
    BY <2>1, <2>7 DEF Workers, Sweeps, Slice
  <2> QED BY <2>4, <2>5, <2>8
<1>3. CASE Join
  <2>1. /\ parent = "starting" /\ parent' = "aggregating" /\ output' = <<>>
        /\ next' = 0
        /\ UNCHANGED <<shard, widths, worker, hash, todo, givenUp, mistaken,
                       overlap, tears, faults>>
    BY <1>3 DEF Join, workerVars
  <2>2. Width \in Nat \ {0}
    BY <2>1, WidthTypes DEF Cursor, Width
  <2>3. TypeOK'
    BY <2>1 DEF TypeOK
  <2>4. Cursor'
    BY <2>1, <2>2 DEF Cursor, Sweeps, Width
  <2> QED BY <2>1, <2>3, <2>4 DEF Workers, Sweeps, Slice
<1>4. CASE Aggregate
  <2>1. /\ parent = "aggregating" /\ output' = output \o shard[next]
        /\ \/ next + 1 < Width /\ next' = next + 1 /\ parent' = parent
           \/ next' = 0 /\ parent' = "done"
        /\ UNCHANGED <<shard, widths, worker, hash, todo, givenUp, mistaken,
                       overlap, tears, faults>>
    BY <1>4 DEF Aggregate, Copied, workerVars
  <2>2. next \in Nat /\ next < Width /\ Sweeps \in 1..MaxSweeps
    BY <2>1 DEF Cursor, TypeOK
  <2>3. Width \in Nat \ {0} /\ \A i \in 0..(Width - 1) : i \in Index
    BY <2>2, WidthTypes DEF Width
  <2>4. shard[next] \in Seq(Piece)
    BY <1>0, <2>2, <2>3
  <2>5. output' \in Seq(Piece)
    BY <1>0, <2>1, <2>4
  <2>6. TypeOK'
    BY <2>1, <2>2, <2>5 DEF TypeOK, Piece
  <2>7. Cursor'
    BY <2>1, <2>2, <2>3 DEF Cursor, Sweeps, Width
  <2> QED BY <2>1, <2>6, <2>7 DEF Workers, Sweeps, Slice
<1>5. ASSUME NEW p \in Proc, Load(p) PROVE TypeInv'
  <2>1. PICK h \in HashFns :
          /\ hash' = hash \/ hash' = [hash EXCEPT ![p] = h]
          /\ todo' = [todo EXCEPT ![p] =
                        Slice(p[2], widths[p[1]]) \ Known(shard[p[2]], h)]
          /\ Skip(p, Slice(p[2], widths[p[1]]) \cap Known(shard[p[2]], h))
    BY <1>5 DEF Load
  <2>2. /\ worker[p] = "loading" /\ worker' = [worker EXCEPT ![p] = "running"]
        /\ UNCHANGED <<shard, output, parent, next, widths, overlap, givenUp,
                       tears, faults>>
    BY <1>5 DEF Load, parentVars
  <2>3. Slice(p[2], widths[p[1]]) \subseteq Config /\ mistaken' \subseteq Config
    BY <2>1 DEF Slice, Skip, TypeOK
  <2>4. TypeOK'
    BY <2>1, <2>2, <2>3 DEF TypeOK
  <2>5. Cursor'
    BY <2>2 DEF Cursor, Sweeps, Width
  <2>6. ASSUME NEW r \in Proc
        PROVE  /\ worker'[r] # "none" => worker[r] # "none"
               /\ todo'[r] # {} => /\ worker'[r] = "running"
                                   /\ todo'[r] \subseteq Slice(r[2], widths[r[1]])
    <3>1. CASE r = p
      BY <2>1, <2>2, <3>1 DEF TypeOK
    <3>2. CASE r # p
      BY <2>1, <2>2, <3>2 DEF TypeOK, Workers
    <3> QED BY <3>1, <3>2
  <2>7. Workers'
    BY <2>2, <2>6 DEF Workers, Sweeps, Slice
  <2> QED BY <2>4, <2>5, <2>7
<1>6. ASSUME NEW p \in Proc,
             AppendEntry(p) \/ Raise(p) \/ WriteError(p) \/ KillWorker(p)
      PROVE  TypeInv'
  <2>1. /\ UNCHANGED shard \/ \E c, g : Written(p, c, g)
        /\ \/ UNCHANGED worker
           \/ /\ worker' = [worker EXCEPT ![p] = "died"]
              /\ todo'[p] = {}
        /\ givenUp' \in SUBSET Config /\ mistaken' \in SUBSET Config
        /\ tears' \in Nat /\ faults' \in Nat
        /\ UNCHANGED <<output, parent, next, widths, overlap>> /\ HashKept
    BY <1>6, WorkerSteps DEF parentVars
  <2>2. PICK D \in SUBSET todo[p] : todo' = [todo EXCEPT ![p] = D]
    BY <1>6, WorkerSteps
  <2>3. shard' \in [Index -> Seq(Piece)]
    BY <1>0, <2>1, WrittenTypes
  <2>4. todo' \in [Proc -> SUBSET Config]
    BY <2>2 DEF TypeOK
  <2>5. worker' \in [Proc -> {"none", "loading", "running", "died"}]
    BY <2>1 DEF TypeOK
  <2>6. TypeOK'
    BY <2>1, <2>3, <2>4, <2>5 DEF HashKept, TypeOK, Piece
  <2>7. Cursor'
    BY <2>1 DEF Cursor, Sweeps, Width
  <2>8. worker[p] # "none"
    BY <1>6 DEF AppendEntry, Raise, WriteError, KillWorker, Busy, Live
  <2>9. ASSUME NEW r \in Proc
        PROVE  /\ worker'[r] # "none" => worker[r] # "none"
               /\ todo'[r] # {} => /\ worker'[r] = "running"
                                   /\ todo'[r] \subseteq Slice(r[2], widths[r[1]])
    <3>1. CASE r = p
      BY <2>1, <2>2, <2>8, <3>1 DEF TypeOK, Workers
    <3>2. CASE r # p
      BY <2>1, <2>2, <3>2 DEF TypeOK, Workers
    <3> QED BY <3>1, <3>2
  <2>10. Workers'
    BY <2>1, <2>9 DEF Workers, Sweeps, Slice
  <2> QED BY <2>6, <2>7, <2>10
<1>7. CASE KillParent
  <2>1. /\ parent' = "down" /\ next' = 0
        /\ output' \in Flushed(output) \/ UNCHANGED output
        /\ faults' = faults + 1
        /\ UNCHANGED <<shard, widths, worker, hash, todo, givenUp, mistaken,
                       overlap, tears>>
    BY <1>7 DEF KillParent, workerVars
  <2>2. output' \in Seq(Piece)
    BY <1>0, <2>1, FlushedTypes
  <2>3. TypeOK'
    BY <2>1, <2>2 DEF TypeOK, Piece
  <2> QED BY <2>1, <2>3 DEF Cursor, Workers, Sweeps, Slice
<1>8. CASE UNCHANGED vars
  BY <1>8 DEF vars, workerVars, TypeOK, Cursor, Workers, Sweeps, Width, Slice
<1> QED
  BY <1>1, <1>2, <1>3, <1>4, <1>5, <1>6, <1>7, <1>8
     DEF Next, ParentStep, WorkerStep

\* The state of the sweep has the types declared for it.
THEOREM ParallelTypeCorrect == Spec => []TypeInv
<1>1. Init => TypeInv
  <2> SUFFICES ASSUME Init PROVE TypeInv
    OBVIOUS
  <2>1. Unhashed \in HashFns
    BY ParallelAssumption DEF Unhashed
  <2>2. <<>> \in Seq(Record \cup {NL, Torn}) /\ <<>> \in Seq(Widths)
        /\ Len(<<>>) = 0
    OBVIOUS
  <2>3. /\ shard \in [Index -> Seq(Record \cup {NL, Torn})]
        /\ worker \in [Proc -> {"none", "loading", "running", "died"}]
        /\ hash \in [Proc -> HashFns]
        /\ todo \in [Proc -> SUBSET Config]
    BY <2>1, <2>2 DEF Init
  <2>4. TypeOK
    <3>1. /\ output \in Seq(Record \cup {NL, Torn})
          /\ widths \in Seq(Widths) /\ Len(widths) <= MaxSweeps
      BY <2>2, ParallelAssumption DEF Init
    <3> QED BY <2>3, <3>1 DEF Init, TypeOK
  <2>5. Cursor
    BY DEF Init, Cursor
  <2>6. Workers
    BY DEF Init, Workers
  <2> QED BY <2>4, <2>5, <2>6 DEF TypeInv
<1> QED BY <1>1, TypeStep, PTL DEF Spec

\* No worker, orphan, cut write or rerun ever damages a record of a shard that
\* has its line end.
THEOREM ShardsSafe == Spec => SealedShardsSurvive
<1>1. ASSUME TypeInv, [Next]_vars
      PROVE  \A i \in Index : Sealed(shard[i]) \subseteq Sealed(shard'[i])
  <2>1. CASE UNCHANGED shard
    BY <2>1
  <2>2. ASSUME NEW p \in Proc, NEW c, NEW g, Written(p, c, g)
        PROVE  \A i \in Index : Sealed(shard[i]) \subseteq Sealed(shard'[i])
    <3>1. g \in Seq(Piece) /\ Extends(g, shard[p[2]])
      BY <1>1, <2>2, WrittenTypes
    <3>2. p[2] \in Index /\ shard[p[2]] \in Seq(Piece)
      BY <1>1, <2>2, AtHandTypes DEF Written
    <3>3. Sealed(shard[p[2]]) \subseteq Sealed(g)
      BY <3>1, <3>2, SealedExtends
    <3>4. \A i \in Index : shard'[i] = IF i = p[2] THEN g ELSE shard[i]
      BY <1>1, <2>2 DEF Written, TypeInv, TypeOK
    <3> QED BY <3>3, <3>4
  <2>3. UNCHANGED shard \/ \E p \in Proc : \E c, g : Written(p, c, g)
    BY <1>1, WorkerSteps
       DEF Next, ParentStep, WorkerStep, StartSweep, StartWorker, Join,
           Aggregate, Load, KillParent, vars
  <2> QED BY <2>1, <2>2, <2>3
<1>2. TypeInv /\ [Next]_vars =>
        [\A i \in Index : Sealed(shard[i]) \subseteq Sealed(shard'[i])]_shard
  BY <1>1
<1> QED BY <1>2, ParallelTypeCorrect, PTL DEF Spec, SealedShardsSurvive
----------------------------------------------------------------------------
\* The user has not changed the number of workers, and no sweep was started
\* next to the workers of another.
Steady == ~overlap /\ \A s \in 1..Sweeps : widths[s] = Width

\* The shard a record belongs to, by the worker count of its sweep.
Home(r) == (r.config - 1) % widths[r.sweep]

\* One shard has one writer ...
SoleWriters == ~overlap => \A p \in Proc : Live(p) => p[1] = Sweeps

\* ... that has nothing to do whose hash is recorded already.
TodoUnrecorded ==
  Steady => \A p \in Proc : \A c \in todo[p] : \A r \in Readable(shard[p[2]]) :
              ByHash[r] # ByHash[Entry(p, c)]

\* Each record is in its shard, written by a worker of its sweep that is done
\* with its configuration ...
ShardsSliced ==
  \A i \in Index : \A r \in Readable(shard[i]) :
    /\ r.sweep \in 1..Sweeps /\ Home(r) = i
    /\ worker[<<r.sweep, i>>] \notin {"none", "loading"}
    /\ r.config \notin todo[<<r.sweep, i>>]

\* ... so that no configuration is there twice for one sweep or one hash ...
ShardsOnce ==
  \A i \in Index : Once(shard[i], BySweep) /\ (Steady => Once(shard[i], ByHash))

\* ... and what has been aggregated is from the shards already visited.
OutputOnce ==
  parent \in {"aggregating", "done"} =>
    /\ Once(output, BySweep) /\ (Steady => Once(output, ByHash))
    /\ parent = "aggregating" =>
         \A r \in Readable(output) : r.sweep \in 1..Sweeps /\ Home(r) < next

OnceInv ==
  SoleWriters /\ TodoUnrecorded /\ ShardsSliced /\ ShardsOnce /\ OutputOnce

LEMMA ReadableRecords ==
  ASSUME NEW f \in Seq(Piece)
  PROVE  Readable(f) \subseteq Record
<1>1. \A k \in ReadableAt(f) : f[k] \in Record
  BY DEF ReadableAt, IsRecord, Piece
<1> QED BY <1>1 DEF Readable

LEMMA NothingReadable == Readable(<<>>) = {} /\ \A key : Once(<<>>, key)
<1>1. ReadableAt(<<>>) = {}
  BY DEF ReadableAt
<1> QED BY <1>1 DEF Readable, Once

LEMMA Keys ==
  ASSUME NEW r \in Record, NEW s \in Record
  PROVE  /\ ByHash[r] = ByHash[s] <=> r.config = s.config /\ r.hash = s.hash
         /\ BySweep[r] = BySweep[s] <=> r.config = s.config /\ r.sweep = s.sweep
BY DEF ByHash, BySweep

LEMMA Working ==
  ASSUME TypeInv, NEW p \in Proc
  PROVE  /\ Live(p) <=> worker[p] = "loading" \/ todo[p] # {}
         /\ p = <<p[1], p[2]>> /\ p[2] \in Index
  BY DEF TypeInv, Workers, Live, Busy, Proc

\* The sweeps, their widths and the homes of records stay, but for StartSweep.
LEMMA SameSweeps ==
  ASSUME UNCHANGED <<widths, overlap>>
  PROVE  /\ Sweeps' = Sweeps /\ Width' = Width /\ Steady' = Steady
         /\ \A r : Home(r)' = Home(r)
BY DEF Sweeps, Width, Steady, Home

\* One write to one shard.
LEMMA WriteOnce ==
  ASSUME TypeInv, OnceInv, NEW p \in Proc, NEW c, NEW g, Written(p, c, g),
         UNCHANGED <<widths, overlap>>, HashKept, NEW D \in SUBSET todo[p],
         todo' = [todo EXCEPT ![p] = D],
         worker' = worker \/ worker' = [worker EXCEPT ![p] = "died"]
  PROVE  ShardsSliced' /\ ShardsOnce' /\ TodoUnrecorded'
<1> DEFINE r == Entry(p, c)
           i == p[2]
           f == shard[i]
<1>1. /\ c \in todo[p] /\ r \in Record
      /\ r.config = c /\ r.hash = hash[p][c] /\ r.sweep = p[1]
      /\ i \in Index /\ f \in Seq(Piece)
  BY AtHandTypes DEF Written, Entry
<1>2. g \in Seq(Piece) /\ Readable(g) \subseteq Readable(f) \cup {r}
  BY <1>1, WriteShape DEF Written
<1>3. \A j \in Index : shard'[j] = IF j = i THEN g ELSE shard[j]
  BY <1>1 DEF Written, TypeInv, TypeOK
<1>4. Readable(f) \subseteq Record
  BY <1>1, ReadableRecords
<1>5. /\ \A x : Home(x)' = Home(x)
      /\ Sweeps' = Sweeps /\ Steady' = Steady
  BY SameSweeps
<1>6. \A q \in Proc : /\ todo'[q] \subseteq todo[q]
                      /\ worker[q] \notin {"none", "loading"}
                           => worker'[q] \notin {"none", "loading"}
  BY DEF TypeInv, TypeOK
<1>7. /\ p[1] \in 1..Sweeps /\ worker[p] = "running"
      /\ c \in Slice(i, widths[p[1]])
  BY <1>1 DEF TypeInv, Workers
<1>8. p = <<p[1], i>>
  BY Working
<1>9. ShardsSliced'
  <2> SUFFICES ASSUME NEW j \in Index, NEW x \in Readable(shard'[j])
               PROVE  /\ x.sweep \in 1..Sweeps /\ Home(x) = j
                      /\ worker'[<<x.sweep, j>>] \notin {"none", "loading"}
                      /\ x.config \notin todo'[<<x.sweep, j>>]
    BY <1>5 DEF ShardsSliced
  <2>1. CASE x \in Readable(shard[j])
    <3>1. /\ x.sweep \in 1..Sweeps /\ Home(x) = j
          /\ worker[<<x.sweep, j>>] \notin {"none", "loading"}
          /\ x.config \notin todo[<<x.sweep, j>>]
      BY <2>1 DEF OnceInv, ShardsSliced
    <3>2. <<x.sweep, j>> \in Proc
      <4>1. Sweeps \in Nat /\ Sweeps <= MaxSweeps
        BY DEF TypeInv, TypeOK, Sweeps
      <4> QED BY <3>1, <4>1, ParallelAssumption DEF Proc
    <3> QED BY <1>6, <3>1, <3>2
  <2>2. CASE x \notin Readable(shard[j])
    <3>1. j = i /\ x = r
      BY <1>2, <1>3, <2>2
    <3>2. Home(x) = j
      BY <1>1, <1>7, <3>1 DEF Home, Slice
    <3>3. c \notin todo'[p]
      BY DEF Written
    <3> QED BY <1>1, <1>6, <1>7, <1>8, <3>1, <3>2, <3>3
  <2> QED BY <2>1, <2>2
<1>10. \A x \in Readable(f) : BySweep[x] # BySweep[r]
  <2> SUFFICES ASSUME NEW x \in Readable(f), BySweep[x] = BySweep[r] PROVE FALSE
    OBVIOUS
  <2>1. x.config = c /\ x.sweep = p[1]
    BY <1>1, <1>4, Keys
  <2>2. x.config \notin todo[<<x.sweep, i>>]
    BY <1>1 DEF OnceInv, ShardsSliced
  <2> QED BY <1>1, <1>8, <2>1, <2>2
<1>11. Steady => \A x \in Readable(f) : ByHash[x] # ByHash[r]
  BY <1>1 DEF OnceInv, TodoUnrecorded
<1>12. Once(g, BySweep) /\ (Steady => Once(g, ByHash))
  <2>1. Once(f, BySweep) /\ (Steady => Once(f, ByHash))
    BY <1>1 DEF OnceInv, ShardsOnce
  <2> QED BY <1>1, <1>10, <1>11, <2>1, WriteUnique DEF Written
<1>13. ShardsOnce'
  BY <1>3, <1>5, <1>12 DEF OnceInv, ShardsOnce
<1>14. TodoUnrecorded'
  <2> SUFFICES ASSUME Steady, NEW q \in Proc, NEW d \in todo'[q],
                      NEW x \in Readable(shard'[q[2]])
               PROVE  ByHash[x] # ByHash[Entry(q, d)]
    BY <1>5 DEF TodoUnrecorded, Entry, HashKept
  <2>1. d \in todo[q] /\ q[2] \in Index /\ q = <<q[1], q[2]>>
    BY <1>6, Working
  <2>2. \A y \in Readable(shard[q[2]]) : ByHash[y] # ByHash[Entry(q, d)]
    BY <2>1 DEF OnceInv, TodoUnrecorded
  <2>3. CASE x \in Readable(shard[q[2]])
    BY <2>2, <2>3
  <2>4. CASE x \notin Readable(shard[q[2]])
    <3>1. q[2] = i /\ x = r
      BY <1>2, <1>3, <2>1, <2>4
    <3>2. q[1] = Sweeps /\ p[1] = Sweeps
      BY <1>1, <2>1, Working DEF OnceInv, SoleWriters, Steady
    <3>3. q = p /\ d # c
      BY <1>8, <2>1, <3>1, <3>2 DEF Written
    <3>4. Entry(q, d) \in Record /\ Entry(q, d).config = d
      <4>1. d \in Config /\ hash[q][d] \in Hashes /\ q[1] \in 1..MaxSweeps
        BY <2>1, ParallelAssumption DEF TypeInv, TypeOK, Proc
      <4> QED BY <4>1 DEF Entry, Record
    <3> QED BY <1>1, <3>1, <3>3, <3>4, Keys
  <2> QED BY <2>3, <2>4
<1> QED BY <1>9, <1>13, <1>14

\* What does not touch the shards, the sweeps or what is left to do.
LEMMA ShardsAlone ==
  ASSUME OnceInv, UNCHANGED <<shard, todo, hash, widths, overlap>>,
         \A i \in Index : \A r \in Readable(shard[i]) :
           worker'[<<r.sweep, i>>] \notin {"none", "loading"}
  PROVE  TodoUnrecorded' /\ ShardsSliced' /\ ShardsOnce'
<1>1. TodoUnrecorded'
  BY SameSweeps DEF OnceInv, TodoUnrecorded, Entry
<1>2. ShardsSliced'
  BY SameSweeps DEF OnceInv, ShardsSliced
<1>3. ShardsOnce'
  BY SameSweeps DEF OnceInv, ShardsOnce
<1> QED BY <1>1, <1>2, <1>3

LEMMA OnceStart ==
  ASSUME TypeInv, OnceInv, StartSweep
  PROVE  OnceInv'
<1>1. /\ parent' = "starting"
      /\ overlap' = (overlap \/ \E p \in Proc : Live(p))
      /\ UNCHANGED <<shard, worker, hash, todo>>
  BY DEF StartSweep
<1>2. PICK w \in Widths : widths' = Append(widths, w)
  BY DEF StartSweep
<1>3. /\ Sweeps' = Sweeps + 1 /\ Sweeps \in Nat
      /\ \A s \in 1..Sweeps : widths'[s] = widths[s]
  BY <1>2 DEF TypeInv, TypeOK, Sweeps
<1>4. Steady' => Steady
  <2> SUFFICES ASSUME Steady' PROVE Steady
    OBVIOUS
  <2>1. ~overlap
    BY <1>1 DEF Steady, TypeInv, TypeOK
  <2>2. \A s \in 1..Sweeps : widths[s] = Width'
    BY <1>3 DEF Steady
  <2>3. Sweeps # 0 => Width' = Width
    BY <1>3, <2>2 DEF Width
  <2>4. \A s \in 1..Sweeps : widths[s] = Width
    BY <1>3, <2>2, <2>3
  <2> QED BY <2>1, <2>4 DEF Steady
<1>5. SoleWriters'
  <2>1. \A p \in Proc : Live(p)' <=> Live(p)
    BY <1>1 DEF Live, Busy
  <2> QED BY <1>1, <2>1 DEF SoleWriters
<1>6. TodoUnrecorded'
  BY <1>1, <1>4 DEF OnceInv, TodoUnrecorded, Entry
<1>7. ShardsSliced'
  <2> SUFFICES ASSUME NEW i \in Index, NEW r \in Readable(shard[i])
               PROVE  /\ r.sweep \in 1..Sweeps' /\ Home(r)' = i
                      /\ worker[<<r.sweep, i>>] \notin {"none", "loading"}
                      /\ r.config \notin todo[<<r.sweep, i>>]
    BY <1>1 DEF ShardsSliced
  <2>1. /\ r.sweep \in 1..Sweeps /\ Home(r) = i
        /\ worker[<<r.sweep, i>>] \notin {"none", "loading"}
        /\ r.config \notin todo[<<r.sweep, i>>]
    BY DEF OnceInv, ShardsSliced
  <2>2. r.sweep \in 1..Sweeps' /\ Home(r)' = Home(r)
    BY <1>3, <2>1 DEF Home
  <2> QED BY <2>1, <2>2
<1>8. ShardsOnce'
  BY <1>1, <1>4 DEF OnceInv, ShardsOnce
<1>9. OutputOnce'
  BY <1>1 DEF OutputOnce
<1> QED BY <1>5, <1>6, <1>7, <1>8, <1>9 DEF OnceInv

\* The parent reads the shards in turn, each once.
LEMMA OnceAggregate ==
  ASSUME TypeInv, OnceInv, Aggregate
  PROVE  OnceInv'
<1>1. /\ parent = "aggregating" /\ output' = output \o shard[next]
      /\ \/ next' = next + 1 /\ parent' = "aggregating"
         \/ parent' = "done"
      /\ UNCHANGED <<shard, widths, worker, hash, todo, overlap>>
  BY DEF Aggregate, Copied, workerVars
<1>2. TodoUnrecorded' /\ ShardsSliced' /\ ShardsOnce'
  BY <1>1, ShardsAlone DEF OnceInv, ShardsSliced
<1>3. SoleWriters'
  BY <1>1 DEF OnceInv, SoleWriters, Live, Busy, Sweeps
<1>4. /\ next \in Index /\ next \in Nat /\ Sweeps \in Nat
      /\ output \in Seq(Piece) /\ shard[next] \in Seq(Piece)
  <2>1. Sweeps \in 1..MaxSweeps /\ next < Width /\ next \in Nat
    BY <1>1 DEF TypeInv, Cursor, TypeOK
  <2>2. Width \in Nat \ {0} /\ \A i \in 0..(Width - 1) : i \in Index
    BY <2>1, WidthTypes DEF Width, TypeInv
  <2>3. next \in Index
    BY <2>1, <2>2
  <2> QED BY <2>1, <2>3 DEF TypeInv, TypeOK, Piece
<1>5. ASSUME NEW x \in Readable(output), NEW y \in Readable(shard[next])
      PROVE  /\ BySweep[x] # BySweep[y]
             /\ Steady => ByHash[x] # ByHash[y]
  <2>1. x \in Record /\ y \in Record
    BY <1>4, ReadableRecords
  <2>2. x.sweep \in 1..Sweeps /\ Home(x) < next
    BY <1>1 DEF OnceInv, OutputOnce
  <2>3. y.sweep \in 1..Sweeps /\ Home(y) = next
    BY <1>4 DEF OnceInv, ShardsSliced
  <2>4. ~(Home(x) = Home(y))
    BY <1>4, <2>2, <2>3
  <2>5. x.config = y.config /\ x.sweep = y.sweep => Home(x) = Home(y)
    BY DEF Home
  <2>6. Steady /\ x.config = y.config => Home(x) = Home(y)
    BY <2>2, <2>3 DEF Home, Steady
  <2> QED BY <2>1, <2>4, <2>5, <2>6, Keys
<1>6. /\ Readable(output') \subseteq Readable(output) \cup Readable(shard[next])
      /\ Once(output', BySweep) /\ (Steady => Once(output', ByHash))
  <2>1. /\ Once(output, BySweep) /\ (Steady => Once(output, ByHash))
        /\ Once(shard[next], BySweep) /\ (Steady => Once(shard[next], ByHash))
    BY <1>1, <1>4 DEF OnceInv, OutputOnce, ShardsOnce
  <2> QED BY <1>1, <1>4, <1>5, <2>1, Glued
<1>7. \A r \in Readable(output') : r.sweep \in 1..Sweeps /\ Home(r) < next + 1
  <2> SUFFICES ASSUME NEW r \in Readable(output')
               PROVE  r.sweep \in 1..Sweeps /\ Home(r) < next + 1
    OBVIOUS
  <2>1. CASE r \in Readable(output)
    <3>1. r.sweep \in 1..Sweeps /\ Home(r) < next
      BY <1>1, <2>1 DEF OnceInv, OutputOnce
    <3>2. widths[r.sweep] \in Nat \ {0}
      BY <3>1, WidthTypes DEF TypeInv
    <3>3. r.config - 1 \in Nat
      BY <1>4, <2>1, ReadableRecords, ParallelAssumption DEF Record, Config
    <3>4. Home(r) \in Nat
      BY <3>2, <3>3 DEF Home
    <3> QED BY <1>4, <3>1, <3>4
  <2>2. CASE r \in Readable(shard[next])
    <3>1. r.sweep \in 1..Sweeps /\ Home(r) = next
      BY <1>4, <2>2 DEF OnceInv, ShardsSliced
    <3> QED BY <1>4, <3>1
  <2> QED BY <1>6, <2>1, <2>2
<1>8. OutputOnce'
  <2>1. Sweeps' = Sweeps /\ Steady' = Steady /\ \A r : Home(r)' = Home(r)
    BY <1>1, SameSweeps
  <2>2. parent' = "aggregating" => next' = next + 1
    BY <1>1
  <2> QED BY <1>6, <1>7, <2>1, <2>2 DEF OutputOnce
<1> QED BY <1>2, <1>3, <1>8 DEF OnceInv

\* A worker that loads has written nothing yet.
LEMMA OnceLoad ==
  ASSUME TypeInv, OnceInv, NEW p \in Proc, Load(p)
  PROVE  OnceInv'
<1>1. /\ worker[p] = "loading" /\ worker' = [worker EXCEPT ![p] = "running"]
      /\ UNCHANGED <<shard, output, parent, next, widths, overlap>>
  BY DEF Load, parentVars
<1>2. PICK h \in HashFns :
        /\ hash' = IF Slice(p[2], widths[p[1]]) \subseteq Known(shard[p[2]], h)
                     THEN hash ELSE [hash EXCEPT ![p] = h]
        /\ todo' = [todo EXCEPT ![p] =
                      Slice(p[2], widths[p[1]]) \ Known(shard[p[2]], h)]
  BY DEF Load
<1>3. ASSUME NEW q \in Proc
      PROVE  q # p => /\ todo'[q] = todo[q] /\ hash'[q] = hash[q]
                      /\ worker'[q] = worker[q]
  BY <1>1, <1>2 DEF TypeInv, TypeOK
<1>4. /\ todo'[p] # {} => hash'[p] = h
      /\ todo'[p] = Slice(p[2], widths[p[1]]) \ Known(shard[p[2]], h)
  BY <1>1, <1>2 DEF TypeInv, TypeOK
<1>5. /\ Sweeps' = Sweeps /\ Steady' = Steady
      /\ \A r : Home(r)' = Home(r)
  BY <1>1, SameSweeps
<1>6. SoleWriters'
  <2>1. \A q \in Proc : Live(q)' => Live(q)
    BY <1>1, <1>3 DEF Live, Busy
  <2> QED BY <1>1, <1>5, <2>1 DEF OnceInv, SoleWriters
<1>7. TodoUnrecorded'
  <2> SUFFICES ASSUME Steady, NEW q \in Proc, NEW c \in todo'[q],
                      NEW r \in Readable(shard[q[2]])
               PROVE  ByHash[r] # ByHash[Entry(q, c)']
    BY <1>1, <1>5 DEF TodoUnrecorded
  <2>1. CASE q = p
    <3>1. /\ c \in Config /\ c \notin Known(shard[p[2]], h)
          /\ h[c] \in Hashes /\ p[1] \in 1..MaxSweeps
      BY <1>4, <2>1, ParallelAssumption DEF Slice, Proc
    <3>2. r.hash # h[c]
      BY <2>1, <3>1 DEF Known
    <3>3. Entry(q, c)' \in Record /\ Entry(q, c)'.hash = h[c]
      BY <1>4, <2>1, <3>1 DEF Entry, Record
    <3>4. r \in Record
      <4>1. shard[q[2]] \in Seq(Piece)
        BY Working DEF TypeInv, TypeOK, Piece
      <4> QED BY <4>1, ReadableRecords
    <3> QED BY <3>2, <3>3, <3>4, Keys
  <2>2. CASE q # p
    BY <1>3, <2>2 DEF OnceInv, TodoUnrecorded, Entry
  <2> QED BY <2>1, <2>2
<1>8. ShardsSliced'
  <2> SUFFICES ASSUME NEW i \in Index, NEW r \in Readable(shard[i])
               PROVE  /\ r.sweep \in 1..Sweeps /\ Home(r) = i
                      /\ worker'[<<r.sweep, i>>] \notin {"none", "loading"}
                      /\ r.config \notin todo'[<<r.sweep, i>>]
    BY <1>1, <1>5 DEF ShardsSliced
  <2>1. /\ r.sweep \in 1..Sweeps /\ Home(r) = i
        /\ worker[<<r.sweep, i>>] \notin {"none", "loading"}
        /\ r.config \notin todo[<<r.sweep, i>>]
    BY DEF OnceInv, ShardsSliced
  <2>2. <<r.sweep, i>> # p
    BY <1>1, <2>1
  <2>3. <<r.sweep, i>> \in Proc
    <3>1. Sweeps \in Nat /\ Sweeps <= MaxSweeps
      BY DEF TypeInv, TypeOK, Sweeps
    <3> QED BY <2>1, <3>1, ParallelAssumption DEF Proc
  <2> QED BY <1>3, <2>1, <2>2, <2>3
<1>9. ShardsOnce' /\ OutputOnce'
  BY <1>1, <1>5 DEF OnceInv, ShardsOnce, OutputOnce
<1> QED BY <1>6, <1>7, <1>8, <1>9 DEF OnceInv

LEMMA OnceWork ==
  ASSUME TypeInv, OnceInv, NEW p \in Proc,
         AppendEntry(p) \/ Raise(p) \/ WriteError(p) \/ KillWorker(p)
  PROVE  OnceInv'
<1>1. /\ UNCHANGED shard \/ \E c, g : Written(p, c, g)
      /\ \/ UNCHANGED worker
         \/ /\ worker' = [worker EXCEPT ![p] = "died"]
            /\ todo'[p] = {}
      /\ UNCHANGED <<output, parent, next, widths, overlap>> /\ HashKept
  BY WorkerSteps DEF parentVars
<1>2. PICK D \in SUBSET todo[p] : todo' = [todo EXCEPT ![p] = D]
  BY WorkerSteps
<1>3. /\ Sweeps' = Sweeps /\ Steady' = Steady
      /\ \A r : Home(r)' = Home(r)
  BY <1>1, SameSweeps
<1>4. \A q \in Proc : /\ todo'[q] \subseteq todo[q]
                      /\ worker'[q] \in {worker[q], "died"}
  BY <1>1, <1>2 DEF TypeInv, TypeOK
<1>5. SoleWriters'
  <2>1. \A q \in Proc : Live(q)' => Live(q)
    BY <1>4 DEF Live, Busy
  <2> QED BY <1>1, <1>3, <2>1 DEF OnceInv, SoleWriters
<1>6. TodoUnrecorded' /\ ShardsSliced' /\ ShardsOnce'
  <2>1. CASE UNCHANGED shard
    <3>1. TodoUnrecorded'
      BY <1>1, <1>3, <1>4, <2>1 DEF OnceInv, TodoUnrecorded, Entry, HashKept
    <3>2. ShardsSliced'
      <4> SUFFICES ASSUME NEW i \in Index, NEW r \in Readable(shard[i])
                   PROVE  /\ r.sweep \in 1..Sweeps /\ Home(r) = i
                          /\ worker'[<<r.sweep, i>>] \notin {"none", "loading"}
                          /\ r.config \notin todo'[<<r.sweep, i>>]
        BY <1>3, <2>1 DEF ShardsSliced
      <4>1. /\ r.sweep \in 1..Sweeps /\ Home(r) = i
            /\ worker[<<r.sweep, i>>] \notin {"none", "loading"}
            /\ r.config \notin todo[<<r.sweep, i>>]
        BY DEF OnceInv, ShardsSliced
      <4>2. <<r.sweep, i>> \in Proc
        <5>1. Sweeps \in Nat /\ Sweeps <= MaxSweeps
          BY DEF TypeInv, TypeOK, Sweeps
        <5> QED BY <4>1, <5>1, ParallelAssumption DEF Proc
      <4> QED BY <1>4, <4>1, <4>2
    <3>3. ShardsOnce'
      BY <1>3, <2>1 DEF OnceInv, ShardsOnce
    <3> QED BY <3>1, <3>2, <3>3
  <2>2. ASSUME NEW c, NEW g, Written(p, c, g)
        PROVE  TodoUnrecorded' /\ ShardsSliced' /\ ShardsOnce'
    BY <1>1, <1>2, <2>2, WriteOnce
  <2> QED BY <1>1, <2>1, <2>2
<1>7. OutputOnce'
  BY <1>1, <1>3 DEF OnceInv, OutputOnce
<1> QED BY <1>5, <1>6, <1>7 DEF OnceInv

LEMMA OnceStep ==
  ASSUME TypeInv, OnceInv, [Next]_vars
  PROVE  OnceInv'
<1>1. CASE StartWorker
  <2> DEFINE q == <<Sweeps, next>>
  <2>1. /\ parent' = parent /\ parent = "starting"
        /\ worker' = [worker EXCEPT ![q] = "loading"]
        /\ UNCHANGED <<shard, todo, hash, widths, overlap>>
    BY <1>1 DEF StartWorker
  <2>2. SoleWriters'
    <3>1. \A p \in Proc : Live(p)' => Live(p) \/ p[1] = Sweeps
      BY <2>1 DEF Live, Busy, TypeInv, TypeOK
    <3> QED BY <2>1, <3>1 DEF OnceInv, SoleWriters, Sweeps
  <2>3. OutputOnce'
    BY <2>1 DEF OutputOnce
  <2>4. ASSUME NEW i \in Index, NEW r \in Readable(shard[i])
        PROVE  worker'[<<r.sweep, i>>] \notin {"none", "loading"}
    <3>1. /\ r.sweep \in 1..Sweeps
          /\ worker[<<r.sweep, i>>] \notin {"none", "loading"}
      BY DEF OnceInv, ShardsSliced
    <3>2. <<r.sweep, i>> \in Proc
      <4>1. Sweeps \in Nat /\ Sweeps <= MaxSweeps
        BY DEF TypeInv, TypeOK, Sweeps
      <4> QED BY <3>1, <4>1, ParallelAssumption DEF Proc
    <3>3. <<r.sweep, i>> # q
      <4> SUFFICES ASSUME r.sweep = Sweeps, i = next PROVE FALSE
        OBVIOUS
      <4>1. i < next
        BY <2>1, <3>1, <3>2 DEF TypeInv, Workers
      <4>2. next \in Nat
        BY DEF TypeInv, TypeOK
      <4> QED BY <4>1, <4>2
    <3> HIDE DEF q
    <3> QED BY <2>1, <3>1, <3>2, <3>3 DEF TypeInv, TypeOK
  <2> QED BY <2>1, <2>2, <2>3, <2>4, ShardsAlone DEF OnceInv
<1>2. CASE Join \/ KillParent
  <2>1. /\ \/ parent' = "down"
           \/ parent' = "aggregating" /\ output' = <<>>
        /\ UNCHANGED <<shard, worker, todo, hash, widths, overlap>>
    BY <1>2 DEF Join, KillParent, workerVars
  <2>2. SoleWriters'
    BY <2>1 DEF OnceInv, SoleWriters, Live, Busy, Sweeps
  <2>3. OutputOnce'
    BY <2>1, NothingReadable DEF OutputOnce
  <2>4. TodoUnrecorded' /\ ShardsSliced' /\ ShardsOnce'
    BY <2>1, ShardsAlone DEF OnceInv, ShardsSliced
  <2> QED BY <2>2, <2>3, <2>4 DEF OnceInv
<1>3. CASE UNCHANGED vars
  BY <1>3 DEF vars, workerVars, OnceInv, SoleWriters, TodoUnrecorded,
              ShardsSliced, ShardsOnce, OutputOnce, Steady, Home, Entry,
              Live, Busy, Sweeps, Width
<1> QED
  BY <1>1, <1>2, <1>3, OnceStart, OnceAggregate, OnceLoad, OnceWork
     DEF Next, ParentStep, WorkerStep

\* (DuplicatesAreExplained) The aggregate of a finished sweep has at most one
\* record of a configuration per sweep that was started, with collisions of
\* the hashes, orphans and changed worker counts; two of different sweeps need
\* a reason: another hash, another worker count or an overlap.
THEOREM DuplicatesExplained == Spec => []DuplicatesAreExplained
<1>1. Init => OnceInv
  <2> SUFFICES ASSUME Init PROVE OnceInv
    OBVIOUS
  <2>1. /\ \A i \in Index : /\ Readable(shard[i]) = {}
                            /\ \A key : Once(shard[i], key)
        /\ \A p \in Proc : todo[p] = {} /\ worker[p] = "none"
        /\ parent = "down"
    BY NothingReadable DEF Init
  <2> QED BY <2>1 DEF OnceInv, SoleWriters, TodoUnrecorded, ShardsSliced,
                      ShardsOnce, OutputOnce, Live, Busy
<1>2. TypeInv /\ OnceInv => DuplicatesAreExplained
  <2> SUFFICES ASSUME TypeInv, OnceInv, parent = "done",
                      NEW j \in ReadableAt(output), NEW k \in ReadableAt(output),
                      j # k, output[j].config = output[k].config
               PROVE  /\ output[j].sweep # output[k].sweep
                      /\ \/ output[j].hash # output[k].hash
                         \/ overlap
                         \/ \E s \in 1..Sweeps : widths[s] # Width
    BY DEF DuplicatesAreExplained
  <2>1. Once(output, BySweep) /\ (Steady => Once(output, ByHash))
    BY DEF OnceInv, OutputOnce
  <2>2. output[j] \in Record /\ output[k] \in Record
    BY ReadableRecords DEF TypeInv, TypeOK, Piece, Readable
  <2>3. output[j].sweep # output[k].sweep
    BY <2>1, <2>2, Keys DEF Once
  <2>4. Steady => output[j].hash # output[k].hash
    BY <2>1, <2>2, Keys DEF Once
  <2> QED BY <2>3, <2>4 DEF Steady
<1>3. TypeInv /\ TypeInv' /\ OnceInv /\ [Next]_vars => OnceInv'
  BY OnceStep
<1> QED BY <1>1, <1>2, <1>3, ParallelTypeCorrect, PTL DEF Spec

----------------------------------------------------------------------------
\* Only a file without a final line end loses something when more is written
\* to it: the record it ends with.
LEMMA ExtendedReads ==
  ASSUME NEW f \in Seq(Piece), NEW g \in Seq(Piece), Extends(g, f),
         NEW r \in Readable(f)
  PROVE  r \in Readable(g) \/ (~Terminated(f) /\ r = f[Len(f)])
<1>1. PICK k \in ReadableAt(f) : r = f[k]
  BY DEF Readable
<1>2. k \in 1..Len(f) /\ IsRecord(f[k])
  BY DEF ReadableAt
<1>3. CASE k < Len(f)
  BY <1>1, <1>3, ReadableAfter DEF Readable
<1>4. CASE k = Len(f)
  BY <1>1, <1>2, <1>4 DEF Terminated, IsRecord
<1> QED BY <1>2, <1>3, <1>4

\* A file glued to one that ends in a line end loses nothing, to another the
\* record it begins with; the end is that of what was glued.
LEMMA GluedReads ==
  ASSUME NEW f \in Seq(Piece), NEW g \in Seq(Piece), g # <<>>
  PROVE  /\ \A r \in Readable(g) :
              r \in Readable(f \o g) \/ (~Terminated(f) /\ r = g[1])
         /\ Terminated(f \o g) <=> Terminated(g)
<1> DEFINE h == f \o g
<1>1. /\ h \in Seq(Piece) /\ Extends(h, f) /\ Len(h) = Len(f) + Len(g)
      /\ \A k \in 1..Len(g) : h[Len(f) + k] = g[k]
      /\ Len(f) \in Nat /\ Len(g) \in Nat /\ Len(g) # 0
  BY AppendExtends
<1> HIDE DEF h
<1>2. ASSUME NEW r \in Readable(g)
      PROVE  r \in Readable(h) \/ (~Terminated(f) /\ r = g[1])
  <2>1. PICK j \in ReadableAt(g) : r = g[j]
    BY <1>2 DEF Readable
  <2>2. j \in 1..Len(g) /\ IsRecord(g[j]) /\ StartsLine(g, j) /\ EndsLine(g, j)
    BY DEF ReadableAt
  <2> DEFINE k == Len(f) + j
  <2>3. k \in 1..Len(h) /\ h[k] = g[j]
    BY <1>1, <2>2
  <2>4. EndsLine(h, k)
    <3>1. CASE j = Len(g)
      BY <1>1, <3>1 DEF EndsLine
    <3>2. CASE j # Len(g)
      <4>1. g[j + 1] = NL /\ j + 1 \in 1..Len(g)
        BY <1>1, <2>2, <3>2 DEF EndsLine
      <4>2. h[Len(f) + (j + 1)] = NL /\ Len(f) + (j + 1) = k + 1
        BY <1>1, <2>2, <4>1
      <4> QED BY <4>2 DEF EndsLine
    <3> QED BY <3>1, <3>2
  <2>5. CASE j # 1
    <3>1. g[j - 1] = NL /\ j - 1 \in 1..Len(g)
      BY <1>1, <2>2, <2>5 DEF StartsLine
    <3>2. h[k - 1] = NL
      <4>1. h[Len(f) + (j - 1)] = g[j - 1]
        BY <1>1, <3>1
      <4>2. Len(f) + (j - 1) = k - 1
        BY <1>1, <2>2
      <4> QED BY <3>1, <4>1, <4>2
    <3>3. StartsLine(h, k)
      BY <3>2 DEF StartsLine
    <3> QED BY <2>1, <2>2, <2>3, <2>4, <3>3 DEF ReadableAt, Readable
  <2>6. CASE j = 1 /\ Terminated(f)
    <3>1. StartsLine(h, k)
      <4>1. CASE f = <<>>
        BY <2>6, <4>1 DEF StartsLine
      <4>2. CASE f # <<>>
        <5>1. f[Len(f)] = NL /\ Len(f) \in 1..Len(f)
          BY <1>1, <2>6, <4>2 DEF Terminated
        <5>2. h[Len(f)] = NL /\ Len(f) = k - 1
          BY <1>1, <2>6, <5>1 DEF Extends
        <5> QED BY <5>2 DEF StartsLine
      <4> QED BY <4>1, <4>2
    <3> QED BY <2>1, <2>2, <2>3, <2>4, <3>1 DEF ReadableAt, Readable
  <2> QED BY <2>1, <2>5, <2>6
<1>3. Terminated(h) <=> Terminated(g)
  <2>1. h[Len(h)] = g[Len(g)]
    BY <1>1
  <2>2. h # <<>>
    BY <1>1
  <2> QED BY <2>1, <2>2 DEF Terminated
<1> QED BY <1>2, <1>3 DEF h

\* Counting: adding elements, and taking one away.
LEMMA CountUpTo ==
  ASSUME NEW S, NEW T, IsFiniteSet(S), NEW a, NEW b
  PROVE  /\ Cardinality(S) \in Nat
         /\ T \subseteq S => IsFiniteSet(T) /\ Cardinality(T) <= Cardinality(S)
         /\ T \subseteq S \cup {a} => Cardinality(T) <= Cardinality(S) + 1
         /\ T \subseteq S \cup {a, b} => Cardinality(T) <= Cardinality(S) + 2
         /\ a \in S /\ T \subseteq S \ {a} => Cardinality(T) <= Cardinality(S) - 1
<1>1. Cardinality(S) \in Nat
  BY FS_CardinalityType
<1>2. /\ IsFiniteSet(S \cup {a}) /\ Cardinality(S \cup {a}) \in Nat
      /\ Cardinality(S \cup {a}) <= Cardinality(S) + 1
  BY <1>1, FS_AddElement, FS_CardinalityType
<1>3. /\ IsFiniteSet((S \cup {a}) \cup {b})
      /\ Cardinality((S \cup {a}) \cup {b}) \in Nat
      /\ Cardinality((S \cup {a}) \cup {b}) <= Cardinality(S) + 2
  <2>1. /\ IsFiniteSet((S \cup {a}) \cup {b})
        /\ Cardinality((S \cup {a}) \cup {b}) <= Cardinality(S \cup {a}) + 1
    BY <1>2, FS_AddElement
  <2>2. Cardinality((S \cup {a}) \cup {b}) \in Nat
    BY <2>1, FS_CardinalityType
  <2> QED BY <1>1, <1>2, <2>1, <2>2
<1>4. /\ IsFiniteSet(S \ {a})
      /\ a \in S => Cardinality(S \ {a}) = Cardinality(S) - 1
  BY FS_RemoveElement
<1>5. ASSUME NEW U, IsFiniteSet(U), T \subseteq U
      PROVE  IsFiniteSet(T) /\ Cardinality(T) <= Cardinality(U)
             /\ Cardinality(T) \in Nat /\ Cardinality(U) \in Nat
  BY <1>5, FS_Subset, FS_CardinalityType
<1>6. T \subseteq S => IsFiniteSet(T) /\ Cardinality(T) <= Cardinality(S)
  BY <1>5
<1>7. T \subseteq S \cup {a} => Cardinality(T) <= Cardinality(S) + 1
  <2> SUFFICES ASSUME T \subseteq S \cup {a}
               PROVE  Cardinality(T) <= Cardinality(S) + 1
    OBVIOUS
  <2>1. Cardinality(T) <= Cardinality(S \cup {a}) /\ Cardinality(T) \in Nat
    BY <1>2, <1>5
  <2> QED BY <1>1, <1>2, <2>1
<1>8. T \subseteq S \cup {a, b} => Cardinality(T) <= Cardinality(S) + 2
  <2> SUFFICES ASSUME T \subseteq S \cup {a, b}
               PROVE  Cardinality(T) <= Cardinality(S) + 2
    OBVIOUS
  <2>1. T \subseteq (S \cup {a}) \cup {b}
    OBVIOUS
  <2>2. /\ Cardinality(T) <= Cardinality((S \cup {a}) \cup {b})
        /\ Cardinality(T) \in Nat
    BY <1>3, <1>5, <2>1
  <2> QED BY <1>1, <1>3, <2>2
<1>9. a \in S /\ T \subseteq S \ {a} => Cardinality(T) <= Cardinality(S) - 1
  BY <1>4, <1>5
<1> QED BY <1>1, <1>6, <1>7, <1>8, <1>9

----------------------------------------------------------------------------
\* The shard of a configuration, and its worker in this sweep.
Place(c) == (c - 1) % Width
Owner(c) == <<Sweeps, Place(c)>>

\* What the shards from k on lack although their workers, which live or ended
\* well, have handled it, logged nothing and mistook nothing for it ...
Gone(k) ==
  {c \in Config :
     /\ Sweeps # 0 /\ Place(c) >= k
     /\ worker[Owner(c)] = "running" /\ c \notin todo[Owner(c)]
     /\ c \notin givenUp \cup mistaken
     /\ c \notin Recorded(shard[Place(c)])}

\* ... and the shards a further write may damage: the record they end with,
\* and the one that is written.
Open(k) == {i \in Index : i >= k /\ ~Terminated(shard[i])}

Due(k) == Cardinality(Gone(k)) + 2 * Cardinality(Open(k))

\* What the aggregate lacks of the shards it has got so far.
LostSoFar ==
  {c \in Config : /\ Place(c) < next
                  /\ c \notin Recorded(output) \cup givenUp \cup mistaken
                  /\ worker[Owner(c)] # "died"}

\* Every write that stopped part-way pays for two configurations: those that
\* are gone, and those that open files may cost yet.
LossInv ==
  /\ Due(0) <= 2 * tears
  /\ parent = "starting" =>
       \A i \in 0..(next - 1) : worker[<<Sweeps, i>>] # "none"
  /\ parent = "aggregating" =>
       /\ \A i \in 0..(Width - 1) :
            worker[<<Sweeps, i>>] # "none" /\ ~Live(<<Sweeps, i>>)
       /\ Cardinality(LostSoFar) + (IF Terminated(output) THEN 0 ELSE 2)
            + Due(next) <= 2 * tears
  /\ LossIsBounded

LEMMA OwnerTypes ==
  ASSUME TypeInv, Sweeps # 0, NEW c \in Config
  PROVE  /\ Width \in Nat \ {0}
         /\ Place(c) \in 0..(Width - 1) /\ Place(c) \in Index
         /\ Owner(c) \in Proc /\ Owner(c)[1] = Sweeps /\ Owner(c)[2] = Place(c)
         /\ \A p \in Proc : p[1] = Sweeps /\ p[2] = Place(c) => p = Owner(c)
         /\ c \in Slice(Place(c), Width)
<1>1. Sweeps \in 1..Sweeps /\ Sweeps \in 1..MaxSweeps
  BY ParallelAssumption DEF TypeInv, TypeOK, Sweeps
<1>2. Width \in Nat \ {0} /\ \A i \in 0..(Width - 1) : i \in Index
  BY <1>1, WidthTypes DEF TypeInv, Width
<1>3. c - 1 \in Nat
  BY ParallelAssumption DEF Config
<1>4. Place(c) \in 0..(Width - 1)
  BY <1>2, <1>3 DEF Place
<1>5. Place(c) \in Index
  BY <1>2, <1>4
<1> QED BY <1>1, <1>2, <1>4, <1>5 DEF Owner, Proc, Slice, Place

LEMMA FiniteSets ==
  ASSUME NEW k \in Nat
  PROVE  /\ IsFiniteSet(Config) /\ IsFiniteSet(Index) /\ Index \subseteq Nat
         /\ IsFiniteSet(Gone(k)) /\ IsFiniteSet(Open(k))
         /\ IsFiniteSet(LostSoFar)
         /\ Cardinality(Gone(k)) \in Nat /\ Cardinality(Open(k)) \in Nat
         /\ Due(k) \in Nat
<1>1. IsFiniteSet(Config)
  BY ParallelAssumption, FS_Interval DEF Config
<1>2. IsFiniteSet(Index)
  <2> DEFINE D == {0..(w - 1) : w \in Widths}
             f == [w \in Widths |-> 0..(w - 1)]
  <2>1. f \in Surjection(Widths, D)
    <3>1. f \in [Widths -> D]
      OBVIOUS
    <3>2. \A d \in D : \E w \in Widths : f[w] = d
      OBVIOUS
    <3> QED BY <3>1, <3>2 DEF Surjection
  <2>2. IsFiniteSet(D)
    <3> HIDE DEF D, f
    <3> QED BY <2>1, ParallelAssumption, FS_Surjection
  <2>3. \A d \in D : IsFiniteSet(d)
    BY ParallelAssumption, FS_Interval
  <2>4. IsFiniteSet(UNION D)
    <3> HIDE DEF D
    <3> QED BY <2>2, <2>3, FS_UNION
  <2> QED BY <2>4 DEF Index
<1>3. Index \subseteq Nat
  BY ParallelAssumption DEF Index
<1>4. IsFiniteSet(Gone(k)) /\ IsFiniteSet(LostSoFar)
  BY <1>1, FS_Subset DEF Gone, LostSoFar
<1>5. IsFiniteSet(Open(k))
  BY <1>2, FS_Subset DEF Open
<1>6. Cardinality(Gone(k)) \in Nat /\ Cardinality(Open(k)) \in Nat
  BY <1>4, <1>5, FS_CardinalityType
<1> QED BY <1>1, <1>2, <1>3, <1>4, <1>5, <1>6 DEF Due

\* How a configuration comes to be gone: it has been handled, or its record
\* has become unreadable.
LEMMA NewlyGone ==
  ASSUME UNCHANGED widths, givenUp \subseteq givenUp',
         mistaken \subseteq mistaken',
         NEW k \in Nat, NEW d \in Gone(k)', d \notin Gone(k)
  PROVE  /\ d \in Config /\ Sweeps # 0 /\ Place(d) >= k
         /\ worker'[Owner(d)] = "running" /\ d \notin todo'[Owner(d)]
         /\ d \notin givenUp' \cup mistaken'
         /\ d \notin Recorded(shard'[Place(d)])
         /\ \/ worker[Owner(d)] # "running"
            \/ d \in todo[Owner(d)]
            \/ d \in Recorded(shard[Place(d)])
<1>1. Sweeps' = Sweeps /\ Width' = Width
  BY DEF Sweeps, Width
<1>2. Place(d)' = Place(d) /\ Owner(d)' = Owner(d)
  BY <1>1 DEF Place, Owner
<1>3. /\ d \in Config /\ Sweeps # 0 /\ Place(d) >= k
      /\ worker'[Owner(d)] = "running" /\ d \notin todo'[Owner(d)]
      /\ d \notin givenUp' \cup mistaken'
      /\ d \notin Recorded(shard'[Place(d)])
  BY <1>1, <1>2 DEF Gone, Recorded
<1> QED BY <1>3 DEF Gone

\* One write makes at most one record unreadable, and only in an open file.
LEMMA WriteLoses ==
  ASSUME TypeInv, NEW p \in Proc, NEW c, NEW g, Written(p, c, g),
         NEW i \in Index, NEW d \in Recorded(shard[i]),
         d \notin Recorded(shard'[i])
  PROVE  /\ i = p[2] /\ ~Terminated(shard[i])
         /\ d = shard[i][Len(shard[i])].config
<1>1. /\ g \in Seq(Piece) /\ Extends(g, shard[p[2]])
      /\ p[2] \in Index /\ shard[p[2]] \in Seq(Piece)
  BY WrittenTypes, AtHandTypes DEF Written
<1>2. shard'[i] = IF i = p[2] THEN g ELSE shard[i]
  BY <1>1 DEF Written, TypeInv, TypeOK
<1>3. i = p[2] /\ shard'[i] = g
  BY <1>2
<1>4. PICK r \in Readable(shard[i]) : d = r.config
  BY DEF Recorded
<1>5. r \notin Readable(g)
  BY <1>3, <1>4 DEF Recorded
<1>6. ~Terminated(shard[i]) /\ r = shard[i][Len(shard[i])]
  BY <1>1, <1>3, <1>5, ExtendedReads
<1> QED BY <1>3, <1>4, <1>6

\* A whole append to a file that ends in a line end loses nothing, and to
\* another one closes it.
LEMMA AppendOwes ==
  ASSUME TypeInv, NEW p \in Proc, AppendEntry(p), NEW k \in Nat
  PROVE  /\ tears' = tears
         /\ \/ Gone(k)' \subseteq Gone(k) /\ Open(k)' \subseteq Open(k)
            \/ \E a, b : \E i \in Open(k) :
                 /\ Gone(k)' \subseteq Gone(k) \cup {a, b}
                 /\ Open(k)' \subseteq Open(k) \ {i}
<1>1. PICK c \in AtHand(p) :
        /\ shard' = [shard EXCEPT ![p[2]] = AppendLine(@, Entry(p, c))]
        /\ todo' = [todo EXCEPT ![p] = @ \ Alike(p, c)]
        /\ Skip(p, Alike(p, c) \ {c})
  BY DEF AppendEntry
<1>2. /\ UNCHANGED <<widths, worker, givenUp, tears>>
      /\ mistaken \subseteq mistaken'
  BY <1>1 DEF AppendEntry, Skip, parentVars
<1> DEFINE i == p[2]
           f == shard[i]
           g == AppendLine(f, Entry(p, c))
<1>3. /\ c \in todo[p] /\ c \in Config /\ Entry(p, c) \in Record
      /\ i \in Index /\ f \in Seq(Piece)
  BY AtHandTypes
<1>4. shard' = [shard EXCEPT ![i] = g]
  BY <1>1, <1>3 DEF TypeInv, TypeOK
<1>5. /\ c \in Alike(p, c)
      /\ \A q \in Proc :
           todo'[q] = IF q = p THEN todo[p] \ Alike(p, c) ELSE todo[q]
  BY <1>1, <1>3 DEF Alike, TypeInv, TypeOK
<1>6. Written(p, c, g)
  BY <1>4, <1>5 DEF Written
<1>7. \A j \in Index : shard'[j] = IF j = i THEN g ELSE shard[j]
  BY <1>3, <1>4 DEF TypeInv, TypeOK
<1>8. Terminated(g)
  BY <1>3, Pieces, AppendLineShape
<1>9. ASSUME NEW d \in Gone(k)', d \notin Gone(k)
      PROVE  /\ i >= k /\ ~Terminated(f)
             /\ d = c \/ d = f[Len(f)].config
  <2>1. /\ d \in Config /\ Sweeps # 0 /\ Place(d) >= k
        /\ worker'[Owner(d)] = "running" /\ d \notin todo'[Owner(d)]
        /\ d \notin mistaken' /\ d \notin Recorded(shard'[Place(d)])
        /\ \/ worker[Owner(d)] # "running"
           \/ d \in todo[Owner(d)]
           \/ d \in Recorded(shard[Place(d)])
    BY <1>2, <1>9, NewlyGone
  <2>2. /\ Place(d) \in Index /\ Owner(d) \in Proc
        /\ Owner(d)[1] = Sweeps /\ Owner(d)[2] = Place(d)
    BY <2>1, OwnerTypes
  <2>3. CASE d \in Recorded(shard[Place(d)])
    BY <1>6, <2>1, <2>2, <2>3, WriteLoses
  <2>4. CASE d \in todo[Owner(d)] /\ d \notin Recorded(shard[Place(d)])
    <3>0. Owner(d) = p /\ d \in Alike(p, c)
      BY <1>5, <2>1, <2>2, <2>4
    <3>1. d = c
      BY <1>1, <2>1, <2>2, <2>4, <3>0 DEF Skip
    <3>2. Place(d) = i /\ c \notin Recorded(g)
      BY <1>7, <2>1, <2>2, <3>0, <3>1
    <3>3. Entry(p, c) \notin Readable(g)
      BY <3>2 DEF Recorded, Entry
    <3>4. ~Terminated(f)
      BY <1>3, <3>3, Pieces, CleanAppendReads
    <3> QED BY <2>1, <3>1, <3>2, <3>4
  <2> QED BY <1>2, <2>1, <2>3, <2>4
<1>10. Open(k)' = Open(k) \ {i}
  BY <1>7, <1>8 DEF Open
<1>11. CASE i >= k /\ ~Terminated(f)
  <2>1. i \in Open(k)
    BY <1>3, <1>11 DEF Open
  <2>2. Gone(k)' \subseteq Gone(k) \cup {c, f[Len(f)].config}
    BY <1>9
  <2> HIDE DEF i, f
  <2> QED BY <1>2, <1>10, <2>1, <2>2
<1>12. CASE ~(i >= k /\ ~Terminated(f))
  BY <1>2, <1>9, <1>10, <1>12
<1> QED BY <1>11, <1>12

\* A write that stops part-way, logged or the last of its worker, may cost
\* one record of an open file, or leave another file open.
LEMMA TearOwes ==
  ASSUME TypeInv, NEW p \in Proc, NEW c \in AtHand(p),
         NEW g \in PartialAppends(shard[p[2]], Entry(p, c)), Written(p, c, g),
         UNCHANGED <<widths, mistaken>>, givenUp \subseteq givenUp',
         \A q \in Proc : q # p => todo'[q] = todo[q] /\ worker'[q] = worker[q],
         \/ worker'[p] = "died"
         \/ /\ worker'[p] = worker[p] /\ todo'[p] = todo[p] \ {c}
            /\ p[1] = Sweeps => c \in givenUp',
         NEW k \in Nat
  PROVE  \/ \E a : /\ Gone(k)' \subseteq Gone(k) \cup {a}
                   /\ Open(k)' \subseteq Open(k)
         \/ \E i : /\ Gone(k)' \subseteq Gone(k)
                   /\ Open(k)' \subseteq Open(k) \cup {i}
<1> DEFINE i == p[2]
           f == shard[i]
<1>1. i \in Index /\ f \in Seq(Piece)
  BY AtHandTypes
<1>2. \A j \in Index : shard'[j] = IF j = i THEN g ELSE shard[j]
  BY <1>1 DEF Written, TypeInv, TypeOK
<1>3. ASSUME NEW d \in Gone(k)', d \notin Gone(k)
      PROVE  ~Terminated(f) /\ d = f[Len(f)].config
  <2>1. /\ d \in Config /\ Sweeps # 0
        /\ worker'[Owner(d)] = "running" /\ d \notin todo'[Owner(d)]
        /\ d \notin givenUp' /\ d \notin Recorded(shard'[Place(d)])
        /\ \/ worker[Owner(d)] # "running"
           \/ d \in todo[Owner(d)]
           \/ d \in Recorded(shard[Place(d)])
    BY <1>3, NewlyGone
  <2>2. /\ Place(d) \in Index /\ Owner(d) \in Proc /\ Owner(d)[1] = Sweeps
    BY <2>1, OwnerTypes
  <2>3. CASE d \in Recorded(shard[Place(d)])
    BY <2>1, <2>2, <2>3, WriteLoses
  <2>4. CASE worker[Owner(d)] # "running"
    BY <2>1, <2>2, <2>4
  <2>5. CASE d \in todo[Owner(d)]
    BY <2>1, <2>2, <2>5
  <2> QED BY <2>1, <2>3, <2>4, <2>5
<1>4. CASE Terminated(f)
  <2>1. Open(k)' \subseteq Open(k) \cup {i}
    BY <1>2 DEF Open
  <2>2. Gone(k)' \subseteq Gone(k)
    BY <1>3, <1>4
  <2> QED BY <2>1, <2>2
<1>5. CASE ~Terminated(f)
  <2>1. Open(k)' \subseteq Open(k)
    BY <1>1, <1>2, <1>5 DEF Open
  <2>2. Gone(k)' \subseteq Gone(k) \cup {f[Len(f)].config}
    BY <1>3
  <2> HIDE DEF f
  <2> QED BY <2>1, <2>2
<1> QED BY <1>4, <1>5

\* Everything else but a new sweep: what is handled is recorded or logged.
LEMMA OthersOwe ==
  ASSUME TypeInv, NEW k \in Nat,
         \/ StartWorker \/ Join \/ Aggregate \/ KillParent \/ UNCHANGED vars
         \/ \E p \in Proc : Load(p) \/ Raise(p)
         \/ \E p \in Proc : KillWorker(p) /\ UNCHANGED <<shard, tears>>
  PROVE  /\ Gone(k)' \subseteq Gone(k) /\ Open(k)' = Open(k)
         /\ tears' = tears
<1>1. /\ UNCHANGED <<shard, widths, tears>>
      /\ givenUp \subseteq givenUp' /\ mistaken \subseteq mistaken'
  BY DEF StartWorker, Join, Aggregate, KillParent, vars, workerVars, Load,
         Raise, KillWorker, LogException, Skip, parentVars
<1>2. Open(k)' = Open(k)
  BY <1>1 DEF Open
<1>3. ASSUME NEW d \in Gone(k)', d \notin Gone(k)
      PROVE  FALSE
  <2> DEFINE q == Owner(d)
  <2>1. /\ d \in Config /\ Sweeps # 0
        /\ worker'[q] = "running" /\ d \notin todo'[q]
        /\ d \notin givenUp' \cup mistaken' /\ d \notin Recorded(shard[Place(d)])
        /\ worker[q] # "running" \/ d \in todo[q]
    BY <1>1, <1>3, NewlyGone
  <2>2. /\ q \in Proc /\ q[1] = Sweeps /\ q[2] = Place(d)
        /\ d \in Slice(Place(d), Width)
    BY <2>1, OwnerTypes
  <2> HIDE DEF q
  <2>3. CASE StartWorker
    BY <2>1, <2>2, <2>3 DEF StartWorker, TypeInv, TypeOK
  <2>4. CASE Join \/ Aggregate \/ KillParent \/ UNCHANGED vars
    BY <2>1, <2>4 DEF Join, Aggregate, KillParent, vars, workerVars
  <2>5. ASSUME NEW p \in Proc, Load(p) PROVE FALSE
    <3> DEFINE slice == Slice(p[2], widths[p[1]])
               known(h) == Known(shard[p[2]], h)
    <3>1. PICK h \in HashFns :
            /\ todo' = [todo EXCEPT ![p] = slice \ known(h)]
            /\ Skip(p, slice \cap known(h))
      BY <2>5 DEF Load
    <3>2. worker' = [worker EXCEPT ![p] = "running"]
      BY <2>5 DEF Load
    <3>3. q = p
      BY <2>1, <2>2, <3>1, <3>2 DEF TypeInv, TypeOK
    <3>4. todo'[p] = slice \ known(h)
      BY <3>1 DEF TypeInv, TypeOK
    <3>5. d \in slice \cap known(h)
      BY <2>1, <2>2, <3>3, <3>4 DEF Width
    <3>6. d \in mistaken'
      BY <2>1, <2>2, <3>1, <3>3, <3>5 DEF Skip
    <3> QED BY <2>1, <3>6
  <2>6. ASSUME NEW p \in Proc, Raise(p) PROVE FALSE
    <3>1. PICK c \in AtHand(p) : LogException(p, c)
      BY <2>6 DEF Raise
    <3>2. worker' = worker
      BY <2>6 DEF Raise
    <3>3. q = p /\ d = c
      BY <2>1, <2>2, <3>1, <3>2 DEF LogException, MoveOn, TypeInv, TypeOK
    <3> QED BY <2>1, <2>2, <3>1, <3>3 DEF LogException
  <2>7. ASSUME NEW p \in Proc, KillWorker(p) PROVE FALSE
    <3>1. /\ worker' = [worker EXCEPT ![p] = "died"]
          /\ todo' = [todo EXCEPT ![p] = {}]
      BY <2>7 DEF KillWorker
    <3> QED BY <2>1, <2>2, <3>1 DEF TypeInv, TypeOK
  <2> QED BY <2>3, <2>4, <2>5, <2>6, <2>7
<1> QED BY <1>1, <1>2, <1>3

\* A new sweep owes nothing yet.
LEMMA StartOwes ==
  ASSUME TypeInv, StartSweep, NEW k \in Nat
  PROVE  Gone(k)' = {} /\ Open(k)' = Open(k) /\ tears' = tears
<1>1. PICK w \in Widths : widths' = Append(widths, w)
  BY DEF StartSweep
<1>2. UNCHANGED <<shard, worker, todo, tears>> /\ Sweeps < MaxSweeps
  BY DEF StartSweep, workerVars
<1>3. /\ Sweeps' = Sweeps + 1 /\ Sweeps \in Nat
      /\ Width' \in Nat \ {0} /\ Width' = w
  BY <1>1, ParallelAssumption DEF TypeInv, TypeOK, Sweeps, Width
<1>4. ASSUME NEW d \in Gone(k)' PROVE FALSE
  <2>1. d \in Config /\ worker'[Owner(d)'] = "running"
    BY DEF Gone
  <2> DEFINE i == (d - 1) % Width'
             q == <<Sweeps', i>>
  <2>2. Owner(d)' = q
    BY DEF Owner, Place
  <2>3. i \in 0..(w - 1) /\ i \in Index
    <3>1. d - 1 \in Nat
      BY <2>1, ParallelAssumption DEF Config
    <3>2. i \in 0..(w - 1)
      BY <1>3, <3>1
    <3> QED BY <3>2 DEF Index
  <2>4. Sweeps' \in 1..MaxSweeps
    BY <1>2, <1>3, ParallelAssumption
  <2> HIDE DEF i
  <2>5. q \in Proc /\ q[1] = Sweeps + 1
    BY <1>3, <2>3, <2>4 DEF Proc
  <2>6. worker[q] = "running"
    BY <1>2, <2>1, <2>2
  <2>7. q[1] \in 1..Sweeps
    BY <2>5, <2>6 DEF TypeInv, Workers
  <2> QED BY <1>3, <2>5, <2>7
<1>5. Open(k)' = Open(k)
  BY <1>2 DEF Open
<1> QED BY <1>2, <1>4, <1>5

\* A cut write pays for what it may cost.
LEMMA TearPays ==
  ASSUME TypeInv, NEW p \in Proc, NEW k \in Nat,
         WriteError(p) \/ (KillWorker(p) /\ ~UNCHANGED <<shard, tears>>)
  PROVE  /\ tears' = tears + 1
         /\ \/ \E a : /\ Gone(k)' \subseteq Gone(k) \cup {a}
                      /\ Open(k)' \subseteq Open(k)
            \/ \E i : /\ Gone(k)' \subseteq Gone(k)
                      /\ Open(k)' \subseteq Open(k) \cup {i}
<1>1. CASE WriteError(p)
  <2>1. PICK c \in AtHand(p) :
          /\ \E f \in PartialAppends(shard[p[2]], Entry(p, c)) :
               shard' = [shard EXCEPT ![p[2]] = f]
          /\ LogException(p, c)
    BY <1>1 DEF WriteError
  <2>2. PICK g \in PartialAppends(shard[p[2]], Entry(p, c)) :
          shard' = [shard EXCEPT ![p[2]] = g]
    BY <2>1
  <2>3. UNCHANGED <<widths, worker, mistaken>> /\ tears' = tears + 1
    BY <1>1 DEF WriteError, parentVars
  <2>4. /\ \A q \in Proc : todo'[q] = IF q = p THEN todo[p] \ {c} ELSE todo[q]
        /\ givenUp \subseteq givenUp'
        /\ p[1] = Sweeps => c \in givenUp'
    BY <2>1 DEF LogException, MoveOn, TypeInv, TypeOK
  <2>5. Written(p, c, g)
    BY <2>2, <2>4 DEF Written
  <2> QED BY <2>3, <2>4, <2>5, TearOwes
<1>2. CASE KillWorker(p) /\ ~UNCHANGED <<shard, tears>>
  <2>1. PICK c \in AtHand(p) :
          \E f \in PartialAppends(shard[p[2]], Entry(p, c)) :
            shard' = [shard EXCEPT ![p[2]] = f]
    BY <1>2 DEF KillWorker
  <2>2. PICK g \in PartialAppends(shard[p[2]], Entry(p, c)) :
          shard' = [shard EXCEPT ![p[2]] = g]
    BY <2>1
  <2>3. UNCHANGED <<widths, givenUp, mistaken>> /\ tears' = tears + 1
    BY <1>2 DEF KillWorker, parentVars
  <2>4. /\ worker' = [worker EXCEPT ![p] = "died"]
        /\ todo' = [todo EXCEPT ![p] = {}]
    BY <1>2 DEF KillWorker
  <2>5. /\ \A q \in Proc : q # p => todo'[q] = todo[q] /\ worker'[q] = worker[q]
        /\ worker'[p] = "died" /\ todo'[p] = {}
    BY <2>4 DEF TypeInv, TypeOK
  <2>6. Written(p, c, g)
    BY <2>2, <2>5 DEF Written
  <2> QED BY <2>3, <2>5, <2>6, TearOwes
<1> QED BY <1>1, <1>2

\* In numbers: no step makes more due than it pays for.
LEMMA DueStep ==
  ASSUME TypeInv, [Next]_vars, NEW k \in Nat
  PROVE  /\ Due(k)' + 2 * tears <= Due(k) + 2 * tears'
         /\ Due(k)' \in Nat /\ tears \in Nat /\ tears' \in Nat
<1> DEFINE G == Gone(k)  H == Gone(k)'  O == Open(k)  Q == Open(k)'
<1>1. /\ IsFiniteSet(G) /\ IsFiniteSet(O)
      /\ Cardinality(G) \in Nat /\ Cardinality(O) \in Nat
      /\ Due(k) = Cardinality(G) + 2 * Cardinality(O)
      /\ Due(k)' = Cardinality(H) + 2 * Cardinality(Q)
      /\ tears \in Nat
  BY FiniteSets DEF Due, TypeInv, TypeOK
<1>2. IsFiniteSet(H) /\ IsFiniteSet(Q)
  <2>1. H \subseteq Config /\ Q \subseteq Index
    BY DEF Gone, Open, Config, Index
  <2> HIDE DEF H, Q
  <2> QED BY <2>1, FiniteSets, FS_Subset
<1>3. Cardinality(H) \in Nat /\ Cardinality(Q) \in Nat
  <2> HIDE DEF H, Q
  <2> QED BY <1>2, FS_CardinalityType
<1>4. \/ H \subseteq G /\ Q \subseteq O /\ tears' = tears
      \/ \E a, b : \E i \in O : /\ H \subseteq G \cup {a, b} /\ Q \subseteq O \ {i}
                                /\ tears' = tears
      \/ \E a : H \subseteq G \cup {a} /\ Q \subseteq O /\ tears' = tears + 1
      \/ \E i : H \subseteq G /\ Q \subseteq O \cup {i} /\ tears' = tears + 1
  <2>1. CASE \E p \in Proc : AppendEntry(p)
    BY <2>1, AppendOwes
  <2>2. CASE \E p \in Proc : WriteError(p)
    BY <2>2, TearPays
  <2>3. ASSUME NEW p \in Proc, KillWorker(p), ~UNCHANGED <<shard, tears>>
        PROVE  \/ \E a : H \subseteq G \cup {a} /\ Q \subseteq O /\ tears' = tears + 1
               \/ \E i : H \subseteq G /\ Q \subseteq O \cup {i} /\ tears' = tears + 1
    BY <2>3, TearPays
  <2>4. CASE StartSweep
    BY <2>4, StartOwes
  <2>5. CASE \/ StartWorker \/ Join \/ Aggregate \/ KillParent \/ UNCHANGED vars
             \/ \E p \in Proc : Load(p) \/ Raise(p)
             \/ \E p \in Proc : KillWorker(p) /\ UNCHANGED <<shard, tears>>
    BY <2>5, OthersOwe
  <2> HIDE DEF G, H, O, Q
  <2> QED BY <2>1, <2>2, <2>3, <2>4, <2>5 DEF Next, ParentStep, WorkerStep
<1> HIDE DEF G, H, O, Q
<1>5. CASE H \subseteq G /\ Q \subseteq O /\ tears' = tears
  <2>1. Cardinality(H) <= Cardinality(G) /\ Cardinality(Q) <= Cardinality(O)
    BY <1>1, <1>5, CountUpTo
  <2> QED BY <1>1, <1>3, <1>5, <2>1
<1>6. ASSUME NEW a, NEW b, NEW i \in O, H \subseteq G \cup {a, b},
             Q \subseteq O \ {i}, tears' = tears
      PROVE  /\ Due(k)' + 2 * tears <= Due(k) + 2 * tears'
             /\ Due(k)' \in Nat /\ tears' \in Nat
  <2>1. Cardinality(H) <= Cardinality(G) + 2
    BY <1>1, <1>6, CountUpTo
  <2>2. Cardinality(Q) <= Cardinality(O) - 1
    BY <1>1, <1>6, CountUpTo
  <2> QED BY <1>1, <1>3, <1>6, <2>1, <2>2
<1>7. ASSUME NEW a, H \subseteq G \cup {a}, Q \subseteq O, tears' = tears + 1
      PROVE  /\ Due(k)' + 2 * tears <= Due(k) + 2 * tears'
             /\ Due(k)' \in Nat /\ tears' \in Nat
  <2>1. Cardinality(H) <= Cardinality(G) + 1
    BY <1>1, <1>7, CountUpTo
  <2>2. Cardinality(Q) <= Cardinality(O)
    BY <1>1, <1>7, CountUpTo
  <2> QED BY <1>1, <1>3, <1>7, <2>1, <2>2
<1>8. ASSUME NEW i, H \subseteq G, Q \subseteq O \cup {i}, tears' = tears + 1
      PROVE  /\ Due(k)' + 2 * tears <= Due(k) + 2 * tears'
             /\ Due(k)' \in Nat /\ tears' \in Nat
  <2>1. Cardinality(H) <= Cardinality(G)
    BY <1>1, <1>8, CountUpTo
  <2>2. Cardinality(Q) <= Cardinality(O) + 1
    BY <1>1, <1>8, CountUpTo
  <2> QED BY <1>1, <1>3, <1>8, <2>1, <2>2
<1> QED BY <1>1, <1>4, <1>5, <1>6, <1>7, <1>8

----------------------------------------------------------------------------
\* A worker that was started stays so, and one that is gone stays gone.
LEMMA WorkersKept ==
  ASSUME TypeInv, [Next]_vars, NEW q \in Proc, worker[q] # "none"
  PROVE  /\ worker'[q] # "none"
         /\ worker[q] = "died" => worker'[q] = "died"
         /\ ~Live(q) => ~Live(q)'
<1> USE DEF TypeInv, TypeOK, Live, Busy
<1>1. CASE StartWorker
  <2>1. parent = "starting" /\ worker' = [worker EXCEPT ![<<Sweeps, next>>] = "loading"]
        /\ todo' = todo
    BY <1>1 DEF StartWorker
  <2>2. q # <<Sweeps, next>>
    <3>1. q[1] = Sweeps => q[2] < next
      BY <2>1 DEF Workers
    <3> QED BY <3>1
  <2> QED BY <2>1, <2>2
<1>2. CASE StartSweep \/ Join \/ Aggregate \/ KillParent \/ UNCHANGED vars
  BY <1>2 DEF StartSweep, Join, Aggregate, KillParent, vars, workerVars
<1>3. ASSUME NEW p \in Proc, Load(p)
      PROVE  /\ worker'[q] # "none"
             /\ worker[q] = "died" => worker'[q] = "died"
             /\ ~Live(q) => ~Live(q)'
  <2>1. /\ worker[p] = "loading" /\ worker' = [worker EXCEPT ![p] = "running"]
        /\ q # p => todo'[q] = todo[q]
    BY <1>3 DEF Load
  <2> QED BY <2>1
<1>4. ASSUME NEW p \in Proc,
             AppendEntry(p) \/ Raise(p) \/ WriteError(p) \/ KillWorker(p)
      PROVE  /\ worker'[q] # "none"
             /\ worker[q] = "died" => worker'[q] = "died"
             /\ ~Live(q) => ~Live(q)'
  <2>1. PICK D \in SUBSET todo[p] : todo' = [todo EXCEPT ![p] = D]
    BY <1>4, WorkerSteps
  <2>2. UNCHANGED worker \/ worker' = [worker EXCEPT ![p] = "died"]
    BY <1>4, WorkerSteps
  <2>3. todo'[q] \subseteq todo[q]
    BY <2>1
  <2> QED BY <2>2, <2>3
<1> QED BY <1>1, <1>2, <1>3, <1>4 DEF Next, ParentStep, WorkerStep

\* While the sweep stays, what is logged stays logged, and mistakes stay.
LEMMA LoggedKept ==
  ASSUME [Next]_vars, ~StartSweep
  PROVE  /\ UNCHANGED widths
         /\ givenUp \subseteq givenUp' /\ mistaken \subseteq mistaken'
BY DEF Next, ParentStep, WorkerStep, StartWorker, Join, Aggregate, KillParent,
       Load, AppendEntry, Raise, WriteError, KillWorker, LogException, Skip,
       vars, parentVars, workerVars

\* What the next shard adds to what the aggregate lacks: what is gone from the
\* shard, and what an open aggregate costs, its last record and the first of
\* the shard.
LEMMA GlueLoses ==
  ASSUME TypeInv, LossInv, Aggregate,
         NEW c \in Config, Place(c) <= next, worker[Owner(c)] # "died",
         c \notin Recorded(output \o shard[next]), c \notin givenUp \cup mistaken
  PROVE  \/ c \in LostSoFar
         \/ c \in Gone(next) /\ Place(c) = next
         \/ /\ ~Terminated(output) /\ shard[next] # <<>>
            /\ c \in {output[Len(output)].config, shard[next][1].config}
<1>1. parent = "aggregating" /\ Sweeps # 0 /\ next \in Nat /\ next < Width
  BY DEF Aggregate, TypeInv, Cursor, TypeOK
<1>2. /\ Place(c) \in 0..(Width - 1) /\ Owner(c) \in Proc
      /\ Place(c) \in Index /\ Width \in Nat
  BY <1>1, OwnerTypes
<1>3. next \in Index
  <2>1. Width \in Nat \ {0} /\ \A i \in 0..(Width - 1) : i \in Index
    <3>1. Sweeps \in 1..Sweeps
      BY <1>1 DEF TypeInv, Cursor
    <3> QED BY <3>1, WidthTypes DEF TypeInv, Width
  <2> QED BY <1>1, <2>1
<1> DEFINE f == shard[next]
           h == output \o f
<1>4. output \in Seq(Piece) /\ f \in Seq(Piece)
  BY <1>3 DEF TypeInv, TypeOK, Piece
<1>5. h \in Seq(Piece) /\ Extends(h, output) /\ (f = <<>> => h = output)
  BY <1>4, AppendExtends
<1>6. CASE Place(c) < next
  <2>1. CASE c \notin Recorded(output)
    BY <1>6, <2>1 DEF LostSoFar
  <2>2. CASE c \in Recorded(output)
    <3>1. PICK r \in Readable(output) : c = r.config
      BY <2>2 DEF Recorded
    <3>2. r \notin Readable(h)
      BY <3>1 DEF Recorded
    <3>3. ~Terminated(output) /\ r = output[Len(output)]
      <4> HIDE DEF h
      <4> QED BY <1>4, <1>5, <3>2, ExtendedReads
    <3>4. f # <<>>
      BY <1>5, <3>2
    <3> QED BY <3>1, <3>3, <3>4
  <2> QED BY <2>1, <2>2
<1>7. CASE Place(c) = next
  <2>1. worker[Owner(c)] # "none" /\ ~Live(Owner(c))
    BY <1>1, <1>2 DEF LossInv, Owner
  <2>2. worker[Owner(c)] = "running" /\ todo[Owner(c)] = {}
    BY <1>2, <2>1 DEF Live, Busy, TypeInv, TypeOK
  <2>3. CASE c \notin Recorded(f)
    BY <1>1, <1>7, <2>2, <2>3 DEF Gone
  <2>4. CASE c \in Recorded(f)
    <3>1. PICK r \in Readable(f) : c = r.config
      BY <2>4 DEF Recorded
    <3>2. f # <<>>
      BY DEF Readable, ReadableAt
    <3>3. r \notin Readable(h)
      BY <3>1 DEF Recorded
    <3>4. ~Terminated(output) /\ r = f[1]
      <4> HIDE DEF f
      <4> QED BY <1>4, <3>2, <3>3, GluedReads
    <3> QED BY <3>1, <3>2, <3>4
  <2> QED BY <2>3, <2>4
<1> QED BY <1>1, <1>2, <1>6, <1>7

\* What the aggregate will lack once it has the next shard too.
LostWithNext ==
  {c \in Config : /\ Place(c) <= next
                  /\ c \notin Recorded(output \o shard[next])
                  /\ c \notin givenUp \cup mistaken
                  /\ worker[Owner(c)] # "died"}

LEMMA GlueArithmetic ==
  ASSUME NEW a \in Nat, NEW b \in Nat, NEW ab \in Nat, NEW s \in Nat,
         NEW h \in Nat, NEW o \in Nat, NEW q \in Nat, NEW t \in Nat,
         NEW e \in Nat, NEW x \in Nat, NEW y \in Nat,
         a + e + ((b + h) + 2 * o) <= 2 * t, ab <= a + b, q + y <= o,
         (s <= ab + e /\ x = 2 * y) \/ (s <= ab /\ x = e)
  PROVE  s + x + (h + 2 * q) <= 2 * t
OBVIOUS

\* In numbers: gluing turns what was due into what is lost.
LEMMA GluePays ==
  ASSUME TypeInv, LossInv, Aggregate
  PROVE  /\ Cardinality(LostWithNext)
              + (IF Terminated(output \o shard[next]) THEN 0 ELSE 2)
              + Due(next + 1) <= 2 * tears
         /\ IsFiniteSet(LostWithNext)
<1> DEFINE f == shard[next]
           A == LostSoFar  S == LostWithNext
           G == Gone(next)  B == {c \in G : Place(c) = next}  H == Gone(next + 1)
           O == Open(next)  Q == Open(next + 1)
           t == tears
<1>1. /\ parent = "aggregating" /\ Sweeps # 0 /\ next \in Nat /\ next < Width
      /\ next \in Index /\ f \in Seq(Piece) /\ output \in Seq(Piece)
      /\ t \in Nat
  <2>1. /\ parent = "aggregating" /\ Sweeps \in 1..Sweeps /\ next \in Nat
        /\ next < Width
    BY DEF Aggregate, TypeInv, Cursor, TypeOK
  <2>2. \A i \in 0..(Width - 1) : i \in Index
    BY <2>1, WidthTypes DEF TypeInv, Width
  <2>3. Width \in Nat
    BY <2>1, WidthTypes DEF TypeInv, Width
  <2>4. next \in Index
    BY <2>1, <2>2, <2>3
  <2> QED BY <2>1, <2>4 DEF TypeInv, TypeOK, Piece
<1>2. /\ IsFiniteSet(A) /\ IsFiniteSet(G) /\ IsFiniteSet(H)
      /\ IsFiniteSet(O) /\ IsFiniteSet(Q) /\ IsFiniteSet(S)
  <2>1. next + 1 \in Nat
    BY <1>1
  <2>2. IsFiniteSet(H) /\ IsFiniteSet(Q)
    BY <2>1, FiniteSets
  <2>3. IsFiniteSet(S)
    <3>1. S \subseteq Config
      BY DEF LostWithNext
    <3> HIDE DEF S
    <3> QED BY <1>1, <3>1, FiniteSets, FS_Subset
  <2> QED BY <1>1, <2>2, <2>3, FiniteSets
<1>3. B \cup H = G /\ B \cap H = {}
  <2>1. ASSUME NEW c \in G PROVE Place(c) = next \/ c \in H
    <3>1. Place(c) \in Nat /\ Place(c) >= next
      BY <1>1, OwnerTypes DEF Gone
    <3> QED BY <1>1, <3>1 DEF Gone
  <2>2. ASSUME NEW c \in H PROVE c \in G /\ Place(c) # next
    <3>1. Place(c) \in Nat /\ Place(c) >= next + 1
      BY <1>1, OwnerTypes DEF Gone
    <3> QED BY <1>1, <3>1 DEF Gone
  <2> QED BY <2>1, <2>2
<1>4. \/ S \subseteq A \cup B
      \/ /\ ~Terminated(output) /\ f # <<>>
         /\ \E a, b : S \subseteq (A \cup B) \cup {a, b}
  <2>1. ASSUME NEW c \in S
        PROVE  \/ c \in A \cup B
               \/ /\ ~Terminated(output) /\ f # <<>>
                  /\ c \in {output[Len(output)].config, f[1].config}
    <3>1. /\ c \in Config /\ Place(c) <= next /\ worker[Owner(c)] # "died"
          /\ c \notin Recorded(output \o shard[next])
          /\ c \notin givenUp \cup mistaken
      BY DEF LostWithNext
    <3> QED BY <3>1, GlueLoses
  <2> HIDE DEF A, B, S
  <2> QED BY <2>1
<1>5. /\ Terminated(f) => Q \subseteq O
      /\ ~Terminated(f) => next \in O /\ Q \subseteq O \ {next}
  <2>1. Index \subseteq Nat
    BY <1>1, FiniteSets
  <2>2. ASSUME NEW i \in Q PROVE i \in O /\ i # next
    <3>1. i \in Nat /\ i \in Index /\ i >= next + 1 /\ ~Terminated(shard[i])
      BY <2>1 DEF Open
    <3>2. i >= next /\ i # next
      BY <1>1, <3>1
    <3> QED BY <3>1, <3>2 DEF Open
  <2>3. ~Terminated(f) => next \in O
    BY <1>1 DEF Open
  <2> QED BY <2>2, <2>3
<1>6. /\ f = <<>> => output \o f = output /\ Terminated(f)
      /\ f # <<>> => (Terminated(output \o f) <=> Terminated(f))
  <2>1. f = <<>> => output \o f = output /\ Terminated(f)
    BY <1>1 DEF Terminated
  <2>2. f # <<>> => (Terminated(output \o f) <=> Terminated(f))
    BY <1>1, GluedReads
  <2> QED BY <2>1, <2>2
<1>7. /\ Cardinality(A) + (IF Terminated(output) THEN 0 ELSE 2)
           + (Cardinality(G) + 2 * Cardinality(O)) <= 2 * t
      /\ Due(next + 1) = Cardinality(H) + 2 * Cardinality(Q)
  BY <1>1 DEF LossInv, Due
<1> DEFINE after == Terminated(output \o f)
<1> HIDE DEF f, A, S, G, B, H, O, Q, t, after
<1>8. IsFiniteSet(B) /\ Cardinality(G) = Cardinality(B) + Cardinality(H)
  <2>1. IsFiniteSet(B)
    BY <1>2, <1>3, FS_Subset
  <2>2. Cardinality(B \cup H)
          = Cardinality(B) + Cardinality(H) - Cardinality(B \cap H)
    BY <1>2, <2>1, FS_Union
  <2>3. Cardinality(B) \in Nat /\ Cardinality(H) \in Nat
    BY <1>2, <2>1, FS_CardinalityType
  <2> QED BY <1>3, <2>1, <2>2, <2>3, FS_EmptySet
<1>9. /\ IsFiniteSet(A \cup B)
      /\ Cardinality(A \cup B) <= Cardinality(A) + Cardinality(B)
  <2>1. /\ IsFiniteSet(A \cup B) /\ IsFiniteSet(A \cap B)
        /\ Cardinality(A \cup B)
             = Cardinality(A) + Cardinality(B) - Cardinality(A \cap B)
    BY <1>2, <1>8, FS_Union, FS_Intersection
  <2>2. /\ Cardinality(A) \in Nat /\ Cardinality(B) \in Nat
        /\ Cardinality(A \cap B) \in Nat
    BY <1>2, <1>8, <2>1, FS_CardinalityType
  <2> QED BY <2>1, <2>2
<1>10. /\ Cardinality(A) \in Nat /\ Cardinality(B) \in Nat
       /\ Cardinality(H) \in Nat /\ Cardinality(O) \in Nat
       /\ Cardinality(Q) \in Nat /\ Cardinality(S) \in Nat
       /\ Cardinality(A \cup B) \in Nat
  BY <1>2, <1>8, <1>9, FS_CardinalityType
<1>11. \/ Cardinality(S) <= Cardinality(A \cup B)
       \/ /\ ~Terminated(output) /\ f # <<>>
          /\ Cardinality(S) <= Cardinality(A \cup B) + 2
  <2>1. CASE S \subseteq A \cup B
    BY <1>9, <2>1, CountUpTo
  <2>2. ASSUME NEW a, NEW b, S \subseteq (A \cup B) \cup {a, b}
        PROVE  Cardinality(S) <= Cardinality(A \cup B) + 2
    BY <1>9, <2>2, CountUpTo
  <2> QED BY <1>4, <2>1, <2>2
<1>12. /\ Terminated(f) => Cardinality(Q) <= Cardinality(O)
       /\ ~Terminated(f) => Cardinality(Q) <= Cardinality(O) - 1
  BY <1>2, <1>5, CountUpTo
<1>13. Cardinality(S) + (IF after THEN 0 ELSE 2)
         + (Cardinality(H) + 2 * Cardinality(Q)) <= 2 * t
  <2>1. f = <<>> => (after <=> Terminated(output)) /\ Terminated(f)
    BY <1>6 DEF after
  <2>2. f # <<>> => (after <=> Terminated(f))
    BY <1>6 DEF after
  <2>3. t \in Nat
    BY <1>1 DEF t
  <2> DEFINE e == IF Terminated(output) THEN 0 ELSE 2
             x == IF after THEN 0 ELSE 2
             y == IF Terminated(f) THEN 0 ELSE 1
  <2>4. e \in Nat /\ x \in Nat /\ y \in Nat
    OBVIOUS
  <2>5. Cardinality(Q) + y <= Cardinality(O)
    BY <1>10, <1>12
  <2>6. \/ Cardinality(S) <= Cardinality(A \cup B) + e /\ x = 2 * y
        \/ Cardinality(S) <= Cardinality(A \cup B) /\ x = e
    <3>1. CASE f = <<>>
      BY <1>11, <2>1, <3>1
    <3>2. CASE f # <<>>
      <4>1. x = 2 * y
        BY <2>2, <3>2
      <4>2. Cardinality(S) <= Cardinality(A \cup B) + e
        BY <1>10, <1>11
      <4> QED BY <4>1, <4>2
    <3> QED BY <3>1, <3>2
  <2>7. Cardinality(A) + e
          + ((Cardinality(B) + Cardinality(H)) + 2 * Cardinality(O)) <= 2 * t
    BY <1>7, <1>8
  <2> HIDE DEF e, x, y
  <2>8. Cardinality(S) + x + (Cardinality(H) + 2 * Cardinality(Q)) <= 2 * t
    BY <1>9, <1>10, <2>3, <2>4, <2>5, <2>6, <2>7, GlueArithmetic
  <2> QED BY <2>8 DEF x
<1> QED BY <1>2, <1>7, <1>13 DEF S, t, after, f

\* Steps of the workers and of others that are done with, while the aggregate
\* and the sweep stay, take nothing from it.
LEMMA NothingNewLost ==
  ASSUME TypeInv, [Next]_vars, ~StartSweep, UNCHANGED output,
         NEW c \in Config, Sweeps # 0,
         c \notin Recorded(output') \cup givenUp' \cup mistaken',
         worker'[Owner(c)'] # "died"
  PROVE  /\ Place(c)' = Place(c) /\ Owner(c)' = Owner(c)
         /\ c \notin Recorded(output) \cup givenUp \cup mistaken
         /\ worker[Owner(c)] # "died"
<1>1. /\ widths' = widths
      /\ givenUp \subseteq givenUp' /\ mistaken \subseteq mistaken'
  BY LoggedKept
<1>2. Place(c)' = Place(c) /\ Owner(c)' = Owner(c)
  BY <1>1 DEF Place, Owner, Sweeps, Width
<1>3. Owner(c) \in Proc
  BY OwnerTypes
<1>4. worker[Owner(c)] # "died"
  <2> SUFFICES ASSUME worker[Owner(c)] = "died" PROVE FALSE
    OBVIOUS
  <2>1. PICK q \in Proc : q = Owner(c)
    BY <1>3
  <2> QED BY <1>2, <2>1, WorkersKept
<1> QED BY <1>1, <1>2, <1>4 DEF Recorded

\* While the parent aggregates, it alone changes what it works on.
LEMMA ParentAtWork ==
  ASSUME [Next]_vars, parent \in {"aggregating", "done"}, parent' = parent,
         ~Aggregate
  PROVE  ~StartSweep /\ UNCHANGED <<output, next, widths>>
BY DEF Next, ParentStep, WorkerStep, StartSweep, StartWorker, Join, KillParent,
       Load, AppendEntry, Raise, WriteError, KillWorker, vars, parentVars

\* How the parent gets where it is.
LEMMA ParentMoves ==
  ASSUME [Next]_vars
  PROVE  /\ parent' = "starting" =>
              StartSweep \/ StartWorker \/ UNCHANGED <<parent, next, widths>>
         /\ parent' = "aggregating" => Join \/ parent = "aggregating"
         /\ parent' = "done" => Aggregate \/ parent = "done"
BY DEF Next, ParentStep, WorkerStep, StartSweep, StartWorker, Join, Aggregate,
       KillParent, Load, AppendEntry, Raise, WriteError, KillWorker, vars,
       parentVars

LEMMA InRange ==
  ASSUME NEW m \in Nat, NEW i \in 0..(m - 1)
  PROVE  i \in Nat /\ i < m
OBVIOUS

\* The workers of the sweep while they are started ...
LEMMA StartedStep ==
  ASSUME TypeInv, TypeInv', LossInv, [Next]_vars, parent' = "starting"
  PROVE  \A i \in 0..(next' - 1) : worker'[<<Sweeps', i>>] # "none"
<1>a. next \in Nat /\ next' \in Nat
  BY DEF TypeInv, TypeOK
<1> PICK m \in Nat : m = next'
  BY <1>a
<1> SUFFICES ASSUME NEW i \in 0..(m - 1)
             PROVE  worker'[<<Sweeps', i>>] # "none"
  OBVIOUS
<1>b. i \in Nat /\ i < next'
  BY InRange
<1>1. CASE StartSweep
  BY <1>1 DEF StartSweep
<1>2. CASE UNCHANGED <<parent, next, widths>> \/ StartWorker
  <2>1. /\ parent = "starting" /\ Sweeps' = Sweeps
        /\ next' \in {next, next + 1}
        /\ Sweeps \in 1..MaxSweeps
        /\ next' <= Width' /\ Width' = Width
    BY <1>2 DEF StartWorker, TypeInv, TypeOK, Cursor, Sweeps, Width
  <2>2. Width \in Nat /\ \A j \in 0..(Width - 1) : j \in Index
    <3>1. Sweeps \in 1..Sweeps
      BY <2>1
    <3> QED BY <3>1, WidthTypes DEF TypeInv, Width
  <2>3. PICK q \in Proc : q = <<Sweeps, i>>
    <3>1. i \in 0..(Width - 1)
      BY <1>a, <1>b, <2>1, <2>2
    <3> QED BY <2>1, <2>2, <3>1 DEF Proc
  <2>4. CASE i < next
    <3>1. i \in 0..(next - 1)
      BY <1>a, <1>b, <2>4
    <3>2. worker[q] # "none"
      BY <2>1, <2>3, <3>1 DEF LossInv
    <3> QED BY <2>1, <2>3, <3>2, WorkersKept
  <2>5. CASE ~(i < next)
    <3>1. StartWorker /\ i = next
      BY <1>a, <1>b, <1>2, <2>1, <2>5
    <3>2. worker' = [worker EXCEPT ![q] = "loading"]
      BY <2>3, <3>1 DEF StartWorker
    <3> QED BY <2>1, <2>3, <3>2 DEF TypeInv, TypeOK
  <2> QED BY <2>4, <2>5
<1> QED BY <1>1, <1>2, ParentMoves

\* ... and while their shards are aggregated.
LEMMA JoinedStep ==
  ASSUME TypeInv, LossInv, [Next]_vars, parent' = "aggregating"
  PROVE  (\A i \in 0..(Width - 1) :
            worker[<<Sweeps, i>>] # "none" /\ ~Live(<<Sweeps, i>>))'
<1>1. parent = "aggregating" \/ Join
  BY ParentMoves
<1>2. /\ Sweeps \in 1..MaxSweeps /\ Sweeps' = Sweeps /\ Width' = Width
      /\ ~StartSweep
  <2>1. ~StartSweep
    BY DEF StartSweep
  <2> QED BY <1>1, <2>1, LoggedKept DEF TypeInv, Cursor, Join, Sweeps, Width
<1>3. \A i \in 0..(Width - 1) :
        worker[<<Sweeps, i>>] # "none" /\ ~Live(<<Sweeps, i>>)
  <2>1. CASE parent = "aggregating"
    BY <2>1 DEF LossInv
  <2>2. CASE Join
    BY <2>2 DEF Join, Joined, LossInv
  <2> QED BY <1>1, <2>1, <2>2
<1>4. ASSUME NEW i \in 0..(Width - 1)
      PROVE  /\ worker'[<<Sweeps, i>>] # "none"
             /\ worker'[<<Sweeps, i>>] # "loading"
             /\ ~(worker'[<<Sweeps, i>>] = "running" /\ todo'[<<Sweeps, i>>] # {})
  <2>1. PICK q \in Proc : q = <<Sweeps, i>>
    <3>1. i \in Index
      <4>1. Sweeps \in 1..Sweeps
        BY <1>2
      <4> QED BY <4>1, WidthTypes DEF TypeInv, Width
    <3> QED BY <1>2, <3>1 DEF Proc
  <2>2. worker[q] # "none" /\ ~Live(q)
    BY <1>3, <2>1
  <2>3. worker'[q] # "none" /\ ~Live(q)'
    BY <2>2, WorkersKept
  <2> QED BY <2>1, <2>3 DEF Live, Busy
<1> QED BY <1>2, <1>4 DEF Live, Busy

LEMMA TearsGrow ==
  ASSUME TypeInv, [Next]_vars
  PROVE  tears <= tears' /\ tears \in Nat /\ tears' \in Nat
<1>1. tears' = tears \/ tears' = tears + 1
  BY DEF Next, ParentStep, WorkerStep, StartSweep, StartWorker, Join, Aggregate,
         KillParent, Load, AppendEntry, Raise, WriteError, KillWorker, vars
<1> QED BY <1>1 DEF TypeInv, TypeOK

\* What the aggregate lacks while the parent works on it: what the next shard
\* adds, and no more.
LEMMA AggregateStep ==
  ASSUME TypeInv, TypeInv', LossInv, [Next]_vars, parent' = "aggregating"
  PROVE  (Cardinality(LostSoFar) + (IF Terminated(output) THEN 0 ELSE 2)
            + Due(next))' <= 2 * tears'
<1>1. CASE Join
  <2>1. next' = 0 /\ output' = <<>> /\ widths' = widths /\ Sweeps # 0
    BY <1>1 DEF Join, TypeInv, Cursor
  <2>2. ASSUME NEW c \in LostSoFar' PROVE FALSE
    <3>1. c \in Config /\ Place(c)' < 0
      BY <2>1, <2>2 DEF LostSoFar
    <3>2. Place(c)' = Place(c)
      BY <2>1 DEF Place, Sweeps, Width
    <3>3. Place(c) \in 0..(Width - 1) /\ Width \in Nat
      BY <2>1, <3>1, OwnerTypes
    <3> QED BY <3>1, <3>2, <3>3
  <2>3. Cardinality(LostSoFar)' = 0
    BY <2>2, FS_EmptySet
  <2>4. Terminated(output)'
    BY <2>1 DEF Terminated
  <2>5. Due(next)' = Due(0)'
    BY <2>1 DEF Due, Gone, Open
  <2>6. Due(0)' <= 2 * tears' /\ Due(0)' \in Nat
    <3>1. PICK k \in Nat : k = 0
      OBVIOUS
    <3>2. Due(k)' + 2 * tears <= Due(k) + 2 * tears' /\ Due(k)' \in Nat
            /\ tears \in Nat /\ tears' \in Nat
      BY DueStep
    <3>3. Due(k) <= 2 * tears /\ Due(k) \in Nat
      BY <3>1, FiniteSets DEF LossInv, Due
    <3> QED BY <3>1, <3>2, <3>3
  <2> HIDE DEF LostSoFar
  <2> QED BY <2>3, <2>4, <2>5, <2>6
<1>2. CASE Aggregate
  <2>1. /\ next' = next + 1 /\ output' = output \o shard[next]
        /\ UNCHANGED <<shard, widths, worker, todo, givenUp, mistaken, tears>>
        /\ next \in Nat /\ Sweeps # 0
    BY <1>2 DEF Aggregate, Copied, workerVars, TypeInv, TypeOK, Cursor
  <2>2. LostSoFar' = LostWithNext
    <3>1. ASSUME NEW c \in Config
          PROVE  Place(c)' = Place(c) /\ Owner(c)' = Owner(c)
                 /\ (Place(c) < next + 1 <=> Place(c) <= next)
      <4>1. Place(c) \in 0..(Width - 1) /\ Width \in Nat
        BY <2>1, OwnerTypes
      <4> QED BY <2>1, <4>1 DEF Place, Owner, Sweeps, Width
    <3> QED BY <2>1, <3>1 DEF LostSoFar, LostWithNext
  <2>3. Due(next)' = Due(next + 1)
    BY <2>1 DEF Due, Gone, Open, Place, Owner, Sweeps, Width
  <2> QED BY <1>2, <2>1, <2>2, <2>3, GluePays
<1>3. CASE parent = "aggregating" /\ ~Aggregate
  <2>1. ~StartSweep /\ UNCHANGED <<output, next, widths>>
    BY <1>3, ParentAtWork
  <2>2. Sweeps # 0 /\ next \in Nat
    BY <1>3 DEF TypeInv, TypeOK, Cursor
  <2>3. LostSoFar' \subseteq LostSoFar
    <3>1. ASSUME NEW c \in LostSoFar' PROVE c \in LostSoFar
      <4>1. /\ c \in Config /\ Place(c)' < next
            /\ c \notin Recorded(output') \cup givenUp' \cup mistaken'
            /\ worker'[Owner(c)'] # "died"
        BY <2>1 DEF LostSoFar, Recorded
      <4>2. Owner(c)' = Owner(c) /\ Place(c)' = Place(c)
        BY <2>1 DEF Owner, Place, Sweeps, Width
      <4>3. worker'[Owner(c)] # "died"
        BY <4>1, <4>2
      <4>4. /\ c \notin Recorded(output) \cup givenUp \cup mistaken
            /\ worker[Owner(c)] # "died"
        BY <2>1, <2>2, <4>1, <4>3, NothingNewLost
      <4> QED BY <4>1, <4>2, <4>4 DEF LostSoFar
    <3> QED BY <3>1
  <2>4. /\ IsFiniteSet(LostSoFar) /\ Cardinality(LostSoFar)' \in Nat
        /\ Cardinality(LostSoFar)' <= Cardinality(LostSoFar)
        /\ Cardinality(LostSoFar) \in Nat
    <3>1. PICK S : S = LostSoFar'
      OBVIOUS
    <3>2. IsFiniteSet(LostSoFar) /\ S \subseteq LostSoFar
      BY <2>2, <2>3, <3>1, FiniteSets
    <3>3. /\ Cardinality(S) <= Cardinality(LostSoFar) /\ IsFiniteSet(S)
          /\ Cardinality(LostSoFar) \in Nat
      BY <3>2, CountUpTo
    <3>4. Cardinality(S) \in Nat
      BY <3>3, FS_CardinalityType
    <3> QED BY <3>1, <3>2, <3>3, <3>4
  <2>5. PICK k \in Nat : k = next
    BY <2>2
  <2>6. Due(k)' + 2 * tears <= Due(k) + 2 * tears' /\ Due(k)' \in Nat
          /\ tears \in Nat /\ tears' \in Nat
    BY DueStep
  <2>7. Due(next)' = Due(k)' /\ Due(next) = Due(k)
    BY <2>1, <2>5 DEF Due, Gone, Open
  <2>8. Cardinality(LostSoFar) + (IF Terminated(output) THEN 0 ELSE 2) + Due(k)
          <= 2 * tears /\ Due(k) \in Nat
    BY <1>3, <2>7, FiniteSets DEF LossInv, Due
  <2>9. Terminated(output)' = Terminated(output)
    BY <2>1 DEF Terminated
  <2> DEFINE x == IF Terminated(output) THEN 0 ELSE 2
  <2>10. x \in Nat /\ (IF Terminated(output) THEN 0 ELSE 2)' = x
    BY <2>9
  <2> HIDE DEF x
  <2>11. Cardinality(LostSoFar)' + x + Due(k)' <= 2 * tears'
    <3>1. Cardinality(LostSoFar) + x + Due(k) <= 2 * tears
      BY <2>8 DEF x
    <3> HIDE DEF LostSoFar
    <3> QED BY <2>4, <2>6, <2>8, <2>10, <3>1
  <2> QED BY <2>7, <2>10, <2>11
<1> QED BY <1>1, <1>2, <1>3, ParentMoves

\* What the aggregate of a finished sweep lacks.
LEMMA DoneStep ==
  ASSUME TypeInv, TypeInv', LossInv, [Next]_vars
  PROVE  LossIsBounded'
<1> SUFFICES ASSUME parent' = "done" PROVE Cardinality(Lost)' <= 2 * tears'
  BY DEF LossIsBounded
<1>0. IsFiniteSet(Config)
  BY FiniteSets
<1>1. CASE Aggregate
  <2>1. /\ output' = output \o shard[next] /\ next + 1 >= Width
        /\ UNCHANGED <<shard, widths, worker, todo, givenUp, mistaken, tears>>
        /\ next \in Nat /\ Sweeps # 0
    <3>1. /\ Sweeps \in 1..Sweeps /\ next \in Nat /\ ~(next + 1 < Width)
      BY <1>1 DEF Aggregate, TypeInv, TypeOK, Cursor
    <3>2. Width \in Nat
      BY <3>1, WidthTypes DEF TypeInv, Width
    <3> QED BY <1>1, <3>1, <3>2 DEF Aggregate, Copied, workerVars
  <2>2. ASSUME NEW c \in Lost' PROVE c \in LostWithNext
    <3>1. /\ c \in Config /\ c \notin Recorded(output \o shard[next])
          /\ c \notin givenUp \cup mistaken
          /\ worker[Owner(c)] # "died"
      BY <2>1 DEF Lost, Owner, Place, Sweeps, Width, Recorded
    <3>2. Place(c) \in 0..(Width - 1) /\ Width \in Nat
      BY <2>1, <3>1, OwnerTypes
    <3>3. Place(c) <= next
      BY <2>1, <3>2
    <3> QED BY <3>1, <3>3 DEF LostWithNext
  <2>3. /\ Cardinality(LostWithNext)
             + (IF Terminated(output \o shard[next]) THEN 0 ELSE 2)
             + Due(next + 1) <= 2 * tears
        /\ IsFiniteSet(LostWithNext)
    BY <1>1, GluePays
  <2>4. Due(next + 1) \in Nat
    <3>1. PICK k \in Nat : k = next + 1
      BY <2>1
    <3>2. Due(k) \in Nat
      BY FiniteSets DEF Due
    <3> QED BY <3>1, <3>2
  <2>5. PICK S : S = Lost'
    OBVIOUS
  <2>6. /\ Cardinality(S) <= Cardinality(LostWithNext) /\ IsFiniteSet(S)
        /\ Cardinality(LostWithNext) \in Nat
    BY <2>2, <2>3, <2>5, CountUpTo
  <2>7. Cardinality(S) \in Nat /\ tears \in Nat
    BY <2>6, FS_CardinalityType DEF TypeInv, TypeOK
  <2> DEFINE x == IF Terminated(output \o shard[next]) THEN 0 ELSE 2
  <2>8. x \in Nat
    OBVIOUS
  <2> HIDE DEF x
  <2>9. Cardinality(LostWithNext) + x + Due(next + 1) <= 2 * tears
    BY <2>3 DEF x
  <2>10. Cardinality(S) <= 2 * tears
    BY <2>4, <2>6, <2>7, <2>8, <2>9
  <2> QED BY <2>1, <2>5, <2>10
<1>2. CASE parent = "done" /\ ~Aggregate
  <2>1. ~StartSweep /\ UNCHANGED <<output, next, widths>>
    BY <1>2, ParentAtWork
  <2>2. Sweeps # 0
    BY <1>2 DEF TypeInv, Cursor
  <2>3. ASSUME NEW c \in Lost' PROVE c \in Lost
    <3>1. /\ c \in Config
          /\ c \notin Recorded(output') \cup givenUp' \cup mistaken'
          /\ worker'[Owner(c)'] # "died"
      BY DEF Lost, Owner, Place, Recorded
    <3>2. Owner(c)' = Owner(c)
      BY <2>1 DEF Owner, Place, Sweeps, Width
    <3>3. worker'[Owner(c)] # "died"
      BY <3>1, <3>2
    <3>4. /\ c \notin Recorded(output) \cup givenUp \cup mistaken
          /\ worker[Owner(c)] # "died"
      BY <2>1, <2>2, <3>1, <3>3, NothingNewLost
    <3> QED BY <3>1, <3>4 DEF Lost, Owner, Place
  <2>4. Cardinality(Lost) <= 2 * tears
    BY <1>2 DEF LossInv, LossIsBounded
  <2>5. IsFiniteSet(Lost)
    <3>1. Lost \subseteq Config
      BY DEF Lost
    <3> QED BY <1>0, <3>1, FS_Subset
  <2>6. PICK S : S = Lost'
    OBVIOUS
  <2>7. /\ Cardinality(S) <= Cardinality(Lost) /\ IsFiniteSet(S)
        /\ Cardinality(Lost) \in Nat
    BY <2>3, <2>5, <2>6, CountUpTo
  <2>8. Cardinality(S) \in Nat
    BY <2>7, FS_CardinalityType
  <2>9. tears <= tears' /\ tears \in Nat /\ tears' \in Nat
    BY TearsGrow
  <2>10. Cardinality(S) <= 2 * tears'
    BY <2>4, <2>7, <2>8, <2>9
  <2> QED BY <2>6, <2>10
<1> QED BY <1>1, <1>2, ParentMoves

LEMMA LossStep ==
  ASSUME TypeInv, TypeInv', LossInv, [Next]_vars
  PROVE  LossInv'
<1>1. Due(0)' <= 2 * tears'
  <2>1. PICK k \in Nat : k = 0
    OBVIOUS
  <2>2. Due(k)' + 2 * tears <= Due(k) + 2 * tears' /\ Due(k)' \in Nat
          /\ tears \in Nat /\ tears' \in Nat
    BY DueStep
  <2>3. Due(k) <= 2 * tears /\ Due(k) \in Nat
    BY <2>1, FiniteSets DEF LossInv, Due
  <2> QED BY <2>1, <2>2, <2>3
<1>2. parent' = "starting" =>
        \A i \in 0..(next' - 1) : worker'[<<Sweeps', i>>] # "none"
  BY StartedStep
<1>3. parent' = "aggregating" =>
        (\A i \in 0..(Width - 1) :
           worker[<<Sweeps, i>>] # "none" /\ ~Live(<<Sweeps, i>>))'
  BY JoinedStep
<1>4. parent' = "aggregating" =>
        (Cardinality(LostSoFar) + (IF Terminated(output) THEN 0 ELSE 2)
           + Due(next))' <= 2 * tears'
  BY AggregateStep
<1>5. LossIsBounded'
  BY DoneStep
<1> QED BY <1>1, <1>2, <1>3, <1>4, <1>5 DEF LossInv

\* (LossIsBounded) What the aggregate of a finished sweep lacks although its
\* worker neither died nor logged it nor skipped it for another's record with
\* the same hash are at most two configurations for each write that stopped
\* part-way, in any sweep on these shards: join ignores exit codes, and the
\* shards are glued together without a look at them.
THEOREM LossBounded == Spec => []LossIsBounded
<1>1. Init => LossInv
  <2> SUFFICES ASSUME Init PROVE LossInv
    OBVIOUS
  <2>1. Gone(0) = {}
    BY DEF Init, Gone, Sweeps
  <2>2. Open(0) = {}
    BY DEF Init, Open, Terminated
  <2>3. Due(0) = 0
    BY <2>1, <2>2, FS_EmptySet DEF Due
  <2> QED BY <2>3 DEF Init, LossInv, LossIsBounded
<1>2. TypeInv /\ TypeInv' /\ LossInv /\ [Next]_vars => LossInv'
  BY LossStep
<1>3. LossInv => LossIsBounded
  BY DEF LossInv
<1> QED BY <1>1, <1>2, <1>3, ParallelTypeCorrect, PTL DEF Spec
=============================================================================
