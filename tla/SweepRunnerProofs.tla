------------------------- MODULE SweepRunnerProofs -------------------------
(***************************************************************************)
(* What SweepRunner guarantees for any number of configurations, processes  *)
(* and faults.                                                              *)
(***************************************************************************)
EXTENDS SweepRunner, ResultLogProofs, FiniteSetTheorems

Piece == Record \cup {NL, Torn}

\* No two configurations ever share a hash, within a process or across.
NoCollisions ==
  \A g, h \in HashFns : \A c, d \in Config : g[c] = h[d] => c = d

\* Every process computes the same hashes.
StableHashing == \A g, h \in HashFns : g = h

\* The loop index names a configuration while one is being worked on.
AtConfig ==
  /\ pc \in {"evaluating", "appending", "recording"} => i \in Config
  /\ pc = "done" => i = N + 1

TypeInv == TypeOK /\ AtConfig

\* What a process is about to write is a record.
LEMMA PendingIsRecord ==
  ASSUME TypeInv, pc \in {"appending", "recording"}
  PROVE  /\ Pending \in Record
         /\ Pending \in Piece /\ NL \in Piece /\ Torn \in Piece
         /\ IsRecord(Pending)
         /\ Pending.config = i /\ Pending.hash = hash[i]
<1>1. i \in Config /\ hash[i] \in Hashes
  BY SweepAssumption DEF TypeInv, AtConfig, TypeOK
<1>2. Pending \in Record /\ Pending.config = i /\ Pending.hash = hash[i]
  BY <1>1 DEF Pending, Entry, Record
<1>3. QED
  BY <1>2, RecordAssumption DEF IsRecord, Piece

\* The next state of the file after a whole append, and after a cut one.
LEMMA WholeAppend ==
  ASSUME TypeInv, AppendEntry
  PROVE  /\ file' \in Seq(Piece)
         /\ Extends(file', file)
         /\ Terminated(file')
         /\ Readable(file') \subseteq Readable(file) \cup {Pending}
         /\ Terminated(file) => Readable(file') = Readable(file) \cup {Pending}
<1>1. file \in Seq(Piece) /\ file' = AppendLine(file, Pending)
  BY DEF TypeInv, TypeOK, AppendEntry, Piece
<1>2. Pending \in Piece /\ NL \in Piece /\ IsRecord(Pending)
  BY PendingIsRecord DEF AppendEntry
<1>3. file' \in Seq(Piece) /\ Extends(file', file) /\ Terminated(file')
  BY <1>1, <1>2, AppendLineShape
<1>4. Readable(file') \subseteq Readable(file) \cup {Pending}
  BY <1>1, <1>2, AppendLineReads
<1>5. Terminated(file) => Readable(file') = Readable(file) \cup {Pending}
  BY <1>1, <1>2, CleanAppendReads
<1>6. QED
  BY <1>3, <1>4, <1>5

LEMMA CutAppend ==
  ASSUME TypeInv, pc \in {"appending", "recording"},
         file' \in PartialAppends(file, Pending)
  PROVE  /\ file' \in Seq(Piece)
         /\ Extends(file', file)
         /\ Readable(file') \subseteq Readable(file) \cup {Pending}
<1>1. file \in Seq(Piece)
  BY DEF TypeInv, TypeOK, Piece
<1>2. Pending \in Piece /\ Torn \in Piece
  BY PendingIsRecord
<1>3. file' \in Seq(Piece) /\ Extends(file', file)
  BY <1>1, <1>2, PartialShape
<1>4. Readable(file') \subseteq Readable(file) \cup {Pending}
  BY <1>1, <1>2, PartialReads
<1>5. QED
  BY <1>3, <1>4

\* Every step leaves the file alone or extends it.
LEMMA FileExtends ==
  ASSUME TypeInv, [Next]_vars
  PROVE  file' \in Seq(Piece) /\ Extends(file', file)
<1>0. file \in Seq(Piece)
  BY DEF TypeInv, TypeOK, Piece
<1>1. CASE UNCHANGED file
  BY <1>0, <1>1 DEF Extends
<1>2. CASE AppendEntry
  BY <1>2, WholeAppend
<1>3. CASE WriteError
  BY <1>3, CutAppend DEF WriteError
<1>4. CASE Kill
  BY <1>1, <1>4, CutAppend DEF Kill
<1>5. QED
  BY <1>1, <1>2, <1>3, <1>4
     DEF Next, vars, Progress, Restart, Rerun, Start, Skip, Begin, Return,
         Raise, Finish

\* What a reader loads from a file of pieces are records and hashes.
LEMMA LoadedTypes ==
  ASSUME NEW f \in Seq(Piece)
  PROVE  /\ Readable(f) \subseteq Record
         /\ LoadCompleted(f) \subseteq Hashes
<1>1. \A k \in ReadableAt(f) : f[k] \in Record
  BY DEF ReadableAt, IsRecord, Piece
<1>2. QED
  BY <1>1 DEF Readable, LoadCompleted, HashesIn, Record

\* Every treatment of an exception keeps the loop in the configuration list.
LEMMA ExceptTypes ==
  ASSUME TypeInv, pc \in {"evaluating", "appending", "recording"},
         Except \/ Exit
  PROVE  /\ pc' \in {"down", "loop", "recording"}
         /\ i' \in 1..(N + 1)
         /\ pc' = "recording" => i' \in Config
         /\ completed' \subseteq Hashes
         /\ givenUp' \subseteq Config
<1> USE SweepAssumption DEF Config
<1>0. i \in Config /\ completed \subseteq Hashes /\ givenUp \subseteq Config
  BY DEF TypeInv, TypeOK, AtConfig
<1>1. CASE RecordException
  BY <1>0, <1>1 DEF RecordException
<1>2. CASE LogException
  BY <1>0, <1>2 DEF LogException, Advance
<1>3. CASE Exit
  BY <1>0, <1>3 DEF Exit
<1>4. QED
  BY <1>1, <1>2, <1>3 DEF Except

----------------------------------------------------------------------------
\* The state of a sweep has the types declared for it, and the loop index
\* stays inside the configuration list.
THEOREM TypeCorrect == Spec => []TypeInv
<1>1. Init => TypeInv
  BY SweepAssumption DEF Init, TypeInv, TypeOK, AtConfig
<1>2. TypeInv /\ [Next]_vars => TypeInv'
  <2> SUFFICES ASSUME TypeInv, [Next]_vars
               PROVE  TypeInv'
    OBVIOUS
  <2> USE SweepAssumption DEF TypeInv, TypeOK, AtConfig, Config
  <2>0. file' \in Seq(Record \cup {NL, Torn})
    BY FileExtends DEF Piece
  <2>1. CASE Start
    <3>1. LoadCompleted(file) \subseteq Hashes
      BY LoadedTypes DEF Piece
    <3>2. Terminated(file) \in BOOLEAN
      BY DEF Terminated
    <3>3. QED
      BY <2>0, <2>1, <3>1, <3>2 DEF Start
  <2>2. CASE Skip
    BY <2>0, <2>2 DEF Skip, Advance
  <2>3. CASE Begin
    BY <2>0, <2>3 DEF Begin
  <2>4. CASE Return
    BY <2>0, <2>4 DEF Return
  <2>5. CASE AppendEntry
    BY <2>0, <2>5 DEF AppendEntry, Advance
  <2>6. CASE Finish
    BY <2>0, <2>6 DEF Finish
  <2>7. CASE Raise
    BY <2>0, <2>7, ExceptTypes DEF Raise
  <2>8. CASE WriteError
    <3>1. Except \/ Exit
      BY <2>8 DEF WriteError
    <3>2. pc \in {"evaluating", "appending", "recording"}
      BY <2>8 DEF WriteError
    <3>3. /\ pc' \in {"down", "loop", "recording"}
          /\ i' \in 1..(N + 1)
          /\ pc' = "recording" => i' \in Config
          /\ completed' \subseteq Hashes
          /\ givenUp' \subseteq Config
      BY <3>1, <3>2, ExceptTypes
    <3>4. faults' \in Nat /\ UNCHANGED <<policy, hash, poison, evaluated, runs>>
      BY <2>8 DEF WriteError
    <3>5. clean' \in BOOLEAN
      BY <2>8, Zenon DEF WriteError
    <3>6. QED
      BY <2>0, <3>3, <3>4, <3>5
  <2>9. CASE Kill
    BY <2>0, <2>9 DEF Kill, Exit
  <2>10. CASE UNCHANGED vars
    BY <2>0, <2>10 DEF vars
  <2>11. QED
    BY <2>1, <2>2, <2>3, <2>4, <2>5, <2>6, <2>7, <2>8, <2>9, <2>10
       DEF Next, Progress, Restart, Rerun
<1>3. QED
  BY <1>1, <1>2, PTL DEF Spec

----------------------------------------------------------------------------
\* Whatever is killed, cut short or started again, a record followed by its
\* line end stays in the file and readable.
THEOREM SealedSafe == Spec => SealedRecordsSurvive
<1>1. TypeInv /\ [Next]_vars => [Sealed(file) \subseteq Sealed(file')]_file
  <2> SUFFICES ASSUME TypeInv, [Next]_vars
               PROVE  Sealed(file) \subseteq Sealed(file')
    OBVIOUS
  <2>1. file \in Seq(Piece) /\ file' \in Seq(Piece) /\ Extends(file', file)
    BY FileExtends DEF TypeInv, TypeOK, Piece
  <2>2. QED
    BY <2>1, SealedExtends
<1>2. QED
  BY <1>1, TypeCorrect, PTL DEF Spec, SealedRecordsSurvive

----------------------------------------------------------------------------
\* Every record carries the hash some process computed for its configuration.
Attributed ==
  \A r \in Readable(file) : \E h \in HashFns : r.hash = h[r.config]

\* In a run whose file was and stayed terminated, a hash is completed only if
\* a readable record has it ...
CompletedIsBacked ==
  pc # "down" /\ clean =>
    /\ Terminated(file)
    /\ completed \subseteq HashesIn(file)

\* ... and every configuration passed was recorded or given up.
PassedIsRecorded ==
  pc # "down" /\ clean =>
    \A c \in 1..(i - 1) : hash[c] \in HashesIn(file) \/ c \in givenUp

CleanInv == Attributed /\ CompletedIsBacked /\ PassedIsRecorded

\* Attributed is inductive by itself.
LEMMA AttributedStep ==
  TypeInv /\ Attributed /\ [Next]_vars => Attributed'
<1> SUFFICES ASSUME TypeInv, Attributed, [Next]_vars
             PROVE  Attributed'
  OBVIOUS
<1>1. CASE UNCHANGED file
  BY <1>1 DEF Attributed
<1>2. ASSUME pc \in {"appending", "recording"},
             Readable(file') \subseteq Readable(file) \cup {Pending}
      PROVE  Attributed'
  <2>1. Pending.config = i /\ Pending.hash = hash[i] /\ hash \in HashFns
    BY <1>2, PendingIsRecord DEF TypeInv, TypeOK
  <2>2. QED
    BY <1>2, <2>1 DEF Attributed
<1>3. CASE AppendEntry
  BY <1>2, <1>3, WholeAppend DEF AppendEntry
<1>4. CASE WriteError
  BY <1>2, <1>4, CutAppend DEF WriteError
<1>5. CASE Kill
  BY <1>1, <1>2, <1>5, CutAppend DEF Kill
<1>6. QED
  BY <1>1, <1>3, <1>4, <1>5
     DEF Next, vars, Progress, Restart, Rerun, Start, Skip, Begin, Return,
         Raise, Finish

\* CleanInv is inductive.
LEMMA CleanStep ==
  TypeInv /\ CleanInv /\ [Next]_vars => CleanInv'
<1> SUFFICES ASSUME TypeInv, CleanInv, [Next]_vars
             PROVE  CleanInv'
  OBVIOUS
<1> USE DEF CleanInv
<1>0. i \in 1..(N + 1) /\ hash \in HashFns
  BY DEF TypeInv, TypeOK
<1>1. CASE Start
  <2>1. UNCHANGED file /\ completed' = HashesIn(file) /\ i' = 1
        /\ clean' = Terminated(file)
    BY <1>1 DEF Start, LoadCompleted
  <2>2. QED
    BY <2>1 DEF Attributed, CompletedIsBacked, PassedIsRecorded, HashesIn
<1>2. CASE Skip
  <2>1. /\ UNCHANGED <<file, pc, completed, hash, givenUp, clean>>
        /\ i' = i + 1
        /\ pc = "loop"
        /\ hash[i] \in completed
    BY <1>2 DEF Skip, Advance
  <2>2. Attributed' /\ CompletedIsBacked'
    BY <2>1 DEF Attributed, CompletedIsBacked, HashesIn
  <2>3. PassedIsRecorded'
    BY <1>0, <2>1, SweepAssumption
       DEF CompletedIsBacked, PassedIsRecorded, HashesIn
  <2>4. QED
    BY <2>2, <2>3
<1>3. CASE AppendEntry
  <2>1. /\ UNCHANGED <<hash, givenUp, clean>>
        /\ completed' = completed \cup {hash[i]}
        /\ i' = i + 1
        /\ pc \in {"appending", "recording"}
        /\ pc' = "loop"
    BY <1>3 DEF AppendEntry, Advance
  <2>2. /\ Terminated(file')
        /\ Readable(file') \subseteq Readable(file) \cup {Pending}
        /\ Terminated(file) => Readable(file') = Readable(file) \cup {Pending}
    BY <1>3, WholeAppend
  <2>3. Pending.config = i /\ Pending.hash = hash[i]
    BY <2>1, PendingIsRecord
  <2>4. Attributed'
    BY <1>0, <2>2, <2>3 DEF Attributed
  <2>5. clean => HashesIn(file') = HashesIn(file) \cup {hash[i]}
    BY <2>1, <2>2, <2>3 DEF CompletedIsBacked, HashesIn
  <2>6. HashesIn(file)' = HashesIn(file')
    BY DEF HashesIn
  <2>7. CompletedIsBacked'
    BY <2>1, <2>2, <2>5, <2>6 DEF CompletedIsBacked
  <2>8. PassedIsRecorded'
    BY <1>0, <2>1, <2>5, <2>6, SweepAssumption DEF PassedIsRecorded
  <2>9. QED
    BY <2>4, <2>7, <2>8
<1>4. CASE Raise
  <2>1. UNCHANGED <<file, hash, clean>> /\ pc = "evaluating"
    BY <1>4 DEF Raise
  <2>2. Attributed'
    BY <2>1 DEF Attributed
  <2>3. CASE pc' = "down"
    BY <2>2, <2>3 DEF CompletedIsBacked, PassedIsRecorded
  <2>4. CASE RecordException
    BY <2>1, <2>2, <2>4
       DEF RecordException, CompletedIsBacked, PassedIsRecorded, HashesIn
  <2>5. CASE LogException
    <3>1. /\ givenUp' = givenUp \cup {i} /\ i' = i + 1
          /\ UNCHANGED completed
      BY <2>5 DEF LogException, Advance
    <3>2. CompletedIsBacked'
      BY <2>1, <3>1 DEF CompletedIsBacked, HashesIn
    <3>3. PassedIsRecorded'
      BY <1>0, <2>1, <3>1, SweepAssumption DEF PassedIsRecorded, HashesIn
    <3>4. QED
      BY <2>2, <3>2, <3>3
  <2>6. QED
    BY <1>4, <2>3, <2>4, <2>5 DEF Raise, Except, Exit
<1>5. CASE WriteError
  <2>1. Readable(file') \subseteq Readable(file) \cup {Pending}
    BY <1>5, CutAppend DEF WriteError
  <2>2. Pending.config = i /\ Pending.hash = hash[i]
    BY <1>5, PendingIsRecord DEF WriteError
  <2>3. Attributed'
    BY <1>0, <2>1, <2>2 DEF Attributed
  <2>4. clean' = FALSE
    BY <1>5 DEF WriteError
  <2>5. QED
    BY <2>3, <2>4 DEF CompletedIsBacked, PassedIsRecorded
<1>6. CASE Kill
  <2>1. pc' = "down"
    BY <1>6 DEF Kill, Exit
  <2>2. CASE UNCHANGED file
    BY <2>1, <2>2 DEF Attributed, CompletedIsBacked, PassedIsRecorded
  <2>3. CASE ~ UNCHANGED file
    <3>1. pc \in {"appending", "recording"}
          /\ file' \in PartialAppends(file, Pending)
      BY <1>6, <2>3 DEF Kill
    <3>2. Readable(file') \subseteq Readable(file) \cup {Pending}
      BY <3>1, CutAppend
    <3>3. Pending.config = i /\ Pending.hash = hash[i]
      BY <3>1, PendingIsRecord
    <3>4. Attributed'
      BY <1>0, <3>2, <3>3 DEF Attributed
    <3>5. QED
      BY <2>1, <3>4 DEF CompletedIsBacked, PassedIsRecorded
  <2>4. QED
    BY <2>2, <2>3
<1>7. CASE Begin \/ Return \/ Finish \/ UNCHANGED vars
  <2>1. UNCHANGED <<file, i, completed, hash, givenUp, clean>>
        /\ (pc' = "down" => pc = "down") /\ (pc = "down" => pc' = "down")
    BY <1>7 DEF Begin, Return, Finish, vars
  <2>2. QED
    BY <2>1 DEF Attributed, CompletedIsBacked, PassedIsRecorded, HashesIn
<1>8. QED
  BY <1>1, <1>2, <1>3, <1>4, <1>5, <1>6, <1>7
     DEF Next, Progress, Restart, Rerun

\* Without hash collisions, what a clean run has passed is recorded itself.
LEMMA PassedOnce ==
  ASSUME NoCollisions, TypeInv, CleanInv, pc # "down", clean,
         NEW c \in 1..(i - 1), c \notin givenUp
  PROVE  c \in Recorded(file)
<1>1. c \in Config /\ hash \in HashFns
  BY SweepAssumption DEF TypeInv, TypeOK, Config
<1>2. hash[c] \in HashesIn(file)
  BY DEF CleanInv, PassedIsRecorded
<1>3. PICK r \in Readable(file) : r.hash = hash[c]
  BY <1>2 DEF HashesIn
<1>4. PICK h \in HashFns : r.hash = h[r.config]
  BY DEF CleanInv, Attributed
<1>5. r.config \in Config
  BY LoadedTypes DEF TypeInv, TypeOK, Piece, Record
<1>6. r.config = c
  BY <1>1, <1>3, <1>4, <1>5 DEF NoCollisions
<1> QED BY <1>6 DEF Recorded

\* Without hash collisions, a run that starts on a terminated file and has no
\* failed write leaves a readable record of every configuration it did not
\* give up: resuming after any number of kills loses nothing.
THEOREM CleanRuns ==
  ASSUME NoCollisions
  PROVE  Spec => []CleanRunIsComplete
<1>1. Init => CleanInv
  BY DEF Init, CleanInv, Attributed, CompletedIsBacked, PassedIsRecorded,
         Readable, ReadableAt
<1>2. TypeInv /\ CleanInv => CleanRunIsComplete
  <2> SUFFICES ASSUME TypeInv, CleanInv, pc = "done", clean,
                      NEW c \in Config, c \notin givenUp
               PROVE  c \in Recorded(file)
    BY DEF CleanRunIsComplete
  <2>1. c \in 1..(i - 1)
    BY SweepAssumption DEF TypeInv, AtConfig, Config
  <2> QED BY <2>1, PassedOnce
<1>3. QED
  BY <1>1, <1>2, CleanStep, TypeCorrect, PTL DEF Spec

----------------------------------------------------------------------------
\* Any readable record of a configuration not yet passed was known when the
\* process started, with the one exception of a result whose write failed and
\* for which run_batch is about to record the failure.
Ahead ==
  pc # "down" =>
    \A r \in Readable(file) :
      \/ r.config < i
      \/ r.hash \in completed
      \/ pc = "recording" /\ r.config = i

\* Ahead is inductive.
LEMMA AheadStep ==
  TypeInv /\ Ahead /\ [Next]_vars => Ahead'
<1> SUFFICES ASSUME TypeInv, Ahead, [Next]_vars
             PROVE  Ahead'
  OBVIOUS
<1>0. /\ i \in 1..(N + 1)
      /\ \A r \in Readable(file) : r.config \in Nat
  BY LoadedTypes, SweepAssumption
     DEF TypeInv, TypeOK, Piece, Record, Config
<1> USE SweepAssumption
<1>1. CASE Start
  <2>1. UNCHANGED file /\ completed' = HashesIn(file)
    BY <1>1 DEF Start, LoadCompleted
  <2>2. QED
    BY <2>1 DEF Ahead, HashesIn
<1>2. CASE Skip
  <2>1. /\ UNCHANGED <<file, pc, completed, hash>>
        /\ i' = i + 1
        /\ pc = "loop"
    BY <1>2 DEF Skip, Advance
  <2>2. QED
    BY <1>0, <2>1 DEF Ahead
<1>3. CASE AppendEntry
  <2>1. /\ completed' = completed \cup {hash[i]}
        /\ i' = i + 1
        /\ pc \in {"appending", "recording"}
    BY <1>3 DEF AppendEntry, Advance
  <2>2. /\ Readable(file') \subseteq Readable(file) \cup {Pending}
        /\ Readable(file)' = Readable(file')
    BY <1>3, WholeAppend DEF Readable, ReadableAt, EndsLine, StartsLine
  <2>3. Pending.config = i /\ Pending.hash = hash[i]
    BY <2>1, PendingIsRecord
  <2>4. QED
    BY <1>0, <2>1, <2>2, <2>3 DEF Ahead
<1>4. CASE Raise
  <2>1. UNCHANGED file /\ pc = "evaluating"
    BY <1>4 DEF Raise
  <2>2. CASE RecordException
    BY <2>1, <2>2 DEF RecordException, Ahead
  <2>3. CASE LogException
    <3>1. i' = i + 1 /\ UNCHANGED completed
      BY <2>3 DEF LogException, Advance
    <3>2. QED
      BY <1>0, <2>1, <3>1 DEF Ahead
  <2>4. CASE Exit
    BY <2>4 DEF Exit, Ahead
  <2>5. QED
    BY <1>4, <2>2, <2>3, <2>4 DEF Raise, Except
<1>5. CASE WriteError
  <2>1. /\ Readable(file') \subseteq Readable(file) \cup {Pending}
        /\ Readable(file)' = Readable(file')
    BY <1>5, CutAppend DEF WriteError, Readable, ReadableAt, EndsLine, StartsLine
  <2>2. Pending.config = i /\ Pending.hash = hash[i]
    BY <1>5, PendingIsRecord DEF WriteError
  <2>3. CASE pc = "appending" /\ RecordException
    <3>1. pc' = "recording" /\ UNCHANGED <<i, completed>>
      BY <2>3 DEF RecordException
    <3>2. QED
      BY <2>1, <2>2, <2>3, <3>1 DEF Ahead
  <2>4. CASE pc = "appending" /\ LogException
    <3>1. i' = i + 1 /\ UNCHANGED completed
      BY <2>4 DEF LogException, Advance
    <3>2. QED
      BY <1>0, <2>1, <2>2, <2>4, <3>1 DEF Ahead
  <2>5. CASE Exit
    BY <2>5 DEF Exit, Ahead
  <2>6. QED
    BY <1>5, <2>3, <2>4, <2>5 DEF WriteError, Except
<1>6. CASE Kill
  BY <1>6 DEF Kill, Exit, Ahead
<1>7. CASE Begin \/ Return \/ Finish \/ UNCHANGED vars
  <2>1. UNCHANGED <<file, i, completed>>
        /\ (pc = "down" => pc' = "down")
        /\ (pc = "recording" => pc' = "recording")
    BY <1>7 DEF Begin, Return, Finish, vars
  <2>2. QED
    BY <2>1 DEF Ahead
<1>8. QED
  BY <1>1, <1>2, <1>3, <1>4, <1>5, <1>6, <1>7
     DEF Next, Progress, Restart, Rerun

\* When every process computes the same hashes, no evaluation starts for a
\* configuration that has a readable record, whatever was killed or cut short
\* before.
THEOREM Checkpointed ==
  ASSUME StableHashing
  PROVE  Spec => NoRework
<1>1. Init => Ahead /\ Attributed
  BY DEF Init, Ahead, Attributed, Readable, ReadableAt
<1>2. TypeInv /\ Ahead /\ Attributed /\ [Next]_vars
        => [pc' = "evaluating" /\ pc = "loop" => i \notin Recorded(file)]_<<pc, i, file>>
  <2> SUFFICES ASSUME TypeInv, Ahead, Attributed, [Next]_vars,
                      pc' = "evaluating", pc = "loop", i \in Recorded(file)
               PROVE  FALSE
    OBVIOUS
  <2>1. hash[i] \notin completed
    BY SweepAssumption
       DEF Next, vars, Progress, Restart, Rerun, Start, Skip, Begin, Return, Raise,
           AppendEntry, Finish, WriteError, Kill, Exit
  <2>2. PICK r \in Readable(file) : r.config = i
    BY DEF Recorded
  <2>3. PICK h \in HashFns : r.hash = h[r.config]
    BY DEF Attributed
  <2>4. r.hash = hash[i]
    BY <2>2, <2>3 DEF StableHashing, TypeInv, TypeOK
  <2>5. i \in Nat
    BY SweepAssumption DEF TypeInv, TypeOK
  <2>6. QED
    BY <2>1, <2>2, <2>4, <2>5 DEF Ahead
<1>3. QED
  BY <1>1, <1>2, AheadStep, AttributedStep, TypeCorrect, PTL DEF Spec, NoRework

----------------------------------------------------------------------------
\* While a configuration is worked on, no readable record is about it, except
\* one whose write failed before its line end: what is written next runs into
\* that record.
Fresh ==
  pc \in {"evaluating", "appending", "recording"} =>
    \A k \in ReadableAt(file) : file[k].config = i => k = Len(file)

DupInv == NoDuplicates /\ Fresh

\* A record of a configuration without another one is written, or cut.
LEMMA WriteFresh ==
  ASSUME TypeInv, DupInv, pc \in {"appending", "recording"},
         \/ file' = AppendLine(file, Pending)
         \/ file' \in PartialAppends(file, Pending)
  PROVE  /\ NoDuplicates'
         /\ file' \in PartialAppends(file, Pending) =>
              \A k \in ReadableAt(file') : file'[k].config = i => k = Len(file')
<1>1. /\ Pending \in Piece /\ NL \in Piece /\ Torn \in Piece
      /\ IsRecord(Pending) /\ Pending.config = i
      /\ file \in Seq(Piece)
  BY PendingIsRecord DEF TypeInv, TypeOK, Piece
<1>2. ASSUME NEW k \in ReadableAt(file')
      PROVE  \/ /\ k \in ReadableAt(file) /\ file'[k] = file[k]
                /\ file' = file \/ k < Len(file)
             \/ k = Len(file) + 1 /\ file'[k] = Pending /\ Len(file') >= k
  BY <1>1, ReadableAppended
<1>3. Len(file) \in Nat /\ ReadableAt(file) \subseteq 1..Len(file)
  BY <1>1 DEF ReadableAt
<1>4. ASSUME NEW j \in ReadableAt(file'), NEW k \in ReadableAt(file'),
             file'[j].config = file'[k].config, j < k
      PROVE  FALSE
  <2>1. CASE k \in ReadableAt(file) /\ file'[k] = file[k]
    <3>1. j \in ReadableAt(file) /\ file'[j] = file[j]
      BY <1>2, <1>3, <1>4, <2>1
    <3> QED BY <1>3, <1>4, <2>1, <3>1 DEF DupInv, NoDuplicates
  <2>2. CASE k = Len(file) + 1 /\ file'[k] = Pending /\ Len(file') >= k
    <3>1. /\ j \in ReadableAt(file) /\ file'[j] = file[j]
          /\ file' = file \/ j < Len(file)
      BY <1>2, <1>3, <1>4, <2>2
    <3>2. file' # file
      BY <1>3, <2>2
    <3>3. file[j].config = i
      BY <1>1, <1>4, <2>2, <3>1
    <3> QED BY <1>3, <3>1, <3>2, <3>3 DEF DupInv, Fresh
  <2> QED BY <1>2, <2>1, <2>2
<1>5. NoDuplicates'
  <2>1. \A k \in ReadableAt(file') : k \in Nat
    BY <1>2, <1>3
  <2>2. ReadableAt(file)' = ReadableAt(file')
    BY DEF ReadableAt, StartsLine, EndsLine
  <2> QED BY <1>4, <2>1, <2>2 DEF NoDuplicates
<1>6. ASSUME file' \in PartialAppends(file, Pending),
             NEW k \in ReadableAt(file'), file'[k].config = i
      PROVE  k = Len(file')
  <2>1. file' = file \/ Len(file') = Len(file) + 1
    BY <1>1, <1>6, PartialShape
  <2> QED BY <1>2, <1>3, <1>6, <2>1 DEF DupInv, Fresh
<1> QED BY <1>5, <1>6

LEMMA DupStep ==
  ASSUME StableHashing
  PROVE  TypeInv /\ Ahead /\ Attributed /\ DupInv /\ [Next]_vars => DupInv'
<1> SUFFICES ASSUME TypeInv, Ahead, Attributed, DupInv, [Next]_vars
             PROVE  DupInv'
  OBVIOUS
<1>0. UNCHANGED file =>
        /\ NoDuplicates'
        /\ ReadableAt(file)' = ReadableAt(file)
  BY DEF DupInv, NoDuplicates
<1>1. CASE Begin
  <2>1. UNCHANGED <<file, i>> /\ pc = "loop" /\ hash[i] \notin completed
    BY <1>1 DEF Begin
  <2>2. ASSUME NEW k \in ReadableAt(file), file[k].config = i
        PROVE  FALSE
    <3>1. file[k] \in Readable(file)
      BY DEF Readable
    <3>2. PICK h \in HashFns : file[k].hash = h[file[k].config]
      BY <3>1 DEF Attributed
    <3>3. file[k].hash = hash[i] /\ i \in Nat
      BY <2>2, <3>2, SweepAssumption DEF StableHashing, TypeInv, TypeOK
    <3> QED BY <2>1, <2>2, <3>1, <3>3 DEF Ahead
  <2> QED BY <1>0, <2>1, <2>2 DEF DupInv, Fresh
<1>2. CASE AppendEntry
  <2>1. pc' = "loop" /\ NoDuplicates'
    BY <1>2, WriteFresh DEF AppendEntry
  <2> QED BY <2>1 DEF DupInv, Fresh
<1>3. CASE WriteError
  <2>1. /\ pc \in {"appending", "recording"}
        /\ file' \in PartialAppends(file, Pending)
    BY <1>3 DEF WriteError
  <2>2. NoDuplicates'
    BY <2>1, WriteFresh
  <2>3. CASE pc' \in {"loop", "down"}
    BY <2>2, <2>3 DEF DupInv, Fresh
  <2>4. CASE RecordException
    <3>1. i' = i
      BY <2>4 DEF RecordException
    <3>2. \A k \in ReadableAt(file') : file'[k].config = i => k = Len(file')
      BY <2>1, WriteFresh
    <3>3. ReadableAt(file)' = ReadableAt(file')
      BY DEF ReadableAt, StartsLine, EndsLine
    <3> QED BY <2>2, <3>1, <3>2, <3>3 DEF DupInv, Fresh
  <2> QED
    BY <1>3, <2>3, <2>4 DEF WriteError, Except, LogException, Exit
<1>4. CASE Kill
  <2>1. pc' = "down"
    BY <1>4 DEF Kill, Exit
  <2>2. NoDuplicates'
    BY <1>0, <1>4, WriteFresh DEF Kill
  <2> QED BY <2>1, <2>2 DEF DupInv, Fresh
<1>5. CASE Return \/ Raise
  <2>1. UNCHANGED file /\ pc = "evaluating"
    BY <1>5 DEF Return, Raise
  <2>2. i' = i \/ pc' \in {"loop", "down"}
    BY <1>5 DEF Return, Raise, Except, RecordException, LogException, Exit
  <2> QED BY <1>0, <2>1, <2>2 DEF DupInv, Fresh
<1>6. CASE Start \/ Skip \/ Finish
  <2>1. UNCHANGED file /\ pc' \in {"loop", "done"}
    BY <1>6 DEF Start, Skip, Finish
  <2> QED BY <1>0, <2>1 DEF DupInv, Fresh
<1>7. CASE UNCHANGED vars
  BY <1>0, <1>7 DEF vars, DupInv, Fresh
<1> QED
  BY <1>1, <1>2, <1>3, <1>4, <1>5, <1>6, <1>7
     DEF Next, Progress, Restart, Rerun

\* When every process computes the same hashes, no configuration has two
\* readable records, whatever was killed, cut short or recorded as failed
\* after it had been written in part.
THEOREM NoneTwice ==
  ASSUME StableHashing
  PROVE  Spec => []NoDuplicates
<1>1. Init => Ahead /\ Attributed /\ DupInv
  BY DEF Init, Ahead, Attributed, DupInv, NoDuplicates, Fresh, Readable,
         ReadableAt
<1>2. DupInv => NoDuplicates
  BY DEF DupInv
<1>3. TypeInv /\ Ahead /\ Attributed /\ DupInv /\ [Next]_vars => DupInv'
  BY DupStep
<1> QED
  BY <1>1, <1>2, <1>3, AheadStep, AttributedStep, TypeCorrect, PTL DEF Spec

----------------------------------------------------------------------------
\* Results without a record that nothing can damage any more.
Unsafe == evaluated \ {r.config : r \in Sealed(file)}

\* A fault leaves at most the result at hand without a record, and a file
\* without a line end at its end; that file costs the next result as well.
LossInv ==
  /\ pc = "appending" => i \in evaluated
  /\ Cardinality(Unsafe) + (IF Terminated(file) THEN 0 ELSE 1)
       <= 2 * faults + (IF pc = "appending" /\ i \in Unsafe THEN 1 ELSE 0)

\* Every set of results has a size, and a part of it is not larger.
LEMMA ResultSizes ==
  ASSUME NEW A \in SUBSET Config, NEW B \in SUBSET A
  PROVE  /\ Cardinality(A) \in Nat /\ Cardinality(B) \in Nat
         /\ Cardinality(B) <= Cardinality(A)
         /\ \A c \in A : c \notin B => Cardinality(B) + 1 <= Cardinality(A)
<1>1. IsFiniteSet(Config)
  <2>1. 1 \in Int /\ N \in Int
    BY SweepAssumption
  <2> QED BY <2>1, FS_Interval DEF Config
<1>2. IsFiniteSet(A)
  BY <1>1, FS_Subset
<1>3. IsFiniteSet(B) /\ Cardinality(B) <= Cardinality(A)
  BY <1>2, FS_Subset
<1>4. Cardinality(A) \in Nat /\ Cardinality(B) \in Nat
  BY <1>2, <1>3, FS_CardinalityType
<1>5. ASSUME NEW c \in A, c \notin B
      PROVE  Cardinality(B) + 1 <= Cardinality(A)
  <2>1. B \cup {c} \in SUBSET A
    BY <1>5
  <2>2. Cardinality(B \cup {c}) = Cardinality(B) + 1
    BY <1>3, <1>5, FS_AddElement
  <2> QED BY <1>2, <2>1, <2>2, FS_Subset
<1> QED BY <1>3, <1>4, <1>5

\* A whole append to a terminated file seals its record.
LEMMA AppendSeals ==
  ASSUME TypeInv, AppendEntry, Terminated(file)
  PROVE  Pending \in Sealed(file')
<1>1. /\ file' \in Seq(Piece) /\ Terminated(file')
      /\ Pending \in Readable(file')
  BY WholeAppend
<1>2. PICK k \in ReadableAt(file') : file'[k] = Pending
  BY <1>1 DEF Readable
<1>3. k \in 1..Len(file') /\ file'[k] # NL /\ file' # <<>>
  BY <1>1, <1>2 DEF ReadableAt, IsRecord
<1>4. k < Len(file')
  BY <1>1, <1>3 DEF Terminated
<1> QED BY <1>2, <1>4 DEF Sealed

LEMMA LossStep ==
  TypeInv /\ LossInv /\ [Next]_vars => LossInv'
<1> SUFFICES ASSUME TypeInv, LossInv, [Next]_vars
             PROVE  LossInv'
  OBVIOUS
<1>0. /\ evaluated \in SUBSET Config /\ faults \in Nat
      /\ Unsafe \in SUBSET Config
      /\ file \in Seq(Piece)
  BY DEF TypeInv, TypeOK, Unsafe, Piece
<1>1. Sealed(file) \subseteq Sealed(file') /\ Sealed(file)' = Sealed(file')
  <2>1. file' \in Seq(Piece) /\ Extends(file', file)
    BY FileExtends
  <2>2. Sealed(file) \subseteq Sealed(file')
    BY <1>0, <2>1, SealedExtends
  <2>3. Sealed(file)' = Sealed(file')
    BY DEF Sealed, ReadableAt, StartsLine, EndsLine
  <2> QED BY <2>2, <2>3
<1>2. Terminated(file)' = Terminated(file') /\ Terminated(file) \in BOOLEAN
  BY DEF Terminated
<1>3. /\ Cardinality(Unsafe) \in Nat
      /\ UNCHANGED evaluated => /\ Unsafe' \in SUBSET Unsafe
                                /\ Cardinality(Unsafe') \in Nat
                                /\ Cardinality(Unsafe') <= Cardinality(Unsafe)
  <2>1. UNCHANGED evaluated => Unsafe' \in SUBSET Unsafe
    BY <1>1 DEF Unsafe
  <2> QED BY <1>0, <2>1, ResultSizes
<1>4. CASE Return
  <2>1. /\ pc = "evaluating" /\ pc' = "appending" /\ UNCHANGED <<file, i, faults>>
        /\ evaluated' = evaluated \cup {i} /\ i \in Config
    BY <1>4 DEF Return, TypeInv, AtConfig
  <2>2. Unsafe' = Unsafe \/ (Unsafe' = Unsafe \cup {i} /\ i \in Unsafe')
    BY <1>1, <2>1 DEF Unsafe
  <2>3. Cardinality(Unsafe \cup {i}) <= Cardinality(Unsafe) + 1
        /\ Cardinality(Unsafe \cup {i}) \in Nat
    <3>1. IsFiniteSet(Unsafe)
      <4>1. 1 \in Int /\ N \in Int
        BY SweepAssumption
      <4> QED BY <1>0, <4>1, FS_Interval, FS_Subset DEF Config
    <3> QED BY <1>3, <3>1, FS_AddElement
  <2>4. Cardinality(Unsafe) + (IF Terminated(file) THEN 0 ELSE 1) <= 2 * faults
    BY <1>0, <1>3, <2>1 DEF LossInv
  <2>5. Cardinality(Unsafe') + (IF Terminated(file) THEN 0 ELSE 1)
          <= 2 * faults + (IF i \in Unsafe' THEN 1 ELSE 0)
    <3>1. CASE Unsafe' = Unsafe
      BY <1>0, <1>3, <2>4, <3>1
    <3>2. CASE Unsafe' = Unsafe \cup {i} /\ i \in Unsafe'
      <4>1. Cardinality(Unsafe') \in Nat
            /\ Cardinality(Unsafe') <= Cardinality(Unsafe) + 1
        BY <2>3, <3>2
      <4> QED BY <1>0, <1>3, <2>4, <3>2, <4>1
    <3> QED BY <2>2, <3>1, <3>2
  <2> QED BY <1>2, <2>1, <2>5 DEF LossInv
<1>5. CASE AppendEntry
  <2>1. /\ pc' = "loop" /\ UNCHANGED <<evaluated, faults>>
    BY <1>5 DEF AppendEntry
  <2>2. Terminated(file')
    BY <1>5, WholeAppend
  <2>3. Cardinality(Unsafe') <= 2 * faults
    <3>1. CASE Terminated(file)
      <4>1. i \notin Unsafe'
        <5>1. Pending.config = i
          BY <1>5, PendingIsRecord DEF AppendEntry
        <5> QED BY <1>1, <1>5, <3>1, <5>1, AppendSeals DEF Unsafe
      <4>2. i \in Unsafe => Cardinality(Unsafe') + 1 <= Cardinality(Unsafe)
        BY <1>0, <1>3, <2>1, <4>1, ResultSizes
      <4> QED BY <1>0, <1>3, <2>1, <3>1, <4>2 DEF LossInv
    <3>2. CASE ~Terminated(file)
      BY <1>0, <1>3, <2>1, <3>2 DEF LossInv
    <3> QED BY <3>1, <3>2
  <2> QED BY <1>0, <1>2, <1>3, <2>1, <2>2, <2>3 DEF LossInv
<1>6. CASE WriteError \/ Kill
  <2>1. faults' = faults + 1 /\ UNCHANGED evaluated
        /\ (pc' = "appending" => FALSE)
    BY <1>6 DEF WriteError, Kill, Except, RecordException, LogException, Exit
  <2>2. Cardinality(Unsafe') <= 2 * faults + 1
    BY <1>0, <1>3, <2>1 DEF LossInv
  <2>3. Cardinality(Unsafe') + (IF Terminated(file') THEN 0 ELSE 1) <= 2 * faults'
    BY <1>0, <1>3, <2>1, <2>2
  <2> QED BY <1>2, <2>1, <2>3 DEF LossInv
<1>7. CASE Restart \/ Rerun \/ Skip \/ Begin \/ Raise \/ Finish
  <2>1. /\ UNCHANGED <<file, evaluated>>
        /\ pc # "appending" /\ pc' # "appending"
        /\ faults' = faults \/ faults' = faults + 1
    <3>1. CASE Restart \/ Rerun
      BY <3>1 DEF Restart, Rerun, Start
    <3>2. CASE Skip \/ Begin \/ Finish
      BY <3>2 DEF Skip, Begin, Finish
    <3>3. CASE Raise
      BY <3>3 DEF Raise, Except, RecordException, LogException, Exit
    <3> QED BY <1>7, <3>1, <3>2, <3>3
  <2>2. Unsafe' = Unsafe /\ Terminated(file') = Terminated(file)
    BY <1>1, <2>1 DEF Unsafe
  <2>3. Cardinality(Unsafe) + (IF Terminated(file) THEN 0 ELSE 1) <= 2 * faults
    BY <1>0, <1>3, <2>1 DEF LossInv
  <2>4. Cardinality(Unsafe) + (IF Terminated(file) THEN 0 ELSE 1) <= 2 * faults'
    BY <1>0, <1>3, <2>1, <2>3
  <2> QED BY <1>0, <1>2, <1>3, <2>1, <2>2, <2>4 DEF LossInv
<1>8. CASE UNCHANGED vars
  BY <1>1, <1>2, <1>8 DEF vars, LossInv, Unsafe
<1> QED
  BY <1>4, <1>5, <1>6, <1>7, <1>8 DEF Next, Progress

\* For every hash function and every policy: at most two results per fault
\* are without a readable record, besides the one about to be written.
THEOREM LossBound == Spec => []LossIsBounded
<1>1. Init => LossInv
  <2> SUFFICES ASSUME Init PROVE LossInv
    OBVIOUS
  <2>1. Unsafe = {} /\ Terminated(file)
    BY DEF Init, Unsafe, Terminated
  <2>2. Cardinality(Unsafe) = 0
    BY <2>1, FS_EmptySet
  <2> QED BY <2>1, <2>2 DEF Init, LossInv
<1>2. TypeInv /\ LossInv => LossIsBounded
  <2> SUFFICES ASSUME TypeInv, LossInv PROVE LossIsBounded
    OBVIOUS
  <2> DEFINE Missing == evaluated \ Recorded(file)
  <2>1. Missing \in SUBSET Unsafe /\ Unsafe \in SUBSET Config
    BY DEF Unsafe, Recorded, Readable, Sealed, TypeInv, TypeOK
  <2>2. /\ Cardinality(Missing) \in Nat /\ Cardinality(Unsafe) \in Nat
        /\ Cardinality(Missing) <= Cardinality(Unsafe)
    BY <2>1, ResultSizes
  <2>3. faults \in Nat
    BY DEF TypeInv, TypeOK
  <2> HIDE DEF Missing
  <2>4. Cardinality(Missing) <= 2 * faults + (IF pc = "appending" THEN 1 ELSE 0)
    BY <2>2, <2>3 DEF LossInv
  <2> QED BY <2>4 DEF LossIsBounded, Missing
<1> QED BY <1>1, <1>2, LossStep, TypeCorrect, PTL DEF Spec

----------------------------------------------------------------------------
\* The configurations whose record nothing can damage any more.
Kept == {r.config : r \in Sealed(file)}

\* In a terminated file every record that can be read is sealed.
LEMMA TerminatedSeals ==
  ASSUME Terminated(file)
  PROVE  Kept = Recorded(file)
<1>1. \A k \in ReadableAt(file) : k < Len(file)
  BY PiecesDiffer DEF ReadableAt, Terminated, IsRecord
<1> QED BY <1>1 DEF Kept, Recorded, Sealed, Readable

\* An append seals the record it writes or none, and a cut append none.
LEMMA AppendKeeps ==
  ASSUME TypeInv, pc \in {"appending", "recording"},
         \/ file' = AppendLine(file, Pending)
         \/ file' \in PartialAppends(file, Pending)
  PROVE  /\ Kept' \in {Kept, Kept \cup {i}}
         /\ file' \in PartialAppends(file, Pending) => Kept' = Kept
<1>1. /\ Pending \in Piece /\ NL \in Piece /\ Torn \in Piece
      /\ IsRecord(Pending) /\ Pending.config = i
      /\ file \in Seq(Piece)
  BY PendingIsRecord DEF TypeInv, TypeOK, Piece
<1>2. file' \in Seq(Piece) /\ Extends(file', file)
  <2>1. CASE file' = AppendLine(file, Pending)
    BY <1>1, <2>1, AppendLineShape
  <2>2. CASE file' \in PartialAppends(file, Pending)
    BY <1>1, <2>2, PartialShape
  <2> QED BY <2>1, <2>2
<1>3. Sealed(file) \subseteq Sealed(file')
  BY <1>1, <1>2, SealedExtends
<1>4. Sealed(file') \subseteq Sealed(file) \cup {Pending}
  <2> SUFFICES ASSUME NEW k \in ReadableAt(file'), k < Len(file')
               PROVE  file'[k] \in Sealed(file) \cup {Pending}
    BY DEF Sealed
  <2>1. \/ /\ k \in ReadableAt(file) /\ file'[k] = file[k]
           /\ file' = file \/ k < Len(file)
        \/ file'[k] = Pending
    BY <1>1, ReadableAppended
  <2> QED BY <2>1 DEF Sealed
<1>5. ASSUME file' \in PartialAppends(file, Pending)
      PROVE  Sealed(file') \subseteq Sealed(file)
  <2> SUFFICES ASSUME NEW k \in ReadableAt(file'), k < Len(file')
               PROVE  file'[k] \in Sealed(file)
    BY DEF Sealed
  <2>1. \/ /\ k \in ReadableAt(file) /\ file'[k] = file[k]
           /\ file' = file \/ k < Len(file)
        \/ k = Len(file) + 1
    BY <1>1, ReadableAppended
  <2>2. file' = file \/ Len(file') = Len(file) + 1
    BY <1>1, <1>5, PartialShape
  <2>3. Len(file) \in Nat /\ Len(file') \in Nat
    BY <1>1, <1>2
  <2> QED BY <2>1, <2>2, <2>3 DEF Sealed
<1>6. Kept' = {r.config : r \in Sealed(file')}
  BY DEF Kept, Sealed, ReadableAt, StartsLine, EndsLine
<1>7. Sealed(file') \in {Sealed(file), Sealed(file) \cup {Pending}}
  BY <1>3, <1>4
<1> QED BY <1>1, <1>3, <1>5, <1>6, <1>7 DEF Kept

\* Each step of the sweep is a step of the ledger, or changes nothing of it.
LEMMA LedgerStep ==
  ASSUME NoCollisions
  PROVE  TypeInv /\ CleanInv /\ DupInv /\ [Next]_vars
           => [Ledger!Next]_(Ledger!vars)
<1> SUFFICES ASSUME TypeInv, CleanInv, DupInv, [Next]_vars
             PROVE  [Ledger!Next]_(Ledger!vars)
  OBVIOUS
<1> DEFINE phase == IF pc = "done" /\ clean THEN "closed" ELSE "open"
<1>1. file \in Seq(Piece) /\ i \in 1..(N + 1) /\ givenUp \subseteq Config
  BY DEF TypeInv, TypeOK, Piece
<1>2. UNCHANGED file => Kept' = Kept
  BY DEF Kept, Sealed, ReadableAt, StartsLine, EndsLine
<1>3. pc \in {"evaluating", "appending", "recording"} =>
        i \in Config /\ i \notin Kept
  <2>1. pc \in {"evaluating", "appending", "recording"} =>
          \A k \in ReadableAt(file) : file[k].config = i => ~(k < Len(file))
    BY <1>1 DEF DupInv, Fresh
  <2> QED BY <2>1 DEF TypeInv, AtConfig, Kept, Sealed
<1>4. CASE Restart \/ Rerun
  <2>1. UNCHANGED file /\ givenUp' = {} /\ phase' = "open"
    BY <1>4 DEF Restart, Rerun, Start
  <2>2. Ledger!NewPass
    BY <1>2, <2>1 DEF Ledger!NewPass, Kept
  <2> QED BY <2>2 DEF Ledger!Next
<1>5. CASE Exit /\ Kept' = Kept
  <2>1. givenUp' = {} /\ phase' = "open"
    BY <1>5 DEF Exit
  <2>2. Ledger!NewPass
    BY <1>5, <2>1 DEF Ledger!NewPass, Kept
  <2> QED BY <2>2 DEF Ledger!Next
<1>6. CASE /\ LogException /\ Kept' = Kept
           /\ pc \in {"evaluating", "appending"}
  <2>1. givenUp' = givenUp \cup {i} /\ phase' = "open" /\ phase = "open"
    BY <1>6 DEF LogException
  <2>2. Ledger!GiveUp(i)
    BY <1>3, <1>6, <2>1 DEF Ledger!GiveUp, Kept
  <2> QED BY <1>3, <1>6, <2>2 DEF Ledger!Next
<1>7. CASE /\ Kept' = Kept /\ UNCHANGED givenUp
           /\ phase' = phase
  BY <1>7 DEF Ledger!vars, Kept
<1>8. CASE AppendEntry
  <2>1. /\ pc \in {"appending", "recording"} /\ UNCHANGED givenUp
        /\ phase' = "open" /\ phase = "open"
        /\ file' = AppendLine(file, Pending)
    BY <1>8 DEF AppendEntry
  <2>2. CASE Kept' = Kept
    BY <1>7, <2>1, <2>2
  <2>3. CASE Kept' = Kept \cup {i}
    <3>1. PICK c \in Config : c = i
      BY <1>3, <2>1
    <3>2. Ledger!Record(c)
      BY <1>3, <2>1, <2>3, <3>1 DEF Ledger!Record, Kept
    <3> QED BY <3>2 DEF Ledger!Next
  <2> QED BY <2>1, <2>2, <2>3, AppendKeeps
<1>9. CASE Finish
  <2>1. /\ pc = "loop" /\ i = N + 1 /\ UNCHANGED <<file, givenUp, clean>>
        /\ pc' = "done" /\ phase = "open"
    BY <1>9 DEF Finish
  <2>2. CASE ~clean
    BY <1>2, <1>7, <2>1, <2>2
  <2>3. CASE clean
    <3>1. Kept = Recorded(file)
      BY <2>1, <2>3, TerminatedSeals DEF CleanInv, CompletedIsBacked
    <3>2. Recorded(file) \subseteq Config
      BY <1>1, LoadedTypes DEF Recorded, Record
    <3>3. Config = 1..(i - 1)
      BY <2>1, SweepAssumption DEF Config
    <3>4. \A c \in Config : c \in Kept \cup givenUp
      BY <2>1, <2>3, <3>1, <3>3, PassedOnce
    <3>5. phase' = "closed"
      BY <2>1, <2>3
    <3>6. Kept \cup givenUp = Config
      BY <1>1, <3>1, <3>2, <3>4
    <3>7. Ledger!Close
      BY <1>2, <2>1, <3>5, <3>6 DEF Ledger!Close, Kept
    <3> QED BY <3>7 DEF Ledger!Next
  <2> QED BY <2>2, <2>3
<1>10. CASE Raise
  <2>1. UNCHANGED file /\ pc = "evaluating"
    BY <1>10 DEF Raise
  <2>2. CASE RecordException
    BY <1>2, <1>7, <2>1, <2>2 DEF RecordException
  <2> QED BY <1>2, <1>5, <1>6, <1>10, <2>1, <2>2 DEF Raise, Except
<1>11. CASE WriteError
  <2>1. pc \in {"appending", "recording"} /\ Kept' = Kept
    BY <1>11, AppendKeeps DEF WriteError
  <2>2. CASE RecordException
    BY <1>7, <2>1, <2>2 DEF RecordException
  <2> QED BY <1>5, <1>6, <1>11, <2>1, <2>2 DEF WriteError, Except
<1>12. CASE Kill
  <2>1. Kept' = Kept /\ Exit
    BY <1>2, <1>12, AppendKeeps DEF Kill
  <2> QED BY <1>5, <2>1
<1>13. CASE Skip \/ Begin \/ Return \/ UNCHANGED vars
  <2>1. /\ UNCHANGED <<file, givenUp, clean>>
        /\ pc = "done" <=> pc' = "done"
    BY <1>13 DEF Skip, Begin, Return, vars
  <2> QED BY <1>2, <1>7, <2>1
<1> QED
  BY <1>4, <1>8, <1>9, <1>10, <1>11, <1>12, <1>13 DEF Next, Progress

\* A sweep with a stable hash without collisions keeps the promise of the
\* ledger, however often it is killed, cut short while writing, failed by the
\* disk and started again.
THEOREM LedgerKept ==
  ASSUME StableHashing, NoCollisions
  PROVE  Spec => KeepsLedger
<1>1. Init => Ahead /\ CleanInv /\ DupInv
  BY DEF Init, Ahead, CleanInv, Attributed, CompletedIsBacked,
         PassedIsRecorded, DupInv, NoDuplicates, Fresh, Readable, ReadableAt
<1>2. Init => Ledger!Init
  BY DEF Init, Ledger!Init, Sealed, ReadableAt
<1>3. CleanInv => Attributed
  BY DEF CleanInv
<1>4. TypeInv /\ Ahead /\ Attributed /\ DupInv /\ [Next]_vars => DupInv'
  BY DupStep
<1>5. TypeInv /\ CleanInv /\ DupInv /\ [Next]_vars
        => [Ledger!Next]_(Ledger!vars)
  BY LedgerStep
<1> QED
  BY <1>1, <1>2, <1>3, <1>4, <1>5, AheadStep, CleanStep, TypeCorrect, PTL
     DEF Spec, KeepsLedger, Ledger!Spec

----------------------------------------------------------------------------
\* What a process has left to do: for each configuration it may take it up,
\* evaluate it, and write what became of it or record that this failed.
ToDo ==
  CASE pc \in {"down", "done"} -> 0
    [] pc = "loop"       -> 4 * (N + 1 - i) + 3
    [] pc = "evaluating" -> 4 * (N + 1 - i) + 2
    [] pc = "appending"  -> 4 * (N + 1 - i) + 1
    [] pc = "recording"  -> 4 * (N + 1 - i)

\* A run ends if it keeps going (SweepFinishes): whatever raises and whatever
\* fails, no configuration is tried again, and each step leaves less to do.
THEOREM RunsMakeProgress ==
  Spec => [](ToDo \in Nat) /\ [][Start \/ ToDo' < ToDo]_vars
<1>1. TypeInv => ToDo \in Nat
  BY SweepAssumption DEF TypeInv, TypeOK, ToDo
<1>2. TypeInv /\ [Next]_vars => [Start \/ ToDo' < ToDo]_vars
  <2> SUFFICES ASSUME TypeInv, Next, ~Start PROVE ToDo' < ToDo
    BY DEF vars
  <2>0. /\ N \in Nat /\ i \in 1..(N + 1)
        /\ pc \in {"evaluating", "appending", "recording"} => i <= N
    BY SweepAssumption DEF TypeInv, TypeOK, AtConfig, Config
  <2>1. CASE Skip \/ Begin \/ Finish
    BY <2>0, <2>1 DEF Skip, Begin, Finish, Advance, ToDo
  <2>2. CASE Return
    BY <2>0, <2>2 DEF Return, ToDo
  <2>3. CASE AppendEntry
    BY <2>0, <2>3 DEF AppendEntry, Advance, ToDo
  <2>4. ASSUME Exit, Alive PROVE ToDo' < ToDo
    <3>1. pc' = "down"
      BY <2>4 DEF Exit
    <3>2. pc \in {"loop", "evaluating", "appending", "recording"}
      BY <2>4 DEF Alive, TypeInv, TypeOK
    <3> QED BY <2>0, <3>1, <3>2 DEF ToDo
  <2>5. ASSUME Except, pc \in {"evaluating", "appending"} PROVE ToDo' < ToDo
    <3>1. CASE RecordException
      BY <2>0, <2>5, <3>1 DEF RecordException, ToDo
    <3>2. CASE LogException
      BY <2>0, <2>5, <3>2 DEF LogException, Advance, ToDo
    <3>3. CASE Exit
      BY <2>4, <2>5, <3>3 DEF Alive
    <3> QED BY <2>5, <3>1, <3>2, <3>3 DEF Except
  <2>6. CASE Raise
    BY <2>5, <2>6 DEF Raise
  <2>7. CASE WriteError
    <3>1. CASE pc = "appending"
      BY <2>5, <2>7, <3>1 DEF WriteError
    <3>2. CASE pc = "recording"
      BY <2>4, <2>7, <3>2 DEF WriteError, Alive
    <3> QED BY <2>7, <3>1, <3>2 DEF WriteError
  <2>8. CASE Kill
    BY <2>4, <2>8 DEF Kill
  <2> QED BY <2>1, <2>2, <2>3, <2>6, <2>7, <2>8 DEF Next, Progress, Restart, Rerun
<1> QED BY <1>1, <1>2, TypeCorrect, PTL DEF Spec
=============================================================================
