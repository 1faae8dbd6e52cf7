----------------------------- MODULE ResultLog -----------------------------
(***************************************************************************)
(* A runner's JSONL output file (experiments/runners/base.py), reduced to   *)
(* what its readers can tell apart.  The file is the sequence of pieces     *)
(* written to it: whole records, line ends, and record prefixes left by a   *)
(* write that stopped half-way.  An absent file and an empty file read the  *)
(* same, so both are <<>>.                                                  *)
(***************************************************************************)
EXTENDS Naturals, Sequences

CONSTANTS
  NL,     \* the "\n" that append_result writes after each record
  Torn    \* a proper, unparsable prefix of a record

ASSUME PiecesDiffer == NL # Torn

IsRecord(piece) == piece \notin {NL, Torn}

StartsLine(f, k) == k = 1 \/ f[k - 1] = NL
EndsLine(f, k)   == k = Len(f) \/ f[k + 1] = NL

(***************************************************************************)
(* read_text().strip().split("\n") followed by json.loads, where a line     *)
(* that does not parse is skipped: a record is read when it is alone on its *)
(* line.  The last line needs no line end.                                  *)
(***************************************************************************)
ReadableAt(f) ==
  {k \in DOMAIN f : IsRecord(f[k]) /\ StartsLine(f, k) /\ EndsLine(f, k)}

Readable(f) == {f[k] : k \in ReadableAt(f)}

(***************************************************************************)
(* The records no later append can damage: those followed by a line end.    *)
(***************************************************************************)
Sealed(f) ==
  {f[k] : k \in {n \in ReadableAt(f) : n < Len(f)}}

\* The next append starts on a line of its own.
Terminated(f) == f = <<>> \/ f[Len(f)] = NL

\* MUTANT of AppendLine: the file is opened with "w" instead of "a".
MutAppendTruncates(f, r) == <<r, NL>>

\* MUTANT of AppendLine: the line end is forgotten.
MutAppendNoNewline(f, r) == f \o <<r>>

\* append_result: open(..., "a"), one write of the record and its line end.
AppendLine(f, r) == f \o <<r, NL>>

\* What a write that stops part-way leaves behind: nothing, a prefix of the
\* record, or the whole record without its line end.
PartialAppends(f, r) == {f, f \o <<Torn>>, f \o <<r>>}
=============================================================================
