-------------------------- MODULE ResultLogProofs --------------------------
(***************************************************************************)
(* What one append, whole or cut short, does to the records a reader of the *)
(* file finds.                                                              *)
(***************************************************************************)
EXTENDS ResultLog, TLAPS

\* The file holds whatever was written to it, and g is f with more behind it.
Extends(g, f) ==
  /\ Len(g) >= Len(f)
  /\ \A k \in 1..Len(f) : g[k] = f[k]

\* An append never touches what is already in the file.
LEMMA AppendExtends ==
  ASSUME NEW S, NEW f \in Seq(S), NEW s \in Seq(S)
  PROVE  /\ f \o s \in Seq(S)
         /\ Extends(f \o s, f)
         /\ Len(f \o s) = Len(f) + Len(s)
         /\ \A k \in 1..Len(s) : (f \o s)[Len(f) + k] = s[k]
  BY DEF Extends

\* A whole append adds two pieces: the record and its line end.
LEMMA AppendLineShape ==
  ASSUME NEW S, NEW f \in Seq(S), NEW r \in S, NL \in S
  PROVE  /\ AppendLine(f, r) \in Seq(S)
         /\ Extends(AppendLine(f, r), f)
         /\ Len(AppendLine(f, r)) = Len(f) + 2
         /\ AppendLine(f, r)[Len(f) + 1] = r
         /\ AppendLine(f, r)[Len(f) + 2] = NL
         /\ Terminated(AppendLine(f, r))
<1>1. <<r, NL>> \in Seq(S) /\ Len(<<r, NL>>) = 2
      /\ <<r, NL>>[1] = r /\ <<r, NL>>[2] = NL
  OBVIOUS
<1> DEFINE g == f \o <<r, NL>>
<1>2. /\ g \in Seq(S)
      /\ Extends(g, f)
      /\ Len(g) = Len(f) + 2
      /\ \A k \in 1..2 : g[Len(f) + k] = <<r, NL>>[k]
  BY <1>1, AppendExtends
<1>3. QED
  BY <1>1, <1>2 DEF AppendLine, Terminated

\* A cut append adds nothing or one piece: a fragment or the record.
LEMMA PartialShape ==
  ASSUME NEW S, NEW f \in Seq(S), NEW r \in S, Torn \in S,
         NEW g \in PartialAppends(f, r)
  PROVE  /\ g \in Seq(S)
         /\ Extends(g, f)
         /\ \/ g = f
            \/ Len(g) = Len(f) + 1 /\ g[Len(f) + 1] \in {Torn, r}
<1>1. CASE g = f
  BY <1>1 DEF Extends
<1>2. ASSUME NEW p \in S, p \in {Torn, r}, g = f \o <<p>>
      PROVE  g \in Seq(S) /\ Extends(g, f)
             /\ Len(g) = Len(f) + 1 /\ g[Len(f) + 1] = p
  <2>1. <<p>> \in Seq(S) /\ Len(<<p>>) = 1 /\ <<p>>[1] = p
    OBVIOUS
  <2>2. /\ g \in Seq(S)
        /\ Extends(g, f)
        /\ Len(g) = Len(f) + 1
        /\ \A k \in 1..1 : g[Len(f) + k] = <<p>>[k]
    BY <1>2, <2>1, AppendExtends
  <2>3. QED
    BY <2>1, <2>2
<1>3. QED
  BY <1>1, <1>2 DEF PartialAppends

\* A record inside the old part of an extended file: if it is readable in
\* the extension it was readable before ...
LEMMA ReadableBefore ==
  ASSUME NEW S, NEW f \in Seq(S), NEW g \in Seq(S), Extends(g, f),
         NEW k \in ReadableAt(g), k <= Len(f)
  PROVE  k \in ReadableAt(f) /\ g[k] = f[k]
<1>1. k \in 1..Len(f) /\ IsRecord(g[k]) /\ StartsLine(g, k) /\ EndsLine(g, k)
  BY DEF ReadableAt
<1>2. g[k] = f[k] /\ (k # 1 => g[k - 1] = f[k - 1])
      /\ (k # Len(f) => g[k + 1] = f[k + 1])
  BY <1>1 DEF Extends
<1>3. EndsLine(f, k)
  BY <1>1, <1>2 DEF EndsLine, Extends
<1>4. StartsLine(f, k)
  BY <1>1, <1>2 DEF StartsLine
<1>5. QED
  BY <1>1, <1>2, <1>3, <1>4 DEF ReadableAt

\* ... and if more than the record followed, it stays readable.
LEMMA ReadableAfter ==
  ASSUME NEW S, NEW f \in Seq(S), NEW g \in Seq(S), Extends(g, f),
         NEW k \in ReadableAt(f), k < Len(f)
  PROVE  k \in ReadableAt(g) /\ g[k] = f[k] /\ k < Len(g)
<1>1. /\ k \in 1..Len(f)
      /\ IsRecord(f[k]) /\ StartsLine(f, k) /\ EndsLine(f, k)
  BY DEF ReadableAt
<1>2. g[k] = f[k] /\ g[k + 1] = f[k + 1] /\ (k # 1 => g[k - 1] = f[k - 1])
      /\ k \in 1..Len(g) /\ k < Len(g)
  BY <1>1 DEF Extends
<1>3. StartsLine(g, k) /\ EndsLine(g, k)
  BY <1>1, <1>2 DEF StartsLine, EndsLine
<1>4. QED
  BY <1>1, <1>2, <1>3 DEF ReadableAt

\* Sealed records stay sealed in every extension of the file.
LEMMA SealedExtends ==
  ASSUME NEW S, NEW f \in Seq(S), NEW g \in Seq(S), Extends(g, f)
  PROVE  Sealed(f) \subseteq Sealed(g)
  BY ReadableAfter DEF Sealed

\* An append, whole ...
LEMMA AppendLineReads ==
  ASSUME NEW S, NEW f \in Seq(S), NEW r \in S, NL \in S
  PROVE  Readable(AppendLine(f, r)) \subseteq Readable(f) \cup {r}
<1>0. /\ AppendLine(f, r) \in Seq(S)
      /\ Extends(AppendLine(f, r), f)
      /\ Len(AppendLine(f, r)) = Len(f) + 2
      /\ AppendLine(f, r)[Len(f) + 1] = r
      /\ AppendLine(f, r)[Len(f) + 2] = NL
  BY AppendLineShape
<1>1. SUFFICES ASSUME NEW g \in Seq(S), Extends(g, f), Len(g) = Len(f) + 2,
                      g[Len(f) + 1] = r, g[Len(f) + 2] = NL,
                      NEW k \in ReadableAt(g)
               PROVE  g[k] \in Readable(f) \cup {r}
  BY <1>0 DEF Readable
<1>2. k \in 1..(Len(f) + 2) /\ k # Len(f) + 2
  BY <1>1 DEF ReadableAt, IsRecord
<1>3. CASE k <= Len(f)
  BY <1>1, <1>3, ReadableBefore DEF Readable
<1>4. CASE k = Len(f) + 1
  BY <1>1, <1>4
<1>5. QED
  BY <1>2, <1>3, <1>4

\* ... or cut, makes no record readable but its own.
LEMMA PartialReads ==
  ASSUME NEW S, NEW f \in Seq(S), NEW r \in S, Torn \in S,
         NEW g \in PartialAppends(f, r)
  PROVE  Readable(g) \subseteq Readable(f) \cup {r}
<1>1. g \in Seq(S) /\ Extends(g, f)
      /\ (g = f \/ (Len(g) = Len(f) + 1 /\ g[Len(f) + 1] \in {Torn, r}))
  BY PartialShape
<1>2. CASE g = f
  BY <1>2
<1>3. CASE g # f
  <2>1. SUFFICES ASSUME NEW k \in ReadableAt(g)
                 PROVE  g[k] \in Readable(f) \cup {r}
    BY DEF Readable
  <2>2. k \in 1..(Len(f) + 1) /\ g[k] # Torn
    BY <1>1, <1>3 DEF ReadableAt, IsRecord
  <2>3. CASE k <= Len(f)
    BY <1>1, <2>3, ReadableBefore DEF Readable
  <2>4. CASE k = Len(f) + 1
    BY <1>1, <1>3, <2>2, <2>4
  <2>5. QED
    BY <2>2, <2>3, <2>4
<1>4. QED
  BY <1>2, <1>3

\* On a terminated file a whole append adds exactly its record.
LEMMA CleanAppendReads ==
  ASSUME NEW S, NEW f \in Seq(S), NEW r \in S, NL \in S,
         IsRecord(r), Terminated(f)
  PROVE  Readable(AppendLine(f, r)) = Readable(f) \cup {r}
<1>0. /\ AppendLine(f, r) \in Seq(S)
      /\ Extends(AppendLine(f, r), f)
      /\ Len(AppendLine(f, r)) = Len(f) + 2
      /\ AppendLine(f, r)[Len(f) + 1] = r
      /\ AppendLine(f, r)[Len(f) + 2] = NL
  BY AppendLineShape
<1>1. SUFFICES ASSUME NEW g \in Seq(S), Extends(g, f), Len(g) = Len(f) + 2,
                      g[Len(f) + 1] = r, g[Len(f) + 2] = NL
               PROVE  Readable(f) \cup {r} \subseteq Readable(g)
  BY <1>0, AppendLineReads
<1>2. r \in Readable(g)
  <2>1. Len(f) + 1 \in 1..Len(g) /\ EndsLine(g, Len(f) + 1)
    BY <1>1 DEF EndsLine
  <2>2. StartsLine(g, Len(f) + 1)
    <3>1. CASE Len(f) = 0
      BY <3>1 DEF StartsLine
    <3>2. CASE Len(f) > 0
      <4>1. f[Len(f)] = NL
        BY <3>2 DEF Terminated
      <4>2. g[Len(f)] = f[Len(f)]
        BY <1>1, <3>2 DEF Extends
      <4>3. QED
        BY <4>1, <4>2 DEF StartsLine
    <3>3. QED
      BY <3>1, <3>2
  <2>3. Len(f) + 1 \in ReadableAt(g)
    BY <1>1, <2>1, <2>2 DEF ReadableAt
  <2>4. QED
    BY <1>1, <2>3 DEF Readable
<1>3. ASSUME NEW k \in ReadableAt(f)
      PROVE  f[k] \in Readable(g)
  <2>1. k \in 1..Len(f) /\ k # Len(f)
    BY DEF ReadableAt, Terminated, IsRecord
  <2>2. QED
    BY <1>1, <2>1, ReadableAfter DEF Readable
<1>4. QED
  BY <1>2, <1>3 DEF Readable

\* What is readable after an append was readable before, and is then not the
\* unfinished end of the file, or is the record at the place it was put.
LEMMA ReadableAppended ==
  ASSUME NEW S, NEW f \in Seq(S), NEW r \in S, NL \in S, Torn \in S,
         IsRecord(r),
         NEW g, g = AppendLine(f, r) \/ g \in PartialAppends(f, r),
         NEW k \in ReadableAt(g)
  PROVE  \/ /\ k \in ReadableAt(f) /\ g[k] = f[k]
            /\ g = f \/ k < Len(f)
         \/ k = Len(f) + 1 /\ g[k] = r /\ Len(g) >= k
<1>1. /\ g \in Seq(S) /\ Extends(g, f)
      /\ \/ g = f
         \/ Len(g) = Len(f) + 1 /\ g[Len(f) + 1] \in {Torn, r}
         \/ Len(g) = Len(f) + 2 /\ g[Len(f) + 1] = r /\ g[Len(f) + 2] = NL
  <2>1. CASE g = AppendLine(f, r)
    BY <2>1, AppendLineShape
  <2>2. CASE g \in PartialAppends(f, r)
    BY <2>2, PartialShape
  <2> QED BY <2>1, <2>2
<1>2. k \in 1..Len(g) /\ IsRecord(g[k]) /\ EndsLine(g, k)
  BY DEF ReadableAt
<1>3. CASE g = f
  BY <1>3
<1>4. CASE k <= Len(f) /\ g # f
  <2>1. k \in ReadableAt(f) /\ g[k] = f[k]
    BY <1>1, <1>4, ReadableBefore
  <2>2. g[Len(f) + 1] # NL /\ Len(f) < Len(g)
    BY <1>1, <1>4, PiecesDiffer DEF IsRecord
  <2>3. k # Len(f)
    BY <1>2, <2>2 DEF EndsLine
  <2> QED BY <1>2, <1>4, <2>1, <2>3
<1>5. CASE k > Len(f) /\ g # f
  BY <1>1, <1>2, <1>5 DEF IsRecord
<1> QED BY <1>1, <1>2, <1>3, <1>4, <1>5
=============================================================================
