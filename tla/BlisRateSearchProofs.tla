------------------------ MODULE BlisRateSearchProofs ------------------------
(***************************************************************************)
(* The BLIS rate search for every start rate, cap, number of bisection and  *)
(* confirmation steps, and for simulations that answer whatever they like.  *)
(***************************************************************************)
EXTENDS BlisRateSearch, FiniteSetTheorems, TLAPS

\* The metrics kept come from a simulation that met the SLO.
KeptIsMeasured == IF from = "none" THEN best = 0 ELSE <<from, best>> \in good

\* The bracket of the ramp and of the bisection is below the cap, and only
\* short simulations have run.
ScreeningInv ==
  pc \in {"ramp", "bisect"} =>
    /\ lo <= hi
    /\ lo <= MaxRate
    /\ pc = "bisect" => hi <= MaxRate
    /\ from # "full"

\* The bracket of the confirmation is below half the rate found, which its
\* lower end never reaches.
ConfirmInv ==
  pc = "confirm" => lo <= hi /\ 2 * lo < found /\ 2 * hi <= found

RatesInv == best <= MaxRate /\ found <= MaxRate /\ WithinCap

BlisInv ==
  /\ TypeOK
  /\ KeptIsMeasured
  /\ ScreeningInv
  /\ ConfirmInv
  /\ RatesInv
  /\ ConfirmedIsConservative

\* A simulation at a rate below the cap keeps the histories below it.
LEMMA RunStep ==
  ASSUME BlisInv, NEW len \in Lengths, NEW r \in Nat, NEW a \in Answers,
         r <= MaxRate, RunSingle(len, r, a)
  PROVE  /\ good \subseteq good'
         /\ good' \subseteq Lengths \X Nat /\ bad' \subseteq Lengths \X Nat
         /\ a = "good" => <<len, r>> \in good'
         /\ WithinCap'
         /\ capacity' = capacity /\ limit' = limit
         /\ noise' \in 0..MaxNoise
<1>1. noise' \in 0..MaxNoise
  BY BlisAssumption DEF BlisInv, TypeOK, RunSingle
<1>2. /\ good' = IF a = "good" THEN good \cup {<<len, r>>} ELSE good
      /\ bad' = IF a = "good" THEN bad ELSE bad \cup {<<len, r>>}
      /\ capacity' = capacity /\ limit' = limit
  BY DEF RunSingle
<1>3. good \subseteq Lengths \X Nat /\ bad \subseteq Lengths \X Nat
  BY DEF BlisInv, TypeOK
<1>4. good' \subseteq Lengths \X Nat /\ bad' \subseteq Lengths \X Nat
  BY <1>2, <1>3
<1>5. WithinCap'
  <2>1. \A run \in good' \cup bad' :
          run \in good \cup bad \/ run = <<len, r>>
    BY <1>2
  <2>2. \A run \in good \cup bad : run[2] <= MaxRate
    BY DEF BlisInv, RatesInv, WithinCap
  <2> QED BY <2>1, <2>2 DEF WithinCap
<1> QED BY <1>1, <1>2, <1>4, <1>5

LEMMA BlisInit == ASSUME Init PROVE BlisInv
  BY BlisAssumption
  DEF Init, BlisInv, TypeOK, KeptIsMeasured, ScreeningInv, ConfirmInv,
    RatesInv, WithinCap, ConfirmedIsConservative

\* The end of the ramp puts the bracket below the cap.
LEMMA StartBisectStep ==
  ASSUME BlisInv, pc = "ramp", StartBisect,
         UNCHANGED <<lo, best, from, found, capacity, limit>>,
         good \subseteq good',
         good' \subseteq Lengths \X Nat, bad' \subseteq Lengths \X Nat,
         noise' \in 0..MaxNoise, WithinCap'
  PROVE  BlisInv'
<1> USE DEF BlisInv
<1>1. /\ pc' = "bisect" /\ left' = Iters
      /\ hi' = IF hi <= MaxRate THEN hi ELSE MaxRate
  BY DEF StartBisect
<1>2. TypeOK'
  BY <1>1, BlisAssumption DEF TypeOK
<1>3. ScreeningInv'
  BY <1>1, BlisAssumption DEF ScreeningInv, TypeOK
<1> QED BY <1>1, <1>2, <1>3
    DEF KeptIsMeasured, ConfirmInv, RatesInv, ConfirmedIsConservative

LEMMA BlisRampStep == ASSUME BlisInv, RampProbe PROVE BlisInv'
<1> USE DEF BlisInv
<1>1. pc = "ramp" /\ hi \in Nat /\ hi <= MaxRate
  BY DEF RampProbe, TypeOK
<1>2. PICK a \in Answers :
        /\ RunSingle("short", hi, a)
        /\ \/ a = "good" /\ RampGood
           \/ (a = "slow" \/ (a = "none" /\ best # 0)) /\ RampBad
           \/ a = "none" /\ best = 0 /\ RampTimedOut
  BY DEF RampProbe
<1>3. /\ good \subseteq good'
      /\ good' \subseteq Lengths \X Nat /\ bad' \subseteq Lengths \X Nat
      /\ a = "good" => <<"short", hi>> \in good'
      /\ WithinCap'
      /\ capacity' = capacity /\ limit' = limit
      /\ noise' \in 0..MaxNoise
  BY <1>1, <1>2, RunStep DEF Lengths
<1>4. CASE a = "good" /\ RampGood
  <2>1. /\ pc' = "ramp" /\ lo' = hi /\ best' = hi /\ from' = "short"
        /\ hi' = hi * 2 /\ left' = left /\ found' = found
    BY <1>1, <1>4 DEF RampGood, Keep
  <2>2. TypeOK'
    BY <1>1, <1>3, <2>1 DEF TypeOK, Lengths
  <2>3. KeptIsMeasured'
    BY <1>3, <1>4, <2>1 DEF KeptIsMeasured
  <2> QED BY <1>1, <1>3, <2>1, <2>2, <2>3
      DEF ScreeningInv, ConfirmInv, RatesInv, ConfirmedIsConservative
<1>5. CASE RampBad
  BY <1>1, <1>3, <1>5, StartBisectStep DEF RampBad
<1>6. CASE RampTimedOut
  <2>1. pc' = "done" /\ UNCHANGED <<lo, hi, best, from, left, found>>
    BY <1>6 DEF RampTimedOut
  <2>2. TypeOK'
    BY <1>3, <2>1 DEF TypeOK
  <2> QED BY <1>1, <1>3, <2>1, <2>2
      DEF KeptIsMeasured, ScreeningInv, ConfirmInv, RatesInv,
        ConfirmedIsConservative
<1> QED BY <1>2, <1>4, <1>5, <1>6

LEMMA BlisExhaustedStep == ASSUME BlisInv, RampExhausted PROVE BlisInv'
  BY StartBisectStep
  DEF RampExhausted, BlisInv, TypeOK, RatesInv, WithinCap

LEMMA BlisBisectStep == ASSUME BlisInv, BisectProbe PROVE BlisInv'
<1> USE DEF BlisInv
<1>1. /\ pc = "bisect" /\ pc' = "bisect" /\ found' = found
      /\ left' \in 0..Iters \/ left' \in 0..ConfirmIters
      /\ lo \in Nat /\ hi \in Nat /\ lo <= hi /\ hi <= MaxRate
      /\ from # "full"
  BY BlisAssumption DEF BisectProbe, TypeOK, ScreeningInv
<1>2. Mid \in Nat /\ lo <= Mid /\ Mid <= hi /\ Mid <= MaxRate
  BY <1>1, BlisAssumption DEF Mid
<1>3. PICK a \in Answers : RunSingle("short", Mid, a) /\ Narrow("short", a)
  BY DEF BisectProbe
<1>4. /\ good \subseteq good'
      /\ good' \subseteq Lengths \X Nat /\ bad' \subseteq Lengths \X Nat
      /\ a = "good" => <<"short", Mid>> \in good'
      /\ WithinCap'
      /\ capacity' = capacity /\ limit' = limit
      /\ noise' \in 0..MaxNoise
  BY <1>2, <1>3, RunStep DEF Lengths
<1>5. CASE a = "good"
  <2>1. lo' = Mid /\ best' = Mid /\ from' = "short" /\ hi' = hi
    BY <1>3, <1>5 DEF Narrow, Keep
  <2>2. TypeOK'
    BY <1>1, <1>2, <1>4, <2>1 DEF TypeOK, Lengths
  <2>3. KeptIsMeasured'
    BY <1>4, <1>5, <2>1 DEF KeptIsMeasured
  <2> QED BY <1>1, <1>2, <1>4, <2>1, <2>2, <2>3, BlisAssumption
      DEF ScreeningInv, ConfirmInv, RatesInv, ConfirmedIsConservative
<1>6. CASE a # "good"
  <2>1. hi' = Mid /\ UNCHANGED <<lo, best, from>>
    BY <1>3, <1>6 DEF Narrow
  <2>2. TypeOK'
    BY <1>1, <1>2, <1>4, <2>1 DEF TypeOK
  <2>3. KeptIsMeasured'
    BY <1>4, <2>1 DEF KeptIsMeasured
  <2> QED BY <1>1, <1>2, <1>4, <2>1, <2>2, <2>3, BlisAssumption
      DEF ScreeningInv, ConfirmInv, RatesInv, ConfirmedIsConservative
<1> QED BY <1>5, <1>6

LEMMA BlisEndStep == ASSUME BlisInv, BisectEnd \/ ConfirmEnd PROVE BlisInv'
<1> USE DEF BlisInv
<1>1. CASE BisectEnd
  <2>1. /\ pc = "bisect" /\ found' = best /\ best \in Nat
        /\ UNCHANGED <<best, from, good, bad, capacity, limit, noise>>
        /\ from # "full"
    BY <1>1 DEF BisectEnd, TypeOK, ScreeningInv
  <2>2. KeptIsMeasured' /\ RatesInv' /\ ConfirmedIsConservative'
    BY <2>1 DEF KeptIsMeasured, RatesInv, WithinCap, ConfirmedIsConservative
  <2>3. CASE best > 0 /\ ConfirmIters > 0
    <3>1. /\ pc' = "confirm" /\ lo' = 0 /\ hi' = best \div 2
          /\ left' = ConfirmIters
      BY <1>1, <2>3 DEF BisectEnd, StartConfirm
    <3>2. hi' \in Nat /\ 2 * hi' <= best
      BY <2>1, <3>1
    <3>3. TypeOK'
      BY <2>1, <3>1, <3>2, BlisAssumption DEF TypeOK
    <3>4. ConfirmInv'
      BY <2>1, <2>3, <3>1, <3>2 DEF ConfirmInv
    <3> QED BY <2>2, <3>1, <3>3, <3>4 DEF ScreeningInv
  <2>4. CASE ~(best > 0 /\ ConfirmIters > 0)
    <3>1. pc' = "done" /\ UNCHANGED <<lo, hi, left>>
      BY <1>1, <2>4 DEF BisectEnd
    <3>2. TypeOK'
      BY <2>1, <3>1 DEF TypeOK
    <3> QED BY <2>2, <3>1, <3>2 DEF ScreeningInv, ConfirmInv
  <2> QED BY <2>3, <2>4
<1>2. CASE ConfirmEnd
  <2>1. /\ pc' = "done"
        /\ UNCHANGED <<lo, hi, best, from, left, found, good, bad, capacity,
                       limit, noise>>
    BY <1>2 DEF ConfirmEnd
  <2> QED BY <2>1 DEF TypeOK, KeptIsMeasured, ScreeningInv, ConfirmInv,
        RatesInv, WithinCap, ConfirmedIsConservative
<1> QED BY <1>1, <1>2

LEMMA BlisConfirmStep == ASSUME BlisInv, ConfirmProbe PROVE BlisInv'
<1> USE DEF BlisInv
<1>1. /\ pc = "confirm" /\ pc' = "confirm" /\ found' = found
      /\ left' \in 0..Iters \/ left' \in 0..ConfirmIters
      /\ lo \in Nat /\ hi \in Nat /\ found \in Nat /\ found <= MaxRate
      /\ lo <= hi /\ 2 * lo < found /\ 2 * hi <= found
  BY BlisAssumption DEF ConfirmProbe, TypeOK, ConfirmInv, RatesInv
<1>2. Mid \in Nat /\ lo <= Mid /\ Mid <= hi /\ Mid <= MaxRate
  BY <1>1, BlisAssumption DEF Mid
<1>3. 2 * Mid < found /\ 2 * Mid <= found
  <2>1. CASE lo = hi
    BY <1>1, <2>1 DEF Mid
  <2>2. CASE lo < hi
    BY <1>1, <2>2 DEF Mid
  <2> QED BY <1>1, <1>2, <2>1, <2>2
<1>4. PICK a \in Answers : RunSingle("full", Mid, a) /\ Narrow("full", a)
  BY DEF ConfirmProbe
<1>5. /\ good \subseteq good'
      /\ good' \subseteq Lengths \X Nat /\ bad' \subseteq Lengths \X Nat
      /\ a = "good" => <<"full", Mid>> \in good'
      /\ WithinCap'
      /\ capacity' = capacity /\ limit' = limit
      /\ noise' \in 0..MaxNoise
  BY <1>2, <1>4, RunStep DEF Lengths
<1>6. CASE a = "good"
  <2>1. lo' = Mid /\ best' = Mid /\ from' = "full" /\ hi' = hi
    BY <1>4, <1>6 DEF Narrow, Keep
  <2>2. TypeOK'
    BY <1>1, <1>2, <1>5, <2>1 DEF TypeOK, Lengths
  <2>3. KeptIsMeasured'
    BY <1>5, <1>6, <2>1 DEF KeptIsMeasured
  <2> QED BY <1>1, <1>2, <1>3, <1>5, <2>1, <2>2, <2>3
      DEF ScreeningInv, ConfirmInv, RatesInv, ConfirmedIsConservative
<1>7. CASE a # "good"
  <2>1. hi' = Mid /\ UNCHANGED <<lo, best, from>>
    BY <1>4, <1>7 DEF Narrow
  <2>2. TypeOK'
    BY <1>1, <1>2, <1>5, <2>1 DEF TypeOK
  <2>3. KeptIsMeasured'
    BY <1>5, <2>1 DEF KeptIsMeasured
  <2> QED BY <1>1, <1>2, <1>3, <1>5, <2>1, <2>2, <2>3
      DEF ScreeningInv, ConfirmInv, RatesInv, ConfirmedIsConservative
<1> QED BY <1>6, <1>7

LEMMA BlisInvariant == Spec => []BlisInv
<1>1. Init => BlisInv
  BY BlisInit
<1>2. BlisInv /\ [Next]_vars => BlisInv'
  <2>1. CASE UNCHANGED vars
    BY <2>1 DEF vars, BlisInv, TypeOK, KeptIsMeasured, ScreeningInv,
      ConfirmInv, RatesInv, WithinCap, ConfirmedIsConservative
  <2> QED BY <2>1, BlisRampStep, BlisExhaustedStep, BlisBisectStep,
        BlisEndStep, BlisConfirmStep DEF Next
<1> QED BY <1>1, <1>2, PTL DEF Spec

\* Every variable keeps its type.
THEOREM BlisTypeCorrect == Spec => []TypeOK
<1>1. BlisInv => TypeOK
  BY DEF BlisInv
<1> QED BY <1>1, BlisInvariant, PTL

\* Whatever the simulations answer, the rate and the metrics reported belong
\* to one simulation that met the SLO.
THEOREM BlisReportsAreMeasured == Spec => []ReportIsMeasured
<1>1. BlisInv => ReportIsMeasured
  BY DEF BlisInv, KeptIsMeasured, ReportIsMeasured
<1> QED BY <1>1, BlisInvariant, PTL

\* No simulation runs above the cap, in any phase.
THEOREM NeverAboveCap == Spec => []WithinCap
<1>1. BlisInv => WithinCap
  BY DEF BlisInv, RatesInv
<1> QED BY <1>1, BlisInvariant, PTL

\* A rate confirmed at full length is below half the one found with short
\* simulations.
THEOREM ConfirmationIsConservative == Spec => []ConfirmedIsConservative
<1>1. BlisInv => ConfirmedIsConservative
  BY DEF BlisInv
<1> QED BY <1>1, BlisInvariant, PTL

----------------------------------------------------------------------------
\* Powers of two count the subsets of 1..k.
LEMMA PowerCounts ==
  ASSUME NEW k \in Nat
  PROVE  /\ IsFiniteSet(SUBSET (1..k)) /\ Cardinality(SUBSET (1..k)) = 2 ^ k
         /\ 2 ^ k \in Nat \ {0}
<1>1. IsFiniteSet(1..k) /\ Cardinality(1..k) = k
  BY FS_Interval
<1>2. IsFiniteSet(SUBSET (1..k)) /\ Cardinality(SUBSET (1..k)) = 2 ^ k
  BY <1>1, FS_SUBSET
<1>3. Cardinality(SUBSET (1..k)) \in Nat
  BY <1>2, FS_CardinalityType
<1>4. Cardinality(SUBSET (1..k)) # 0
  <2>1. SUBSET (1..k) # {}
    OBVIOUS
  <2> QED BY <1>2, <2>1, FS_EmptySet
<1> QED BY <1>2, <1>3, <1>4

\* One more number doubles the subsets.
LEMMA PowerDoubles ==
  ASSUME NEW k \in Nat
  PROVE  2 ^ (k + 1) = 2 * 2 ^ k
<1> DEFINE A == SUBSET (1..k)
           B == {U \cup {k + 1} : U \in A}
           f == [U \in A |-> U \cup {k + 1}]
<1>0. k + 1 \in Nat /\ 1..(k + 1) = (1..k) \cup {k + 1} /\ k + 1 \notin 1..k
  OBVIOUS
<1>1. SUBSET (1..(k + 1)) = A \cup B
  <2>1. ASSUME NEW U \in SUBSET (1..(k + 1)), U \notin A
        PROVE  U \in B
    <3>1. k + 1 \in U /\ U \ {k + 1} \in A
      BY <1>0, <2>1
    <3>2. U = (U \ {k + 1}) \cup {k + 1}
      BY <3>1
    <3> QED BY <3>1, <3>2
  <2>2. A \subseteq SUBSET (1..(k + 1)) /\ B \subseteq SUBSET (1..(k + 1))
    BY <1>0
  <2> QED BY <2>1, <2>2
<1>2. A \cap B = {}
  BY <1>0
<1>3. ExistsBijection(A, B)
  <2>1. f \in [A -> B]
    OBVIOUS
  <2>2. \A U, V \in A : f[U] = f[V] => U = V
    <3> SUFFICES ASSUME NEW U \in A, NEW V \in A, f[U] = f[V] PROVE U = V
      OBVIOUS
    <3>1. k + 1 \notin U /\ k + 1 \notin V /\ U \cup {k + 1} = V \cup {k + 1}
      BY <1>0
    <3>2. \A x : x \in U <=> x \in V
      BY <3>1
    <3> QED BY <3>2
  <2>3. \A W \in B : \E U \in A : f[U] = W
    OBVIOUS
  <2> QED BY <2>1, <2>2, <2>3
          DEF ExistsBijection, Bijection, Injection, Surjection, IsInjective
<1>4. IsFiniteSet(A) /\ Cardinality(A) = 2 ^ k /\ 2 ^ k \in Nat
  BY PowerCounts
<1>5. IsFiniteSet(B) /\ Cardinality(B) = 2 ^ k
  BY <1>3, <1>4, FS_Bijection
<1>6. Cardinality(A \cup B) = 2 ^ k + 2 ^ k - Cardinality({})
  <2> HIDE DEF A, B
  <2>1. Cardinality(A \cup B) = Cardinality(A) + Cardinality(B) - Cardinality(A \cap B)
    BY <1>4, <1>5, FS_Union
  <2> QED BY <1>2, <1>4, <1>5, <2>1
<1>7. Cardinality(SUBSET (1..(k + 1))) = 2 ^ (k + 1)
  BY <1>0, PowerCounts
<1> HIDE DEF A, B
<1> QED BY <1>1, <1>4, <1>6, <1>7, FS_EmptySet

\* A number without remainder is a multiple.
LEMMA Divides ==
  ASSUME NEW n \in Nat, NEW p \in Nat \ {0}, n % p = 0
  PROVE  \E m \in Nat : n = m * p
<1> DEFINE m == n \div p
<1>1. n = (n \div p) * p + (n % p) /\ m \in Nat
  OBVIOUS
<1>2. m * p \in Int
  BY <1>1
<1> SUFFICES n = m * p
  BY <1>1
<1> QED BY <1>1, <1>2

\* x is a whole number of p's.
Multiple(x, p) == \E m \in Nat : x = m * p

LEMMA MultipleDoubles ==
  ASSUME NEW x \in Nat, NEW p \in Nat, Multiple(x, p)
  PROVE  Multiple(2 * x, p)
<1>1. PICK m \in Nat : x = m * p
  BY DEF Multiple
<1>2. 2 * x = (2 * m) * p
  BY <1>1
<1> QED BY <1>2 DEF Multiple

\* The grid of the rates when so many steps of the bisection are left: at the
\* end of the bisection every rate can be halved ConfirmIters + 1 times.
Grid(steps) == 2 ^ (ConfirmIters + 1) * 2 ^ steps

LEMMA GridTypes ==
  ASSUME NEW k \in Nat
  PROVE  /\ Grid(k) \in Nat \ {0}
         /\ 2 ^ (ConfirmIters + 1) \in Nat \ {0} /\ 2 ^ k \in Nat \ {0}
<1>1. 2 ^ (ConfirmIters + 1) \in Nat \ {0} /\ 2 ^ k \in Nat \ {0}
  <2>1. ConfirmIters + 1 \in Nat
    BY BlisAssumption
  <2>2. 2 ^ (ConfirmIters + 1) \in Nat \ {0}
    BY <2>1, PowerCounts
  <2>3. 2 ^ k \in Nat \ {0}
    BY PowerCounts
  <2> QED BY <2>2, <2>3
<1>2. \A i, j \in Nat \ {0} : i * j \in Nat \ {0}
  OBVIOUS
<1> QED BY <1>1, <1>2 DEF Grid

LEMMA UnitMultiples ==
  Multiple(InitialRate, Grid(Iters)) /\ Multiple(MaxRate, Grid(Iters))
BY GridTypes, Divides, BlisAssumption, UnitAssumption DEF Multiple, Grid

\* The rates of ramp and bisection: best is the lower end, the ramp doubles the
\* first rate, and the ends of the bracket are on the grid.
GridInv ==
  /\ pc \in {"ramp", "bisect"} => best = lo
  /\ pc = "ramp" =>
       /\ IF lo = 0 THEN hi = InitialRate ELSE hi = 2 * lo /\ lo >= InitialRate
       /\ Multiple(lo, Grid(Iters)) /\ Multiple(hi, Grid(Iters))
  /\ pc = "bisect" =>
       left \in Nat /\ Multiple(lo, Grid(left)) /\ Multiple(hi, Grid(left))

\* Halving the bracket refines the grid by one step.
LEMMA GridRefines ==
  ASSUME lo \in Nat, hi \in Nat, left \in Nat, left > 0,
         Multiple(lo, Grid(left)), Multiple(hi, Grid(left))
  PROVE  /\ Multiple(lo, Grid(left - 1)) /\ Multiple(hi, Grid(left - 1))
         /\ Multiple(Mid, Grid(left - 1))
<1> DEFINE g == Grid(left - 1)
<1>1. left - 1 \in Nat /\ left = (left - 1) + 1
  OBVIOUS
<1>2. g \in Nat \ {0} /\ Grid(left) = 2 * g
  <2>1. 2 ^ left = 2 * 2 ^ (left - 1)
    BY <1>1, PowerDoubles
  <2>2. \A i, j \in Nat : i * (2 * j) = 2 * (i * j)
    OBVIOUS
  <2>3. Grid(left) = 2 ^ (ConfirmIters + 1) * (2 * 2 ^ (left - 1))
    BY <2>1 DEF Grid
  <2> QED BY <1>1, <2>2, <2>3, GridTypes DEF Grid
<1>3. PICK v \in Nat, u \in Nat : lo = v * (2 * g) /\ hi = u * (2 * g)
  BY <1>2 DEF Multiple
<1> HIDE DEF g
<1>4. lo = (2 * v) * g /\ hi = (2 * u) * g
  BY <1>2, <1>3
<1>5. Mid = (v + u) * g
  <2>1. lo + hi = 2 * ((v + u) * g) /\ (v + u) * g \in Nat
    BY <1>2, <1>3
  <2> DEFINE half == (v + u) * g
  <2> HIDE DEF half
  <2>2. lo + hi = 2 * half /\ half \in Nat
    BY <2>1 DEF half
  <2>3. Mid = half
    BY <2>2 DEF Mid
  <2> QED BY <2>3 DEF half
<1>6. Multiple(lo, g) /\ Multiple(hi, g) /\ Multiple(Mid, g)
  BY <1>4, <1>5 DEF Multiple
<1> QED BY <1>6 DEF g

LEMMA GridStep ==
  ASSUME BlisInv, GridInv, [Next]_vars
  PROVE  GridInv'
<1> USE DEF BlisInv
<1>0. /\ lo \in Nat /\ hi \in Nat /\ best \in Nat /\ InitialRate \in Nat \ {0}
      /\ MaxRate \in Nat \ {0} /\ Iters \in Nat
  BY BlisAssumption DEF TypeOK
<1>1. ASSUME pc = "ramp", StartBisect, UNCHANGED <<lo, best>>
      PROVE  GridInv'
  <2>1. /\ pc' = "bisect" /\ left' = Iters
        /\ hi' = IF hi <= MaxRate THEN hi ELSE MaxRate
    BY <1>1 DEF StartBisect
  <2> QED BY <1>0, <1>1, <2>1, UnitMultiples DEF GridInv
<1>2. CASE RampProbe
  <2>1. PICK a \in Answers :
          \/ a = "good" /\ RampGood
          \/ RampBad
          \/ RampTimedOut
    BY <1>2 DEF RampProbe
  <2>2. pc = "ramp"
    BY <1>2 DEF RampProbe
  <2>3. CASE RampGood
    <3>1. lo' = hi /\ best' = hi /\ hi' = 2 * hi /\ pc' = pc
      BY <1>0, <2>3 DEF RampGood, Keep
    <3>2. hi >= InitialRate /\ hi # 0
      BY <1>0, <2>2 DEF GridInv
    <3>3. Multiple(hi, Grid(Iters)) /\ Multiple(2 * hi, Grid(Iters))
      BY <1>0, <2>2, GridTypes, MultipleDoubles DEF GridInv
    <3> QED BY <2>2, <3>1, <3>2, <3>3 DEF GridInv
  <2>4. CASE RampBad
    BY <1>1, <2>2, <2>4 DEF RampBad
  <2>5. CASE RampTimedOut
    BY <2>5 DEF RampTimedOut, GridInv
  <2> QED BY <2>1, <2>3, <2>4, <2>5
<1>3. CASE RampExhausted
  BY <1>1, <1>3 DEF RampExhausted
<1>4. CASE BisectProbe
  <2>1. PICK a \in Answers : Narrow("short", a)
    BY <1>4 DEF BisectProbe
  <2>2. pc = "bisect" /\ left > 0 /\ left' = left - 1 /\ pc' = "bisect"
    BY <1>4 DEF BisectProbe
  <2>3. left \in Nat /\ left' \in Nat
    BY <2>2 DEF GridInv
  <2>4. /\ Multiple(lo, Grid(left')) /\ Multiple(hi, Grid(left'))
        /\ Multiple(Mid, Grid(left'))
    BY <1>0, <2>2, <2>3, GridRefines DEF GridInv
  <2>5. best = lo
    BY <2>2 DEF GridInv
  <2> QED BY <2>1, <2>2, <2>3, <2>4, <2>5 DEF Narrow, Keep, GridInv
<1>5. CASE BisectEnd \/ ConfirmProbe \/ ConfirmEnd
  <2>1. pc' \in {"confirm", "done"}
    BY <1>5 DEF BisectEnd, ConfirmProbe, ConfirmEnd
  <2> QED BY <2>1 DEF GridInv
<1>6. CASE UNCHANGED vars
  BY <1>6 DEF vars, GridInv
<1> QED BY <1>2, <1>3, <1>4, <1>5, <1>6 DEF Next

LEMMA GridInvariant == Spec => []GridInv
<1>1. Init => GridInv
  <2> SUFFICES ASSUME Init PROVE GridInv
    OBVIOUS
  <2>1. Multiple(0, Grid(Iters))
    <3>1. 0 = 0 * Grid(Iters)
      BY GridTypes, BlisAssumption
    <3> QED BY <3>1 DEF Multiple
  <2> QED BY <2>1, UnitMultiples DEF Init, GridInv
<1>2. BlisInv /\ GridInv /\ [Next]_vars => GridInv'
  BY GridStep
<1> QED BY <1>1, <1>2, BlisInvariant, PTL DEF Spec

----------------------------------------------------------------------------
\* The highest rate a simulation of that length answers "good" without noise.
Sustained(len) ==
  IF capacity[len] < limit[len] THEN capacity[len] ELSE limit[len]

\* Without noise the two histories are on their sides of what is sustained.
HonestRuns ==
  noise = 0 =>
    /\ \A run \in good : run[2] <= Sustained(run[1])
    /\ \A run \in bad : run[2] > Sustained(run[1])

LEMMA SustainedTypes ==
  ASSUME TypeOK, NEW len \in Lengths
  PROVE  /\ capacity[len] \in Nat /\ limit[len] \in Nat /\ Sustained(len) \in Nat
         /\ Sustained(len) <= capacity[len] /\ Sustained(len) <= limit[len]
<1>1. capacity[len] \in Nat /\ limit[len] \in Nat
  BY BlisAssumption DEF TypeOK
<1> QED BY <1>1 DEF Sustained

\* What an answer without noise says about the rate.
LEMMA HonestAnswer ==
  ASSUME TypeOK, NEW len \in Lengths, NEW r \in Nat, NEW a \in Answers,
         RunSingle(len, r, a), noise' = 0
  PROVE  /\ noise = 0
         /\ a = "good" <=> r <= Sustained(len)
         /\ a = "none" <=> r > limit[len]
<1>1. noise \in Nat
  BY BlisAssumption DEF TypeOK
<1>2. noise = 0 /\ a = Expected(len, r)
  BY <1>1 DEF RunSingle
<1>3. capacity[len] \in Nat /\ limit[len] \in Nat
  BY SustainedTypes
<1> QED BY <1>2, <1>3 DEF Expected, Sustained

LEMMA RunIsHonest ==
  ASSUME TypeOK, HonestRuns, NEW len \in Lengths, NEW r \in Nat,
         NEW a \in Answers, RunSingle(len, r, a)
  PROVE  HonestRuns'
<1>1. /\ good' = IF a = "good" THEN good \cup {<<len, r>>} ELSE good
      /\ bad' = IF a = "good" THEN bad ELSE bad \cup {<<len, r>>}
      /\ capacity' = capacity /\ limit' = limit
  BY DEF RunSingle
<1>2. SUFFICES ASSUME noise' = 0
               PROVE  /\ \A run \in good' : run[2] <= Sustained(run[1])
                      /\ \A run \in bad' : run[2] > Sustained(run[1])
  BY <1>1 DEF HonestRuns, Sustained
<1>3. noise = 0 /\ (a = "good" <=> r <= Sustained(len))
  BY <1>2, HonestAnswer
<1>4. Sustained(len) \in Nat
  BY SustainedTypes
<1>5. /\ \A run \in good : run[2] <= Sustained(run[1])
      /\ \A run \in bad : run[2] > Sustained(run[1])
  BY <1>3 DEF HonestRuns
<1>6. \A run \in good' : run \in good \/ (a = "good" /\ run = <<len, r>>)
  BY <1>1
<1>7. \A run \in bad' : run \in bad \/ (a # "good" /\ run = <<len, r>>)
  BY <1>1
<1>8. a = "good" => r <= Sustained(len)
  BY <1>3
<1>9. a # "good" => r > Sustained(len)
  BY <1>3, <1>4
<1> QED BY <1>5, <1>6, <1>7, <1>8, <1>9

\* Every step runs one simulation or none, at a rate of the model.
LEMMA RunOrNot ==
  ASSUME BlisInv, [Next]_vars
  PROVE  /\ capacity' = capacity /\ limit' = limit
         /\ \/ \E len \in Lengths, r \in Nat, a \in Answers : RunSingle(len, r, a)
            \/ UNCHANGED <<good, bad, noise>>
<1>1. lo \in Nat /\ hi \in Nat
  BY DEF BlisInv, TypeOK
<1>2. Mid \in Nat /\ "short" \in Lengths /\ "full" \in Lengths
  BY <1>1 DEF Mid, Lengths
<1>3. CASE RampProbe
  <2>1. PICK a \in Answers : RunSingle("short", hi, a)
    BY <1>3 DEF RampProbe
  <2> QED BY <1>1, <1>2, <2>1 DEF RunSingle
<1>4. CASE BisectProbe
  <2>1. PICK a \in Answers : RunSingle("short", Mid, a)
    BY <1>4 DEF BisectProbe
  <2> QED BY <1>2, <2>1 DEF RunSingle
<1>5. CASE ConfirmProbe
  <2>1. PICK a \in Answers : RunSingle("full", Mid, a)
    BY <1>5 DEF ConfirmProbe
  <2> QED BY <1>2, <2>1 DEF RunSingle
<1>6. CASE RampExhausted \/ BisectEnd \/ ConfirmEnd \/ UNCHANGED vars
  BY <1>6 DEF RampExhausted, BisectEnd, ConfirmEnd, vars
<1> QED BY <1>3, <1>4, <1>5, <1>6 DEF Next

LEMMA HonestInvariant == Spec => []HonestRuns
<1>1. Init => HonestRuns
  BY DEF Init, HonestRuns
<1>2. BlisInv /\ HonestRuns /\ [Next]_vars => HonestRuns'
  <2> SUFFICES ASSUME BlisInv, HonestRuns, [Next]_vars PROVE HonestRuns'
    OBVIOUS
  <2>1. TypeOK
    BY DEF BlisInv
  <2>2. CASE UNCHANGED <<good, bad, noise>>
    BY <2>2, RunOrNot DEF HonestRuns, Sustained
  <2> QED BY <2>1, <2>2, RunOrNot, RunIsHonest
<1> QED BY <1>1, <1>2, BlisInvariant, PTL DEF Spec

\* The lower end of ramp and bisection is sustained.
LEMMA LowIsSustained ==
  ASSUME BlisInv, GridInv, HonestRuns, noise = 0, pc \in {"ramp", "bisect"}
  PROVE  lo <= capacity["short"]
<1>1. TypeOK /\ "short" \in Lengths
  BY DEF BlisInv, Lengths
<1>2. /\ capacity["short"] \in Nat /\ Sustained("short") \in Nat
      /\ Sustained("short") <= capacity["short"]
  BY <1>1, SustainedTypes
<1>3. best = lo /\ from # "full" /\ lo \in Nat
  BY DEF BlisInv, ScreeningInv, GridInv, TypeOK
<1>4. CASE from = "none"
  BY <1>2, <1>3, <1>4 DEF BlisInv, KeptIsMeasured
<1>5. CASE from = "short"
  <2>1. <<"short", lo>> \in good
    BY <1>3, <1>5 DEF BlisInv, KeptIsMeasured
  <2>2. lo <= Sustained("short")
    BY <2>1 DEF HonestRuns
  <2> QED BY <1>2, <1>3, <2>2
<1> QED BY <1>1, <1>3, <1>4, <1>5 DEF TypeOK, Lengths

----------------------------------------------------------------------------
\* The configurations of which ScreeningIsTight speaks.
QuickFits == limit["short"] > MaxRate /\ capacity["short"] < MaxRate

\* What the width of the bracket is compared with.
Scale(low) == IF low < InitialRate THEN InitialRate ELSE low

\* The bracket of the bisection holds the capacity, and has been halved an
\* exact number of times: its width tells how many steps are left.
WidthInv ==
  noise = 0 /\ QuickFits =>
    /\ pc = "bisect" =>
         /\ hi > capacity["short"]
         /\ \E q \in Int : hi - lo = q * 2 ^ left /\ q * 2 ^ Iters <= Scale(lo)
    /\ pc \in {"confirm", "done"} =>
         /\ found <= capacity["short"]
         /\ (capacity["short"] - found) * 2 ^ Iters < Scale(found)

\* A number on the grid can be halved so many times.
LEMMA OnTheGrid ==
  ASSUME NEW k \in Nat, NEW x \in Nat, Multiple(x, Grid(k))
  PROVE  Multiple(x, 2 ^ k) /\ Multiple(x, 2 ^ (ConfirmIters + 1))
<1> DEFINE c == 2 ^ (ConfirmIters + 1)
           p == 2 ^ k
<1>1. PICK m \in Nat : x = m * (c * p)
  BY DEF Multiple, Grid
<1>2. c \in Nat /\ p \in Nat
  BY GridTypes
<1> HIDE DEF c, p
<1>3. x = (m * c) * p /\ x = (m * p) * c /\ m * c \in Nat /\ m * p \in Nat
  BY <1>1, <1>2
<1>4. Multiple(x, p) /\ Multiple(x, c)
  BY <1>3 DEF Multiple
<1> QED BY <1>4 DEF c, p

\* Halving a bracket of an even number of steps.
LEMMA Halving ==
  ASSUME lo \in Nat, hi \in Nat, left \in Nat, left > 0,
         NEW q \in Int, hi - lo = q * 2 ^ left
  PROVE  Mid - lo = q * 2 ^ (left - 1) /\ hi - Mid = q * 2 ^ (left - 1)
<1> DEFINE k == left - 1
           half == q * 2 ^ k
<1>1. k \in Nat /\ left = k + 1
  OBVIOUS
<1>2. 2 ^ left = 2 * 2 ^ k /\ 2 ^ k \in Nat
  BY <1>1, PowerDoubles, PowerCounts
<1>3. hi - lo = 2 * half /\ half \in Int
  BY <1>2
<1> HIDE DEF half
<1>4. Mid = lo + half
  BY <1>3 DEF Mid
<1> QED BY <1>3, <1>4 DEF half

\* Leaving the ramp, the bracket is no wider than the first rate or than its
\* lower end.
LEMMA WidthAtStart ==
  ASSUME NEW low \in Nat, NEW high \in Nat, Multiple(low, 2 ^ Iters),
         IF low = 0 THEN high = InitialRate
         ELSE high = 2 * low /\ low >= InitialRate
  PROVE  \E q \in Int :
           /\ (IF high <= MaxRate THEN high ELSE MaxRate) - low = q * 2 ^ Iters
           /\ q * 2 ^ Iters <= Scale(low)
<1> DEFINE p == 2 ^ Iters
<1>0. /\ p \in Nat \ {0} /\ MaxRate \in Nat /\ InitialRate \in Nat \ {0}
      /\ InitialRate <= MaxRate /\ Iters \in Nat
  BY GridTypes, BlisAssumption
<1>1. PICK v \in Nat : low = v * p
  BY DEF Multiple
<1>2. PICK m \in Nat, i \in Nat : MaxRate = m * p /\ InitialRate = i * p
  <2>1. Multiple(MaxRate, p) /\ Multiple(InitialRate, p)
    BY <1>0, UnitMultiples, OnTheGrid
  <2> QED BY <2>1 DEF Multiple
<1> HIDE DEF p
<1>3. CASE low = 0
  <2>1. high <= MaxRate /\ high - low = i * p /\ i * p <= Scale(low)
    BY <1>0, <1>2, <1>3 DEF Scale
  <2> QED BY <1>0, <2>1 DEF p
<1>4. CASE low # 0 /\ high <= MaxRate
  <2>1. high - low = v * p /\ v * p <= Scale(low)
    BY <1>0, <1>1, <1>4 DEF Scale
  <2> QED BY <1>4, <2>1 DEF p
<1>5. CASE low # 0 /\ ~(high <= MaxRate)
  <2>1. (m - v) * p = m * p - v * p /\ m - v \in Int
    BY <1>0
  <2>2. MaxRate - low = (m - v) * p /\ MaxRate - low <= Scale(low)
    BY <1>0, <1>1, <1>2, <1>5, <2>1 DEF Scale
  <2>3. (m - v) * p <= Scale(low)
    BY <2>2
  <2> QED BY <1>5, <2>1, <2>2, <2>3 DEF p
<1> QED BY <1>3, <1>4, <1>5

LEMMA ScaleGrows ==
  ASSUME NEW x \in Nat, NEW y \in Nat, y >= x
  PROVE  Scale(x) \in Nat /\ Scale(y) \in Nat /\ Scale(y) >= Scale(x)
BY BlisAssumption DEF Scale

\* A bracket of width q that holds c leaves less than q below it.
LEMMA WithinWidth ==
  ASSUME NEW low \in Nat, NEW high \in Nat, NEW q \in Int, NEW c \in Nat,
         high - low = q, q * 2 ^ Iters <= Scale(low), c < high
  PROVE  (c - low) * 2 ^ Iters < Scale(low)
<1> DEFINE p == 2 ^ Iters
<1>0. p \in Nat \ {0} /\ Scale(low) \in Nat
  BY GridTypes, BlisAssumption DEF Scale
<1> HIDE DEF p
<1>1. c - low <= q - 1
  OBVIOUS
<1>2. \A i, j \in Int : i <= j => i * p <= j * p
  BY <1>0
<1>3. (c - low) * p <= (q - 1) * p
  BY <1>0, <1>1, <1>2
<1>4. (q - 1) * p = q * p - p /\ q * p \in Int
  BY <1>0
<1>5. q * p <= Scale(low)
  BY DEF p
<1>6. (c - low) * p \in Int
  BY <1>0
<1>7. (c - low) * p < Scale(low)
  BY <1>0, <1>3, <1>4, <1>5, <1>6
<1> QED BY <1>7 DEF p

LEMMA WidthStep ==
  ASSUME BlisInv, GridInv, HonestRuns, WidthInv, [Next]_vars
  PROVE  WidthInv'
<1>0. /\ TypeOK /\ capacity' = capacity /\ limit' = limit
      /\ QuickFits' = QuickFits /\ "short" \in Lengths
      /\ lo \in Nat /\ hi \in Nat /\ best \in Nat /\ found \in Nat
      /\ left \in Nat /\ noise \in Nat
      /\ InitialRate \in Nat \ {0} /\ MaxRate \in Nat /\ Iters \in Nat
  BY RunOrNot, BlisAssumption DEF BlisInv, TypeOK, QuickFits, Lengths
<1>1. capacity["short"] \in Nat /\ limit["short"] \in Nat
  BY <1>0, SustainedTypes
<1>2. CASE UNCHANGED vars
  BY <1>0, <1>2 DEF vars, WidthInv, Scale
<1>3. noise' = 0 => noise = 0
  BY <1>0, RunOrNot, HonestAnswer
<1> SUFFICES ASSUME noise' = 0, noise = 0, QuickFits, Next
             PROVE  /\ pc' = "bisect" =>
                         /\ hi' > capacity["short"]
                         /\ \E q \in Int : /\ hi' - lo' = q * 2 ^ left'
                                           /\ q * 2 ^ Iters <= Scale(lo')
                    /\ pc' \in {"confirm", "done"} =>
                         /\ found' <= capacity["short"]
                         /\ (capacity["short"] - found') * 2 ^ Iters
                              < Scale(found')
  BY <1>0, <1>2, <1>3 DEF WidthInv, Scale
<1>4. Sustained("short") = capacity["short"]
  BY <1>0, <1>1 DEF QuickFits, Sustained
<1>5. ASSUME pc = "ramp", StartBisect, lo' = lo, hi > capacity["short"]
      PROVE  /\ pc' = "bisect" /\ hi' > capacity["short"]
             /\ \E q \in Int : /\ hi' - lo' = q * 2 ^ left'
                               /\ q * 2 ^ Iters <= Scale(lo')
  <2>1. /\ pc' = "bisect" /\ left' = Iters
        /\ hi' = IF hi <= MaxRate THEN hi ELSE MaxRate
    BY <1>5 DEF StartBisect
  <2>2. /\ IF lo = 0 THEN hi = InitialRate ELSE hi = 2 * lo /\ lo >= InitialRate
        /\ Multiple(lo, 2 ^ Iters)
    BY <1>0, <1>5, OnTheGrid DEF GridInv
  <2>3. \E q \in Int :
          /\ (IF hi <= MaxRate THEN hi ELSE MaxRate) - lo = q * 2 ^ Iters
          /\ q * 2 ^ Iters <= Scale(lo)
    BY <1>0, <2>2, WidthAtStart
  <2>4. hi' > capacity["short"]
    BY <1>0, <1>1, <1>5, <2>1 DEF QuickFits
  <2> QED BY <1>5, <2>1, <2>3, <2>4
<1>6. CASE RampProbe
  <2>1. PICK a \in Answers :
          /\ RunSingle("short", hi, a)
          /\ \/ a = "good" /\ RampGood
             \/ (a = "slow" \/ (a = "none" /\ best # 0)) /\ RampBad
             \/ a = "none" /\ best = 0 /\ RampTimedOut
    BY <1>6 DEF RampProbe
  <2>2. /\ pc = "ramp" /\ hi <= MaxRate
        /\ a = "good" <=> hi <= capacity["short"]
        /\ a # "none"
    BY <1>0, <1>1, <1>4, <1>6, <2>1, HonestAnswer DEF RampProbe, QuickFits
  <2>3. CASE a = "good" /\ RampGood
    BY <2>2, <2>3 DEF RampGood
  <2>4. CASE a # "good" /\ RampBad
    <3>1. hi > capacity["short"]
      BY <1>0, <1>1, <2>2, <2>4
    <3>2. StartBisect /\ lo' = lo
      BY <2>4 DEF RampBad
    <3> QED BY <1>5, <2>2, <3>1, <3>2
  <2> QED BY <2>1, <2>2, <2>3, <2>4
<1>7. CASE RampExhausted
  <2>1. pc = "ramp" /\ hi > MaxRate /\ StartBisect /\ lo' = lo
    BY <1>7 DEF RampExhausted
  <2>2. hi > capacity["short"]
    BY <1>0, <1>1, <2>1 DEF QuickFits
  <2> QED BY <1>5, <2>1, <2>2
<1>8. CASE BisectProbe
  <2>1. PICK a \in Answers : RunSingle("short", Mid, a) /\ Narrow("short", a)
    BY <1>8 DEF BisectProbe
  <2>2. /\ pc = "bisect" /\ pc' = "bisect" /\ lo <= hi /\ left > 0
        /\ left' = left - 1
    BY <1>8 DEF BisectProbe, BlisInv, ScreeningInv
  <2>3. Mid \in Nat /\ Mid >= lo
    BY <1>0, <2>2 DEF Mid
  <2>4. PICK q \in Int : hi - lo = q * 2 ^ left /\ q * 2 ^ Iters <= Scale(lo)
    BY <2>2 DEF WidthInv
  <2>5. Mid - lo = q * 2 ^ (left - 1) /\ hi - Mid = q * 2 ^ (left - 1)
    BY <1>0, <2>2, <2>4, Halving
  <2>6. a = "good" <=> Mid <= capacity["short"]
    BY <1>0, <1>4, <2>1, <2>3, HonestAnswer
  <2>7. hi' - lo' = q * 2 ^ left'
    BY <2>1, <2>2, <2>5 DEF Narrow, Keep
  <2>8. hi' > capacity["short"]
    <3>1. hi > capacity["short"]
      BY <2>2 DEF WidthInv
    <3> QED BY <1>1, <2>1, <2>3, <2>6, <3>1 DEF Narrow
  <2>9. q * 2 ^ Iters <= Scale(lo')
    <3>1. q * 2 ^ Iters \in Int
      BY <1>0, GridTypes
    <3>2. Scale(lo') >= Scale(lo) /\ Scale(lo') \in Nat /\ Scale(lo) \in Nat
      <4>1. lo' \in Nat /\ lo' >= lo
        BY <1>0, <2>1, <2>3 DEF Narrow, Keep
      <4> QED BY <1>0, <4>1, ScaleGrows
    <3> QED BY <2>4, <3>1, <3>2
  <2> QED BY <2>2, <2>7, <2>8, <2>9
<1>9. CASE BisectEnd
  <2>1. /\ pc = "bisect" /\ left = 0 /\ found' = lo /\ pc' \in {"confirm", "done"}
        /\ hi > capacity["short"]
    <3>1. pc = "bisect" /\ left = 0 /\ found' = best /\ pc' \in {"confirm", "done"}
      BY <1>9 DEF BisectEnd, StepsOver
    <3>2. hi > capacity["short"]
      BY <3>1 DEF WidthInv
    <3>3. best = lo
      BY <3>1 DEF GridInv
    <3> QED BY <3>1, <3>2, <3>3
  <2>2. PICK q \in Int : hi - lo = q * 2 ^ left /\ q * 2 ^ Iters <= Scale(lo)
    BY <2>1 DEF WidthInv
  <2>3. hi - lo = q
    BY <2>1, <2>2
  <2>4. lo <= capacity["short"]
    BY <2>1, LowIsSustained
  <2>5. (capacity["short"] - lo) * 2 ^ Iters < Scale(lo)
    BY <1>0, <1>1, <2>1, <2>2, <2>3, WithinWidth
  <2> QED BY <2>1, <2>4, <2>5
<1>10. CASE ConfirmProbe \/ ConfirmEnd
  <2>1. pc = "confirm" /\ pc' \in {"confirm", "done"} /\ found' = found
    BY <1>10 DEF ConfirmProbe, ConfirmEnd
  <2>2. /\ found <= capacity["short"]
        /\ (capacity["short"] - found) * 2 ^ Iters < Scale(found)
    BY <2>1 DEF WidthInv
  <2>3. pc' # "bisect"
    BY <2>1
  <2> QED BY <2>1, <2>2, <2>3
<1> QED BY <1>6, <1>7, <1>8, <1>9, <1>10 DEF Next

\* Without noise, and when the simulations finish, what the short runs settle
\* on misses the capacity by less than the last bisection step.
THEOREM ScreeningIsAccurate == Spec => []ScreeningIsTight
<1>1. Init => WidthInv
  BY DEF Init, WidthInv
<1>2. BlisInv /\ GridInv /\ HonestRuns /\ WidthInv /\ [Next]_vars => WidthInv'
  BY WidthStep
<1>3. WidthInv => ScreeningIsTight
  BY DEF WidthInv, QuickFits, Scale, ScreeningIsTight
<1> QED BY <1>1, <1>2, <1>3, BlisInvariant, GridInvariant, HonestInvariant,
           PTL DEF Spec

----------------------------------------------------------------------------
\* The last step of the confirmation, as ConfirmedIsTight has it.
LastStep == (found \div 2) \div 2 ^ ConfirmIters

\* The confirmation halves the half of the rate found an exact number of
\* times; its upper end is that half or a rate that is not sustained.
ConfirmWidthInv ==
  /\ pc = "confirm" =>
       /\ left \in Nat /\ LastStep \in Nat
       /\ hi - lo = LastStep * 2 ^ left
       /\ from = "full" => best = lo
       /\ noise = 0 => hi = found \div 2 \/ hi > Sustained("full")
  /\ ConfirmedIsTight

LEMMA ExactQuotient ==
  ASSUME NEW p \in Nat \ {0}, NEW v \in Nat, NEW w \in Int, NEW d \in 0..(p - 1),
         v * p = w * p + d
  PROVE  w = v
<1>1. \A i, j \in Int : i >= j + 1 => i * p >= j * p + p
  <2> SUFFICES ASSUME NEW i \in Int, NEW j \in Int, i >= j + 1
               PROVE  i * p >= j * p + p
    OBVIOUS
  <2>1. (i - j) * p = i * p - j * p /\ (i - j) * p >= p
    OBVIOUS
  <2>2. i * p \in Int /\ j * p \in Int
    OBVIOUS
  <2> QED BY <2>1, <2>2
<1>2. v * p \in Int /\ w * p \in Int
  OBVIOUS
<1>3. ~(v >= w + 1) /\ ~(w >= v + 1)
  BY <1>1, <1>2
<1> QED BY <1>3

\* A rate that can be halved ConfirmIters + 1 times is halved exactly.
LEMMA HalvedExactly ==
  ASSUME NEW x \in Nat, Multiple(x, 2 ^ (ConfirmIters + 1))
  PROVE  /\ (x \div 2) \div 2 ^ ConfirmIters \in Nat
         /\ x \div 2 = ((x \div 2) \div 2 ^ ConfirmIters) * 2 ^ ConfirmIters
<1> DEFINE p == 2 ^ ConfirmIters
<1>0. ConfirmIters \in Nat
  BY BlisAssumption
<1>1. 2 ^ (ConfirmIters + 1) = 2 * p /\ p \in Nat \ {0}
  BY <1>0, PowerDoubles, PowerCounts
<1>2. PICK v \in Nat : x = v * (2 * p)
  BY <1>1 DEF Multiple
<1> HIDE DEF p
<1>3. x = 2 * (v * p) /\ v * p \in Nat
  BY <1>1, <1>2
<1>4. x \div 2 = v * p
  <2> DEFINE h == v * p
  <2>1. x = 2 * h /\ h \in Nat
    BY <1>3
  <2> HIDE DEF h
  <2>2. x \div 2 = h
    BY <2>1
  <2> QED BY <2>2 DEF h
<1>5. (v * p) \div p = v
  <2> DEFINE h == v * p
  <2>1. h = (h \div p) * p + (h % p) /\ h % p \in 0..(p - 1) /\ h \div p \in Int
    BY <1>1, <1>3
  <2>2. h = v * p
    OBVIOUS
  <2> HIDE DEF h
  <2>3. h \div p = v
    BY <1>1, <1>2, <2>1, <2>2, ExactQuotient
  <2> QED BY <2>3 DEF h
<1>6. x \div 2 = ((x \div 2) \div p) * p /\ (x \div 2) \div p \in Nat
  BY <1>4, <1>5
<1> QED BY <1>6 DEF p

LEMMA ConfirmWidthStep ==
  ASSUME BlisInv, GridInv, HonestRuns, ConfirmWidthInv, [Next]_vars
  PROVE  ConfirmWidthInv'
<1>0. /\ TypeOK /\ capacity' = capacity /\ limit' = limit
      /\ Sustained("full")' = Sustained("full") /\ "full" \in Lengths
      /\ Sustained("full") \in Nat
      /\ lo \in Nat /\ hi \in Nat /\ best \in Nat /\ found \in Nat
      /\ left \in Nat /\ noise \in Nat
  <2>1. TypeOK /\ capacity' = capacity /\ limit' = limit /\ "full" \in Lengths
    BY RunOrNot DEF BlisInv, Lengths
  <2>2. Sustained("full")' = Sustained("full")
    BY <2>1 DEF Sustained
  <2> QED BY <2>1, <2>2, SustainedTypes, BlisAssumption DEF TypeOK
<1>1. CASE UNCHANGED vars
  <2>1. UNCHANGED <<pc, lo, hi, best, from, left, found, noise, capacity, limit>>
    BY <1>1 DEF vars
  <2> QED BY <1>0, <2>1 DEF ConfirmWidthInv, LastStep, ConfirmedIsTight
<1>2. noise' = 0 => noise = 0
  BY <1>0, RunOrNot, HonestAnswer
<1>3. CASE RampProbe \/ RampExhausted \/ BisectProbe
  <2>1. pc \in {"ramp", "bisect"} /\ pc' # "confirm"
    BY <1>3 DEF RampProbe, RampExhausted, BisectProbe, RampGood, RampBad,
      RampTimedOut, StartBisect
  <2>2. pc' = "done" => from' = from
    BY <1>3, <2>1 DEF RampProbe, RampExhausted, BisectProbe, RampGood, RampBad,
      RampTimedOut, StartBisect
  <2>3. from # "full"
    BY <2>1 DEF BlisInv, ScreeningInv
  <2> QED BY <2>1, <2>2, <2>3 DEF ConfirmWidthInv, ConfirmedIsTight
<1>4. CASE BisectEnd
  <2>1. /\ pc = "bisect" /\ left = 0 /\ found' = best /\ best = lo
        /\ from # "full" /\ from' = from /\ noise' = noise
    BY <1>4 DEF BisectEnd, StepsOver, GridInv, BlisInv, ScreeningInv
  <2>2. Multiple(best, 2 ^ (ConfirmIters + 1))
    BY <1>0, <2>1, OnTheGrid DEF GridInv
  <2>3. CASE pc' = "done"
    BY <2>1, <2>3 DEF ConfirmWidthInv, ConfirmedIsTight
  <2>4. CASE pc' = "confirm"
    <3>1. lo' = 0 /\ hi' = best \div 2 /\ left' = ConfirmIters
      BY <1>4, <2>4 DEF BisectEnd, StartConfirm
    <3>2. LastStep' = (best \div 2) \div 2 ^ ConfirmIters
      BY <2>1 DEF LastStep
    <3>3. LastStep' \in Nat /\ best \div 2 = LastStep' * 2 ^ ConfirmIters
      BY <1>0, <2>2, <3>2, HalvedExactly
    <3>4. hi' - lo' = LastStep' * 2 ^ left'
      <4>1. best \div 2 \in Int
        BY <1>0
      <4> QED BY <3>1, <3>3, <4>1
    <3> QED BY <2>1, <2>4, <3>1, <3>3, <3>4, BlisAssumption
        DEF ConfirmWidthInv, ConfirmedIsTight
  <2> QED BY <1>4, <2>3, <2>4 DEF BisectEnd
<1>5. CASE ConfirmProbe
  <2>1. PICK a \in Answers : RunSingle("full", Mid, a) /\ Narrow("full", a)
    BY <1>5 DEF ConfirmProbe
  <2>2. /\ pc = "confirm" /\ pc' = "confirm" /\ found' = found /\ left > 0
        /\ left' = left - 1 /\ LastStep' = LastStep
    BY <1>5 DEF ConfirmProbe, LastStep
  <2>3. /\ LastStep \in Nat /\ hi - lo = LastStep * 2 ^ left
        /\ from = "full" => best = lo
        /\ noise = 0 => hi = found \div 2 \/ hi > Sustained("full")
    BY <2>2 DEF ConfirmWidthInv
  <2>4. Mid - lo = LastStep * 2 ^ (left - 1) /\ hi - Mid = LastStep * 2 ^ (left - 1)
    BY <1>0, <2>2, <2>3, Halving
  <2>5. hi' - lo' = LastStep * 2 ^ left'
    BY <2>1, <2>2, <2>4 DEF Narrow, Keep
  <2>6. from' = "full" => best' = lo'
    BY <2>1, <2>3 DEF Narrow, Keep
  <2>7. noise' = 0 => hi' = found \div 2 \/ hi' > Sustained("full")
    <3> SUFFICES ASSUME noise' = 0
                 PROVE  hi' = found \div 2 \/ hi' > Sustained("full")
      OBVIOUS
    <3>1. Mid \in Nat
      BY <1>0 DEF Mid
    <3>2. a = "good" <=> Mid <= Sustained("full")
      BY <1>0, <2>1, <3>1, HonestAnswer
    <3>3. CASE a = "good"
      BY <1>2, <2>1, <2>3, <3>3 DEF Narrow
    <3>4. CASE a # "good"
      <4>1. hi' = Mid
        BY <2>1, <3>4 DEF Narrow
      <4> QED BY <1>0, <3>1, <3>2, <3>4, <4>1
    <3> QED BY <3>3, <3>4
  <2>8. left' \in Nat
    BY <1>0, <2>2
  <2> QED BY <1>0, <2>2, <2>3, <2>5, <2>6, <2>7, <2>8
      DEF ConfirmWidthInv, ConfirmedIsTight
<1>6. CASE ConfirmEnd
  <2>1. /\ pc = "confirm" /\ left = 0 /\ pc' = "done"
        /\ UNCHANGED <<best, from, found, noise>>
    BY <1>6 DEF ConfirmEnd, StepsOver
  <2>2. /\ LastStep \in Nat /\ hi - lo = LastStep
        /\ from = "full" => best = lo
        /\ noise = 0 => hi = found \div 2 \/ hi > Sustained("full")
    BY <2>1 DEF ConfirmWidthInv
  <2>3. ASSUME noise = 0, from = "full"
        PROVE  /\ best <= Sustained("full")
               /\ \/ Sustained("full") < best + LastStep
                  \/ best + LastStep >= found \div 2
    <3>1. <<"full", best>> \in good
      BY <2>3 DEF BlisInv, KeptIsMeasured
    <3>2. best <= Sustained("full")
      BY <2>3, <3>1 DEF HonestRuns
    <3>3. best + LastStep = hi
      BY <1>0, <2>2, <2>3
    <3>4. found \div 2 \in Int
      BY <1>0
    <3> QED BY <1>0, <2>2, <2>3, <3>2, <3>3, <3>4
  <2>4. ConfirmedIsTight'
    BY <1>0, <2>1, <2>3 DEF ConfirmedIsTight, Sustained, LastStep
  <2> QED BY <2>1, <2>4 DEF ConfirmWidthInv
<1> QED BY <1>1, <1>3, <1>4, <1>5, <1>6 DEF Next

\* Without noise, a confirmed rate is sustained at full length, and the next
\* step above it is not, or is half of what the short runs found.
THEOREM ConfirmationIsTight == Spec => []ConfirmedIsTight
<1>1. Init => ConfirmWidthInv
  BY DEF Init, ConfirmWidthInv, ConfirmedIsTight
<1>2. BlisInv /\ GridInv /\ HonestRuns /\ ConfirmWidthInv /\ [Next]_vars
      => ConfirmWidthInv'
  BY ConfirmWidthStep
<1>3. ConfirmWidthInv => ConfirmedIsTight
  BY DEF ConfirmWidthInv
<1> QED BY <1>1, <1>2, <1>3, BlisInvariant, GridInvariant, HonestInvariant,
           PTL DEF Spec

----------------------------------------------------------------------------
\* What is left to do: the ramp has the way to the cap before it, then the
\* bisection its steps, then the confirmation.
ToDo ==
  CASE pc = "ramp" -> ConfirmIters + Iters
                        + (IF hi > MaxRate THEN 3 ELSE 4 + MaxRate - hi)
    [] pc = "bisect" -> ConfirmIters + 2 + left
    [] pc = "confirm" -> 1 + left
    [] pc = "done" -> 0

\* The steps left are those of the phase.
StepsLeft ==
  /\ pc = "ramp" => hi # 0
  /\ pc = "bisect" => left \in 0..Iters
  /\ pc = "confirm" => left \in 0..ConfirmIters

LEMMA StepsLeftInvariant == Spec => []StepsLeft
<1>1. Init => StepsLeft
  BY BlisAssumption DEF Init, StepsLeft
<1>2. TypeOK /\ StepsLeft /\ [Next]_vars => StepsLeft'
  BY BlisAssumption DEF TypeOK, StepsLeft, Next, vars, RampProbe, RampExhausted,
     RampGood, RampBad, RampTimedOut, StartBisect, Keep, BisectProbe, BisectEnd,
     StartConfirm, ConfirmProbe, ConfirmEnd
<1> QED BY <1>1, <1>2, BlisTypeCorrect, PTL DEF Spec

\* Whatever the simulations answer, there are only so many of them: every step
\* of the three phases leaves less to do.
THEOREM BlisMakesProgress ==
  Spec => []((ToDo \in Nat) /\ (pc = "done" => ToDo = 0)) /\ [][ToDo' < ToDo]_vars
<1>1. TypeOK /\ StepsLeft => ToDo \in Nat /\ (pc = "done" => ToDo = 0)
  BY BlisAssumption DEF TypeOK, StepsLeft, ToDo
<1>2. TypeOK /\ StepsLeft /\ [Next]_vars => [ToDo' < ToDo]_vars
  <2> SUFFICES ASSUME TypeOK, StepsLeft, Next PROVE ToDo' < ToDo
    BY DEF vars
  <2>0. /\ hi \in Nat /\ Iters \in Nat /\ ConfirmIters \in Nat /\ MaxRate \in Nat
    BY BlisAssumption DEF TypeOK
  <2>1. CASE RampProbe
    <3>1. pc = "ramp" /\ hi <= MaxRate /\ hi # 0
      BY <2>1 DEF RampProbe, StepsLeft
    <3>2. \/ pc' = "bisect" /\ left' = Iters
          \/ pc' = "ramp" /\ hi' = hi * 2
          \/ pc' = "done"
      BY <2>1, <3>1 DEF RampProbe, RampGood, RampBad, RampTimedOut, StartBisect
    <3> QED BY <2>0, <3>1, <3>2 DEF ToDo
  <2>2. CASE RampExhausted
    BY <2>0, <2>2 DEF RampExhausted, StartBisect, ToDo
  <2>3. CASE BisectProbe
    BY <2>0, <2>3 DEF BisectProbe, StepsLeft, ToDo
  <2>4. CASE BisectEnd
    BY <2>0, <2>4 DEF BisectEnd, StartConfirm, StepsLeft, ToDo
  <2>5. CASE ConfirmProbe
    BY <2>0, <2>5 DEF ConfirmProbe, StepsLeft, ToDo
  <2>6. CASE ConfirmEnd
    BY <2>0, <2>6 DEF ConfirmEnd, StepsLeft, ToDo
  <2> QED BY <2>1, <2>2, <2>3, <2>4, <2>5, <2>6 DEF Next
<1> QED BY <1>1, <1>2, BlisTypeCorrect, StepsLeftInvariant, PTL DEF Spec
=============================================================================
