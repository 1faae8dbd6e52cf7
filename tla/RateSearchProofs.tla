-------------------------- MODULE RateSearchProofs --------------------------
(***************************************************************************)
(* The rate search of Vidur and LLMServingSim for every start rate, cap,    *)
(* number of bisection steps and tick, and for simulations that answer      *)
(* whatever they like (Capacities, Limits and MaxNoise are arbitrary); for  *)
(* those without noise, how close the reported rate is to what is sustained.*)
(***************************************************************************)
EXTENDS RateSearch, FiniteSetTheorems, TLAPS

\* The metrics kept belong to the lower end of the bracket.
Measured == best \in Simulated(lo) \cap good

\* While ramping, everything from the start to the cap is still possible.
RampInv ==
  pc = "ramp" =>
    /\ lo <= hi /\ hi # 0
    /\ lo <= MaxRate
    /\ IF lo = 0 THEN best = 0 ELSE Measured

FloorInv == pc = "floor" => best = 0

BisectInv == pc = "bisect" => Bracketed /\ lo # 0

SearchInv == TypeOK /\ RampInv /\ FloorInv /\ BisectInv /\ ReportIsMeasured

\* The simulated rates are natural numbers.
LEMMA SimulatedNat ==
  ASSUME NEW rate \in Nat
  PROVE  Simulated(rate) \subseteq Nat
<1>1. rate \div Tick \in Nat
  BY RateAssumption
<1>2. (rate \div Tick) * Tick \in Nat
  BY <1>1, RateAssumption
<1> QED BY <1>2, RateAssumption DEF Simulated

\* What one simulation does to the histories.
LEMMA SimulationStep ==
  ASSUME TypeOK, NEW r \in Nat, NEW a \in Answers, Simulation(r, a)
  PROVE  /\ good \subseteq good' /\ bad \subseteq bad'
         /\ good' \subseteq Nat /\ bad' \subseteq Nat
         /\ a = "good" => r \in good'
         /\ a # "good" => r \in bad'
         /\ capacity' = capacity /\ limit' = limit
         /\ noise' \in 0..MaxNoise
<1>1. noise' \in 0..MaxNoise
  BY RateAssumption DEF TypeOK, Simulation
<1> QED BY <1>1 DEF TypeOK, Simulation

LEMMA SearchInit == ASSUME Init PROVE SearchInv
  BY RateAssumption
  DEF Init, SearchInv, TypeOK, RampInv, FloorInv, BisectInv, ReportIsMeasured

\* Leaving the ramp with a measured lower end establishes the bracket.
LEMMA LeaveRampStep ==
  ASSUME SearchInv, pc = "ramp", LeaveRamp,
         UNCHANGED <<lo, best, result, capacity, limit>>,
         good \subseteq good', good' \subseteq Nat, bad' \subseteq Nat,
         noise' \in 0..MaxNoise,
         hi >= MaxRate \/ Simulated(hi) \cap bad' # {}
  PROVE  SearchInv'
<1> USE DEF SearchInv
<1>1. CASE best = 0
  BY <1>1 DEF LeaveRamp, TypeOK, RampInv, FloorInv, BisectInv,
    ReportIsMeasured
<1>2. CASE best # 0
  <2>1. /\ pc' = "bisect" /\ left' = Iters
        /\ hi' = IF hi < MaxRate THEN hi ELSE MaxRate
    BY <1>2 DEF LeaveRamp
  <2>2. lo # 0 /\ Measured
    BY <1>2 DEF RampInv
  <2>3. TypeOK'
    BY <2>1, RateAssumption DEF TypeOK
  <2>4. lo' <= hi' /\ (hi' = MaxRate \/ Simulated(hi') \cap bad' # {})
    BY <2>1, RateAssumption DEF RampInv, TypeOK
  <2>5. best' \in Simulated(lo') \cap good'
    BY <2>2 DEF Measured, Simulated
  <2>6. Bracketed'
    BY <2>1, <2>4, <2>5 DEF Bracketed, Simulated
  <2> QED BY <2>1, <2>2, <2>3, <2>6
      DEF RampInv, FloorInv, BisectInv, ReportIsMeasured
<1> QED BY <1>1, <1>2

LEMMA RampStep ==
  ASSUME SearchInv, RampProbe \/ RampExhausted
  PROVE  SearchInv'
<1> USE DEF SearchInv
<1>1. ASSUME RampProbe,
             NEW r \in Simulated(hi), NEW a \in Answers, Simulation(r, a),
             \/ a = "good" /\ RampGood(r)
             \/ a = "slow" /\ RampSlow
             \/ a = "none" /\ RampNone
      PROVE  SearchInv'
  <2>1. pc = "ramp" /\ hi <= MaxRate /\ hi \in Nat
    BY <1>1 DEF RampProbe, TypeOK
  <2>2. r \in Nat
    BY <2>1, SimulatedNat
  <2>3. /\ good \subseteq good' /\ bad \subseteq bad'
        /\ good' \subseteq Nat /\ bad' \subseteq Nat
        /\ a = "good" => r \in good'
        /\ a # "good" => r \in bad'
        /\ capacity' = capacity /\ limit' = limit
        /\ noise' \in 0..MaxNoise
    BY <1>1, <2>2, SimulationStep
  <2>4. CASE a = "good" /\ RampGood(r)
    <3>1. /\ pc' = "ramp" /\ lo' = hi /\ best' = r /\ hi' = hi * 2
          /\ left' = left /\ result' = result
      BY <2>1, <2>4 DEF RampGood
    <3>2. TypeOK'
      BY <2>1, <2>2, <2>3, <3>1 DEF TypeOK
    <3>3. Measured'
      BY <2>3, <2>4, <3>1 DEF Measured, Simulated
    <3>4. lo' <= hi' /\ lo' <= MaxRate
      BY <2>1, <3>1
    <3>5. lo' # 0 /\ hi' # 0
      BY <2>1, <3>1 DEF RampInv
    <3> QED BY <3>1, <3>2, <3>3, <3>4, <3>5
        DEF RampInv, FloorInv, BisectInv, ReportIsMeasured
  <2>5. CASE a = "slow" /\ RampSlow
    BY <2>1, <2>3, <2>5, LeaveRampStep DEF RampSlow
  <2>6. CASE a = "none" /\ RampNone
    <3>1. /\ pc' = "done" /\ result' = lo
          /\ UNCHANGED <<lo, hi, best, left>>
      BY <2>6 DEF RampNone, Return
    <3>2. TypeOK'
      BY <2>3, <3>1 DEF TypeOK
    <3>3. ReportIsMeasured'
      BY <2>1, <2>3, <3>1 DEF RampInv, Measured, ReportIsMeasured, Simulated
    <3> QED BY <3>1, <3>2, <3>3 DEF RampInv, FloorInv, BisectInv
  <2> QED BY <1>1, <2>4, <2>5, <2>6
<1>2. CASE RampExhausted
  BY <1>2, RateAssumption, LeaveRampStep DEF RampExhausted, TypeOK
<1> QED BY <1>1, <1>2 DEF RampProbe

LEMMA FloorStep == ASSUME SearchInv, FloorProbe PROVE SearchInv'
<1> USE DEF SearchInv
<1>1. PICK r \in Simulated(MinRate), a \in Answers :
        /\ Simulation(r, a)
        /\ IF a = "good"
           THEN Return(MinRate) /\ best' = r
           ELSE Return(0) /\ UNCHANGED best
  BY DEF FloorProbe
<1>2. r \in Nat
  BY SimulatedNat, RateAssumption
<1>3. /\ good' \subseteq Nat /\ bad' \subseteq Nat
      /\ a = "good" => r \in good'
      /\ capacity' = capacity /\ limit' = limit
      /\ noise' \in 0..MaxNoise
  BY <1>1, <1>2, SimulationStep
<1>4. pc = "floor" /\ pc' = "done" /\ best = 0 /\ UNCHANGED <<lo, hi, left>>
  BY <1>1 DEF FloorProbe, Return, FloorInv
<1>5. TypeOK'
  BY <1>1, <1>2, <1>3, <1>4, RateAssumption DEF TypeOK, Return
<1>6. ReportIsMeasured'
  BY <1>1, <1>3, <1>4, RateAssumption DEF ReportIsMeasured, Return, Simulated
<1> QED BY <1>4, <1>5, <1>6 DEF RampInv, FloorInv, BisectInv

LEMMA BisectStep ==
  ASSUME SearchInv, BisectProbe \/ BisectEnd
  PROVE  SearchInv'
<1> USE DEF SearchInv
<1>1. /\ pc = "bisect" /\ lo \in Nat /\ hi \in Nat /\ lo <= hi /\ lo # 0
      /\ best \in Simulated(lo) \cap good
      /\ hi = MaxRate \/ Simulated(hi) \cap bad # {}
  BY DEF BisectProbe, BisectEnd, BisectInv, Bracketed, TypeOK
<1>2. CASE BisectProbe
  <2>1. PICK r \in Simulated(Mid), a \in Answers :
          Simulation(r, a) /\ Narrow(r, a)
    BY <1>2 DEF BisectProbe
  <2>2. Mid \in Nat /\ lo <= Mid /\ Mid <= hi
    BY <1>1 DEF Mid
  <2>3. r \in Nat
    BY <2>2, SimulatedNat
  <2>4. /\ good \subseteq good' /\ bad \subseteq bad'
        /\ good' \subseteq Nat /\ bad' \subseteq Nat
        /\ a = "good" => r \in good'
        /\ a # "good" => r \in bad'
        /\ capacity' = capacity /\ limit' = limit
        /\ noise' \in 0..MaxNoise
    BY <2>1, <2>3, SimulationStep
  <2>5. left' \in 0..Iters /\ pc' = "bisect" /\ result' = result
    BY <1>1, <1>2, RateAssumption DEF BisectProbe, TypeOK
  <2>6. CASE a = "good"
    <3>1. lo' = Mid /\ best' = r /\ hi' = hi
      BY <2>1, <2>6 DEF Narrow
    <3>2. TypeOK'
      BY <2>2, <2>3, <2>4, <2>5, <3>1 DEF TypeOK
    <3>3. lo' <= hi' /\ lo' # 0
      BY <1>1, <2>2, <3>1
    <3>4. best' \in Simulated(Mid) \cap good'
      BY <2>1, <2>4, <2>6, <3>1
    <3>5. hi = MaxRate \/ Simulated(hi) \cap bad' # {}
      BY <1>1, <2>4
    <3>6. Bracketed'
      BY <3>1, <3>3, <3>4, <3>5 DEF Bracketed, Simulated
    <3> QED BY <2>5, <3>2, <3>3, <3>6
        DEF RampInv, FloorInv, BisectInv, ReportIsMeasured
  <2>7. CASE a # "good"
    <3>1. hi' = Mid /\ best' = best /\ lo' = lo
      BY <2>1, <2>7 DEF Narrow
    <3>2. TypeOK'
      BY <2>2, <2>4, <2>5, <3>1 DEF TypeOK
    <3>3. Bracketed' /\ lo' # 0
      BY <1>1, <2>1, <2>2, <2>4, <2>7, <3>1 DEF Bracketed, Simulated
    <3> QED BY <2>5, <3>2, <3>3
        DEF RampInv, FloorInv, BisectInv, ReportIsMeasured
  <2> QED BY <2>6, <2>7
<1>3. CASE BisectEnd
  BY <1>1, <1>3 DEF BisectEnd, Return, TypeOK, RampInv, FloorInv, BisectInv,
    ReportIsMeasured, Simulated
<1> QED BY <1>2, <1>3

LEMMA SearchInvariant == Spec => []SearchInv
<1>1. Init => SearchInv
  BY SearchInit
<1>2. SearchInv /\ [Next]_vars => SearchInv'
  <2>1. CASE UNCHANGED vars
    BY <2>1 DEF vars, SearchInv, TypeOK, RampInv, FloorInv, BisectInv,
      Bracketed, Measured, ReportIsMeasured, Simulated
  <2> QED BY <2>1, RampStep, FloorStep, BisectStep DEF Next
<1> QED BY <1>1, <1>2, PTL DEF Spec

\* Every variable keeps its type; in particular no search takes more than
\* Iters bisection steps.
THEOREM SearchTypeCorrect == Spec => []TypeOK
<1>1. SearchInv => TypeOK
  BY DEF SearchInv
<1> QED BY <1>1, SearchInvariant, PTL

\* The bisection always works between a rate that met the SLO and one that
\* did not, or the cap.
THEOREM AlwaysBracketed == Spec => []Bracketed
<1>1. SearchInv => Bracketed
  BY DEF SearchInv, BisectInv, Bracketed
<1> QED BY <1>1, SearchInvariant, PTL

\* Whatever the simulations answer, the rate and the metrics reported belong
\* to one simulation that met the SLO.
THEOREM ReportsAreMeasured == Spec => []ReportIsMeasured
<1>1. SearchInv => ReportIsMeasured
  BY DEF SearchInv
<1> QED BY <1>1, SearchInvariant, PTL

\* With rates the simulator takes as they are, the lower end of the bracket
\* is the rate of the metrics kept, and the highest that met the SLO.
HighestInv ==
  /\ \A r \in good : r <= best
  /\ pc \in {"ramp", "bisect"} => best = lo

LEMMA SimulatedExactly ==
  ASSUME Tick = 1, NEW rate \in Nat, NEW r \in Simulated(rate)
  PROVE  r = rate
<1>1. rate \div 1 = rate
  OBVIOUS
<1> QED BY <1>1 DEF Simulated

LEMMA HighestStep ==
  ASSUME Tick = 1, SearchInv, HighestInv, Next
  PROVE  HighestInv'
<1>1. lo \in Nat /\ hi \in Nat /\ best \in Nat /\ good \subseteq Nat
  BY DEF SearchInv, TypeOK
<1>2. ASSUME NEW r, NEW a, Simulation(r, a)
      PROVE  good' = IF a = "good" THEN good \cup {r} ELSE good
  BY <1>2 DEF Simulation
<1>3. ASSUME NEW r \in Simulated(hi), NEW a \in Answers, RampProbe,
             Simulation(r, a),
             \/ a = "good" /\ RampGood(r)
             \/ a = "slow" /\ RampSlow
             \/ a = "none" /\ RampNone
      PROVE  HighestInv'
  <2>1. r = hi /\ pc = "ramp" /\ lo <= hi /\ best = lo
    BY <1>1, <1>3, SimulatedExactly
    DEF RampProbe, SearchInv, RampInv, HighestInv
  <2>2. CASE a = "good"
    <3>1. good' = good \cup {hi} /\ best' = hi /\ lo' = hi
      BY <1>2, <1>3, <2>1, <2>2 DEF RampGood
    <3> QED BY <1>1, <2>1, <3>1 DEF HighestInv
  <2>3. CASE a # "good"
    <3>1. good' = good /\ best' = best /\ lo' = lo
      BY <1>2, <1>3, <2>3 DEF RampSlow, RampNone
    <3> QED BY <2>1, <3>1 DEF HighestInv
  <2> QED BY <2>2, <2>3
<1>4. CASE RampExhausted
  <2>1. UNCHANGED <<lo, best, good>> /\ pc = "ramp"
    BY <1>4 DEF RampExhausted
  <2> QED BY <2>1 DEF HighestInv
<1>5. CASE FloorProbe
  <2>1. PICK r \in Simulated(MinRate), a \in Answers :
          /\ Simulation(r, a)
          /\ IF a = "good"
             THEN Return(MinRate) /\ best' = r
             ELSE Return(0) /\ UNCHANGED best
    BY <1>5 DEF FloorProbe
  <2>2. r = MinRate
    BY SimulatedExactly, RateAssumption
  <2>3. best = 0 /\ pc' = "done"
    BY <1>5, <2>1 DEF FloorProbe, SearchInv, FloorInv, Return
  <2>4. CASE a = "good"
    <3>1. good' = good \cup {MinRate} /\ best' = MinRate
      BY <1>2, <2>1, <2>2, <2>4
    <3> QED BY <1>1, <2>3, <3>1, RateAssumption DEF HighestInv
  <2>5. CASE a # "good"
    <3>1. good' = good /\ best' = best
      BY <1>2, <2>1, <2>5
    <3> QED BY <2>3, <3>1 DEF HighestInv
  <2> QED BY <2>4, <2>5
<1>6. CASE BisectProbe
  <2>1. PICK r \in Simulated(Mid), a \in Answers :
          Simulation(r, a) /\ Narrow(r, a)
    BY <1>6 DEF BisectProbe
  <2>2. pc = "bisect" /\ lo <= hi /\ best = lo
    BY <1>6 DEF BisectProbe, SearchInv, BisectInv, Bracketed, HighestInv
  <2>3. Mid \in Nat /\ lo <= Mid
    BY <1>1, <2>2 DEF Mid
  <2>4. r = Mid
    BY <2>3, SimulatedExactly
  <2>5. CASE a = "good"
    <3>1. good' = good \cup {Mid} /\ best' = Mid /\ lo' = Mid
      BY <1>2, <2>1, <2>4, <2>5 DEF Narrow
    <3> QED BY <1>1, <2>2, <2>3, <3>1 DEF HighestInv
  <2>6. CASE a # "good"
    <3>1. good' = good /\ best' = best /\ lo' = lo
      BY <1>2, <2>1, <2>6 DEF Narrow
    <3> QED BY <2>2, <3>1 DEF HighestInv
  <2> QED BY <2>5, <2>6
<1>7. CASE BisectEnd
  BY <1>7 DEF BisectEnd, Return, HighestInv
<1> QED BY <1>3, <1>4, <1>5, <1>6, <1>7 DEF Next, RampProbe

\* LLMServingSim's search returns the highest rate that met the SLO in any of
\* its simulations, whatever they answered and in whatever order.
THEOREM HighestIsReturned ==
  ASSUME Tick = 1
  PROVE  Spec => []ReturnsHighestGood
<1>1. Init => HighestInv
  BY DEF Init, HighestInv
<1>2. SearchInv /\ HighestInv /\ [Next]_vars => HighestInv'
  <2>1. CASE UNCHANGED vars
    BY <2>1 DEF vars, HighestInv
  <2> QED BY <2>1, HighestStep
<1>3. HighestInv => ReturnsHighestGood
  BY DEF HighestInv, ReturnsHighestGood
<1> QED BY <1>1, <1>2, <1>3, SearchInvariant, PTL DEF Spec

----------------------------------------------------------------------------
\* Without noise the measurements are honest, and best is one of the good ones.
Honest ==
  /\ noise = 0 => /\ \A r \in good : r <= Sustainable
                  /\ \A r \in bad : r > Sustainable
  /\ best = 0 \/ best \in good

\* The rates of the ramp while the configuration sustains the first one, and
\* what the lower end is worth once the ramp is left.
FactorInv ==
  noise = 0 /\ Sustainable >= StartRate + Tick =>
    /\ pc = "ramp" =>
         IF lo = 0 THEN hi = StartRate
         ELSE hi = 2 * lo /\ lo >= StartRate /\ best > 0
    /\ pc # "floor"
    /\ pc = "bisect" => 2 * lo + Tick > Sustainable \/ 2 * lo > MaxRate
    /\ pc = "done" => 2 * result + Tick > Sustainable \/ 2 * result > MaxRate

\* A simulated rate is within half a tick of the rate asked for.
LEMMA Rounded ==
  ASSUME NEW rate \in Nat, NEW r \in Simulated(rate)
  PROVE  r \in Nat /\ 2 * (r - rate) <= Tick /\ 2 * (rate - r) <= Tick
BY SimulatedNat DEF Simulated

LEMMA SustainableNat ==
  ASSUME TypeOK
  PROVE  /\ capacity \in Nat /\ limit \in Nat /\ Sustainable \in Nat
         /\ Sustainable <= capacity /\ Sustainable <= limit
BY RateAssumption DEF TypeOK, Sustainable

\* What an answer without noise says about the rate.
LEMMA HonestAnswer ==
  ASSUME TypeOK, NEW r \in Nat, NEW a \in Answers, Simulation(r, a), noise' = 0
  PROVE  /\ noise = 0 /\ a = Expected(r)
         /\ a = "good" <=> r <= Sustainable
         /\ a = "none" <=> r > limit
<1>1. noise \in Nat
  BY RateAssumption DEF TypeOK
<1>2. noise = 0 /\ a = Expected(r)
  BY <1>1 DEF Simulation
<1> QED BY <1>2, SustainableNat DEF Expected, Sustainable

\* The actions in which something is simulated.
LEMMA ProbeOrNot ==
  ASSUME SearchInv, [Next]_vars
  PROVE  /\ capacity' = capacity /\ limit' = limit /\ Sustainable' = Sustainable
         /\ \/ \E r \in Nat, a \in Answers :
                 /\ Simulation(r, a)
                 /\ best' = best \/ (best' = r /\ a = "good")
            \/ UNCHANGED <<good, bad, noise, best>>
<1> USE DEF SearchInv
<1>1. TypeOK /\ lo \in Nat /\ hi \in Nat
  BY DEF TypeOK
<1>2. CASE RampProbe
  <2>1. PICK r \in Simulated(hi), a \in Answers :
          /\ Simulation(r, a)
          /\ \/ a = "good" /\ RampGood(r)
             \/ a = "slow" /\ RampSlow
             \/ a = "none" /\ RampNone
    BY <1>2 DEF RampProbe
  <2>2. r \in Nat
    BY <1>1, SimulatedNat
  <2> QED BY <2>1, <2>2 DEF Simulation, RampGood, RampSlow, RampNone, Sustainable
<1>3. CASE FloorProbe
  <2>1. PICK r \in Simulated(MinRate), a \in Answers :
          /\ Simulation(r, a)
          /\ IF a = "good" THEN best' = r ELSE UNCHANGED best
    BY <1>3 DEF FloorProbe
  <2>2. r \in Nat
    BY SimulatedNat, RateAssumption
  <2> QED BY <2>1, <2>2 DEF Simulation, Sustainable
<1>4. CASE BisectProbe
  <2>1. PICK r \in Simulated(Mid), a \in Answers :
          Simulation(r, a) /\ Narrow(r, a)
    BY <1>4 DEF BisectProbe
  <2>2. Mid \in Nat
    BY <1>1 DEF Mid
  <2>3. r \in Nat
    BY <2>2, SimulatedNat
  <2> QED BY <2>1, <2>3 DEF Simulation, Narrow, Sustainable
<1>5. CASE RampExhausted \/ BisectEnd \/ UNCHANGED vars
  BY <1>5 DEF RampExhausted, BisectEnd, vars, Sustainable
<1> QED BY <1>2, <1>3, <1>4, <1>5 DEF Next

LEMMA HonestStep ==
  ASSUME SearchInv, Honest, [Next]_vars
  PROVE  Honest'
<1>0. TypeOK /\ Sustainable' = Sustainable /\ Sustainable \in Nat
  BY ProbeOrNot, SustainableNat DEF SearchInv
<1>1. CASE UNCHANGED <<good, bad, noise, best>>
  BY <1>0, <1>1 DEF Honest
<1>2. ASSUME NEW r \in Nat, NEW a \in Answers, Simulation(r, a),
             best' = best \/ (best' = r /\ a = "good")
      PROVE  Honest'
  <2>1. /\ good' = IF a = "good" THEN good \cup {r} ELSE good
        /\ bad' = IF a = "good" THEN bad ELSE bad \cup {r}
    BY <1>2 DEF Simulation
  <2>2. best' = 0 \/ best' \in good'
    BY <1>2, <2>1 DEF Honest
  <2>3. ASSUME noise' = 0
        PROVE  (\A s \in good' : s <= Sustainable) /\ (\A s \in bad' : s > Sustainable)
    <3>1. noise = 0 /\ (a = "good" <=> r <= Sustainable)
      BY <1>0, <1>2, <2>3, HonestAnswer
    <3> QED BY <1>0, <2>1, <3>1 DEF Honest
  <2> QED BY <1>0, <2>2, <2>3 DEF Honest
<1> QED BY <1>1, <1>2, ProbeOrNot

LEMMA HonestInvariant == Spec => []Honest
<1>1. Init => Honest
  BY DEF Init, Honest
<1>2. SearchInv /\ Honest /\ [Next]_vars => Honest'
  BY HonestStep
<1> QED BY <1>1, <1>2, SearchInvariant, PTL DEF Spec

\* The first rate can be run, and is one the ramp tries.
StartInRange == Tick <= StartRate /\ StartRate <= MaxRate

\* A higher lower end is worth no less.
LEMMA WorthMore ==
  ASSUME NEW x \in Nat, NEW y \in Nat, y >= x, NEW s \in Nat,
         2 * x + Tick > s \/ 2 * x > MaxRate
  PROVE  2 * y + Tick > s \/ 2 * y > MaxRate
BY RateAssumption

LEMMA FactorStep ==
  ASSUME StartInRange, SearchInv, Honest, FactorInv, [Next]_vars
  PROVE  FactorInv'
<1> USE DEF SearchInv
<1>0. /\ TypeOK /\ Sustainable' = Sustainable /\ Sustainable \in Nat
      /\ lo \in Nat /\ hi \in Nat /\ best \in Nat /\ result \in Nat
      /\ noise \in Nat /\ StartRate \in Nat \ {0} /\ MaxRate \in Nat
      /\ Tick \in Nat \ {0}
  BY ProbeOrNot, SustainableNat, RateAssumption DEF TypeOK
<1>1. CASE UNCHANGED vars
  BY <1>0, <1>1 DEF vars, FactorInv
<1>2. noise' = 0 => noise = 0
  BY <1>0, ProbeOrNot, HonestAnswer
<1> SUFFICES ASSUME noise' = 0, noise = 0, Sustainable >= StartRate + Tick, Next
             PROVE  /\ pc' = "ramp" =>
                         IF lo' = 0 THEN hi' = StartRate
                         ELSE hi' = 2 * lo' /\ lo' >= StartRate /\ best' > 0
                    /\ pc' # "floor"
                    /\ pc' = "bisect" =>
                         2 * lo' + Tick > Sustainable \/ 2 * lo' > MaxRate
                    /\ pc' = "done" =>
                         2 * result' + Tick > Sustainable \/ 2 * result' > MaxRate
  BY <1>0, <1>1, <1>2 DEF FactorInv
<1>3. CASE RampProbe
  <2>1. PICK r \in Simulated(hi), a \in Answers :
          /\ Simulation(r, a)
          /\ \/ a = "good" /\ RampGood(r)
             \/ a = "slow" /\ RampSlow
             \/ a = "none" /\ RampNone
    BY <1>3 DEF RampProbe
  <2>2. pc = "ramp" /\ r \in Nat /\ 2 * (r - hi) <= Tick /\ 2 * (hi - r) <= Tick
    BY <1>0, <1>3, <2>1, Rounded DEF RampProbe
  <2>3. a = "good" <=> r <= Sustainable
    BY <1>0, <2>1, <2>2, HonestAnswer
  <2>4. IF lo = 0 THEN hi = StartRate
        ELSE hi = 2 * lo /\ lo >= StartRate /\ best > 0
    BY <2>2 DEF FactorInv
  <2>5. CASE a = "good"
    <3>1. lo' = hi /\ best' = r /\ hi' = 2 * hi /\ pc' = "ramp"
      BY <1>0, <2>1, <2>2, <2>5 DEF RampGood
    <3>2. hi >= StartRate /\ hi \in Nat
      BY <1>0, <2>4
    <3>3. r > 0
      BY <1>0, <2>2, <3>2 DEF StartInRange
    <3>4. lo' # 0
      BY <1>0, <3>1, <3>2
    <3> QED BY <3>1, <3>2, <3>3, <3>4
  <2>6. CASE a # "good"
    <3>1. r > Sustainable
      BY <1>0, <2>2, <2>3, <2>6
    <3>2. lo # 0 /\ hi = 2 * lo /\ best > 0
      <4>1. CASE lo = 0
        BY <1>0, <2>2, <2>4, <3>1, <4>1
      <4> QED BY <2>4, <4>1
    <3>3. 2 * lo + Tick > Sustainable
      BY <1>0, <2>2, <3>1, <3>2
    <3>4. lo' = lo /\ \/ pc' = "bisect"
                      \/ pc' = "done" /\ result' = lo
      BY <1>0, <2>1, <2>6, <3>2 DEF RampSlow, RampNone, LeaveRamp, Return
    <3> QED BY <3>3, <3>4
  <2> QED BY <2>5, <2>6
<1>4. CASE RampExhausted
  <2>1. pc = "ramp" /\ hi > MaxRate /\ LeaveRamp /\ lo' = lo
    BY <1>4 DEF RampExhausted
  <2>2. lo # 0 /\ hi = 2 * lo /\ best > 0
    BY <1>0, <2>1 DEF FactorInv, StartInRange
  <2>3. pc' = "bisect" /\ 2 * lo' > MaxRate
    BY <1>0, <2>1, <2>2 DEF LeaveRamp
  <2> QED BY <2>3
<1>5. CASE FloorProbe
  BY <1>5 DEF FloorProbe, FactorInv
<1>6. CASE BisectProbe
  <2>1. PICK r \in Simulated(Mid), a \in Answers : Narrow(r, a)
    BY <1>6 DEF BisectProbe
  <2>2. pc = "bisect" /\ pc' = "bisect" /\ lo <= hi
    BY <1>6 DEF BisectProbe, BisectInv, Bracketed
  <2>3. Mid \in Nat /\ Mid >= lo
    BY <1>0, <2>2 DEF Mid
  <2>4. lo' \in Nat /\ lo' >= lo
    BY <1>0, <2>1, <2>3 DEF Narrow
  <2>5. 2 * lo + Tick > Sustainable \/ 2 * lo > MaxRate
    BY <2>2 DEF FactorInv
  <2>6. 2 * lo' + Tick > Sustainable \/ 2 * lo' > MaxRate
    BY <1>0, <2>4, <2>5, WorthMore
  <2> QED BY <2>2, <2>6
<1>7. CASE BisectEnd
  BY <1>7 DEF BisectEnd, Return, FactorInv
<1> QED BY <1>3, <1>4, <1>5, <1>6, <1>7 DEF Next

LEMMA FactorInvariant ==
  ASSUME StartInRange
  PROVE  Spec => []FactorInv
<1>1. Init => FactorInv
  BY DEF Init, FactorInv
<1>2. SearchInv /\ Honest /\ FactorInv /\ [Next]_vars => FactorInv'
  BY FactorStep
<1> QED BY <1>1, <1>2, SearchInvariant, HonestInvariant, PTL DEF Spec

\* Without noise the reported rate is sustained, and at least half of what is,
\* up to the resolution of the simulator and the cap of the search.
THEOREM ReportsWithinFactorTwo ==
  ASSUME StartInRange
  PROVE  Spec => []WithinFactorTwo
<1>1. SearchInv /\ Honest /\ FactorInv => WithinFactorTwo
  BY SustainableNat DEF SearchInv, Honest, FactorInv, WithinFactorTwo
<1> QED BY <1>1, SearchInvariant, HonestInvariant, FactorInvariant, PTL

----------------------------------------------------------------------------
\* Powers of two count the subsets of 1..k.
LEMMA PowerCounts ==
  ASSUME NEW k \in Nat
  PROVE  /\ IsFiniteSet(SUBSET (1..k)) /\ Cardinality(SUBSET (1..k)) = 2 ^ k
         /\ 2 ^ k \in Nat \ {0}
<1>1. IsFiniteSet(1..k) /\ Cardinality(1..k) = k
  BY FS_Interval
<1>2. IsFiniteSet(SUBSET (1..k)) /\ Cardinality(SUBSET (1..k)) = 2 ^ k
  BY <1>1, FS_SUBSET
<1>3. Cardinality(SUBSET (1..k)) \in Nat
  BY <1>2, FS_CardinalityType
<1>4. Cardinality(SUBSET (1..k)) # 0
  <2>1. SUBSET (1..k) # {}
    OBVIOUS
  <2> QED BY <1>2, <2>1, FS_EmptySet
<1> QED BY <1>2, <1>3, <1>4

\* One more number doubles the subsets.
LEMMA PowerDoubles ==
  ASSUME NEW k \in Nat
  PROVE  2 ^ (k + 1) = 2 * 2 ^ k
<1> DEFINE A == SUBSET (1..k)
           B == {U \cup {k + 1} : U \in A}
           f == [U \in A |-> U \cup {k + 1}]
<1>0. k + 1 \in Nat /\ 1..(k + 1) = (1..k) \cup {k + 1} /\ k + 1 \notin 1..k
  OBVIOUS
<1>1. SUBSET (1..(k + 1)) = A \cup B
  <2>1. ASSUME NEW U \in SUBSET (1..(k + 1)), U \notin A
        PROVE  U \in B
    <3>1. k + 1 \in U /\ U \ {k + 1} \in A
      BY <1>0, <2>1
    <3>2. U = (U \ {k + 1}) \cup {k + 1}
      BY <3>1
    <3> QED BY <3>1, <3>2
  <2>2. A \subseteq SUBSET (1..(k + 1)) /\ B \subseteq SUBSET (1..(k + 1))
    BY <1>0
  <2> QED BY <2>1, <2>2
<1>2. A \cap B = {}
  BY <1>0
<1>3. ExistsBijection(A, B)
  <2>1. f \in [A -> B]
    OBVIOUS
  <2>2. \A U, V \in A : f[U] = f[V] => U = V
    <3> SUFFICES ASSUME NEW U \in A, NEW V \in A, f[U] = f[V] PROVE U = V
      OBVIOUS
    <3>1. k + 1 \notin U /\ k + 1 \notin V /\ U \cup {k + 1} = V \cup {k + 1}
      BY <1>0
    <3>2. \A x : x \in U <=> x \in V
      BY <3>1
    <3> QED BY <3>2
  <2>3. \A W \in B : \E U \in A : f[U] = W
    OBVIOUS
  <2> QED BY <2>1, <2>2, <2>3
          DEF ExistsBijection, Bijection, Injection, Surjection, IsInjective
<1>4. IsFiniteSet(A) /\ Cardinality(A) = 2 ^ k /\ 2 ^ k \in Nat
  BY PowerCounts
<1>5. IsFiniteSet(B) /\ Cardinality(B) = 2 ^ k
  BY <1>3, <1>4, FS_Bijection
<1>6. Cardinality(A \cup B) = 2 ^ k + 2 ^ k - Cardinality({})
  <2> HIDE DEF A, B
  <2>1. Cardinality(A \cup B) = Cardinality(A) + Cardinality(B) - Cardinality(A \cap B)
    BY <1>4, <1>5, FS_Union
  <2> QED BY <1>2, <1>4, <1>5, <2>1
<1>7. Cardinality(SUBSET (1..(k + 1))) = 2 ^ (k + 1)
  BY <1>0, PowerCounts
<1> HIDE DEF A, B
<1> QED BY <1>1, <1>4, <1>6, <1>7, FS_EmptySet

\* A number without remainder is a multiple.
LEMMA Divides ==
  ASSUME NEW n \in Nat, NEW p \in Nat \ {0}, n % p = 0
  PROVE  \E m \in Nat : n = m * p
<1> DEFINE m == n \div p
<1>1. n = (n \div p) * p + (n % p) /\ m \in Nat
  OBVIOUS
<1>2. m * p \in Int
  BY <1>1
<1> SUFFICES n = m * p
  BY <1>1
<1> QED BY <1>1, <1>2

\* x is a whole number of p's.
Multiple(x, p) == \E m \in Nat : x = m * p

\* A rate of whole ticks is simulated as it is.
LEMMA WholeTicks ==
  ASSUME NEW rate \in Nat, Multiple(rate, Tick), NEW r \in Simulated(rate)
  PROVE  r = rate
<1>1. PICK q \in Nat : rate = q * Tick
  BY DEF Multiple
<1>2. PICK m \in Nat : r = m * Tick
  <2>1. rate \div Tick \in Nat /\ Tick \in Nat
    BY RateAssumption
  <2> DEFINE j == rate \div Tick
  <2>2. j * Tick + Tick = (j + 1) * Tick /\ j + 1 \in Nat
    BY <2>1
  <2>3. r = j * Tick \/ r = j * Tick + Tick
    BY DEF Simulated
  <2> HIDE DEF j
  <2> QED BY <2>1, <2>2, <2>3 DEF j
<1>3. 2 * (m * Tick - q * Tick) <= Tick /\ 2 * (q * Tick - m * Tick) <= Tick
  BY <1>1, <1>2, Rounded
<1>4. ASSUME NEW i \in Nat, NEW j \in Nat, i > j,
             2 * (i * Tick - j * Tick) <= Tick
      PROVE  FALSE
  <2>1. i * Tick = j * Tick + (i - j) * Tick /\ (i - j) * Tick >= Tick
    BY <1>4, RateAssumption
  <2>2. i * Tick \in Int /\ j * Tick \in Int
    BY RateAssumption
  <2> QED BY <1>4, <2>1, <2>2, RateAssumption
<1> QED BY <1>1, <1>2, <1>3, <1>4

\* Multiples of the ticks and of the smallest bisection step stay multiples.
LEMMA MultipleDoubles ==
  ASSUME NEW x \in Nat, NEW p \in Nat, Multiple(x, p)
  PROVE  Multiple(2 * x, p)
<1>1. PICK m \in Nat : x = m * p
  BY DEF Multiple
<1>2. 2 * x = (2 * m) * p
  BY <1>1
<1> QED BY <1>2 DEF Multiple

LEMMA UnitMultiples ==
  /\ 2 ^ Iters \in Nat \ {0}
  /\ Multiple(StartRate, 2 ^ Iters) /\ Multiple(MaxRate, 2 ^ Iters)
BY PowerCounts, Divides, RateAssumption, UnitAssumption DEF Multiple

\* The configurations of which Accurate speaks.
Fits ==
  /\ capacity >= StartRate + Tick /\ capacity < MaxRate
  /\ limit >= 2 * capacity + Tick

\* The ramp has doubled the first rate, and the bracket has been halved, an
\* exact number of times: its width tells how many steps are left.
WidthInv ==
  noise = 0 /\ Fits =>
    /\ pc = "ramp" =>
         /\ Multiple(lo, 2 ^ Iters) /\ Multiple(hi, 2 ^ Iters)
         /\ Multiple(hi, Tick) /\ lo <= capacity
    /\ pc = "bisect" =>
         \E q \in Int : hi - lo = q * 2 ^ left /\ q * 2 ^ Iters <= lo
    /\ Accurate

\* The first rate is handed to the simulator as it is.
StartIsWhole == Multiple(StartRate, Tick)

\* Halving a bracket of an even number of steps.
LEMMA Halving ==
  ASSUME lo \in Nat, hi \in Nat, left \in Nat, left > 0,
         NEW q \in Int, hi - lo = q * 2 ^ left
  PROVE  Mid - lo = q * 2 ^ (left - 1) /\ hi - Mid = q * 2 ^ (left - 1)
<1> DEFINE k == left - 1
           half == q * 2 ^ k
<1>1. k \in Nat /\ left = k + 1
  OBVIOUS
<1>2. 2 ^ left = 2 * 2 ^ k /\ 2 ^ k \in Nat
  BY <1>1, PowerDoubles, PowerCounts
<1>3. hi - lo = 2 * half /\ half \in Int
  BY <1>2
<1> HIDE DEF half
<1>4. Mid = lo + half
  BY <1>3 DEF Mid
<1> QED BY <1>3, <1>4 DEF half

\* Leaving the ramp upwards of half its last rate, the bracket is no wider
\* than its lower end.
LEMMA WidthAtStart ==
  ASSUME NEW low \in Nat, NEW high \in Nat,
         Multiple(low, 2 ^ Iters), high = 2 * low
  PROVE  \E q \in Int :
           /\ (IF high < MaxRate THEN high ELSE MaxRate) - low = q * 2 ^ Iters
           /\ q * 2 ^ Iters <= low
<1> DEFINE p == 2 ^ Iters
<1>0. p \in Nat \ {0} /\ MaxRate \in Nat
  BY UnitMultiples, RateAssumption
<1>1. PICK v \in Nat : low = v * p
  BY DEF Multiple
<1>2. PICK m \in Nat : MaxRate = m * p
  BY UnitMultiples DEF Multiple
<1> HIDE DEF p
<1>3. CASE high < MaxRate
  <2>1. high - low = v * p /\ v * p <= low
    BY <1>0, <1>1
  <2> QED BY <1>3, <2>1 DEF p
<1>4. CASE ~(high < MaxRate)
  <2>1. (m - v) * p = m * p - v * p /\ m - v \in Int
    BY <1>0
  <2>2. MaxRate - low = (m - v) * p /\ MaxRate - low <= low
    BY <1>0, <1>1, <1>2, <1>4, <2>1
  <2>3. (m - v) * p <= low
    BY <2>2
  <2> QED BY <1>4, <2>1, <2>2, <2>3 DEF p
<1> QED BY <1>3, <1>4

\* A bracket of width q that holds the capacity up to half a tick leaves less
\* than q below it.
LEMMA WithinWidth ==
  ASSUME NEW low \in Nat, NEW high \in Nat, NEW q \in Int, NEW c \in Nat,
         high - low = q, q * 2 ^ Iters <= low, 2 * c < 2 * high + Tick
  PROVE  (c - low - Tick) * 2 ^ Iters < low
<1> DEFINE p == 2 ^ Iters
<1>0. p \in Nat \ {0} /\ Tick \in Nat \ {0}
  BY UnitMultiples, RateAssumption
<1> HIDE DEF p
<1>1. c - low - Tick <= q - 1
  BY <1>0
<1>2. \A i, j \in Int : i <= j => i * p <= j * p
  BY <1>0
<1>3. (c - low - Tick) * p <= (q - 1) * p
  BY <1>0, <1>1, <1>2
<1>4. (q - 1) * p = q * p - p /\ q * p \in Int
  BY <1>0
<1>5. q * p <= low
  BY DEF p
<1>6. (c - low - Tick) * p \in Int
  BY <1>0
<1>7. (c - low - Tick) * p < low
  BY <1>0, <1>3, <1>4, <1>5, <1>6
<1> QED BY <1>7 DEF p

LEMMA WidthStep ==
  ASSUME StartInRange, StartIsWhole, SearchInv, Honest, FactorInv, WidthInv,
         [Next]_vars
  PROVE  WidthInv'
<1> USE DEF SearchInv
<1>0. /\ TypeOK /\ capacity' = capacity /\ limit' = limit
      /\ Sustainable' = Sustainable /\ Sustainable \in Nat
      /\ capacity \in Nat /\ limit \in Nat /\ Fits' = Fits
      /\ lo \in Nat /\ hi \in Nat /\ best \in Nat /\ result \in Nat
      /\ left \in Nat
      /\ noise \in Nat /\ StartRate \in Nat \ {0} /\ MaxRate \in Nat
      /\ Tick \in Nat \ {0}
  BY ProbeOrNot, SustainableNat, RateAssumption DEF TypeOK, Fits
<1>1. CASE UNCHANGED vars
  BY <1>0, <1>1 DEF vars, WidthInv, Accurate
<1>2. noise' = 0 => noise = 0
  BY <1>0, ProbeOrNot, HonestAnswer
<1> SUFFICES ASSUME noise' = 0, noise = 0, Fits, Next
             PROVE  /\ pc' = "ramp" =>
                         /\ Multiple(lo', 2 ^ Iters) /\ Multiple(hi', 2 ^ Iters)
                         /\ Multiple(hi', Tick) /\ lo' <= capacity
                    /\ pc' = "bisect" =>
                         \E q \in Int : /\ hi' - lo' = q * 2 ^ left'
                                        /\ q * 2 ^ Iters <= lo'
                    /\ Accurate'
  BY <1>0, <1>1, <1>2 DEF WidthInv, Multiple
<1>3. Sustainable = capacity /\ Sustainable >= StartRate + Tick
  BY <1>0 DEF Fits, Sustainable
<1>4. CASE RampProbe
  <2>1. PICK r \in Simulated(hi), a \in Answers :
          /\ Simulation(r, a)
          /\ \/ a = "good" /\ RampGood(r)
             \/ a = "slow" /\ RampSlow
             \/ a = "none" /\ RampNone
    BY <1>4 DEF RampProbe
  <2>2. /\ pc = "ramp" /\ Multiple(lo, 2 ^ Iters) /\ Multiple(hi, 2 ^ Iters)
        /\ Multiple(hi, Tick) /\ lo <= capacity
    BY <1>4 DEF RampProbe, WidthInv
  <2>3. r = hi
    BY <1>0, <2>1, <2>2, WholeTicks
  <2>4. (a = "good" <=> hi <= capacity) /\ (a = "none" <=> hi > limit)
    BY <1>0, <1>3, <2>1, <2>3, HonestAnswer
  <2>5. IF lo = 0 THEN hi = StartRate
        ELSE hi = 2 * lo /\ lo >= StartRate /\ best > 0
    BY <1>3, <2>2 DEF FactorInv
  <2>6. CASE a = "good"
    <3>1. lo' = hi /\ hi' = 2 * hi /\ pc' = "ramp"
      BY <1>0, <2>1, <2>2, <2>6 DEF RampGood
    <3>2. Multiple(hi', 2 ^ Iters) /\ Multiple(hi', Tick)
      BY <1>0, <2>2, <3>1, MultipleDoubles, UnitMultiples
    <3> QED BY <2>2, <2>4, <2>6, <3>1, <3>2 DEF Accurate
  <2>7. CASE a # "good"
    <3>1. lo # 0 /\ hi = 2 * lo /\ best > 0
      <4>1. CASE lo = 0
        BY <1>0, <1>3, <2>4, <2>5, <2>7, <4>1
      <4> QED BY <2>5, <4>1
    <3>2. a # "none"
      BY <1>0, <2>2, <2>4, <3>1 DEF Fits
    <3>3. /\ pc' = "bisect" /\ left' = Iters /\ lo' = lo
          /\ hi' = IF hi < MaxRate THEN hi ELSE MaxRate
      BY <1>0, <2>1, <2>7, <3>1, <3>2 DEF RampSlow, LeaveRamp
    <3>4. \E q \in Int :
            /\ (IF hi < MaxRate THEN hi ELSE MaxRate) - lo = q * 2 ^ Iters
            /\ q * 2 ^ Iters <= lo
      BY <1>0, <2>2, <3>1, WidthAtStart
    <3> QED BY <3>3, <3>4 DEF Accurate
  <2> QED BY <2>6, <2>7
<1>5. CASE RampExhausted
  <2>1. /\ pc = "ramp" /\ hi > MaxRate /\ LeaveRamp /\ lo' = lo
        /\ Multiple(lo, 2 ^ Iters)
    BY <1>5 DEF RampExhausted, WidthInv
  <2>2. lo # 0 /\ hi = 2 * lo /\ best > 0
    BY <1>0, <1>3, <2>1 DEF FactorInv, StartInRange
  <2>3. /\ pc' = "bisect" /\ left' = Iters
        /\ hi' = IF hi < MaxRate THEN hi ELSE MaxRate
    BY <1>0, <2>1, <2>2 DEF LeaveRamp
  <2>4. \E q \in Int :
          /\ (IF hi < MaxRate THEN hi ELSE MaxRate) - lo = q * 2 ^ Iters
          /\ q * 2 ^ Iters <= lo
    BY <1>0, <2>1, <2>2, WidthAtStart
  <2> QED BY <2>1, <2>3, <2>4 DEF Accurate
<1>6. CASE FloorProbe
  BY <1>3, <1>6 DEF FloorProbe, FactorInv
<1>7. CASE BisectProbe
  <2>1. PICK r \in Simulated(Mid), a \in Answers : Narrow(r, a)
    BY <1>7 DEF BisectProbe
  <2>2. /\ pc = "bisect" /\ pc' = "bisect" /\ lo <= hi /\ left > 0
        /\ left' = left - 1
    BY <1>7 DEF BisectProbe, BisectInv, Bracketed
  <2>3. Mid \in Nat /\ Mid >= lo
    BY <1>0, <2>2 DEF Mid
  <2>4. PICK q \in Int : hi - lo = q * 2 ^ left /\ q * 2 ^ Iters <= lo
    BY <2>2 DEF WidthInv
  <2>5. Mid - lo = q * 2 ^ (left - 1) /\ hi - Mid = q * 2 ^ (left - 1)
    BY <1>0, <2>2, <2>4, Halving
  <2>6. hi' - lo' = q * 2 ^ left'
    BY <2>1, <2>2, <2>5 DEF Narrow
  <2>7. q * 2 ^ Iters <= lo'
    <3>1. q * 2 ^ Iters \in Int
      BY UnitMultiples
    <3> QED BY <1>0, <2>1, <2>3, <2>4, <3>1 DEF Narrow
  <2> QED BY <2>2, <2>6, <2>7 DEF Accurate
<1>8. CASE BisectEnd
  <2>1. /\ pc = "bisect" /\ left = 0 /\ pc' = "done" /\ result' = lo
        /\ lo <= hi /\ (hi = MaxRate \/ Simulated(hi) \cap bad # {})
    BY <1>8 DEF BisectEnd, Return, StepsOver, BisectInv, Bracketed
  <2>2. PICK q \in Int : hi - lo = q * 2 ^ left /\ q * 2 ^ Iters <= lo
    BY <2>1 DEF WidthInv
  <2>3. hi - lo = q
    BY <2>1, <2>2
  <2>4. 2 * capacity < 2 * hi + Tick
    <3>1. CASE hi = MaxRate
      BY <1>0, <3>1 DEF Fits
    <3>2. CASE Simulated(hi) \cap bad # {}
      <4>1. PICK r \in Simulated(hi) : r \in bad
        BY <3>2
      <4>2. r > capacity
        BY <1>3, <4>1 DEF Honest
      <4>3. r \in Nat /\ 2 * (r - hi) <= Tick
        BY <1>0, Rounded
      <4> QED BY <1>0, <4>2, <4>3
    <3> QED BY <2>1, <3>1, <3>2
  <2>5. (capacity - lo - Tick) * 2 ^ Iters < lo
    BY <1>0, <2>2, <2>3, <2>4, WithinWidth
  <2> QED BY <1>0, <2>1, <2>5 DEF Accurate
<1> QED BY <1>4, <1>5, <1>6, <1>7, <1>8 DEF Next

\* Without noise, and when the simulator copes with the rates above the
\* capacity too, the search misses the capacity by less than the last
\* bisection step and a tick.
THEOREM SearchIsAccurate ==
  ASSUME StartInRange, StartIsWhole
  PROVE  Spec => []Accurate
<1>1. Init => WidthInv
  <2> SUFFICES ASSUME Init PROVE WidthInv
    OBVIOUS
  <2>1. Multiple(0, 2 ^ Iters)
    <3>1. 0 = 0 * 2 ^ Iters
      BY UnitMultiples
    <3> QED BY <3>1 DEF Multiple
  <2>2. capacity \in Nat
    BY RateAssumption DEF Init
  <2> QED BY <2>1, <2>2, UnitMultiples DEF Init, WidthInv, StartIsWhole, Accurate
<1>2. SearchInv /\ Honest /\ FactorInv /\ WidthInv /\ [Next]_vars => WidthInv'
  BY WidthStep
<1>3. WidthInv => Accurate
  BY DEF WidthInv, Fits, Accurate
<1> QED BY <1>1, <1>2, <1>3, SearchInvariant, HonestInvariant, FactorInvariant,
           PTL DEF Spec

----------------------------------------------------------------------------
\* What is left to do: the ramp has the way to the cap before it, and then the
\* bisection its steps.
ToDo ==
  CASE pc = "ramp" -> IF hi > MaxRate THEN Iters + 2 ELSE Iters + 3 + MaxRate - hi
    [] pc = "bisect" -> left + 1
    [] pc = "floor" -> 1
    [] pc = "done" -> 0

\* Whatever the simulations answer, there are only so many of them: every step
\* of the search leaves less to do, so that it ends if it keeps going
\* (Terminates).
THEOREM SearchMakesProgress ==
  Spec => []((ToDo \in Nat) /\ (pc = "done" => ToDo = 0)) /\ [][ToDo' < ToDo]_vars
<1>1. SearchInv => ToDo \in Nat /\ (pc = "done" => ToDo = 0)
  BY RateAssumption DEF SearchInv, TypeOK, ToDo
<1>2. SearchInv /\ SearchInv' /\ [Next]_vars => [ToDo' < ToDo]_vars
  <2> SUFFICES ASSUME SearchInv, SearchInv', Next PROVE ToDo' < ToDo
    BY DEF vars
  <2>0. /\ hi \in Nat /\ lo \in Nat /\ left \in 0..Iters /\ left' \in 0..Iters
        /\ Iters \in Nat /\ MaxRate \in Nat
        /\ (pc = "ramp" => hi # 0)
    BY RateAssumption DEF SearchInv, TypeOK, RampInv
  <2>1. CASE pc = "ramp" /\ LeaveRamp
    <3>1. pc' \in {"floor", "bisect"}
      BY <2>1 DEF LeaveRamp
    <3>2. ToDo' \in Nat /\ ToDo' <= Iters + 1
      BY <2>0, <3>1 DEF ToDo
    <3>3. ToDo \in Nat /\ ToDo >= Iters + 2
      BY <2>0, <2>1 DEF ToDo
    <3> QED BY <2>0, <3>2, <3>3
  <2>2. CASE RampProbe
    <3>1. pc = "ramp" /\ hi <= MaxRate
      BY <2>2 DEF RampProbe
    <3>2. \/ LeaveRamp
          \/ pc' = "ramp" /\ hi' = hi * 2
          \/ pc' = "done"
      BY <2>2, <3>1 DEF RampProbe, RampGood, RampSlow, RampNone, Return
    <3>3. ToDo = Iters + 3 + MaxRate - hi
      BY <2>0, <3>1 DEF ToDo
    <3>4. CASE pc' = "ramp" /\ hi' = hi * 2
      BY <2>0, <3>1, <3>3, <3>4 DEF ToDo
    <3>5. CASE pc' = "done"
      BY <2>0, <3>1, <3>3, <3>5 DEF ToDo
    <3> QED BY <2>1, <3>1, <3>2, <3>4, <3>5
  <2>3. CASE RampExhausted
    BY <2>1, <2>3 DEF RampExhausted
  <2>4. CASE FloorProbe
    BY <2>4 DEF FloorProbe, Return, ToDo
  <2>5. CASE BisectProbe
    BY <2>0, <2>5 DEF BisectProbe, ToDo
  <2>6. CASE BisectEnd
    BY <2>0, <2>6 DEF BisectEnd, Return, ToDo
  <2> QED BY <2>2, <2>3, <2>4, <2>5, <2>6 DEF Next
<1> QED BY <1>1, <1>2, SearchInvariant, PTL DEF Spec
=============================================================================
