----------------------------- MODULE RateSearch -----------------------------
(***************************************************************************)
(* VidurRunner._binary_search_qps and LLMServingSimRunner.                  *)
(* _binary_search_rate: for one configuration, double the request rate      *)
(* until the mean TTFT misses the SLO, then bisect; if not even the first   *)
(* rate meets it, try one minimal rate instead.  Each simulation answers    *)
(* "good" (SLO met), "slow" (SLO missed) or "none" (crash, timeout or       *)
(* unreadable output).                                                      *)
(*                                                                         *)
(* Rates are integers in a unit small enough for the bisection to be exact. *)
(***************************************************************************)
EXTENDS Integers, FiniteSets

CONSTANTS
  StartRate,   \* start_qps / start_rate
  MinRate,     \* BINARY_SEARCH_MIN_QPS / _RATE
  MaxRate,     \* BINARY_SEARCH_MAX_QPS / _RATE
  Iters,       \* max_bisect_iters
  Tick,        \* resolution of the rate handed to the simulator: 0.01 for
               \* Vidur ("{qps:.2f}"), one unit for LLMServingSim
  Capacities,  \* the SLO is met up to a capacity drawn from here
  Limits,      \* the simulator works up to a limit drawn from here
  MaxNoise     \* bound: answers that do not follow capacity and limit

ASSUME RateAssumption ==
  /\ StartRate \in Nat \ {0}
  /\ MinRate \in Nat \ {0}
  /\ MaxRate \in Nat \ {0}
  /\ Iters \in Nat
  /\ Tick \in Nat \ {0}
  /\ Capacities \subseteq Nat
  /\ Limits \subseteq Nat
  /\ MaxNoise \in Nat

\* The code halves floating-point rates exactly; so does an integer unit that
\* goes 2 ^ Iters times into the first rate and into the cap.
ASSUME UnitAssumption ==
  /\ StartRate % 2 ^ Iters = 0
  /\ MaxRate % 2 ^ Iters = 0

VARIABLES
  pc,        \* "ramp", "floor", "bisect", "done"
  lo, hi,    \* the bracket
  best,      \* rate simulated for last_good_metrics; 0 for None
  left,      \* bisection steps to go
  result,    \* the returned rate
  good,      \* history: simulated rates that met the SLO
  bad,       \* history: simulated rates that did not, or did not answer
  capacity,  \* of this configuration
  limit,     \* of the simulator on this configuration
  noise      \* noisy answers so far

vars == <<pc, lo, hi, best, left, result, good, bad, capacity, limit, noise>>

Answers == {"good", "slow", "none"}

\* The rate a simulation really runs at: the nearest multiple of the tick (a
\* tie may be rounded either way).
Simulated(rate) ==
  {r \in {(rate \div Tick) * Tick, (rate \div Tick) * Tick + Tick} :
     2 * (r - rate) <= Tick /\ 2 * (rate - r) <= Tick}

Expected(r) ==
  IF r > limit THEN "none" ELSE IF r <= capacity THEN "good" ELSE "slow"

\* _run_simulation at rate r answers a.  TTFT grows with the rate, but runs
\* are not seeded and may time out: now and then an answer is arbitrary.
Simulation(r, a) ==
  /\ \/ a = Expected(r) /\ UNCHANGED noise
     \/ a # Expected(r) /\ noise < MaxNoise /\ noise' = noise + 1
  /\ good' = IF a = "good" THEN good \cup {r} ELSE good
  /\ bad' = IF a = "good" THEN bad ELSE bad \cup {r}
  /\ UNCHANGED <<capacity, limit>>

Init ==
  /\ pc = "ramp"
  /\ lo = 0
  /\ hi = StartRate
  /\ best = 0
  /\ left = 0
  /\ result = 0
  /\ good = {}
  /\ bad = {}
  /\ capacity \in Capacities
  /\ limit \in Limits
  /\ noise = 0

Return(rate) ==
  /\ pc' = "done"
  /\ result' = rate

\* MUTANT of LeaveRamp: a search that found a good rate stops there.
MutLeaveRampReturns ==
  IF best = 0
  THEN /\ pc' = "floor"
       /\ UNCHANGED <<hi, left>>
  ELSE /\ pc' = "bisect"
       /\ left' = 0
       /\ UNCHANGED hi

\* The ramp has ended: with a good rate in hand, bisect below the cap,
\* otherwise fall back to the minimal rate.
LeaveRamp ==
  IF best = 0
  THEN /\ pc' = "floor"
       /\ UNCHANGED <<hi, left>>
  ELSE /\ pc' = "bisect"
       /\ hi' = IF hi < MaxRate THEN hi ELSE MaxRate
       /\ left' = Iters

RampGood(r) ==
  /\ lo' = hi
  /\ best' = r
  /\ hi' = hi * 2
  /\ UNCHANGED <<pc, left, result>>

RampSlow ==
  /\ LeaveRamp
  /\ UNCHANGED <<lo, best, result>>

\* No metrics while ramping: return what there is, without bisecting.
RampNone ==
  /\ Return(lo)
  /\ UNCHANGED <<lo, hi, best, left>>

RampProbe ==
  /\ pc = "ramp"
  /\ hi <= MaxRate
  /\ \E r \in Simulated(hi), a \in Answers :
       /\ Simulation(r, a)
       /\ \/ a = "good" /\ RampGood(r)
          \/ a = "slow" /\ RampSlow
          \/ a = "none" /\ RampNone

RampExhausted ==
  /\ pc = "ramp"
  /\ hi > MaxRate
  /\ LeaveRamp
  /\ UNCHANGED <<lo, best, result, good, bad, capacity, limit, noise>>

FloorProbe ==
  /\ pc = "floor"
  /\ \E r \in Simulated(MinRate), a \in Answers :
       /\ Simulation(r, a)
       /\ IF a = "good"
          THEN Return(MinRate) /\ best' = r
          ELSE Return(0) /\ UNCHANGED best
  /\ UNCHANGED <<lo, hi, left>>

Mid == (lo + hi) \div 2

\* MUTANT of Narrow: the metrics of the latest probe are kept, good or not.
MutNarrowTakesLatest(r, a) ==
  /\ best' = r
  /\ IF a = "good"
     THEN lo' = Mid /\ UNCHANGED hi
     ELSE hi' = Mid /\ UNCHANGED lo

\* MUTANT of Narrow: the metrics of a good probe are not kept.
MutNarrowForgets(r, a) ==
  /\ UNCHANGED best
  /\ IF a = "good"
     THEN lo' = Mid /\ UNCHANGED hi
     ELSE hi' = Mid /\ UNCHANGED lo

\* MUTANT of Narrow: a crashed probe is taken for a good one.
MutNarrowNoneIsGood(r, a) ==
  IF a # "slow"
  THEN lo' = Mid /\ best' = r /\ UNCHANGED hi
  ELSE hi' = Mid /\ UNCHANGED <<lo, best>>

\* One answer halves the bracket; no metrics count as a missed SLO.
Narrow(r, a) ==
  IF a = "good"
  THEN lo' = Mid /\ best' = r /\ UNCHANGED hi
  ELSE hi' = Mid /\ UNCHANGED <<lo, best>>

\* MUTANT of StepsOver: the bisection has to converge.
MutStepsOverConverged == hi = lo

StepsOver == left = 0

BisectProbe ==
  /\ pc = "bisect"
  /\ left > 0
  /\ \E r \in Simulated(Mid), a \in Answers :
       Simulation(r, a) /\ Narrow(r, a)
  /\ left' = left - 1
  /\ UNCHANGED <<pc, result>>

BisectEnd ==
  /\ pc = "bisect"
  /\ StepsOver
  /\ Return(lo)
  /\ UNCHANGED <<lo, hi, best, left, good, bad, capacity, limit, noise>>

Next == RampProbe \/ RampExhausted \/ FloorProbe \/ BisectProbe \/ BisectEnd

Spec == Init /\ [][Next]_vars

\* Every simulation ends: its subprocess has a timeout.
FairSpec == Spec /\ WF_vars(Next)

----------------------------------------------------------------------------
TypeOK ==
  /\ pc \in {"ramp", "floor", "bisect", "done"}
  /\ lo \in Nat /\ hi \in Nat /\ best \in Nat /\ result \in Nat
  /\ left \in 0..Iters
  /\ good \subseteq Nat /\ bad \subseteq Nat
  /\ capacity \in Capacities
  /\ limit \in Limits
  /\ noise \in 0..MaxNoise

\* The reported throughput and the reported TTFT come from one simulation:
\* the metrics kept are those of a run at the returned rate that met the SLO
\* (evaluate_config multiplies the rate and copies the metrics).
ReportIsMeasured ==
  pc = "done" =>
    IF result = 0 THEN best = 0 ELSE best \in Simulated(result) \cap good

\* While bisecting, the lower end met the SLO and the upper end did not, or
\* is the cap.
Bracketed ==
  pc = "bisect" =>
    /\ lo <= hi
    /\ best \in Simulated(lo) \cap good
    /\ hi = MaxRate \/ Simulated(hi) \cap bad # {}

\* No measured success is thrown away, however the answers fall: the search
\* returns the highest rate that met the SLO in any of its simulations.
ReturnsHighestGood ==
  pc = "done" => \A r \in good : r <= best

\* The highest rate that meets the SLO and that the simulator can run.
Sustainable == IF capacity < limit THEN capacity ELSE limit

\* Without noise the search never reports an unsustainable rate, and
\* underestimates a rate it could have ramped to by less than half ...
WithinFactorTwo ==
  pc = "done" /\ noise = 0 /\ Sustainable >= StartRate + Tick =>
    /\ best <= Sustainable
    /\ 2 * result + Tick > Sustainable \/ 2 * result > MaxRate

\* ... and, if the simulator copes with the rates above the capacity too, by
\* less than the last bisection step and a tick.
Accurate ==
  pc = "done" /\ noise = 0
    /\ capacity >= StartRate + Tick /\ capacity < MaxRate
    /\ limit >= 2 * capacity + Tick
    => (capacity - result - Tick) * 2 ^ Iters < result

\* Every search ends.
Terminates == <>(pc = "done")
=============================================================================
