--------------------------- MODULE BlisRateSearch ---------------------------
(***************************************************************************)
(* The rate search of BLISRunner.evaluate_config: a ramp and a bisection    *)
(* with short simulations, then a confirmation with full-length ones that   *)
(* starts below half the rate the short ones found.  _find_max_rate is the  *)
(* same search with no confirmation (ConfirmIters = 0).                     *)
(*                                                                         *)
(* Rates are integers in a unit small enough for every halving to be exact. *)
(***************************************************************************)
EXTENDS Integers

CONSTANTS
  InitialRate,   \* INITIAL_RATE
  MaxRate,       \* MAX_RATE
  Iters,         \* BINARY_SEARCH_ITERATIONS
  ConfirmIters,  \* CONFIRM_BISECT_ITERS, or 0 for _find_max_rate
  Capacities,    \* rates up to which the SLO may be met
  Limits,        \* rates up to which a simulation may finish in time
  MaxNoise       \* bound: answers that follow neither

ASSUME BlisAssumption ==
  /\ InitialRate \in Nat \ {0}
  /\ MaxRate \in Nat \ {0}
  /\ InitialRate <= MaxRate
  /\ Iters \in Nat
  /\ ConfirmIters \in Nat
  /\ Capacities \subseteq Nat
  /\ Limits \subseteq Nat
  /\ MaxNoise \in Nat

\* The code halves floating-point rates exactly; so does an integer unit that
\* allows the halvings of the bisection, the half and those of the
\* confirmation on the first rate and on the cap.
ASSUME UnitAssumption ==
  /\ InitialRate % (2 ^ (ConfirmIters + 1) * 2 ^ Iters) = 0
  /\ MaxRate % (2 ^ (ConfirmIters + 1) * 2 ^ Iters) = 0

Lengths == {"short", "full"}

VARIABLES
  pc,        \* "ramp", "bisect", "confirm", "done"
  lo, hi,    \* the bracket of the current phase
  best,      \* best_rate
  from,      \* the length of the simulation best_metrics comes from, or "none"
  left,      \* steps left in the phase
  found,     \* history: the rate the short simulations settled on
  good,      \* history: <<length, rate>> of the simulations that met the SLO
  bad,       \* history: <<length, rate>> of the others
  capacity,  \* [Lengths -> rate]: what this configuration sustains
  limit,     \* [Lengths -> rate]: what finishes before the timeout
  noise

vars == <<pc, lo, hi, best, from, left, found, good, bad, capacity, limit,
          noise>>

Answers == {"good", "slow", "none"}

Expected(len, r) ==
  IF r > limit[len] THEN "none"
  ELSE IF r <= capacity[len] THEN "good" ELSE "slow"

\* _run_single of the given length at rate r answers a: metrics within or
\* beyond the SLO, or None (exit code, timeout, unparsable output).
RunSingle(len, r, a) ==
  /\ \/ a = Expected(len, r) /\ UNCHANGED noise
     \/ a # Expected(len, r) /\ noise < MaxNoise /\ noise' = noise + 1
  /\ good' = IF a = "good" THEN good \cup {<<len, r>>} ELSE good
  /\ bad' = IF a = "good" THEN bad ELSE bad \cup {<<len, r>>}
  /\ UNCHANGED <<capacity, limit>>

Init ==
  /\ pc = "ramp"
  /\ lo = 0
  /\ hi = InitialRate
  /\ best = 0
  /\ from = "none"
  /\ left = 0
  /\ found = 0
  /\ good = {}
  /\ bad = {}
  /\ capacity \in [Lengths -> Capacities]
  /\ limit \in [Lengths -> Limits]
  /\ noise = 0

Keep(len, r) ==
  /\ lo' = r
  /\ best' = r
  /\ from' = len

\* MUTANT of StartBisect: an upper end beyond the cap is kept.
MutStartBisectUncapped ==
  /\ pc' = "bisect"
  /\ left' = Iters
  /\ UNCHANGED hi

StartBisect ==
  /\ pc' = "bisect"
  /\ left' = Iters
  /\ hi' = IF hi <= MaxRate THEN hi ELSE MaxRate

RampGood ==
  /\ Keep("short", hi)
  /\ hi' = hi * 2
  /\ UNCHANGED <<pc, left, found>>

\* Beyond the SLO, or no metrics after an earlier success: bisect.
RampBad ==
  /\ StartBisect
  /\ UNCHANGED <<lo, best, from, found>>

\* The very first probe has no metrics: give the configuration up.
RampTimedOut ==
  /\ pc' = "done"
  /\ UNCHANGED <<lo, hi, best, from, left, found>>

RampProbe ==
  /\ pc = "ramp"
  /\ hi <= MaxRate
  /\ \E a \in Answers :
       /\ RunSingle("short", hi, a)
       /\ \/ a = "good" /\ RampGood
          \/ (a = "slow" \/ (a = "none" /\ best # 0)) /\ RampBad
          \/ a = "none" /\ best = 0 /\ RampTimedOut

RampExhausted ==
  /\ pc = "ramp"
  /\ hi > MaxRate
  /\ StartBisect
  /\ UNCHANGED <<lo, best, from, found, good, bad, capacity, limit, noise>>

Mid == (lo + hi) \div 2

\* MUTANT of Narrow: the best rate moves to the failed probe.
MutNarrowTakesLatest(len, a) ==
  IF a = "good"
  THEN Keep(len, Mid) /\ UNCHANGED hi
  ELSE hi' = Mid /\ best' = Mid /\ UNCHANGED <<lo, from>>

\* MUTANT of Narrow: no metrics count as a success.
MutNarrowNoneIsGood(len, a) ==
  IF a # "slow"
  THEN Keep(len, Mid) /\ UNCHANGED hi
  ELSE hi' = Mid /\ UNCHANGED <<lo, best, from>>

Narrow(len, a) ==
  IF a = "good"
  THEN Keep(len, Mid) /\ UNCHANGED hi
  ELSE hi' = Mid /\ UNCHANGED <<lo, best, from>>

StepsOver == left = 0

BisectProbe ==
  /\ pc = "bisect"
  /\ left > 0
  /\ \E a \in Answers : RunSingle("short", Mid, a) /\ Narrow("short", a)
  /\ left' = left - 1
  /\ UNCHANGED <<pc, found>>

\* MUTANT of StartConfirm: the confirmation starts at the rate found.
MutConfirmFromFound ==
  /\ lo' = 0
  /\ hi' = 2 * best
  /\ left' = ConfirmIters

StartConfirm ==
  /\ lo' = 0
  /\ hi' = best \div 2
  /\ left' = ConfirmIters

BisectEnd ==
  /\ pc = "bisect"
  /\ StepsOver
  /\ found' = best
  /\ IF best > 0 /\ ConfirmIters > 0
     THEN pc' = "confirm" /\ StartConfirm
     ELSE pc' = "done" /\ UNCHANGED <<lo, hi, left>>
  /\ UNCHANGED <<best, from, good, bad, capacity, limit, noise>>

ConfirmProbe ==
  /\ pc = "confirm"
  /\ left > 0
  /\ \E a \in Answers : RunSingle("full", Mid, a) /\ Narrow("full", a)
  /\ left' = left - 1
  /\ UNCHANGED <<pc, found>>

ConfirmEnd ==
  /\ pc = "confirm"
  /\ StepsOver
  /\ pc' = "done"
  /\ UNCHANGED <<lo, hi, best, from, left, found, good, bad, capacity, limit,
                 noise>>

Next ==
  \/ RampProbe \/ RampExhausted
  \/ BisectProbe \/ BisectEnd
  \/ ConfirmProbe \/ ConfirmEnd

Spec == Init /\ [][Next]_vars

\* metadata.status of the ConfigResult.
Status == IF from = "none" THEN "unconverged" ELSE "ok"

----------------------------------------------------------------------------
TypeOK ==
  /\ pc \in {"ramp", "bisect", "confirm", "done"}
  /\ lo \in Nat /\ hi \in Nat /\ best \in Nat /\ found \in Nat
  /\ from \in Lengths \cup {"none"}
  /\ left \in 0..Iters \/ left \in 0..ConfirmIters
  /\ good \subseteq Lengths \X Nat
  /\ bad \subseteq Lengths \X Nat
  /\ capacity \in [Lengths -> Capacities]
  /\ limit \in [Lengths -> Limits]
  /\ noise \in 0..MaxNoise

\* The reported rate and metrics belong to one simulation that met the SLO,
\* so meets_slo is never claimed for a rate that was not simulated.
ReportIsMeasured ==
  pc = "done" =>
    IF from = "none" THEN best = 0 ELSE <<from, best>> \in good

\* No rate above the cap is ever simulated.
WithinCap == \A run \in good \cup bad : run[2] <= MaxRate

\* A rate confirmed at full length is below half of what the short runs
\* found, so one the search settled on at full length never exceeds the
\* screening estimate.
ConfirmedIsConservative ==
  from = "full" => 2 * best < found

\* Without noise, a confirmed rate is the highest multiple of the last
\* confirmation step, below the half-way point, that the configuration
\* sustains at full length.
ConfirmedIsTight ==
  LET sustained ==
        IF capacity["full"] < limit["full"] THEN capacity["full"]
        ELSE limit["full"]
      step == (found \div 2) \div 2 ^ ConfirmIters
  IN  pc = "done" /\ noise = 0 /\ from = "full" =>
        /\ best <= sustained
        /\ sustained < best + step \/ best + step >= found \div 2

\* Without noise and with simulations that finish, the screening estimate is
\* within the last bisection step of the capacity at short length.
ScreeningIsTight ==
  pc = "done" /\ noise = 0
    /\ limit["short"] > MaxRate /\ capacity["short"] < MaxRate
    => /\ found <= capacity["short"]
       /\ (capacity["short"] - found) * 2 ^ Iters
            < (IF found < InitialRate THEN InitialRate ELSE found)
=============================================================================
