-------------------------- MODULE MCBlisRateSearch --------------------------
(***************************************************************************)
(* The BLIS rate search with the constants of the code.  The unit is 1/1024 *)
(* requests per second: the five halvings of the bisection, the half and    *)
(* the four halvings of the confirmation are whole numbers of it.           *)
(***************************************************************************)
EXTENDS BlisRateSearch

Qps == 1024

Start == 10 * Qps
Cap == 10000 * Qps

\* Nothing, below the first probe, inside a bracket of the ramp, between the
\* last step of the ramp and the cap, and beyond it.
SloRates ==
  {0, 100, Start - 1, 13 * Qps, 150 * Qps + 7, 9000 * Qps, 2 * Cap}

\* Not even the first probe finishes, only it does, a bracket fails in its
\* upper half, everything finishes.
TimeRates == {0, Start, 300 * Qps, 2 * Cap}
=============================================================================
