---------------------------- MODULE MCRateSearch ----------------------------
(***************************************************************************)
(* The rate searches with the constants of the code.  The unit is 1/6400    *)
(* requests per second: eight halvings of 10 q/s and Vidur's hundredths are *)
(* whole numbers of it.                                                     *)
(***************************************************************************)
EXTENDS RateSearch

Qps == 6400

Start == 10 * Qps
VidurMin == Qps \div 10
Cap == 500 * Qps
Hundredth == Qps \div 100

\* Around every rate the ramp stops at, and inside every bracket.
Ramp == {10 * Qps, 20 * Qps, 40 * Qps, 80 * Qps, 160 * Qps, 320 * Qps}
Interesting ==
  {0, VidurMin, VidurMin + 1, Qps, 9 * Qps, Cap, Cap + 1, 700 * Qps}
    \cup {r + d : r \in Ramp, d \in {-1, 0, Hundredth, 3333}}
    \cup {r + (r \div 3) : r \in Ramp}
=============================================================================
