-------------------------- MODULE MCParallelSweep --------------------------
(***************************************************************************)
(* A small instance of ParallelSweep for TLC.                               *)
(***************************************************************************)
EXTENDS ParallelSweep

MCHashes == 1..3

\* Two seeds.  The first tells all configurations apart.  Under the second 1
\* and 3, which two workers have in one shard, share the hash that 3 has under
\* the first.  So both recognise a record of 3, which the second also takes for
\* one of 1; a record of 1 is recognised by the seed it was made under, and one
\* made under the second the first takes for one of 3.
TwoSeeds == {<<1, 2, 3>>, <<3, 2, 3>>}
=============================================================================
