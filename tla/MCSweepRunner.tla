--------------------------- MODULE MCSweepRunner ---------------------------
(***************************************************************************)
(* Small instances of SweepRunner for TLC.                                  *)
(***************************************************************************)
EXTENDS SweepRunner

\* compute_config_hash: one function for every process, no collisions.
StableHash == {[c \in 1..N |-> c]}
StableHashes == 1..N

\* str.__hash__: each process draws its own; no two draws agree anywhere.
PerProcessHashes == (1..MaxRuns) \X (1..N)
PerProcessHash ==
  {[c \in 1..N |-> <<seed, c>>] : seed \in 1..MaxRuns}
=============================================================================
