------------------------ MODULE MCHierarchicalSweep ------------------------
(***************************************************************************)
(* An instance of HierarchicalSweep for TLC: the real stages, a topology    *)
(* with enough configurations for the first quota to exceed one, and one    *)
(* with a single configuration.                                             *)
(***************************************************************************)
EXTENDS HierarchicalSweep

MCSize == [t \in Topology |-> IF t = "tp1" THEN 8 ELSE 1]
MCKeep == <<25, 50, 100>>

\* The configurations of a topology are interchangeable, so their throughputs
\* may be taken in descending order.
MCTruths ==
  {f \in [Config -> 0..2] :
     \A c, d \in Config : c[1] = d[1] /\ c[2] < d[2] => f[c] >= f[d]}
=============================================================================
