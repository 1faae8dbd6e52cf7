------------------------- MODULE MCTopologyPruning -------------------------
(***************************************************************************)
(* The configuration spaces of up to 8 GPUs, and pruning passes over up to *)
(* four topologies, measured below, at and above the threshold.            *)
(***************************************************************************)
EXTENDS TopologyPruning

MCTTFTs == {449, 450, 451, None}
=============================================================================
