---------------------------- MODULE MCParetoScan ----------------------------
(***************************************************************************)
(* Four records over three prices and four throughputs: every pattern of    *)
(* ties, fronts of up to three records, adequate and inadequate ones.       *)
(***************************************************************************)
EXTENDS ParetoScan

SomePrices == 1..3
SomeThroughputs == 0..3
=============================================================================
