---------------------- MODULE MCCentralLiveOrderGateway ---------------------
(* Small instances of CentralLiveOrderGateway for TLC. *)
EXTENDS CentralLiveOrderGateway, TLC

CONSTANTS k1, k2, c1, c2

MCKeys == {k1, k2}
MCCallers == {c1, c2}
Symmetry == Permutations(MCCallers) \cup Permutations(MCKeys)
=============================================================================
