----------------------- MODULE MCStrategyOneTinyLive -----------------------
(* Small instances of StrategyOneTinyLive for TLC. *)
EXTENDS StrategyOneTinyLive, TLC

CONSTANTS a1, a2

MCAttempts == {a1, a2}
Symmetry == Permutations(MCAttempts)
=============================================================================
