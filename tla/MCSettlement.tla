--------------------------- MODULE MCSettlement ---------------------------
(* Small instances of SettlementOracle for TLC.                            *)
EXTENDS SettlementOracle, TLC

AttemptSymmetry == Permutations(Attempts)
===========================================================================
