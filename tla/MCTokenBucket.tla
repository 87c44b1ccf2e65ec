-------------------------- MODULE MCTokenBucket --------------------------
(* Small instances of TokenBucket for TLC.                                 *)
EXTENDS TokenBucket, TLC

\* Nothing tells two attempts apart, and no property names one.
AttemptSymmetry == Permutations(Attempts)
===========================================================================
