--------------------------- MODULE MCAdmission ---------------------------
(* Small instances of AdmissionQueue for TLC.                              *)
EXTENDS AdmissionQueue, TLC

TwoRequests == {1, 2}
ThreeRequests == {1, 2, 3}

\* Nothing tells two passes apart, and no property names one.
PassSymmetry == Permutations(Passes)
===========================================================================
