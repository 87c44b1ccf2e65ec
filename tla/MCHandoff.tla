----------------------------- MODULE MCHandoff -----------------------------
(* A small instance of CompletionHandoff for TLC.                          *)
EXTENDS CompletionHandoff, TLC

CONSTANTS i1, c1

OneOwner == c1 :> i1
===========================================================================
