---------------------------- MODULE MCLifecycle ----------------------------
(***************************************************************************)
(* Model checking of HandlerLifecycle.                                     *)
(***************************************************************************)
EXTENDS HandlerLifecycle

=============================================================================
