---------------------------- MODULE MCTemplates ----------------------------
(***************************************************************************)
(* Model checking of TemplateRegistry: one instance, two handlers, one up  *)
(* at first.                                                               *)
(***************************************************************************)
EXTENDS TemplateRegistry

=============================================================================
