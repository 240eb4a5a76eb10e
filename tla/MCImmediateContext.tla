------------------------ MODULE MCImmediateContext ------------------------
(***************************************************************************)
(* Instances of ImmediateContext for TLC: the constants of the             *)
(* configuration are model values and bounds, and nothing else is needed.  *)
(***************************************************************************)
EXTENDS ImmediateContext, TLC

=============================================================================
