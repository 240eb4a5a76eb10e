---------------------------- MODULE MCFramePacing ----------------------------
(***************************************************************************)
(* Instances of FramePacing for TLC: one presenter, and two presenters of  *)
(* one device.                                                             *)
(***************************************************************************)
EXTENDS FramePacing

=============================================================================
