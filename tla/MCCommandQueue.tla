--------------------------- MODULE MCCommandQueue ---------------------------
(***************************************************************************)
(* Instances of CommandQueue for TLC: fewer chunk slots than commits, so   *)
(* that the ring wraps, with the inductive invariant of the proofs.        *)
(***************************************************************************)
EXTENDS CommandQueueInv

=============================================================================
