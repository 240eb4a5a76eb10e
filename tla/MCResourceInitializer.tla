----------------------- MODULE MCResourceInitializer -----------------------
(***************************************************************************)
(* Instances of ResourceInitializer for TLC. Resources are interchangeable.*)
(***************************************************************************)
EXTENDS ResourceInitializerInv, TLC

ResourceSymmetry == Permutations(Resources)

=============================================================================
