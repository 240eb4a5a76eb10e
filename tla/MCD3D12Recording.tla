-------------------------- MODULE MCD3D12Recording --------------------------
(***************************************************************************)
(* Instances of D3D12Recording for TLC.                                    *)
(***************************************************************************)
EXTENDS D3D12Recording, TLC

TwoPipelinesEach == {"graphics", "compute"} \X {1, 2}

Symmetry == Permutations(Lists) \union Permutations(Allocators)

=============================================================================
