------------------------- MODULE MCDynamicResource -------------------------
(***************************************************************************)
(* Instances of DynamicResource for TLC. Command lists are                 *)
(* interchangeable.                                                        *)
(***************************************************************************)
EXTENDS DynamicResource, TLC

(* Lists are executed again, or only when the buffer's length leaves one   *)
(* suballocation in an allocation.                                         *)
Twice == [n \in SubCounts |-> 2]
TwiceUnlessSuballocated == [n \in SubCounts |-> IF n = 1 THEN 2 ELSE 1]

ListSymmetry == Permutations(Lists)

=============================================================================
