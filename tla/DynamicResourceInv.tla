------------------------- MODULE DynamicResourceInv -------------------------
(***************************************************************************)
(* The inductive invariants of DynamicResource, in three tiers: who owns   *)
(* an allocation; what the encoder finds bound; and who still reads it.    *)
(***************************************************************************)
EXTENDS DynamicResource

(* An allocation is in a sequence of entries; none is in it twice. *)
Holds(s, a) == \E i \in DOMAIN s : s[i].allocation = a
Once(s) == \A i, j \in DOMAIN s : s[i].allocation = s[j].allocation => i = j

Queued(a) == Holds(fifo, a)
Named(a)  == ~owned /\ name[1] = a
Uses(l, a) == Holds(list[l].used, a)

-----------------------------------------------------------------------------
(* Owners.                                                                 *)

(* Nothing is queued twice, or collected twice or by two lists; what is    *)
(* queued is not collected, and the name that no list owns is neither.     *)
QueuedOnce == Once(fifo)
UsedOnce == \A l \in Lists : Once(list[l].used)
OwnersDiffer ==
  \A a \in Allocation :
    /\ ~(Queued(a) /\ Named(a))
    /\ \A l \in Lists : ~(Uses(l, a) /\ (Queued(a) \/ Named(a)))
    /\ \A k, l \in Lists : Uses(k, a) /\ Uses(l, a) => k = l

(* What was allocated is somewhere, and nothing else is. *)
AllocatedIsOwned ==
  \A a \in Allocation :
    a <= allocated <=> Queued(a) \/ Named(a) \/ \E l \in Lists : Uses(l, a)

(* There is an allocation left for each map; suballocations exist. *)
Bounded ==
  /\ allocated <= maps + 1
  /\ \A l \in Lists : \A i \in DOMAIN list[l].used :
       list[l].used[i].suballocation < subs

OwnerInv ==
  /\ TypeOK /\ Bounded
  /\ QueuedOnce /\ UsedOnce /\ OwnersDiffer /\ AllocatedIsOwned

-----------------------------------------------------------------------------
(* Bindings, of a buffer.                                                  *)

LatestIsLast ==
  \A l \in Lists : \A i \in DOMAIN list[l].used :
    list[l].used[i].latest <=> i = Len(list[l].used)

BoundInv == OwnerInv /\ LatestIsLast /\ NoOverwriteIsBound

-----------------------------------------------------------------------------
(* Readers, of a buffer whose lists are executed again only with one       *)
(* suballocation, when no commit falls into a list's Reset.                *)

(* A list that owns the immediate name was executed; one that may still    *)
(* record was not; and a list is recycled with the current number.         *)
NameIsExecuted ==
  owned => \E l \in Lists : Uses(l, name[1]) /\ list[l].executions > 0
ListsAre ==
  \A l \in Lists :
    /\ list[l].phase \in {"pooled", "recording"} => list[l].executions = 0
    /\ list[l].phase = "resetting" => list[l].reset_seq = current

Progress == coherent <= retired /\ retired < current

(* A list reads what it was given by its own maps. *)
ListReads ==
  \A l \in Lists : \A m \in list[l].reads : \E i \in DOMAIN list[l].used :
    list[l].used[i].allocation = m[1] /\ m[2] <= list[l].used[i].suballocation

(* What a chunk reads is not free before the chunk is coherent, and is not *)
(* above what the immediate context has mapped, nor any list's that was    *)
(* not executed.                                                           *)
IsReadBy(m, seq) ==
  /\ retired < seq /\ seq <= current
  /\ m[1] <= allocated /\ m[2] < subs
  /\ m[1] = name[1] => m[2] <= name[2]
  /\ \A i \in DOMAIN fifo : fifo[i].allocation = m[1] => seq <= fifo[i].will_free_at
  /\ \A l \in Lists : Uses(l, m[1]) => list[l].executions > 0
ChunkReads == \A seq \in 1 .. MaxSeq : \A m \in reads[seq] : IsReadBy(m, seq)

ReaderInv ==
  /\ BoundInv /\ subs \in SubCounts
  /\ NameIsExecuted /\ ListsAre /\ Progress /\ ListReads /\ ChunkReads

=============================================================================
