-------------------------- MODULE DynamicResource --------------------------
(***************************************************************************)
(* One dynamic resource (dxmt::DynamicBuffer or DynamicLinearTexture): a   *)
(* DISCARD map gives the application fresh memory, which the commands      *)
(* recorded from then on read. The immediate context and command lists     *)
(* share a queue of allocations that are free once a chunk is coherent.    *)
(*                                                                         *)
(* A command that reads the resource finds its memory when it is encoded,  *)
(* from what the commands before it have set. Commands are encoded in the  *)
(* order they are recorded in, so that the model resolves it at once, in   *)
(* bound and bound_sub, and keeps what each chunk reads in reads.          *)
(***************************************************************************)
EXTENDS Integers, Sequences, SequencesExt, FiniteSets

CONSTANTS
  Lists,         \* command lists, taken from a pool and returned to it
  Kinds,         \* "buffer", "texture": which class is modelled
  SubCounts,     \* suballocations of an allocation, by the buffer's length
  MaxExecutions, \* how often the application executes a list, by the number
                 \* of suballocations
  LateRecycle,   \* may a commit fall between the two steps of a list's Reset
                 \* on the finishing thread?
  MaxSeq,        \* bound: chunks
  MaxMaps        \* bound: DISCARD maps

ASSUME KindsAssumption == Kinds \subseteq {"buffer", "texture"}
ASSUME SubsAssumption  == SubCounts \subseteq Nat \ {0}
ASSUME ExecutionsAssumption == MaxExecutions \in [SubCounts -> Nat]
ASSUME BoundsAssumption == MaxSeq \in Nat \ {0} /\ MaxMaps \in Nat

VARIABLES
  kind, subs,
  name, owned,      \* name_, name_suballocation_ and owned_by_command_list_
  fifo, allocated,  \* the free queue; allocations made so far
  list,             \* of each command list: see ListRecord
  bound, bound_sub, \* Buffer::current(), current_suballocation_ of each
                    \* allocation, after what is recorded so far
  current, retired, coherent, \* CurrentSeqId, the last chunk the finishing
                              \* thread has reset, CoherentSeqId
  reads,            \* memory that the commands of each chunk read
  maps              \* DISCARD maps so far

resource == <<kind, subs>>
binding  == <<bound, bound_sub>>
queue    == <<current, retired, coherent>>
vars == <<resource, name, owned, fifo, allocated, list, binding, queue, reads,
          maps>>

Allocation == 1 .. MaxMaps + 1
Memory == Allocation \X Nat     \* an allocation and one of its suballocations

Phases == {"pooled", "recording", "finished", "released", "resetting"}

ListRecord ==
  [phase : Phases,
   used  : Seq([allocation : Allocation, suballocation : Nat, latest : BOOLEAN]),
   reads : SUBSET Memory,
   executions : Nat,
   chunks : SUBSET Nat,           \* chunks whose commands hold the list
   reset_seq : Nat]               \* CurrentSeqId, as its Reset has read it

PooledList == [phase |-> "pooled", used |-> <<>>, reads |-> {}, executions |-> 0,
               chunks |-> {}, reset_seq |-> 0]

Init ==
  /\ kind \in Kinds /\ subs \in (IF kind = "buffer" THEN SubCounts ELSE {1})
  /\ name = <<1, 0>> /\ owned = FALSE
  /\ fifo = <<>> /\ allocated = 1
  /\ list = [l \in Lists |-> PooledList]
  /\ bound = 1 /\ bound_sub = [a \in Allocation |-> 0]
  /\ current = 1 /\ retired = 0 /\ coherent = 0
  /\ reads = [seq \in 1 .. MaxSeq |-> {}]
  /\ maps = 0

-----------------------------------------------------------------------------
(* The operations of DynamicBuffer; each holds its mutex.                  *)

HasSuballocation(sub) == sub < subs

(* allocate: the head of the queue if it is free, or else a new one. *)
FaultFreeEarly == fifo /= <<>> /\ Head(fifo).will_free_at <= coherent + 1
HasFree == fifo /= <<>> /\ Head(fifo).will_free_at <= coherent

Allocated  == IF HasFree THEN Head(fifo).allocation ELSE allocated + 1
FifoAfter  == IF HasFree THEN Tail(fifo) ELSE fifo
Allocate   == allocated' = IF HasFree THEN allocated ELSE allocated + 1

(* updateImmediateName: the old name goes to the end of the queue, unless  *)
(* a command list is going to recycle it.                                  *)
FaultAlwaysQueued(free) ==
  Append(free, [allocation |-> name[1], will_free_at |-> current])
FifoWithOldName(free) ==
  IF owned THEN free
  ELSE Append(free, [allocation |-> name[1], will_free_at |-> current])

(* recycle of everything a list used, last first: the allocation that is   *)
(* still the immediate name passes to the resource, the others are queued. *)
Recycle(l, seq) ==
  LET used == list[l].used
      names == {i \in DOMAIN used : owned /\ used[i].allocation = name[1]}
      others == IF names = {} THEN used ELSE RemoveAt(used, CHOOSE i \in names : TRUE)
  IN  /\ owned' = (owned /\ names = {})
      /\ fifo' = fifo \o [i \in 1 .. Len(others) |->
           [allocation |-> others[Len(others) + 1 - i].allocation,
            will_free_at |-> seq]]

CountsMap == maps < MaxMaps /\ maps' = maps + 1

-----------------------------------------------------------------------------
(* The immediate context, under the device lock.                           *)

(* MapDynamicBuffer when the allocation has another suballocation. *)
DiscardNextSub ==
  /\ CountsMap
  /\ HasSuballocation(name[2] + 1)
  /\ name' = <<name[1], name[2] + 1>>
  /\ bound_sub' = [bound_sub EXCEPT ![name[1]] = name[2] + 1]
  /\ UNCHANGED <<resource, owned, fifo, allocated, list, bound, queue, reads>>

(* MapDynamicBuffer when it has not, and the same for a linear texture. *)
DiscardRename ==
  /\ CountsMap
  /\ ~HasSuballocation(name[2] + 1)
  /\ Allocate
  /\ name' = <<Allocated, 0>>
  /\ owned' = FALSE
  /\ fifo' = FifoWithOldName(FifoAfter)
  /\ bound' = Allocated
  /\ bound_sub' = [bound_sub EXCEPT ![Allocated] = 0]
  /\ UNCHANGED <<resource, list, queue, reads>>

(* A command that reads the resource. *)
Draw ==
  /\ reads' = [reads EXCEPT ![current] = @ \union {<<bound, bound_sub[bound]>>}]
  /\ UNCHANGED <<resource, name, owned, fifo, allocated, list, binding, queue,
                 maps>>

Commit ==
  /\ current < MaxSeq
  /\ LateRecycle \/ \A l \in Lists : list[l].phase /= "resetting"
  /\ current' = current + 1
  /\ UNCHANGED <<resource, name, owned, fifo, allocated, list, binding, retired,
                 coherent, reads, maps>>

-----------------------------------------------------------------------------
(* Command lists.                                                          *)

(* A deferred context gets its next command list from the pool. *)
CreateCommandList(l) ==
  /\ list[l].phase = "pooled"
  /\ list' = [list EXCEPT ![l].phase = "recording"]
  /\ UNCHANGED <<resource, name, owned, fifo, allocated, binding, queue, reads,
                 maps>>

(* The deferred context has mapped the resource, and its allocation has    *)
(* another suballocation.                                                  *)
HasNextSub(l) ==
  list[l].used /= <<>> /\ HasSuballocation(Last(list[l].used).suballocation + 1)

(* MapDynamicBuffer of a deferred context, in the allocation it has mapped. *)
DeferredNextSub(l) ==
  /\ list[l].phase = "recording"
  /\ HasNextSub(l)
  /\ CountsMap
  /\ list' = [list EXCEPT ![l].used[Len(list[l].used)].suballocation = @ + 1]
  /\ UNCHANGED <<resource, name, owned, fifo, allocated, binding, queue, reads>>

(* The list records a linear texture's allocation as not the latest. *)
FaultNeverLatest == FALSE
IsLatest == kind = "buffer"

(* ... and in a new one, which the list collects. *)
DeferredRename(l) ==
  LET used == list[l].used IN
  /\ list[l].phase = "recording"
  /\ ~HasNextSub(l)
  /\ CountsMap
  /\ Allocate
  /\ fifo' = FifoAfter
  /\ list' = [list EXCEPT ![l].used =
       Append([i \in DOMAIN used |-> [used[i] EXCEPT !.latest = FALSE]],
              [allocation |-> Allocated, suballocation |-> 0,
               latest |-> IsLatest])]
  /\ UNCHANGED <<resource, name, owned, binding, queue, reads>>

(* A command of the list that reads the resource after a map in the list. *)
DeferredDraw(l) ==
  /\ list[l].phase = "recording"
  /\ list[l].used /= <<>>
  /\ LET entry == Last(list[l].used) IN
       list' = [list EXCEPT ![l].reads =
                  @ \union {<<entry.allocation, entry.suballocation>>}]
  /\ UNCHANGED <<resource, name, owned, fifo, allocated, binding, queue, reads,
                 maps>>

FinishCommandList(l) ==
  /\ list[l].phase = "recording"
  /\ list' = [list EXCEPT ![l].phase = "finished"]
  /\ UNCHANGED <<resource, name, owned, fifo, allocated, binding, queue, reads,
                 maps>>

(* What the encoder finds after the list's commands. *)
BindsLast(used) ==
  /\ bound' = IF used = <<>> THEN bound ELSE Last(used).allocation
  /\ bound_sub' = [a \in Allocation |->
       IF \E i \in DOMAIN used : used[i].allocation = a
         THEN used[CHOOSE i \in DOMAIN used : used[i].allocation = a].suballocation
         ELSE bound_sub[a]]

(* updateImmediateName for the allocations marked latest (at most one). *)
TakesName(used) ==
  LET latest == {i \in DOMAIN used : used[i].latest} IN
    IF latest = {} THEN UNCHANGED <<name, owned, fifo>>
    ELSE \E i \in latest :
           /\ name' = <<used[i].allocation, used[i].suballocation>>
           /\ owned' = TRUE
           /\ fifo' = FifoWithOldName(fifo)

ExecuteCommandList(l) ==
  /\ list[l].phase = "finished"
  /\ list[l].executions < MaxExecutions[subs]
  /\ TakesName(list[l].used)
  /\ BindsLast(list[l].used)
  /\ reads' = [reads EXCEPT ![current] = @ \union list[l].reads]
  /\ list' = [list EXCEPT ![l].executions = @ + 1, ![l].chunks = @ \union {current}]
  /\ UNCHANGED <<resource, allocated, queue, maps>>

(* The application drops its reference; if no chunk holds the list, its    *)
(* Reset runs in the same call.                                            *)
Release(l) ==
  /\ list[l].phase = "finished"
  /\ IF list[l].chunks = {}
       THEN list' = [list EXCEPT ![l] = PooledList] /\ Recycle(l, current)
       ELSE list' = [list EXCEPT ![l].phase = "released"] /\ UNCHANGED <<owned, fifo>>
  /\ UNCHANGED <<resource, name, allocated, binding, queue, reads, maps>>

-----------------------------------------------------------------------------
(* The finishing thread.                                                   *)

(* CommandChunk::reset, once the GPU has completed the chunk: the lists it *)
(* held last begin their Reset, which first reads CurrentSeqId.            *)
ResetChunk ==
  LET seq == retired + 1
      isFreed(l) == list[l].phase = "released" /\ list[l].chunks = {seq}
  IN
  /\ retired = coherent
  /\ seq < current
  /\ retired' = seq
  /\ reads' = [reads EXCEPT ![seq] = {}]
  /\ list' = [l \in Lists |->
       IF isFreed(l)
         THEN [list[l] EXCEPT !.chunks = {}, !.phase = "resetting", !.reset_seq = current]
         ELSE [list[l] EXCEPT !.chunks = @ \ {seq}]]
  /\ UNCHANGED <<resource, name, owned, fifo, allocated, binding, current,
                 coherent, maps>>

(* ... and then recycles what the list used, and pools it. *)
ResetList(l) ==
  /\ list[l].phase = "resetting"
  /\ Recycle(l, list[l].reset_seq)
  /\ list' = [list EXCEPT ![l] = PooledList]
  /\ UNCHANGED <<resource, name, allocated, binding, queue, reads, maps>>

SignalCoherent ==
  /\ coherent < retired
  /\ \A l \in Lists : list[l].phase /= "resetting"
  /\ coherent' = retired
  /\ UNCHANGED <<resource, name, owned, fifo, allocated, list, binding, current,
                 retired, reads, maps>>

-----------------------------------------------------------------------------
Immediate == DiscardNextSub \/ DiscardRename \/ Draw \/ Commit

ListCall(l) ==
  \/ CreateCommandList(l) \/ DeferredNextSub(l) \/ DeferredRename(l)
  \/ DeferredDraw(l) \/ FinishCommandList(l) \/ ExecuteCommandList(l) \/ Release(l)

Finishing == ResetChunk \/ SignalCoherent \/ \E l \in Lists : ResetList(l)

Next == Immediate \/ Finishing \/ \E l \in Lists : ListCall(l)

Spec == Init /\ [][Next]_vars

-----------------------------------------------------------------------------
(* Properties.                                                             *)

(* Every variable has its type; a suballocation is one the allocation has. *)
TypeOK ==
  /\ kind \in Kinds /\ subs \in Nat
  /\ name \in Memory /\ name[2] < subs /\ owned \in BOOLEAN
  /\ fifo \in Seq([allocation : Allocation, will_free_at : Nat])
  /\ allocated \in Allocation
  /\ list \in [Lists -> ListRecord]
  /\ bound \in Allocation /\ bound_sub \in [Allocation -> 0 .. subs - 1]
  /\ current \in 1 .. MaxSeq /\ retired \in 0 .. MaxSeq /\ coherent \in 0 .. MaxSeq
  /\ reads \in [1 .. MaxSeq -> SUBSET Memory]
  /\ maps \in 0 .. MaxMaps

(* The list may still be executed. *)
Executable(l) ==
  list[l].phase = "recording"
    \/ (list[l].phase = "finished" /\ list[l].executions < MaxExecutions[subs])

(* What the GPU or a later execution of a list still reads. *)
InUse ==
  (UNION {reads[seq] : seq \in 1 .. MaxSeq})
    \union (UNION {list[l].reads : l \in {x \in Lists : Executable(x)}})

(* What the map of this step returns: the immediate context's new name, or *)
(* the new last entry of a list.                                           *)
Returned ==
  IF name' /= name THEN {name'}
  ELSE {<<Last(list'[l].used).allocation, Last(list'[l].used).suballocation>> :
          l \in {x \in Lists : list'[x].used /= list[x].used}}

(* The memory a DISCARD map returns, on the immediate or on a deferred     *)
(* context, is read by no command that is not completed and by no list     *)
(* that can still be executed: the application's writes reach nobody else. *)
DiscardIsExclusive == [][maps' /= maps => Returned \cap InUse = {}]_vars

(* A NO_OVERWRITE map of the immediate context returns the memory that     *)
(* the commands recorded next read, also after command lists have run.     *)
NoOverwriteIsBound == name = <<bound, bound_sub[bound]>>

(* Everyone who is going to put an allocation into the free queue again,   *)
(* or has: the queue, the immediate name, or a list.                       *)
Owners(a) ==
  Cardinality({i \in DOMAIN fifo : fifo[i].allocation = a})
    + (IF ~owned /\ name[1] = a THEN 1 ELSE 0)
    + Cardinality({l \in Lists :
        \E i \in DOMAIN list[l].used : list[l].used[i].allocation = a})

(* Every allocation has exactly one owner: none is lost while lists are    *)
(* executed, released and recycled in any order, and none is queued twice. *)
OneOwner == \A a \in 1 .. allocated : Owners(a) = 1

=============================================================================
