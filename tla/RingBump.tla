------------------------------ MODULE RingBump ------------------------------
(***************************************************************************)
(* RingBumpState: a queue of blocks. The last one is cut up from front to  *)
(* back; when it is full the first one is reused, if everything in it is   *)
(* coherent, or else a block is allocated. A block remembers only the      *)
(* number of its last use. Alignment is left out: sizes are in units of it.*)
(***************************************************************************)
EXTENDS Integers, Sequences

CONSTANTS BlockSize, Lifetime    \* kStagingBlockSize, kStagingBlockLifetime

ASSUME BlockSizeAssumption == BlockSize \in Nat \ {0} /\ Lifetime \in Nat

Block ==
  [id : Nat, total_size : Nat, allocated_size : Nat, last_used_seq_id : Nat,
   inc_time_to_live : Nat]

NewBlock(id, size) ==
  [id |-> id, total_size |-> IF size > BlockSize THEN size ELSE BlockSize,
   allocated_size |-> 0, last_used_seq_id |-> 0, inc_time_to_live |-> 0]

Fits(fifo, size) ==
  fifo /= <<>>
    /\ fifo[Len(fifo)].allocated_size + size <= fifo[Len(fifo)].total_size

Adhoc(block) == block.total_size /= BlockSize

(* The longest prefix whose blocks all satisfy a condition is removed. *)
Without(fifo, dropped) ==
  LET kept == {i \in DOMAIN fifo : i \notin dropped}
      first == CHOOSE i \in kept : \A j \in kept : i <= j
  IN  IF kept = {} THEN <<>> ELSE SubSeq(fifo, first, Len(fifo))

Reusable(block, coherent) == block.last_used_seq_id < coherent

(* allocate_or_reuse_block: what precedes the last block of the result. *)
AllocateOrReuse(fifo, coherent, size, id) ==
  LET rest == Without(fifo,
        {i \in DOMAIN fifo : Reusable(fifo[i], coherent) /\ Adhoc(fifo[i])})
  IN  IF rest /= <<>> /\ Reusable(Head(rest), coherent) /\ size <= BlockSize
        THEN Append(Tail(rest),
                    [Head(rest) EXCEPT !.allocated_size = 0, !.inc_time_to_live = 0])
        ELSE Append(rest, NewBlock(id, size))

(* The last block is used: its number is that of the user. *)
FaultFirstUse(fifo, seq, size) ==
  [fifo EXCEPT ![Len(fifo)].allocated_size = @ + size,
               ![Len(fifo)].last_used_seq_id = IF @ = 0 THEN seq ELSE @]
Suballocate(fifo, seq, size) ==
  [fifo EXCEPT ![Len(fifo)].allocated_size = @ + size,
               ![Len(fifo)].last_used_seq_id = seq]

(* allocate; a block that is allocated gets the number id. *)
Allocate(fifo, seq, coherent, size, id) ==
  Suballocate(IF Fits(fifo, size) THEN fifo
              ELSE AllocateOrReuse(fifo, coherent, size, id), seq, size)

(* The units of memory that allocate has returned, the last of a queue. *)
Returned(fifo, size) ==
  LET block == fifo[Len(fifo)] IN
    {block.id} \X ((block.allocated_size - size) .. (block.allocated_size - 1))

(* free_blocks. *)
Expired(block, coherent) ==
  coherent - block.last_used_seq_id > Lifetime \/ block.inc_time_to_live > Lifetime

FreeBlocks(fifo, coherent) ==
  LET isCoherent(block) == block.last_used_seq_id <= coherent
      rest == Without(fifo,
        {i \in DOMAIN fifo :
           isCoherent(fifo[i]) /\ (Expired(fifo[i], coherent) \/ Adhoc(fifo[i]))})
  IN  IF rest /= <<>> /\ isCoherent(Head(rest))
        THEN [rest EXCEPT ![1].inc_time_to_live = @ + 1]
        ELSE rest

=============================================================================
