---------------------- MODULE ResourceInitializerProofs ----------------------
(***************************************************************************)
(* ResourceInitializer for any number of resources, any heap, block size   *)
(* and depth of the upload queue: IInv is inductive; from it follow that   *)
(* chunks run after the uploads they need and wait only for uploads that   *)
(* were sent, and that upload memory is exclusive.                         *)
(***************************************************************************)
EXTENDS ResourceInitializerInv, SequenceTheorems, WellFoundedInduction, TLAPS

-----------------------------------------------------------------------------
(* What allocate and free_blocks do to a queue of blocks of any length,    *)
(* for any block size: they drop blocks from its front, and the memory     *)
(* returned is new, of a coherent block, or above what was allocated.      *)
USE BlockSizeAssumption

(* A set of natural numbers that is not empty has a least member. *)
LEMMA LeastMember ==
  ASSUME NEW T, T \subseteq Nat, T # {}
  PROVE  \E x \in T : \A y \in T : x <= y
<1>1. PICK x \in T : \A y \in T : ~(<<y, x>> \in OpToRel(<, Nat))
  BY NatLessThanWellFounded, WFMin
<1>2. \A y \in T : ~(y < x)
  BY <1>1 DEF OpToRel
<1>3. QED
  BY <1>2

(* b is the queue a without its first k blocks. *)
IsSuffix(b, a, k) ==
  /\ k \in 0 .. Len(a)
  /\ b \in Seq(Block)
  /\ Len(b) = Len(a) - k
  /\ \A j \in 1 .. Len(b) : b[j] = a[j + k]

(* Without removes blocks from the front. *)
LEMMA WithoutIsSuffix ==
  ASSUME NEW fifo \in Seq(Block), NEW dropped
  PROVE  \E k \in 0 .. Len(fifo) : IsSuffix(Without(fifo, dropped), fifo, k)
<1> DEFINE kept == {i \in DOMAIN fifo : i \notin dropped}
           first == CHOOSE i \in kept : \A j \in kept : i <= j
<1>1. CASE kept = {}
  <2>1. Without(fifo, dropped) = <<>>
    BY <1>1 DEF Without
  <2>2. IsSuffix(<<>>, fifo, Len(fifo))
    BY EmptySeq DEF IsSuffix
  <2>3. QED
    BY <2>1, <2>2
<1>2. CASE kept # {}
  <2>1. kept \subseteq 1 .. Len(fifo)
    OBVIOUS
  <2>2. first \in kept
    <3>1. kept \subseteq Nat
      BY <2>1
    <3> HIDE DEF kept
    <3>2. PICK x \in kept : \A j \in kept : x <= j
      BY <1>2, <3>1, LeastMember
    <3>3. QED
      BY <3>2
  <2>3. first \in 1 .. Len(fifo)
    BY <2>1, <2>2
  <2>4. Without(fifo, dropped) = SubSeq(fifo, first, Len(fifo))
    BY <1>2 DEF Without
  <2> HIDE DEF first
  <2>5. \A i \in first .. Len(fifo) : fifo[i] \in Block
    BY <2>3
  <2>6. /\ SubSeq(fifo, first, Len(fifo)) \in Seq(Block)
        /\ Len(SubSeq(fifo, first, Len(fifo))) = Len(fifo) - first + 1
        /\ \A i \in 1 .. Len(fifo) - first + 1 :
             SubSeq(fifo, first, Len(fifo))[i] = fifo[first + i - 1]
    BY <2>3, <2>5, SubSeqProperties
  <2>7. IsSuffix(Without(fifo, dropped), fifo, first - 1)
    BY <2>3, <2>4, <2>6 DEF IsSuffix
  <2>8. QED
    BY <2>3, <2>7
<1>3. QED
  BY <1>1, <1>2

-----------------------------------------------------------------------------
(* free_blocks leaves a suffix; it changes no number and no fill level. *)
SameLease(b, a) ==
  /\ b.id = a.id
  /\ b.last_used_seq_id = a.last_used_seq_id
  /\ b.allocated_size = a.allocated_size

(* A block that is spared once more is the same block. *)
LEMMA OlderBlock ==
  ASSUME NEW b \in Block
  PROVE  /\ [b EXCEPT !.inc_time_to_live = @ + 1] \in Block
         /\ SameLease([b EXCEPT !.inc_time_to_live = @ + 1], b)
  BY DEF Block, SameLease

LEMMA FreeBlocksKeeps ==
  ASSUME NEW fifo \in Seq(Block), NEW coherent \in Nat
  PROVE  /\ FreeBlocks(fifo, coherent) \in Seq(Block)
         /\ \E k \in 0 .. Len(fifo) :
              /\ Len(FreeBlocks(fifo, coherent)) = Len(fifo) - k
              /\ \A j \in 1 .. Len(FreeBlocks(fifo, coherent)) :
                   SameLease(FreeBlocks(fifo, coherent)[j], fifo[j + k])
<1> DEFINE isCoherent(block) == block.last_used_seq_id <= coherent
           rest == Without(fifo,
             {i \in DOMAIN fifo :
                isCoherent(fifo[i]) /\ (Expired(fifo[i], coherent) \/ Adhoc(fifo[i]))})
           older == [rest EXCEPT ![1].inc_time_to_live = @ + 1]
<1>1. PICK k \in 0 .. Len(fifo) : IsSuffix(rest, fifo, k)
  BY WithoutIsSuffix
<1>2. FreeBlocks(fifo, coherent)
        = IF rest /= <<>> /\ isCoherent(Head(rest)) THEN older ELSE rest
  BY DEF FreeBlocks
<1> HIDE DEF rest
<1>3. CASE rest # <<>>
  <2>1. rest \in Seq(Block) /\ 1 \in 1 .. Len(rest)
    BY <1>1, <1>3, EmptySeq DEF IsSuffix
  <2>2. \A j \in 1 .. Len(rest) : rest[j] \in Block
    BY <2>1, ElementOfSeq
  <2> DEFINE first == [rest[1] EXCEPT !.inc_time_to_live = @ + 1]
  <2>3. first \in Block /\ SameLease(first, rest[1])
    BY <2>1, <2>2, OlderBlock
  <2>4. older = [rest EXCEPT ![1] = first]
    OBVIOUS
  <2> HIDE DEF first, older
  <2>5. /\ older \in Seq(Block) /\ Len(older) = Len(rest)
        /\ \A j \in 1 .. Len(rest) : SameLease(older[j], rest[j]) /\ SameLease(rest[j], rest[j])
    <3>1. /\ older \in Seq(Block) /\ Len(older) = Len(rest)
          /\ \A j \in 1 .. Len(rest) : older[j] = IF j = 1 THEN first ELSE rest[j]
      BY <2>1, <2>3, <2>4, ExceptSeq
    <3>2. QED
      BY <2>3, <3>1 DEF SameLease
  <2>6. QED
    BY <1>1, <1>2, <2>1, <2>3, <2>5 DEF IsSuffix
<1>4. CASE rest = <<>>
  BY <1>1, <1>2, <1>4 DEF IsSuffix, SameLease
<1>5. QED
  BY <1>3, <1>4

-----------------------------------------------------------------------------
(* allocate.                                                               *)

(* b is taken from a: its first k blocks dropped, and what is then its     *)
(* last, b's, is the block m of a, or another one (m = 0).                 *)
TakenFrom(b, a, k, m) ==
  /\ b \in Seq(Block) /\ b # <<>>
  /\ k \in 0 .. Len(a) /\ m \in 0 .. k
  /\ Len(b) = Len(a) - k + 1
  /\ \A j \in 1 .. Len(b) - 1 : b[j] = a[j + k]

(* A full block is replaced by a coherent one, or by a new one. *)
LEMMA AllocateOrReuseTakes ==
  ASSUME NEW fifo \in Seq(Block), NEW coherent \in Nat, NEW size \in Nat,
         NEW id \in Nat
  PROVE  LET after == AllocateOrReuse(fifo, coherent, size, id) IN
         \E k \in 0 .. Len(fifo), m \in 0 .. Len(fifo) :
           /\ TakenFrom(after, fifo, k, m)
           /\ after[Len(after)].allocated_size = 0
           /\ IF m = 0 THEN after[Len(after)].id = id
              ELSE /\ after[Len(after)].id = fifo[m].id
                   /\ Reusable(fifo[m], coherent)
<1> DEFINE rest == Without(fifo,
             {i \in DOMAIN fifo : Reusable(fifo[i], coherent) /\ Adhoc(fifo[i])})
           after == AllocateOrReuse(fifo, coherent, size, id)
           reuses == rest /= <<>> /\ Reusable(Head(rest), coherent) /\ size <= BlockSize
           reused == [Head(rest) EXCEPT !.allocated_size = 0, !.inc_time_to_live = 0]
<1>1. PICK k \in 0 .. Len(fifo) : IsSuffix(rest, fifo, k)
  BY WithoutIsSuffix
<1>2. after = IF reuses THEN Append(Tail(rest), reused)
              ELSE Append(rest, NewBlock(id, size))
  BY DEF AllocateOrReuse
<1> HIDE DEF rest, after
<1>3. rest \in Seq(Block)
  BY <1>1 DEF IsSuffix
<1>4. CASE reuses
  <2>1. /\ Head(rest) \in Block /\ Tail(rest) \in Seq(Block)
        /\ Len(Tail(rest)) = Len(rest) - 1
        /\ \A j \in 1 .. Len(Tail(rest)) : Tail(rest)[j] = rest[j + 1]
    BY <1>3, <1>4, HeadTailProperties
  <2>2. Len(rest) \in Nat \ {0} /\ Head(rest) = rest[1]
    BY <1>3, <1>4, EmptySeq
  <2>3. reused \in Block /\ reused.id = Head(rest).id /\ reused.allocated_size = 0
    BY <2>1 DEF Block
  <2> HIDE DEF reused
  <2>4. /\ after \in Seq(Block) /\ after # <<>> /\ Len(after) = Len(rest)
        /\ \A j \in 1 .. Len(rest) - 1 : after[j] = rest[j + 1]
        /\ after[Len(rest)] = reused
    BY <1>2, <1>4, <2>1, <2>2, <2>3, AppendProperties
  <2>5. k + 1 \in 0 .. Len(fifo) /\ rest[1] = fifo[k + 1]
    BY <1>1, <2>2 DEF IsSuffix
  <2>6. TakenFrom(after, fifo, k + 1, k + 1)
    BY <1>1, <2>2, <2>4, <2>5 DEF IsSuffix, TakenFrom
  <2>7. QED
    <3>1. /\ after[Len(after)].allocated_size = 0
          /\ after[Len(after)].id = fifo[k + 1].id
          /\ Reusable(fifo[k + 1], coherent)
      BY <1>4, <2>2, <2>3, <2>4, <2>5
    <3>2. QED
      BY <2>5, <2>6, <3>1, 0 # k + 1 DEF after
<1>5. CASE ~reuses
  <2>1. /\ NewBlock(id, size) \in Block
        /\ NewBlock(id, size).id = id /\ NewBlock(id, size).allocated_size = 0
    BY DEF NewBlock, Block
  <2>2. /\ after \in Seq(Block) /\ after # <<>> /\ Len(after) = Len(rest) + 1
        /\ \A j \in 1 .. Len(rest) : after[j] = rest[j]
        /\ after[Len(rest) + 1] = NewBlock(id, size)
    BY <1>2, <1>3, <1>5, <2>1, AppendProperties
  <2>3. TakenFrom(after, fifo, k, 0)
    <3>1. Len(rest) = Len(fifo) - k /\ \A j \in 1 .. Len(rest) : rest[j] = fifo[j + k]
      BY <1>1 DEF IsSuffix
    <3>2. /\ Len(after) = Len(fifo) - k + 1 /\ Len(after) - 1 = Len(rest)
          /\ \A j \in 1 .. Len(rest) : after[j] = fifo[j + k]
      BY <2>2, <3>1
    <3>3. QED
      BY <2>2, <3>2 DEF TakenFrom
  <2>4. QED
    <3>1. after[Len(after)].allocated_size = 0 /\ after[Len(after)].id = id
      BY <1>3, <2>1, <2>2
    <3>2. QED
      BY <2>3, <3>1 DEF after
<1>6. QED
  BY <1>4, <1>5

Different(fifo) ==
  \A j, k \in 1 .. Len(fifo) : fifo[j].id = fifo[k].id => j = k

(* The fields of a block. *)
LEMMA BlockFields ==
  \A b \in Block : b.id \in Nat /\ b.allocated_size \in Nat /\ b.last_used_seq_id \in Nat
  BY DEF Block

(* Using a block raises its fill level and sets its number. *)
LEMMA UsedBlock ==
  ASSUME NEW b \in Block, NEW size \in Nat, NEW seq \in Nat
  PROVE  LET used == [b EXCEPT !.allocated_size = @ + size, !.last_used_seq_id = seq] IN
         /\ used \in Block /\ used.id = b.id
         /\ used.last_used_seq_id = seq
         /\ used.allocated_size = b.allocated_size + size
         /\ b.allocated_size \in Nat
<1>1. b.allocated_size \in Nat
  BY DEF Block
<1> DEFINE level == b.allocated_size + size
           used == [b EXCEPT !.allocated_size = level, !.last_used_seq_id = seq]
<1>2. level \in Nat
  BY <1>1
<1> HIDE DEF level
<1>3. /\ used \in Block /\ used.id = b.id
      /\ used.last_used_seq_id = seq /\ used.allocated_size = level
  BY <1>2 DEF Block
<1>4. QED
  BY <1>1, <1>3 DEF level

(* The block that the memory returned is from (the last one) is new, or is *)
(* of the queue: cut up further, or coherent and cut up from its front.    *)
LEMMA AllocateTakes ==
  ASSUME NEW fifo \in Seq(Block), NEW seq \in Nat, NEW coherent \in Nat,
         NEW size \in Nat, NEW id \in Nat
  PROVE  LET after == Allocate(fifo, seq, coherent, size, id)
             last == after[Len(after)]
         IN
         /\ after \in Seq(Block) /\ after # <<>>
         /\ last.last_used_seq_id = seq
         /\ \A j \in 1 .. Len(after) - 1 : \E m \in 1 .. Len(fifo) : after[j] = fifo[m]
         /\ \/ last.id = id /\ last.allocated_size = size
            \/ \E m \in 1 .. Len(fifo) :
                 /\ last.id = fifo[m].id
                 /\ \/ last.allocated_size = fifo[m].allocated_size + size
                    \/ last.allocated_size = size /\ Reusable(fifo[m], coherent)
         /\ (Different(fifo) /\ \A j \in 1 .. Len(fifo) : fifo[j].id # id)
              => Different(after)
<1> DEFINE taken == IF Fits(fifo, size) THEN fifo
                    ELSE AllocateOrReuse(fifo, coherent, size, id)
           n == Len(taken)
           last == [taken[n] EXCEPT !.allocated_size = @ + size, !.last_used_seq_id = seq]
           after == Allocate(fifo, seq, coherent, size, id)
<1>1. /\ taken \in Seq(Block) /\ taken # <<>>
      /\ \A j \in 1 .. n - 1 : \E m \in 1 .. Len(fifo) : taken[j] = fifo[m]
      /\ \/ taken[n].id = id /\ taken[n].allocated_size = 0
         \/ \E m \in 1 .. Len(fifo) :
              /\ taken[n].id = fifo[m].id
              /\ \/ taken[n].allocated_size = fifo[m].allocated_size
                 \/ taken[n].allocated_size = 0 /\ Reusable(fifo[m], coherent)
      /\ (Different(fifo) /\ \A j \in 1 .. Len(fifo) : fifo[j].id # id)
           => Different(taken)
  <2>1. CASE Fits(fifo, size)
    <3>1. taken = fifo /\ fifo # <<>>
      BY <2>1 DEF Fits
    <3>2. Len(fifo) \in 1 .. Len(fifo)
      BY <3>1, EmptySeq
    <3>3. QED
      BY <3>1, <3>2
  <2>2. CASE ~Fits(fifo, size)
    <3>1. PICK k \in 0 .. Len(fifo), m \in 0 .. Len(fifo) :
            /\ TakenFrom(taken, fifo, k, m)
            /\ taken[n].allocated_size = 0
            /\ IF m = 0 THEN taken[n].id = id
               ELSE taken[n].id = fifo[m].id /\ Reusable(fifo[m], coherent)
      BY <2>2, AllocateOrReuseTakes
    <3> HIDE DEF taken
    <3>2. /\ taken \in Seq(Block) /\ taken # <<>>
          /\ m \in 0 .. k /\ n = Len(fifo) - k + 1 /\ n \in Nat \ {0}
          /\ \A j \in 1 .. n - 1 : taken[j] = fifo[j + k] /\ j + k \in 1 .. Len(fifo)
      BY <3>1 DEF TakenFrom
    <3>3. ASSUME Different(fifo), \A j \in 1 .. Len(fifo) : fifo[j].id # id
          PROVE  Different(taken)
      <4>1. \A j \in 1 .. n - 1 : taken[j].id # taken[n].id
        <5>1. TAKE j \in 1 .. n - 1
        <5>2. taken[j].id = fifo[j + k].id /\ j + k \in 1 .. Len(fifo)
          BY <3>2
        <5>3. CASE m = 0
          BY <3>1, <3>3, <5>2, <5>3
        <5>4. CASE m # 0
          <6>1. taken[n].id = fifo[m].id
            BY <3>1, <5>4
          <6>2. m \in 1 .. Len(fifo) /\ m # j + k
            BY <3>1, <3>2, <5>2, <5>4
          <6>3. QED
            BY <3>3, <5>2, <6>1, <6>2 DEF Different
        <5>5. QED
          BY <5>3, <5>4
      <4>2. \A i, j \in 1 .. n - 1 : taken[i].id = taken[j].id => i = j
        <5>1. TAKE i, j \in 1 .. n - 1
        <5>2. i + k \in 1 .. Len(fifo) /\ j + k \in 1 .. Len(fifo)
          BY <3>2
        <5>3. fifo[i + k].id = fifo[j + k].id => i + k = j + k
          BY <3>3, <5>2 DEF Different
        <5>4. QED
          BY <3>2, <5>3
      <4>3. n \in Nat
        BY <3>2
      <4> HIDE DEF n
      <4>4. \A i \in 1 .. n : i = n \/ i \in 1 .. n - 1
        BY <4>3
      <4>5. \A i, j \in 1 .. n : taken[i].id = taken[j].id => i = j
        BY <4>1, <4>2, <4>4
      <4>6. QED
        BY <4>5 DEF Different, n
    <3>4. QED
      BY <3>1, <3>2, <3>3
  <2>3. QED
    BY <2>1, <2>2
<1>2. after = [taken EXCEPT ![n] = last]
  BY DEF Allocate, Suballocate
<1> HIDE DEF taken, after
<1>3. n \in 1 .. n /\ taken[n] \in Block
  BY <1>1, EmptySeq, ElementOfSeq
<1>4. /\ last \in Block /\ last.id = taken[n].id
      /\ last.last_used_seq_id = seq
      /\ last.allocated_size = taken[n].allocated_size + size
      /\ taken[n].allocated_size \in Nat
  BY <1>3, UsedBlock
<1> HIDE DEF last
<1>5. /\ after \in Seq(Block) /\ Len(after) = n /\ after # <<>>
      /\ after[n] = last
      /\ \A j \in 1 .. n - 1 : after[j] = taken[j]
  BY <1>1, <1>2, <1>3, <1>4, ExceptSeq, EmptySeq
<1>6. Different(taken) => Different(after)
  <2>1. n \in Nat /\ n = Len(taken) /\ n = Len(after)
    BY <1>1, <1>5, LenProperties
  <2> HIDE DEF n
  <2>2. \A j \in 1 .. n : j = n \/ j \in 1 .. n - 1
    BY <2>1
  <2>3. \A j \in 1 .. n : after[j].id = taken[j].id
    BY <1>4, <1>5, <2>2
  <2>4. QED
    BY <2>1, <2>3 DEF Different
<1>7. \/ last.id = id /\ last.allocated_size = size
      \/ \E m \in 1 .. Len(fifo) :
           /\ last.id = fifo[m].id
           /\ \/ last.allocated_size = fifo[m].allocated_size + size
              \/ last.allocated_size = size /\ Reusable(fifo[m], coherent)
  BY <1>1, <1>4
<1>8. QED
  BY <1>1, <1>4, <1>5, <1>6, <1>7 DEF after

-----------------------------------------------------------------------------
(* The uploads. *)

USE HeapAssumption, SizesAssumption, NoneAssumption, MaxChunksAssumption
USE DEF initializer, chunks

Contents ==
  WaitsForSentUpload /\ UploadedBeforeUse /\ CreatedIsRecorded /\ ChunksWait

Memory == CompletedIsEmpty /\ BlocksDiffer /\ MemoryIsLeased

-----------------------------------------------------------------------------
(* Sending what is recorded.                                               *)

(* A flush appends the commands that are recorded under their own number. *)
LEMMA FlushSends ==
  ASSUME TypeOK, Flush, signaled' = signaled
  PROVE  /\ current_seq_id' = current_seq_id + 1
         /\ uploads' \in Seq(SUBSET Command) /\ Len(uploads') = current_seq_id
         /\ \A i \in 1 .. Len(uploads) : uploads'[i] = uploads[i]
         /\ \A i \in 1 .. current_seq_id : uploads'[i] = CommandsOf(i)
         /\ \A i \in 1 .. current_seq_id : CommandsOf(i)' = CommandsOf(i)
         /\ \A i \in Nat : i = current_seq_id + 1 => CommandsOf(i)' = {}
<1>1. /\ uploads \in Seq(SUBSET Command) /\ pending \in SUBSET Command
      /\ current_seq_id = Len(uploads) + 1 /\ Len(uploads) \in Nat
  BY DEF TypeOK
<1>2. uploads' = Append(uploads, pending) /\ pending' = {}
      /\ current_seq_id' = current_seq_id + 1
  BY DEF Flush
<1>3. /\ uploads' \in Seq(SUBSET Command) /\ Len(uploads') = Len(uploads) + 1
      /\ \A i \in 1 .. Len(uploads) : uploads'[i] = uploads[i]
      /\ uploads'[Len(uploads) + 1] = pending
  BY <1>1, <1>2, AppendProperties
<1>4. \A i \in 1 .. current_seq_id : uploads'[i] = CommandsOf(i)
  BY <1>1, <1>3 DEF CommandsOf
<1>5. \A i \in 1 .. current_seq_id : CommandsOf(i)' = uploads'[i]
  BY <1>1, <1>2 DEF CommandsOf
<1>6. \A i \in Nat : i = current_seq_id + 1 => CommandsOf(i)' = {}
  BY <1>2 DEF CommandsOf
<1>7. QED
  BY <1>1, <1>2, <1>3, <1>4, <1>5, <1>6

-----------------------------------------------------------------------------
(* Type correctness.                                                       *)

(* free_blocks leaves a queue of blocks. *)
LEMMA FlushTypes ==
  ASSUME TypeOK, Flush, signaled' = signaled
  PROVE  /\ heap' \in 0 .. HeapSize /\ pending' \subseteq Command
         /\ current_seq_id' = Len(uploads') + 1
         /\ cached_coherent_seq_id' \in 0 .. signaled' /\ signaled' \in 0 .. Len(uploads')
         /\ ring' \in Seq(Block)
         /\ uploads' \in Seq(SUBSET Command)
<1>1. ring \in Seq(Block) /\ signaled \in Nat /\ signaled <= Len(uploads)
      /\ current_seq_id = Len(uploads) + 1 /\ Len(uploads) \in Nat
  BY DEF TypeOK
<1>2. ring' \in Seq(Block)
  BY <1>1, FreeBlocksKeeps DEF Flush
<1>3. QED
  BY <1>1, <1>2, FlushSends DEF Flush

(* A recorded command has its type. *)
LEMMA RecordTypes ==
  ASSUME TypeOK, NEW r \in Resources, NEW n \in Nat \ {0}, HasRoom(n),
         NEW memory \in SUBSET (Nat \X Nat), Record(r, n, memory), chunk' = chunk
  PROVE  /\ resource' \in [Resources -> {"new", "created", "dropped"}]
         /\ flushing' \in Resources \union {None}
         /\ heap' \in 0 .. HeapSize /\ pending' \subseteq Command
         /\ created_in' \in [Resources -> 0 .. chunk']
<1>1. [resource |-> r, memory |-> memory] \in Command
  BY DEF Command
<1>2. chunk \in 0 .. chunk
  BY DEF TypeOK
<1>3. QED
  BY <1>1, <1>2 DEF TypeOK, Record, HasRoom

(* What is left out leaves its type. *)
LEMMA LeaveOutTypes ==
  ASSUME TypeOK, NEW r \in Resources, LeaveOut(r), chunk' = chunk
  PROVE  /\ resource' \in [Resources -> {"new", "created", "dropped"}]
         /\ flushing' \in Resources \union {None}
         /\ heap' \in 0 .. HeapSize /\ pending' \subseteq Command
         /\ created_in' \in [Resources -> 0 .. chunk']
  BY DEF TypeOK, LeaveOut

(* allocate returns units of a block. *)
LEMMA AllocateTypes ==
  ASSUME TypeOK, NEW size \in Sizes
  PROVE  LET after == Allocate(ring, current_seq_id, cached_coherent_seq_id, size, blocks + 1)
         IN  after \in Seq(Block) /\ Returned(after, size) \in SUBSET (Nat \X Nat)
<1> DEFINE after == Allocate(ring, current_seq_id, cached_coherent_seq_id, size, blocks + 1)
           last == after[Len(after)]
<1>1. /\ ring \in Seq(Block) /\ current_seq_id \in Nat /\ cached_coherent_seq_id \in Nat
      /\ size \in Nat /\ blocks + 1 \in Nat
  BY DEF TypeOK
<1>2. /\ after \in Seq(Block) /\ after # <<>>
      /\ \/ last.allocated_size = size
         \/ \E m \in 1 .. Len(ring) :
              last.allocated_size = ring[m].allocated_size + size
  BY <1>1, AllocateTakes
<1> HIDE DEF after
<1>3. Len(after) \in 1 .. Len(after) /\ last \in Block
  BY <1>2, EmptySeq, ElementOfSeq
<1>4. \A m \in 1 .. Len(ring) : ring[m].allocated_size \in Nat
  BY <1>1, ElementOfSeq, BlockFields
<1>5. last.id \in Nat /\ last.allocated_size \in Nat /\ last.allocated_size >= size
  BY <1>1, <1>2, <1>3, <1>4, BlockFields
<1> HIDE DEF last
<1>6. Returned(after, size)
        = {last.id} \X ((last.allocated_size - size) .. (last.allocated_size - 1))
  BY DEF Returned, last
<1>7. Returned(after, size) \in SUBSET (Nat \X Nat)
  BY <1>1, <1>5, <1>6
<1>8. QED
  BY <1>2, <1>7 DEF after

(* Every step keeps the types. *)
LEMMA TypePreserved == TypeOK /\ [Next]_vars => TypeOK'
<1> SUFFICES ASSUME TypeOK, [Next]_vars PROVE TypeOK'
  OBVIOUS
<1>1. ASSUME NEW r \in Resources, InitWithCommand(r) PROVE TypeOK'
  <2>1. chunk' = chunk
    BY <1>1 DEF InitWithCommand
  <2>2. CASE HasRoom(1)
    <3>1. Record(r, 1, {})
      BY <1>1, <2>2 DEF InitWithCommand
    <3>2. QED
      BY <1>1, <2>1, <2>2, <3>1, RecordTypes DEF InitWithCommand, TypeOK
  <2>3. CASE ~HasRoom(1)
    <3>1. LeaveOut(r)
      BY <1>1, <2>3 DEF InitWithCommand
    <3>2. QED
      BY <1>1, <2>1, <3>1, LeaveOutTypes DEF InitWithCommand, TypeOK
  <2>4. QED
    BY <2>2, <2>3
<1>2. ASSUME NEW r \in Resources, NEW size \in Sizes, InitWithData(r, size)
      PROVE  TypeOK'
  <2> DEFINE after == Allocate(ring, current_seq_id, cached_coherent_seq_id, size, blocks + 1)
  <2>1. after \in Seq(Block) /\ Returned(after, size) \in SUBSET (Nat \X Nat)
    BY AllocateTypes
  <2>2. chunk' = chunk
    BY <1>2 DEF InitWithData
  <2>3. CASE HasRoom(1)
    <3>1. /\ Record(r, 1, Returned(after, size))
          /\ ring' = after /\ blocks' \in {blocks, blocks + 1}
          /\ UNCHANGED <<zero_size, current_seq_id, cached_coherent_seq_id, uploads,
                          signaled, initialized, chunks>>
      BY <1>2, <2>3 DEF InitWithData
    <3> HIDE DEF after
    <3>2. ring' \in Seq(Block) /\ blocks' \in Nat
      BY <2>1, <3>1 DEF TypeOK
    <3> DEFINE memory == Returned(after, size)
    <3>3. memory \in SUBSET (Nat \X Nat) /\ Record(r, 1, memory)
      BY <2>1, <3>1
    <3> HIDE DEF memory
    <3>4. /\ resource' \in [Resources -> {"new", "created", "dropped"}]
          /\ flushing' \in Resources \union {None}
          /\ heap' \in 0 .. HeapSize /\ pending' \subseteq Command
          /\ created_in' \in [Resources -> 0 .. chunk']
      BY <2>2, <2>3, <3>3, RecordTypes
    <3>5. QED
      BY <2>2, <3>1, <3>2, <3>4 DEF TypeOK
  <2>4. CASE ~HasRoom(1)
    <3>1. LeaveOut(r)
      BY <1>2, <2>4 DEF InitWithData
    <3>2. QED
      BY <1>2, <2>2, <2>4, <3>1, LeaveOutTypes DEF InitWithData, TypeOK
  <2>5. QED
    BY <2>3, <2>4
<1>3. ASSUME NEW r \in Resources, NEW size \in Sizes, InitFromZeroBuffer(r, size)
      PROVE  TypeOK'
  <2> DEFINE n == IF zero_size < size THEN 2 ELSE 1
  <2>1. chunk' = chunk /\ n \in Nat \ {0} /\ zero_size' \in Sizes \union {0}
    BY <1>3 DEF InitFromZeroBuffer, TypeOK
  <2>2. CASE HasRoom(n)
    <3>1. Record(r, n, {})
      BY <1>3, <2>2 DEF InitFromZeroBuffer
    <3> HIDE DEF n
    <3>2. QED
      BY <1>3, <2>1, <2>2, <3>1, RecordTypes DEF InitFromZeroBuffer, TypeOK
  <2>3. CASE ~HasRoom(n)
    <3>1. LeaveOut(r)
      BY <1>3, <2>3 DEF InitFromZeroBuffer
    <3>2. QED
      BY <1>3, <2>1, <3>1, LeaveOutTypes DEF InitFromZeroBuffer, TypeOK
  <2>4. QED
    BY <2>2, <2>3
<1>4. ASSUME NEW r \in Resources, NEW size \in Sizes, GrowZeroBuffer(r, size)
      PROVE  TypeOK'
  BY <1>4, FlushTypes DEF GrowZeroBuffer, TypeOK
<1>5. ASSUME FlushAndLeave PROVE TypeOK'
  BY <1>5, FlushTypes DEF FlushAndLeave, TypeOK
<1>6. ASSUME NEW event \in Nat, Publish(event), chunk < MaxChunks, executed' = executed,
             created_in' = created_in
      PROVE  /\ created_in' \in [Resources -> 0 .. chunk']
             /\ wait' \in Seq(Nat) /\ Len(wait') = chunk' - 1
             /\ chunk' \in 1 .. MaxChunks /\ executed' \in 0 .. chunk' - 1
  <2>1. wait' \in Seq(Nat) /\ Len(wait') = Len(wait) + 1
    BY <1>6, AppendProperties DEF TypeOK, Publish
  <2>2. QED
    BY <1>6, <2>1 DEF TypeOK, Publish
<1>7. ASSUME CommitIdle PROVE TypeOK'
  <2>1. cached_coherent_seq_id' \in 0 .. signaled
    BY <1>7 DEF CommitIdle, TypeOK
  <2>2. LastUpload(cached_coherent_seq_id') \in Nat
    BY DEF LastUpload, TypeOK
  <2>3. ring' \in Seq(Block)
    BY <1>7, FreeBlocksKeeps DEF CommitIdle, TypeOK
  <2>4. QED
    BY <1>6, <1>7, <2>1, <2>2, <2>3 DEF CommitIdle, TypeOK
<1>8. ASSUME CommitFlush PROVE TypeOK'
  <2>1. FlushedUpload \in Nat
    BY DEF FlushedUpload, TypeOK
  <2>2. QED
    BY <1>6, <1>8, <2>1, FlushTypes DEF CommitFlush, TypeOK
<1>9. ASSUME CompleteUpload PROVE TypeOK'
  <2>1. /\ uploads \in Seq(SUBSET Command) /\ signaled + 1 \in 1 .. Len(uploads)
        /\ {} \in SUBSET Command
    BY <1>9 DEF CompleteUpload, TypeOK
  <2>2. uploads' \in Seq(SUBSET Command) /\ Len(uploads') = Len(uploads)
    BY <1>9, <2>1, ExceptSeq DEF CompleteUpload
  <2>3. \A command \in uploads[signaled + 1] : command.resource \in Resources
    BY <2>1, ElementOfSeq DEF Command
  <2>4. QED
    BY <1>9, <2>2, <2>3 DEF CompleteUpload, TypeOK
<1>10. ASSUME ExecuteChunk PROVE TypeOK'
  BY <1>10 DEF ExecuteChunk, TypeOK
<1>11. ASSUME UNCHANGED vars PROVE TypeOK'
  BY <1>11 DEF vars, TypeOK
<1>12. QED
  BY <1>1, <1>2, <1>3, <1>4, <1>5, <1>7, <1>8, <1>9, <1>10, <1>11
  DEF Next, Create, Gpu, Finished

-----------------------------------------------------------------------------
(* Contents: what is created is uploaded before a chunk uses it.           *)

(* A resource that is created is for the chunk that is recorded: earlier   *)
(* chunks do not wait for it.                                              *)
LEMMA RecordContents ==
  ASSUME TypeOK, Contents, NEW r \in Resources, NEW n, NEW memory, Creates(r),
         Record(r, n, memory),
         UNCHANGED <<current_seq_id, uploads, signaled, initialized, chunks>>
  PROVE  Contents'
<1>1. /\ resource' = [resource EXCEPT ![r] = "created"]
      /\ created_in' = [created_in EXCEPT ![r] = chunk]
      /\ pending' = pending \union {[resource |-> r, memory |-> memory]}
      /\ current_seq_id' = current_seq_id /\ uploads' = uploads
      /\ signaled' = signaled /\ initialized' = initialized
      /\ wait' = wait /\ chunk' = chunk /\ executed' = executed
  BY DEF Record
<1>2. /\ resource \in [Resources -> {"new", "created", "dropped"}]
      /\ created_in \in [Resources -> 0 .. chunk]
      /\ DOMAIN wait = 1 .. chunk - 1
      /\ chunk \in Nat /\ executed \in 0 .. chunk - 1
      /\ signaled < current_seq_id /\ signaled \in Nat /\ current_seq_id \in Nat
  BY DEF TypeOK
<1>3. \A x \in Resources : x # r => resource'[x] = resource[x] /\ created_in'[x] = created_in[x]
  BY <1>1, <1>2
<1>4. created_in'[r] = chunk
  BY <1>1, <1>2
<1>5. WaitsForSentUpload'
  BY <1>1 DEF Contents, WaitsForSentUpload
<1>6. UploadedBeforeUse'
  BY <1>1, <1>2, <1>3, <1>4 DEF Contents, UploadedBeforeUse
<1>7. \A i \in InFlight : CommandsOf(i) \subseteq CommandsOf(i)'
  BY <1>1 DEF CommandsOf
<1>8. CreatedIsRecorded'
  <2>1. InFlight' = InFlight
    BY <1>1 DEF InFlight
  <2>2. \A x \in Resources, i \in InFlight :
          Fills(CommandsOf(i), x) => Fills(CommandsOf(i)', x)
    BY <1>7 DEF Fills
  <2>3. current_seq_id \in InFlight /\ CommandsOf(current_seq_id)' = pending'
    BY <1>1, <1>2 DEF InFlight, CommandsOf
  <2>4. Fills(pending', r)
    <3>1. [resource |-> r, memory |-> memory] \in pending'
      BY <1>1
    <3>2. QED
      BY <3>1 DEF Fills
  <2>5. \A x \in Resources : resource'[x] = "created" =>
          x \in initialized' \/ \E i \in InFlight : Fills(CommandsOf(i)', x)
    BY <1>1, <1>3, <2>2, <2>3, <2>4 DEF Contents, CreatedIsRecorded
  <2>6. QED
    BY <1>1, <2>1, <2>5 DEF CreatedIsRecorded, Fills
<1>9. ChunksWait'
  BY <1>1, <1>2, <1>3, <1>4 DEF Contents, ChunksWait, Fills
<1>10. QED
  BY <1>5, <1>6, <1>8, <1>9 DEF Contents

(* A flush sends what is recorded, and the chunk that is committed waits   *)
(* for it. *)
LEMMA FlushContents ==
  ASSUME TypeOK, Contents, Flush,
         UNCHANGED <<signaled, initialized, created_in, executed>>,
         \A x \in Resources : resource'[x] = "created" => resource[x] = "created",
         UNCHANGED <<wait, chunk>> \/ Publish(FlushedUpload)
  PROVE  Contents'
<1>1. /\ current_seq_id' = current_seq_id + 1
      /\ Len(uploads') = current_seq_id
      /\ \A i \in 1 .. Len(uploads) : uploads'[i] = uploads[i]
      /\ \A i \in 1 .. current_seq_id : uploads'[i] = CommandsOf(i)
      /\ \A i \in 1 .. current_seq_id : CommandsOf(i)' = CommandsOf(i)
  BY FlushSends
<1>2. /\ wait \in Seq(Nat) /\ Len(wait) = chunk - 1 /\ DOMAIN wait = 1 .. chunk - 1
      /\ current_seq_id = Len(uploads) + 1 /\ Len(uploads) \in Nat
      /\ signaled \in 0 .. Len(uploads) /\ chunk \in Nat \ {0}
  BY DEF TypeOK
<1>3. \A c \in DOMAIN wait' :
        \/ c \in DOMAIN wait /\ wait'[c] = wait[c]
        \/ c = chunk /\ wait'[c] = current_seq_id
  <2>1. CASE UNCHANGED <<wait, chunk>>
    BY <2>1
  <2>2. CASE Publish(FlushedUpload)
    <3>1. wait' = Append(wait, current_seq_id) /\ current_seq_id \in Nat
      BY <1>2, <2>2 DEF Publish, FlushedUpload
    <3>2. /\ wait' \in Seq(Nat) /\ Len(wait') = Len(wait) + 1
          /\ \A c \in 1 .. Len(wait) : wait'[c] = wait[c]
          /\ wait'[Len(wait) + 1] = current_seq_id
      BY <1>2, <3>1, AppendProperties
    <3>3. QED
      BY <1>2, <3>2
  <2>3. QED
    BY <2>1, <2>2
<1>4. WaitsForSentUpload'
  BY <1>1, <1>2, <1>3 DEF Contents, WaitsForSentUpload
<1>5. UploadedBeforeUse'
  BY DEF Contents, UploadedBeforeUse
<1>6. CreatedIsRecorded'
  <2>1. \A i \in InFlight : i \in InFlight' /\ CommandsOf(i)' = CommandsOf(i)
    BY <1>1, <1>2 DEF InFlight
  <2>2. \A x \in Resources, i \in InFlight :
          Fills(CommandsOf(i), x) => i \in InFlight' /\ Fills(CommandsOf(i)', x)
    BY <2>1 DEF Fills
  <2>3. \A x \in Resources : resource'[x] = "created" =>
          x \in initialized' \/ \E i \in InFlight' : Fills(CommandsOf(i)', x)
    BY <2>2 DEF Contents, CreatedIsRecorded
  <2>4. QED
    BY <2>3 DEF CreatedIsRecorded, Fills
<1>7. ChunksWait'
  <2>1. ASSUME NEW x \in Resources, NEW c \in DOMAIN wait', resource'[x] = "created",
               created_in'[x] <= c, x \notin initialized'
        PROVE  \E i \in (signaled' + 1) .. wait'[c] : Fills(uploads'[i], x)
    <3>1. CASE c \in DOMAIN wait /\ wait'[c] = wait[c]
      <4>1. PICK i \in (signaled + 1) .. wait[c] : Fills(uploads[i], x)
        BY <2>1, <3>1 DEF Contents, ChunksWait
      <4>2. wait[c] \in 0 .. Len(uploads)
        BY <3>1 DEF Contents, WaitsForSentUpload
      <4>3. i \in 1 .. Len(uploads)
        BY <1>2, <4>1, <4>2
      <4>4. uploads'[i] = uploads[i]
        BY <1>1, <4>3
      <4>5. QED
        BY <3>1, <4>1, <4>4
    <3>2. CASE wait'[c] = current_seq_id
      <4>1. PICK i \in InFlight : Fills(CommandsOf(i), x)
        BY <2>1 DEF Contents, CreatedIsRecorded
      <4>2. i \in (signaled + 1) .. current_seq_id /\ uploads'[i] = CommandsOf(i)
        BY <1>1, <1>2, <4>1 DEF InFlight
      <4>3. QED
        BY <3>2, <4>1, <4>2
    <3>3. QED
      BY <1>3, <2>1, <3>1, <3>2
  <2>2. QED
    BY <2>1 DEF ChunksWait, Fills
<1>8. QED
  BY <1>4, <1>5, <1>6, <1>7 DEF Contents

(* A commit with nothing to flush: all is done, or the chunk waits for the *)
(* last upload. *)
LEMMA CommitIdleContents ==
  ASSUME TypeOK, Contents, CommitIdle
  PROVE  Contents'
<1>1. /\ pending = {} /\ Publish(LastUpload(cached_coherent_seq_id'))
      /\ cached_coherent_seq_id' \in 0 .. signaled
      /\ UNCHANGED <<resource, created_in, pending, current_seq_id, uploads,
                      signaled, initialized, executed>>
  BY DEF CommitIdle, TypeOK
<1>2. /\ wait \in Seq(Nat) /\ Len(wait) = chunk - 1 /\ DOMAIN wait = 1 .. chunk - 1
      /\ current_seq_id = Len(uploads) + 1 /\ Len(uploads) \in Nat
      /\ signaled \in 0 .. Len(uploads) /\ chunk \in Nat \ {0}
  BY DEF TypeOK
<1> DEFINE last == LastUpload(cached_coherent_seq_id')
<1>3. last \in 0 .. Len(uploads) /\ (last # Len(uploads) => signaled = Len(uploads))
  BY <1>1, <1>2 DEF LastUpload
<1> HIDE DEF last
<1>4. \A c \in DOMAIN wait' :
        \/ c \in DOMAIN wait /\ wait'[c] = wait[c]
        \/ wait'[c] = last
  <2>1. wait' = Append(wait, last) /\ last \in Nat
    BY <1>1, <1>3 DEF Publish, last
  <2>2. /\ wait' \in Seq(Nat) /\ Len(wait') = Len(wait) + 1
        /\ \A c \in 1 .. Len(wait) : wait'[c] = wait[c]
        /\ wait'[Len(wait) + 1] = last
    BY <1>2, <2>1, AppendProperties
  <2>3. QED
    BY <1>2, <2>2
<1>5. WaitsForSentUpload'
  BY <1>1, <1>3, <1>4 DEF Contents, WaitsForSentUpload
<1>6. UploadedBeforeUse'
  BY <1>1 DEF Contents, UploadedBeforeUse
<1>7. CreatedIsRecorded'
  BY <1>1 DEF Contents, CreatedIsRecorded, InFlight, CommandsOf, Fills
<1>8. ASSUME NEW x \in Resources, resource[x] = "created", x \notin initialized
      PROVE  \E i \in (signaled + 1) .. last : Fills(uploads[i], x)
  <2>1. PICK i \in InFlight : Fills(CommandsOf(i), x)
    BY <1>8 DEF Contents, CreatedIsRecorded
  <2>2. i # current_seq_id
    BY <1>1, <2>1 DEF CommandsOf, Fills
  <2>3. i \in (signaled + 1) .. Len(uploads) /\ Fills(uploads[i], x)
    BY <1>2, <2>1, <2>2 DEF InFlight, CommandsOf
  <2>4. QED
    BY <1>2, <1>3, <2>3
<1>9. ChunksWait'
  <2>1. ASSUME NEW x \in Resources, NEW c \in DOMAIN wait', resource[x] = "created",
               created_in[x] <= c, x \notin initialized
        PROVE  \E i \in (signaled + 1) .. wait'[c] : Fills(uploads[i], x)
    <3>1. CASE c \in DOMAIN wait /\ wait'[c] = wait[c]
      BY <2>1, <3>1 DEF Contents, ChunksWait
    <3>2. CASE wait'[c] = last
      BY <1>8, <2>1, <3>2
    <3>3. QED
      BY <1>4, <2>1, <3>1, <3>2
  <2>2. QED
    BY <1>1, <2>1 DEF ChunksWait, Fills
<1>10. QED
  BY <1>5, <1>6, <1>7, <1>9 DEF Contents

(* When an upload completes, what it fills is initialized. *)
LEMMA CompleteUploadContents ==
  ASSUME TypeOK, Contents, CompleteUpload
  PROVE  Contents'
<1>1. /\ signaled + 1 \in 1 .. Len(uploads) /\ signaled' = signaled + 1
      /\ uploads' = [uploads EXCEPT ![signaled + 1] = {}]
      /\ initialized' = initialized
           \union {command.resource : command \in uploads[signaled + 1]}
      /\ UNCHANGED <<resource, created_in, pending, current_seq_id, wait, chunk, executed>>
  BY DEF CompleteUpload, TypeOK
<1>2. /\ uploads \in Seq(SUBSET Command) /\ {} \in SUBSET Command
      /\ current_seq_id = Len(uploads) + 1 /\ Len(uploads) \in Nat
      /\ signaled \in Nat
  BY DEF TypeOK
<1>3. /\ Len(uploads') = Len(uploads)
      /\ \A i \in 1 .. Len(uploads) : i # signaled + 1 => uploads'[i] = uploads[i]
  BY <1>1, <1>2, ExceptSeq
<1>4. \A x \in Resources : Fills(uploads[signaled + 1], x) => x \in initialized'
  BY <1>1 DEF Fills
<1>5. WaitsForSentUpload'
  BY <1>1, <1>3 DEF Contents, WaitsForSentUpload
<1>6. UploadedBeforeUse'
  BY <1>1 DEF Contents, UploadedBeforeUse
<1>7. CreatedIsRecorded'
  <2>1. ASSUME NEW x \in Resources, resource[x] = "created", x \notin initialized'
        PROVE  \E i \in InFlight' : Fills(CommandsOf(i)', x)
    <3>1. PICK i \in InFlight : Fills(CommandsOf(i), x)
      BY <1>1, <2>1 DEF Contents, CreatedIsRecorded
    <3>2. i # signaled + 1
      BY <1>1, <1>2, <1>4, <2>1, <3>1 DEF CommandsOf
    <3>3. i \in InFlight'
      BY <1>1, <1>2, <3>1, <3>2 DEF InFlight
    <3>4. CommandsOf(i)' = CommandsOf(i)
      BY <1>1, <1>2, <1>3, <3>1, <3>2 DEF CommandsOf, InFlight
    <3>5. Fills(CommandsOf(i)', x)
      BY <3>1, <3>4 DEF Fills
    <3>6. QED
      BY <3>3, <3>5
  <2>2. QED
    BY <1>1, <2>1 DEF CreatedIsRecorded, Fills
<1>8. ChunksWait'
  <2>1. ASSUME NEW x \in Resources, NEW c \in DOMAIN wait, resource[x] = "created",
               created_in[x] <= c, x \notin initialized'
        PROVE  \E i \in (signaled' + 1) .. wait[c] : Fills(uploads'[i], x)
    <3>1. PICK i \in (signaled + 1) .. wait[c] : Fills(uploads[i], x)
      BY <1>1, <2>1 DEF Contents, ChunksWait
    <3>2. wait[c] \in 0 .. Len(uploads)
      BY DEF Contents, WaitsForSentUpload
    <3>3. i # signaled + 1
      BY <1>4, <2>1, <3>1
    <3>4. i \in (signaled' + 1) .. wait[c] /\ uploads'[i] = uploads[i]
      BY <1>1, <1>2, <1>3, <3>1, <3>2, <3>3
    <3>5. QED
      BY <3>1, <3>4
  <2>2. QED
    BY <1>1, <2>1 DEF ChunksWait, Fills
<1>9. QED
  BY <1>5, <1>6, <1>7, <1>8 DEF Contents

(* A chunk that runs has been waiting for what it may use. *)
LEMMA ExecuteChunkContents ==
  ASSUME TypeOK, Contents, ExecuteChunk
  PROVE  Contents'
<1>1. /\ executed + 1 < chunk /\ wait[executed + 1] <= signaled
      /\ executed' = executed + 1
      /\ UNCHANGED <<resource, created_in, pending, current_seq_id, uploads,
                      signaled, initialized, wait, chunk>>
  BY DEF ExecuteChunk
<1>2. /\ DOMAIN wait = 1 .. chunk - 1 /\ chunk \in Nat /\ executed \in Nat
      /\ signaled \in Nat
  BY DEF TypeOK
<1>3. executed + 1 \in DOMAIN wait
  BY <1>1, <1>2
<1>4. wait[executed + 1] \in Nat
  BY <1>3 DEF TypeOK
<1>5. UploadedBeforeUse'
  <2>1. ASSUME NEW x \in Resources, resource[x] = "created", created_in[x] <= executed + 1,
               x \notin initialized
        PROVE  FALSE
    <3>1. PICK i \in (signaled + 1) .. wait[executed + 1] : Fills(uploads[i], x)
      BY <1>3, <2>1 DEF Contents, ChunksWait
    <3>2. QED
      BY <1>1, <1>2, <1>4, <3>1
  <2>2. QED
    BY <1>1, <2>1 DEF UploadedBeforeUse
<1>6. WaitsForSentUpload' /\ CreatedIsRecorded' /\ ChunksWait'
  BY <1>1 DEF Contents, WaitsForSentUpload, CreatedIsRecorded, ChunksWait, InFlight,
              CommandsOf, Fills
<1>7. QED
  BY <1>5, <1>6 DEF Contents

(* Every step keeps the contents. *)
LEMMA ContentsPreserved == TypeOK /\ Contents /\ [Next]_vars => Contents'
<1> SUFFICES ASSUME TypeOK, Contents, [Next]_vars PROVE Contents'
  OBVIOUS
<1>1. ASSUME UNCHANGED <<resource, created_in, pending, current_seq_id, uploads,
                         signaled, initialized, chunks>>
      PROVE  Contents'
  BY <1>1 DEF Contents, WaitsForSentUpload, UploadedBeforeUse, CreatedIsRecorded,
              ChunksWait, InFlight, CommandsOf, Fills
<1>2. ASSUME NEW r \in Resources, InitWithCommand(r) PROVE Contents'
  <2>1. CASE HasRoom(1)
    <3>1. Creates(r) /\ Record(r, 1, {})
      BY <1>2, <2>1 DEF InitWithCommand
    <3>2. QED
      BY <1>2, <3>1, RecordContents DEF InitWithCommand
  <2>2. CASE ~HasRoom(1)
    BY <1>1, <1>2, <2>2 DEF InitWithCommand, LeaveOut
  <2>3. QED
    BY <2>1, <2>2
<1>3. ASSUME NEW r \in Resources, NEW size \in Sizes, InitWithData(r, size)
      PROVE  Contents'
  <2>1. CASE HasRoom(1)
    <3>1. PICK memory : Creates(r) /\ Record(r, 1, memory)
      BY <1>3, <2>1 DEF InitWithData
    <3>2. UNCHANGED <<current_seq_id, uploads, signaled, initialized, chunks>>
      BY <1>3 DEF InitWithData
    <3>3. QED
      BY <3>1, <3>2, RecordContents
  <2>2. CASE ~HasRoom(1)
    <3>1. LeaveOut(r) /\ UNCHANGED <<current_seq_id, uploads, signaled, initialized, chunks>>
      BY <1>3, <2>2 DEF InitWithData
    <3>2. QED
      BY <1>1, <3>1 DEF LeaveOut
  <2>3. QED
    BY <2>1, <2>2
<1>4. ASSUME NEW r \in Resources, NEW size \in Sizes, InitFromZeroBuffer(r, size)
      PROVE  Contents'
  <2>1. \/ LeaveOut(r)
        \/ \E n \in {1, 2} : Creates(r) /\ Record(r, n, {})
    BY <1>4 DEF InitFromZeroBuffer
  <2>2. UNCHANGED <<current_seq_id, uploads, signaled, initialized, chunks>>
    BY <1>4 DEF InitFromZeroBuffer
  <2>3. CASE LeaveOut(r)
    BY <1>1, <2>2, <2>3 DEF LeaveOut
  <2>4. QED
    BY <2>1, <2>2, <2>3, RecordContents
<1>5. ASSUME NEW r \in Resources, NEW size \in Sizes, GrowZeroBuffer(r, size)
      PROVE  Contents'
  BY <1>5, FlushContents DEF GrowZeroBuffer
<1>6. ASSUME FlushAndLeave PROVE Contents'
  <2>1. \A x \in Resources : resource'[x] = "created" => resource[x] = "created"
    BY <1>6 DEF FlushAndLeave, TypeOK
  <2>2. QED
    BY <1>6, <2>1, FlushContents DEF FlushAndLeave
<1>7. ASSUME CommitIdle PROVE Contents'
  BY <1>7, CommitIdleContents
<1>8. ASSUME CommitFlush PROVE Contents'
  BY <1>8, FlushContents DEF CommitFlush
<1>9. ASSUME CompleteUpload PROVE Contents'
  BY <1>9, CompleteUploadContents
<1>10. ASSUME ExecuteChunk PROVE Contents'
  BY <1>10, ExecuteChunkContents
<1>11. ASSUME UNCHANGED vars PROVE Contents'
  BY <1>1, <1>11 DEF vars
<1>12. QED
  BY <1>2, <1>3, <1>4, <1>5, <1>6, <1>7, <1>8, <1>9, <1>10, <1>11
  DEF Next, Create, Gpu, Finished

-----------------------------------------------------------------------------
(* Memory: what copies read is not handed out.                             *)

(* A command is recorded that reads no memory of the ring. *)
LEMMA RecordMemory ==
  ASSUME TypeOK, Memory, NEW r \in Resources, NEW n, Record(r, n, {}),
         UNCHANGED <<current_seq_id, uploads, signaled, ring, blocks>>
  PROVE  Memory'
<1>1. pending' = pending \union {[resource |-> r, memory |-> {}]}
      /\ current_seq_id' = current_seq_id /\ uploads' = uploads
      /\ signaled' = signaled /\ ring' = ring /\ blocks' = blocks
  BY DEF Record
<1>2. CompletedIsEmpty' /\ BlocksDiffer' /\ InFlight' = InFlight
  BY <1>1 DEF Memory, CompletedIsEmpty, BlocksDiffer, InFlight
<1>3. ASSUME NEW i \in InFlight, NEW command \in CommandsOf(i)', NEW unit \in command.memory
      PROVE  command \in CommandsOf(i)
  BY <1>1, <1>3 DEF CommandsOf
<1>4. MemoryIsLeased'
  BY <1>1, <1>2, <1>3 DEF Memory, MemoryIsLeased, Leased
<1>5. QED
  BY <1>2, <1>4 DEF Memory

(* Commands stay what they are, and blocks keep what they lease or leave   *)
(* the ring. *)
LEMMA RingMemory ==
  ASSUME TypeOK, Memory, NEW coherent \in Nat, ring' = FreeBlocks(ring, coherent),
         blocks' = blocks, signaled' = signaled,
         \A i \in 1 .. signaled : uploads'[i] = {},
         \A i \in InFlight' : CommandsOf(i)' = {}
           \/ (i \in InFlight /\ CommandsOf(i)' = CommandsOf(i))
  PROVE  Memory'
<1>1. PICK k \in 0 .. Len(ring) :
        /\ ring' \in Seq(Block) /\ Len(ring') = Len(ring) - k
        /\ \A j \in 1 .. Len(ring') : SameLease(ring'[j], ring[j + k])
  BY FreeBlocksKeeps DEF TypeOK
<1>2. ring \in Seq(Block) /\ Len(ring) \in Nat /\ DOMAIN ring = 1 .. Len(ring)
      /\ DOMAIN ring' = 1 .. Len(ring')
  BY <1>1 DEF TypeOK
<1>3. \A j \in DOMAIN ring' : j + k \in DOMAIN ring /\ SameLease(ring'[j], ring[j + k])
  BY <1>1, <1>2
<1>4. CompletedIsEmpty'
  BY DEF CompletedIsEmpty
<1>5. BlocksDiffer'
  <2>1. \A j \in DOMAIN ring' : ring'[j].id \in 1 .. blocks'
    BY <1>3 DEF Memory, BlocksDiffer, SameLease
  <2>2. ASSUME NEW i \in DOMAIN ring', NEW j \in DOMAIN ring', ring'[i].id = ring'[j].id
        PROVE  i = j
    <3>1. i + k = j + k
      BY <1>3, <2>2 DEF Memory, BlocksDiffer, SameLease
    <3>2. QED
      BY <1>2, <3>1
  <2>3. QED
    BY <2>1, <2>2 DEF BlocksDiffer
<1>6. ASSUME NEW unit, NEW i, Leased(unit, i, ring)
      PROVE  Leased(unit, i, ring)'
  BY <1>3, <1>6 DEF Leased, SameLease
<1>7. MemoryIsLeased'
  <2>1. ASSUME NEW i \in InFlight', NEW command \in CommandsOf(i)', NEW unit \in command.memory
        PROVE  unit[1] \in 1 .. blocks' /\ Leased(unit, i, ring)'
    <3>1. i \in InFlight /\ command \in CommandsOf(i)
      BY <2>1
    <3>2. unit[1] \in 1 .. blocks /\ Leased(unit, i, ring)
      BY <2>1, <3>1 DEF Memory, MemoryIsLeased
    <3>3. QED
      BY <1>6, <3>2
  <2>2. QED
    BY <2>1 DEF MemoryIsLeased, Leased
<1>8. QED
  BY <1>4, <1>5, <1>7 DEF Memory

(* The memory that allocate returns is read by no command, and is leased   *)
(* under the number of those that are recorded.                            *)
LEMMA AllocateLeases ==
  ASSUME TypeOK, Memory, NEW size \in Sizes
  PROVE  LET after == Allocate(ring, current_seq_id, cached_coherent_seq_id, size, blocks + 1)
             next == IF after[Len(after)].id > blocks THEN blocks + 1 ELSE blocks
         IN
         /\ \A j \in DOMAIN after : after[j].id \in 1 .. next
         /\ Different(after)
         /\ \A i \in InFlight : \A command \in CommandsOf(i) : \A unit \in command.memory :
              /\ unit[1] \in 1 .. next /\ Leased(unit, i, after)
              /\ unit \notin Returned(after, size)
         /\ \A unit \in Returned(after, size), i \in InFlight :
              unit[1] \in 1 .. next /\ Leased(unit, i, after)
<1> DEFINE after == Allocate(ring, current_seq_id, cached_coherent_seq_id, size, blocks + 1)
           n == Len(after)
           last == after[n]
           next == IF last.id > blocks THEN blocks + 1 ELSE blocks
<1>1. /\ ring \in Seq(Block) /\ current_seq_id \in Nat /\ cached_coherent_seq_id \in Nat
      /\ cached_coherent_seq_id <= signaled /\ signaled \in Nat
      /\ size \in Nat /\ blocks \in Nat /\ blocks + 1 \in Nat
      /\ DOMAIN ring = 1 .. Len(ring)
  BY DEF TypeOK
<1>2. \A m \in 1 .. Len(ring) :
        ring[m].id \in 1 .. blocks /\ ring[m].allocated_size \in Nat
          /\ ring[m].last_used_seq_id \in Nat
  BY <1>1, ElementOfSeq, BlockFields DEF Memory, BlocksDiffer
<1>3. Different(ring) /\ \A j \in 1 .. Len(ring) : ring[j].id # blocks + 1
  <2>1. BlocksDiffer
    BY DEF Memory
  <2>2. Different(ring)
    BY <1>1, <2>1 DEF BlocksDiffer, Different
  <2>3. QED
    BY <1>1, <1>2, <2>2
<1>4. /\ after \in Seq(Block) /\ after # <<>>
      /\ last.last_used_seq_id = current_seq_id
      /\ \A j \in 1 .. n - 1 : \E m \in 1 .. Len(ring) : after[j] = ring[m]
      /\ \/ last.id = blocks + 1 /\ last.allocated_size = size
         \/ \E m \in 1 .. Len(ring) :
              /\ last.id = ring[m].id
              /\ \/ last.allocated_size = ring[m].allocated_size + size
                 \/ /\ last.allocated_size = size
                    /\ Reusable(ring[m], cached_coherent_seq_id)
      /\ Different(after)
  <2>1. /\ after \in Seq(Block) /\ after # <<>>
        /\ last.last_used_seq_id = current_seq_id
        /\ \A j \in 1 .. n - 1 : \E m \in 1 .. Len(ring) : after[j] = ring[m]
        /\ \/ last.id = blocks + 1 /\ last.allocated_size = size
           \/ \E m \in 1 .. Len(ring) :
                /\ last.id = ring[m].id
                /\ \/ last.allocated_size = ring[m].allocated_size + size
                   \/ last.allocated_size = size /\ Reusable(ring[m], cached_coherent_seq_id)
        /\ (Different(ring) /\ \A j \in 1 .. Len(ring) : ring[j].id # blocks + 1)
             => Different(after)
    BY ONLY <1>1, AllocateTakes, Zenon
  <2> HIDE DEF after, n, last
  <2>2. Different(after)
    BY ONLY <1>3, <2>1
  <2> QED
    BY ONLY <2>1, <2>2
<1>5. Returned(after, size)
        = {last.id} \X ((last.allocated_size - size) .. (last.allocated_size - 1))
  BY DEF Returned
<1> HIDE DEF after
<1>6. n \in Nat \ {0} /\ DOMAIN after = 1 .. n /\ \A j \in 1 .. n : j \in 1 .. n - 1 \/ j = n
  BY <1>4, EmptySeq
<1>7. last.id \in 1 .. blocks + 1 /\ last.id \in 1 .. next /\ next \in blocks .. blocks + 1
      /\ last.allocated_size \in Nat
  BY <1>1, <1>2, <1>4
<1> HIDE DEF last, next
<1>8. \A j \in 1 .. n : after[j].id \in 1 .. next
  <2>1. TAKE j \in 1 .. n
  <2>2. CASE j = n
    BY <1>7, <2>2 DEF last
  <2>3. CASE j \in 1 .. n - 1
    BY <1>1, <1>2, <1>4, <1>7, <2>3
  <2>4. QED
    BY <1>6, <2>2, <2>3
<1>9. ASSUME NEW i \in InFlight, NEW command \in CommandsOf(i), NEW unit \in command.memory
      PROVE  /\ unit[1] \in 1 .. next /\ Leased(unit, i, after)
             /\ unit \notin Returned(after, size)
  <2>1. unit[1] \in 1 .. blocks /\ Leased(unit, i, ring)
    BY <1>9 DEF Memory, MemoryIsLeased
  <2>2. i \in Nat /\ i > signaled /\ i <= current_seq_id
    BY <1>1 DEF InFlight
  <2>3. ASSUME NEW m \in 1 .. Len(ring), ring[m].id = unit[1]
        PROVE  /\ i <= ring[m].last_used_seq_id /\ unit[2] < ring[m].allocated_size
               /\ ~Reusable(ring[m], cached_coherent_seq_id)
    <3>1. i <= ring[m].last_used_seq_id /\ unit[2] < ring[m].allocated_size
      BY <1>1, <2>1, <2>3 DEF Leased
    <3>2. ring[m].last_used_seq_id \in Nat
      BY <1>2
    <3>3. ~(ring[m].last_used_seq_id < cached_coherent_seq_id)
      BY <1>1, <2>2, <3>1, <3>2
    <3>4. QED
      BY <3>1, <3>3 DEF Reusable
  <2>4. last.id = unit[1] =>
          \E m \in 1 .. Len(ring) :
            /\ last.allocated_size = ring[m].allocated_size + size
            /\ unit[2] < ring[m].allocated_size
    <3>1. SUFFICES ASSUME last.id = unit[1]
                   PROVE  \E m \in 1 .. Len(ring) :
                            /\ last.allocated_size = ring[m].allocated_size + size
                            /\ unit[2] < ring[m].allocated_size
      OBVIOUS
    <3>2. last.id # blocks + 1
      BY <1>1, <2>1, <3>1
    <3>3. PICK m \in 1 .. Len(ring) :
            /\ last.id = ring[m].id
            /\ \/ last.allocated_size = ring[m].allocated_size + size
               \/ Reusable(ring[m], cached_coherent_seq_id)
      BY <1>4, <3>2
    <3>4. QED
      BY <2>3, <3>1, <3>3
  <2>5. unit \notin Returned(after, size)
    <3>1. SUFFICES ASSUME unit \in Returned(after, size) PROVE FALSE
      OBVIOUS
    <3>2. last.id = unit[1] /\ unit[2] \in Int /\ unit[2] >= last.allocated_size - size
      BY <1>1, <1>5, <1>7, <3>1
    <3>3. QED
      BY <1>1, <1>2, <1>7, <2>4, <3>2
  <2>6. unit[2] \in Nat
    <3>1. CommandsOf(i) \subseteq Command
      <4>1. i = current_seq_id \/ i \in 1 .. Len(uploads)
        BY <2>2, <1>1 DEF TypeOK
      <4>2. QED
        BY <4>1, ElementOfSeq DEF CommandsOf, TypeOK
    <3>2. unit \in Nat \X Nat
      BY <3>1 DEF Command
    <3>3. QED
      BY <3>2
  <2>7. ASSUME NEW j \in 1 .. n, after[j].id = unit[1]
        PROVE  i <= after[j].last_used_seq_id /\ unit[2] < after[j].allocated_size
    <3>1. CASE j = n
      <4>1. after[j] = last
        BY <3>1 DEF last
      <4>2. PICK m \in 1 .. Len(ring) :
              /\ last.allocated_size = ring[m].allocated_size + size
              /\ unit[2] < ring[m].allocated_size
        BY <2>4, <2>7, <4>1
      <4>3. i <= last.last_used_seq_id
        BY <1>1, <1>4, <2>2
      <4>4. unit[2] < last.allocated_size
        BY <1>1, <1>2, <2>6, <4>2
      <4>5. QED
        BY <4>1, <4>3, <4>4
    <3>2. CASE j \in 1 .. n - 1
      BY <1>4, <2>3, <2>7, <3>2
    <3>3. QED
      BY <1>6, <3>1, <3>2
  <2>8. Leased(unit, i, after)
    BY <1>6, <2>7 DEF Leased
  <2>9. unit[1] \in 1 .. next
    BY <1>1, <1>7, <2>1
  <2>10. QED
    BY <2>5, <2>8, <2>9
<1>10. ASSUME NEW unit \in Returned(after, size), NEW i \in InFlight
       PROVE  unit[1] \in 1 .. next /\ Leased(unit, i, after)
  <2>1. unit[1] = last.id /\ unit[2] \in Int /\ unit[2] < last.allocated_size
    BY <1>1, <1>5, <1>7, <1>10
  <2>2. \A j \in 1 .. n : after[j].id = last.id => j = n
    <3>1. Len(after) \in 1 .. Len(after)
      BY <1>4, EmptySeq
    <3>2. \A j \in 1 .. Len(after) : after[j].id = after[n].id => j = n
      BY <1>4, <3>1 DEF Different
    <3>3. QED
      BY <3>2 DEF last
  <2>3. i <= current_seq_id
    BY <1>1 DEF InFlight
  <2>4. QED
    BY <1>4, <1>6, <1>7, <2>1, <2>2, <2>3 DEF Leased, last
<1>11. QED
  BY <1>4, <1>6, <1>8, <1>9, <1>10 DEF after, last, next

(* A command is recorded that reads memory just allocated. *)
LEMMA RecordAllocated ==
  ASSUME TypeOK, Memory, NEW r \in Resources, NEW size \in Sizes, HasRoom(1),
         InitWithData(r, size)
  PROVE  Memory'
<1> DEFINE after == Allocate(ring, current_seq_id, cached_coherent_seq_id, size, blocks + 1)
           next == IF after[Len(after)].id > blocks THEN blocks + 1 ELSE blocks
           new == [resource |-> r, memory |-> Returned(after, size)]
<1>1. /\ pending' = pending \union {new}
      /\ ring' = after /\ blocks' = next
      /\ current_seq_id' = current_seq_id /\ uploads' = uploads /\ signaled' = signaled
  BY DEF InitWithData, Record
<1>2. /\ \A j \in DOMAIN after : after[j].id \in 1 .. next
      /\ Different(after)
  BY AllocateLeases
<1>3. \A i \in InFlight : \A command \in CommandsOf(i) : \A unit \in command.memory :
        unit[1] \in 1 .. next /\ Leased(unit, i, after)
  BY AllocateLeases
<1>4. \A unit \in Returned(after, size), i \in InFlight :
        unit[1] \in 1 .. next /\ Leased(unit, i, after)
  BY AllocateLeases
<1>5. ring' \in Seq(Block)
  BY <1>1, AllocateTypes
<1> HIDE DEF after, next
<1>6. DOMAIN ring' = 1 .. Len(ring')
  BY <1>5
<1>7. CompletedIsEmpty' /\ BlocksDiffer'
  BY <1>1, <1>2, <1>6 DEF Memory, CompletedIsEmpty, BlocksDiffer, Different
<1>8. MemoryIsLeased'
  <2>1. ASSUME NEW i \in InFlight', NEW command \in CommandsOf(i)', NEW unit \in command.memory
        PROVE  unit[1] \in 1 .. next /\ Leased(unit, i, after)
    <3>1. i \in InFlight
      BY <1>1 DEF InFlight
    <3>2. command \in CommandsOf(i) \/ command = new
      BY <1>1 DEF CommandsOf
    <3>3. command = new => unit \in Returned(after, size)
      BY <2>1
    <3>4. QED
      BY <1>3, <1>4, <2>1, <3>1, <3>2, <3>3
  <2>2. QED
    BY <1>1, <2>1 DEF MemoryIsLeased, Leased
<1>9. QED
  BY <1>7, <1>8 DEF Memory

(* Every step keeps the memory. *)
LEMMA MemoryPreserved == TypeOK /\ Memory /\ [Next]_vars => Memory'
<1> SUFFICES ASSUME TypeOK, Memory, [Next]_vars PROVE Memory'
  OBVIOUS
<1>1. ASSUME UNCHANGED <<pending, current_seq_id, uploads, signaled, ring, blocks>>
      PROVE  Memory'
  BY <1>1 DEF Memory, CompletedIsEmpty, BlocksDiffer, MemoryIsLeased, Leased, InFlight,
              CommandsOf
<1>2. ASSUME NEW r \in Resources, InitWithCommand(r) PROVE Memory'
  <2>1. Record(r, 1, {}) \/ LeaveOut(r)
    BY <1>2 DEF InitWithCommand
  <2>2. UNCHANGED <<current_seq_id, uploads, signaled, ring, blocks>>
    BY <1>2 DEF InitWithCommand
  <2>3. QED
    BY <1>1, <2>1, <2>2, RecordMemory DEF LeaveOut
<1>3. ASSUME NEW r \in Resources, NEW size \in Sizes, InitWithData(r, size)
      PROVE  Memory'
  <2>1. CASE HasRoom(1)
    BY <1>3, <2>1, RecordAllocated
  <2>2. CASE ~HasRoom(1)
    <3>1. LeaveOut(r) /\ UNCHANGED <<current_seq_id, uploads, signaled, ring, blocks>>
      BY <1>3, <2>2 DEF InitWithData
    <3>2. QED
      BY <1>1, <3>1 DEF LeaveOut
  <2>3. QED
    BY <2>1, <2>2
<1>4. ASSUME NEW r \in Resources, NEW size \in Sizes, InitFromZeroBuffer(r, size)
      PROVE  Memory'
  <2>1. LeaveOut(r) \/ \E n \in {1, 2} : Record(r, n, {})
    BY <1>4 DEF InitFromZeroBuffer
  <2>2. UNCHANGED <<current_seq_id, uploads, signaled, ring, blocks>>
    BY <1>4 DEF InitFromZeroBuffer
  <2>3. QED
    BY <1>1, <2>1, <2>2, RecordMemory DEF LeaveOut
<1>5. ASSUME Flush, blocks' = blocks, signaled' = signaled PROVE Memory'
  <2>1. /\ current_seq_id = Len(uploads) + 1 /\ Len(uploads) \in Nat
        /\ signaled \in 0 .. Len(uploads)
    BY DEF TypeOK
  <2>2. ring' = FreeBlocks(ring, signaled) /\ current_seq_id' = current_seq_id + 1
    BY <1>5 DEF Flush
  <2>3. \A i \in 1 .. signaled : uploads'[i] = {}
    BY <1>5, <2>1, FlushSends DEF Memory, CompletedIsEmpty
  <2>4. ASSUME NEW i \in InFlight'
        PROVE  CommandsOf(i)' = {} \/ (i \in InFlight /\ CommandsOf(i)' = CommandsOf(i))
    <3>1. CASE i = current_seq_id + 1
      <4>1. i \in Nat
        BY <2>1, <3>1
      <4>2. QED
        BY <1>5, <3>1, <4>1, FlushSends
    <3>2. CASE i # current_seq_id + 1
      <4>1. i \in InFlight /\ i \in 1 .. current_seq_id
        BY <1>5, <2>1, <2>2, <3>2 DEF InFlight
      <4>2. CommandsOf(i)' = CommandsOf(i)
        BY <1>5, <4>1, FlushSends
      <4>3. QED
        BY <4>1, <4>2
    <3>3. QED
      BY <3>1, <3>2
  <2>5. signaled \in Nat
    BY <2>1
  <2>6. QED
    BY <1>5, <2>2, <2>3, <2>4, <2>5, RingMemory
<1>6. ASSUME NEW r \in Resources, NEW size \in Sizes, GrowZeroBuffer(r, size)
      PROVE  Memory'
  BY <1>5, <1>6 DEF GrowZeroBuffer
<1>7. ASSUME FlushAndLeave PROVE Memory'
  BY <1>5, <1>7 DEF FlushAndLeave
<1>8. ASSUME CommitFlush PROVE Memory'
  BY <1>5, <1>8 DEF CommitFlush
<1>9. ASSUME CommitIdle PROVE Memory'
  <2>1. /\ ring' = FreeBlocks(ring, cached_coherent_seq_id) /\ cached_coherent_seq_id \in Nat
        /\ UNCHANGED <<pending, current_seq_id, uploads, signaled, blocks>>
    BY <1>9 DEF CommitIdle, TypeOK
  <2>2. \A i \in 1 .. signaled : uploads'[i] = {}
    BY <2>1 DEF Memory, CompletedIsEmpty
  <2>3. \A i \in InFlight' : i \in InFlight /\ CommandsOf(i)' = CommandsOf(i)
    BY <2>1 DEF InFlight, CommandsOf
  <2>4. QED
    BY <2>1, <2>2, <2>3, RingMemory
<1>10. ASSUME CompleteUpload PROVE Memory'
  <2>1. /\ signaled + 1 \in 1 .. Len(uploads) /\ signaled' = signaled + 1
        /\ uploads' = [uploads EXCEPT ![signaled + 1] = {}]
        /\ UNCHANGED <<pending, current_seq_id, ring, blocks>>
    BY <1>10 DEF CompleteUpload, TypeOK
  <2>2. /\ uploads \in Seq(SUBSET Command) /\ {} \in SUBSET Command
        /\ current_seq_id = Len(uploads) + 1 /\ Len(uploads) \in Nat /\ signaled \in Nat
    BY <2>1 DEF TypeOK
  <2>3. \A i \in 1 .. Len(uploads) :
          uploads'[i] = IF i = signaled + 1 THEN {} ELSE uploads[i]
    BY <2>1, <2>2, ExceptSeq
  <2>4. CompletedIsEmpty'
    BY <2>1, <2>2, <2>3 DEF Memory, CompletedIsEmpty
  <2>5. BlocksDiffer'
    BY <2>1 DEF Memory, BlocksDiffer
  <2>6. \A i \in InFlight' : i \in InFlight /\ CommandsOf(i)' = CommandsOf(i)
    BY <2>1, <2>2, <2>3 DEF InFlight, CommandsOf
  <2>7. MemoryIsLeased'
    BY <2>1, <2>6 DEF Memory, MemoryIsLeased, Leased
  <2>8. QED
    BY <2>4, <2>5, <2>7 DEF Memory
<1>11. ASSUME ExecuteChunk PROVE Memory'
  BY <1>1, <1>11 DEF ExecuteChunk
<1>12. ASSUME UNCHANGED vars PROVE Memory'
  BY <1>1, <1>12 DEF vars
<1>13. QED
  BY <1>2, <1>3, <1>4, <1>6, <1>7, <1>8, <1>9, <1>10, <1>11, <1>12
  DEF Next, Create, Gpu, Finished

-----------------------------------------------------------------------------
(* Theorems.                                                               *)

(* The parts of the invariant agree. *)
LEMMA Parts == IInv <=> TypeOK /\ Contents /\ Memory
  BY DEF IInv, Contents, Memory

(* The invariant holds initially. *)
LEMMA InitIInv == Init => IInv
<1> SUFFICES ASSUME Init PROVE IInv
  OBVIOUS
<1>1. TypeOK
  BY EmptySeq DEF Init, TypeOK
<1>2. Contents
  BY DEF Init, Contents, WaitsForSentUpload, UploadedBeforeUse, CreatedIsRecorded, ChunksWait
<1>3. Memory
  BY DEF Init, Memory, CompletedIsEmpty, BlocksDiffer, MemoryIsLeased, CommandsOf, InFlight
<1>4. QED
  BY <1>1, <1>2, <1>3, Parts

(* The numbers, the waits, the contents and the memory of uploads agree in *)
(* every reachable state. *)
THEOREM UploadInvariance == Spec => []IInv
<1>1. IInv /\ [Next]_vars => IInv'
  <2>1. IInv' <=> TypeOK' /\ Contents' /\ Memory'
    BY Parts, PTL
  <2>2. QED
    BY <2>1, Parts, TypePreserved, ContentsPreserved, MemoryPreserved
<1>2. QED
  BY <1>1, InitIInv, PTL DEF Spec

(* Type correctness of the resource initializer. *)
THEOREM UploadTypes == Spec => []TypeOK
<1>1. IInv => TypeOK
  BY DEF IInv
<1>2. QED
  BY <1>1, UploadInvariance, PTL

(* The GPU runs a chunk only when the uploads of all it may use are done. *)
THEOREM UploadsPrecedeUse == Spec => []UploadedBeforeUse
<1>1. IInv => UploadedBeforeUse
  BY DEF IInv
<1>2. QED
  BY <1>1, UploadInvariance, PTL

(* A chunk never waits for an upload that was not sent. *)
THEOREM WaitsEnd == Spec => []WaitsForSentUpload
<1>1. IInv => WaitsForSentUpload
  BY DEF IInv
<1>2. QED
  BY <1>1, UploadInvariance, PTL

(* Data is copied only into memory that no copy reads. *)
THEOREM UploadMemoryExclusive == Spec => UploadMemoryIsExclusive
<1>1. IInv /\ [Next]_vars =>
        [\A command \in pending' \ pending : command.memory \cap MemoryInUse = {}]_vars
  <2> SUFFICES ASSUME IInv, Next, NEW command \in pending' \ pending
               PROVE  command.memory \cap MemoryInUse = {}
    BY Zenon
  <2>1. TypeOK /\ Memory
    BY Parts
  <2>2. CASE \E r \in Resources, size \in Sizes : InitWithData(r, size)
    <3>1. PICK r \in Resources, size \in Sizes : InitWithData(r, size)
      BY <2>2
    <3> DEFINE after == Allocate(ring, current_seq_id, cached_coherent_seq_id, size, blocks + 1)
    <3>2. command.memory = Returned(after, size)
      BY <3>1 DEF InitWithData, Record, LeaveOut
    <3>3. \A i \in InFlight : \A other \in CommandsOf(i) : \A unit \in other.memory :
            unit \notin Returned(after, size)
      BY <2>1, AllocateLeases
    <3> HIDE DEF after
    <3>4. ASSUME NEW unit \in MemoryInUse
          PROVE  \E i \in InFlight : \E other \in CommandsOf(i) : unit \in other.memory
      <4>1. /\ current_seq_id = Len(uploads) + 1 /\ Len(uploads) \in Nat
            /\ signaled \in 0 .. Len(uploads) /\ DOMAIN uploads = 1 .. Len(uploads)
        BY <2>1 DEF TypeOK
      <4>2. PICK other \in pending \union UNION {uploads[i] : i \in DOMAIN uploads} :
              unit \in other.memory
        BY <3>4 DEF MemoryInUse
      <4>3. CASE other \in pending
        <5>1. current_seq_id \in InFlight /\ other \in CommandsOf(current_seq_id)
          BY <4>1, <4>3 DEF InFlight, CommandsOf
        <5>2. QED
          BY <4>2, <5>1
      <4>4. CASE \E i \in DOMAIN uploads : other \in uploads[i]
        <5>1. PICK i \in 1 .. Len(uploads) : other \in uploads[i]
          BY <4>1, <4>4
        <5>2. i \notin 1 .. signaled
          BY <2>1, <5>1 DEF Memory, CompletedIsEmpty
        <5>3. i \in InFlight /\ other \in CommandsOf(i)
          BY <4>1, <5>1, <5>2 DEF InFlight, CommandsOf
        <5>4. QED
          BY <4>2, <5>3
      <4>5. QED
        BY <4>2, <4>3, <4>4
    <3>5. QED
      BY <3>2, <3>3, <3>4
  <2>3. CASE \E r \in Resources : InitWithCommand(r)
                \/ \E size \in Sizes : InitFromZeroBuffer(r, size)
    <3>1. command.memory = {}
      BY <2>3 DEF InitWithCommand, InitFromZeroBuffer, Record, LeaveOut
    <3>2. QED
      BY <3>1
  <2>4. CASE pending' \subseteq pending
    BY <2>4
  <2>5. \/ \E r \in Resources, size \in Sizes : InitWithData(r, size)
        \/ \E r \in Resources : InitWithCommand(r)
              \/ \E size \in Sizes : InitFromZeroBuffer(r, size)
        \/ pending' \subseteq pending
    BY DEF Next, Create, Gpu, Finished, GrowZeroBuffer, CommitIdle, CommitFlush,
           FlushAndLeave, CompleteUpload, ExecuteChunk, Flush, vars
  <2>6. QED
    BY <2>2, <2>3, <2>4, <2>5
<1>2. QED
  BY <1>1, UploadInvariance, PTL DEF Spec, UploadMemoryIsExclusive

=============================================================================
