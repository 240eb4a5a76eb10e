------------------------- MODULE CommandQueueProofs -------------------------
(***************************************************************************)
(* CommandQueue for every ring size N, every counter width W > N and every *)
(* number of commits: IInv of CommandQueueInv is inductive; from it follow *)
(* type correctness, the exclusivity of the ring's slots, the pacing of    *)
(* frames and the implementation of ChunkPipeline.                         *)
(***************************************************************************)
EXTENDS CommandQueueInv, TLAPS

USE NAssumption, WAssumption, LatencyAssumption
USE DEF counters, fences, app_vars, enc_vars, fin_vars

-----------------------------------------------------------------------------
(* The slots of the ring.                                                  *)

(* A chunk number has a slot. *)
LEMMA SlotInRing == ASSUME NEW s \in Nat PROVE Slot(s) \in 0 .. N - 1
  BY DEF Slot

(* Two different chunks less than N apart never share a slot. *)
LEMMA SlotsDiffer ==
  ASSUME NEW s \in Nat, NEW t \in Nat, s < t, t < s + N
  PROVE  Slot(s) # Slot(t)
<1> DEFINE a == s \div N
           b == t \div N
<1>1. s = a * N + (s % N) /\ a \in Int /\ s % N \in 0 .. N - 1
  OBVIOUS
<1>2. t = b * N + (t % N) /\ b \in Int /\ t % N \in 0 .. N - 1
  OBVIOUS
<1> HIDE DEF a, b
<1>3. SUFFICES ASSUME s % N = t % N PROVE FALSE
  BY DEF Slot
<1>4. b * N - a * N = t - s
  BY <1>1, <1>2, <1>3
<1>5. (b - a) * N = b * N - a * N
  BY <1>1, <1>2
<1>6. CASE b <= a
  <2>1. (b - a) * N <= 0
    BY <1>6, <1>1, <1>2
  <2>2. QED
    BY <2>1, <1>4, <1>5
<1>7. CASE b > a
  <2>1. (b - a) * N >= N
    BY <1>7, <1>1, <1>2
  <2>2. QED
    BY <2>1, <1>4, <1>5
<1>8. QED
  BY <1>6, <1>7, <1>1, <1>2

(* The ring wraps after N chunks. *)
LEMMA SlotWraps == ASSUME NEW s \in Nat PROVE Slot(s + N) = Slot(s)
<1> DEFINE a == s \div N
           b == (s + N) \div N
<1>1. s = a * N + (s % N) /\ a \in Int /\ s % N \in 0 .. N - 1
  OBVIOUS
<1>2. s + N = b * N + ((s + N) % N) /\ b \in Int /\ (s + N) % N \in 0 .. N - 1
  OBVIOUS
<1> HIDE DEF a, b
<1>3. (b - a - 1) * N = b * N - a * N - N
  BY <1>1, <1>2
<1>4. (b - a - 1) * N = (s % N) - ((s + N) % N)
  BY <1>1, <1>2, <1>3
<1>5. b - a - 1 >= 1 => (b - a - 1) * N >= N
  BY <1>1, <1>2
<1>6. b - a - 1 <= -1 => (b - a - 1) * N <= -N
  BY <1>1, <1>2
<1>7. b - a - 1 = 0
  BY <1>1, <1>2, <1>4, <1>5, <1>6
<1>8. (s % N) - ((s + N) % N) = 0
  BY <1>1, <1>2, <1>4, <1>7
<1>9. QED
  BY <1>1, <1>2, <1>8 DEF Slot

-----------------------------------------------------------------------------
(* Type correctness.                                                       *)

(* Resetting a chunk or giving it a number leaves a chunk. *)
LEMMA ChunkTypes ==
  ASSUME NEW c \in Chunk, NEW n \in Nat, NEW f \in Nat
  PROVE  /\ Reset(c) \in Chunk
         /\ [c EXCEPT !.chunk_id = n] \in Chunk
         /\ [c EXCEPT !.attached_cmdbuf = n] \in Chunk
         /\ [c EXCEPT !.list_enc = @ \union {n}] \in Chunk
         /\ [c EXCEPT !.list_enc = @ \union {n},
                      !.signal_frame_latency_fence = f] \in Chunk
<1>1. c.list_enc \union {n} \in SUBSET Nat /\ {} \in SUBSET Nat
  BY DEF Chunk
<1>2. QED
  BY <1>1 DEF Chunk, Reset, NoBuffer, NoSignal

LEMMA TypeInit == Init => TypeOK
<1> SUFFICES ASSUME Init PROVE TypeOK
  OBVIOUS
<1>1. chunks \in [0 .. N - 1 -> Chunk]
  BY DEF Init, Chunk, NoBuffer, NoSignal
<1>2. frame_chunk \in Seq(Nat)
  BY DEF Init
<1>3. max_latency \in Nat /\ gpu \in SUBSET Nat /\ chunk_ongoing \in 0 .. W - 1
  BY DEF Init
<1>4. app_pc \in AppPCs /\ enc_pc \in EncPCs /\ fin_pc \in FinPCs
  BY DEF Init, AppPCs, EncPCs, FinPCs
<1>5. QED
  BY <1>1, <1>2, <1>3, <1>4 DEF Init, TypeOK

LEMMA TypeStep == TypeOK /\ [Next]_vars => TypeOK'
<1> SUFFICES ASSUME TypeOK, [Next]_vars PROVE TypeOK'
  OBVIOUS
<1> USE DEF TypeOK, AppPCs
<1>1. CASE Emit
  <2>1. chunks' \in [0 .. N - 1 -> Chunk]
    <3> DEFINE c == chunks[Slot(ready_for_encode)]
               d == [c EXCEPT !.list_enc = @ \union {ready_for_encode}]
    <3>1. Slot(ready_for_encode) \in 0 .. N - 1 /\ c \in Chunk
      BY SlotInRing
    <3>2. d \in Chunk
      BY <3>1, ChunkTypes
    <3>3. chunks' = [chunks EXCEPT ![Slot(ready_for_encode)] = d]
      BY <1>1 DEF Emit
    <3> HIDE DEF c, d
    <3>4. QED
      BY <3>1, <3>2, <3>3
  <2>2. QED
    BY <1>1, <2>1 DEF Emit
<1>2. ASSUME NEW c \in Chunk, Publish(c)
      PROVE /\ chunks' \in [0 .. N - 1 -> Chunk]
            /\ ready_for_encode' \in Nat /\ app_pc' \in AppPCs
  <2>1. chunks' \in [0 .. N - 1 -> Chunk]
    <3> DEFINE d == [c EXCEPT !.chunk_id = ready_for_encode]
    <3>1. Slot(ready_for_encode) \in 0 .. N - 1 /\ d \in Chunk
      BY <1>2, SlotInRing, ChunkTypes
    <3>2. chunks' = [chunks EXCEPT ![Slot(ready_for_encode)] = d]
      BY <1>2 DEF Publish
    <3> HIDE DEF d
    <3>3. QED
      BY <3>1, <3>2
  <2>2. ready_for_encode' = ready_for_encode + 1 /\ app_pc' = "ongoing_wait"
    BY <1>2 DEF Publish
  <2>3. QED
    BY <2>1, <2>2
<1>3. CASE Commit
  <2>1. chunks[Slot(ready_for_encode)] \in Chunk
    BY SlotInRing
  <2>2. QED
    BY <1>2, <1>3, <2>1 DEF Commit, Publish
<1>4. CASE Present
  <2> DEFINE c == [chunks[Slot(ready_for_encode)] EXCEPT
                     !.list_enc = @ \union {ready_for_encode},
                     !.signal_frame_latency_fence = CurrentFrameSeq]
  <2>1. chunks[Slot(ready_for_encode)] \in Chunk /\ CurrentFrameSeq \in Nat
    <3>1. Slot(ready_for_encode) \in 0 .. N - 1
      BY SlotInRing
    <3>2. QED
      BY <3>1 DEF CurrentFrameSeq
  <2>2. c \in Chunk
    BY <2>1, ChunkTypes
  <2>3. Publish(c) /\ presenting' = TRUE
        /\ frame_chunk' = Append(frame_chunk, ready_for_encode)
    BY <1>4 DEF Present
  <2>4. /\ chunks' \in [0 .. N - 1 -> Chunk]
        /\ ready_for_encode' \in Nat /\ app_pc' \in AppPCs
    BY <1>2, <2>2, <2>3
  <2>5. frame_chunk' \in Seq(Nat)
    BY <2>3
  <2>6. QED
    BY <2>3, <2>4, <2>5 DEF Publish
<1>5. CASE AppNext
  <2>1. CASE WaitOngoing
    BY <2>1 DEF WaitOngoing
  <2>2. CASE AddOngoing
    BY <2>2 DEF AddOngoing, Increment
  <2>3. CASE PresentBoundary
    BY <2>3 DEF PresentBoundary
  <2>4. CASE WaitLatency
    BY <2>4 DEF WaitLatency
  <2>5. CASE ReturnWaitCPUFence
    BY <2>5 DEF ReturnWaitCPUFence
  <2>6. CASE WakeEncodingThread
    BY <2>6 DEF WakeEncodingThread
  <2>7. CASE WakeFinishThread
    BY <2>7 DEF WakeFinishThread
  <2>8. CASE JoinAndReset
    <3>1. chunks' \in [0 .. N - 1 -> Chunk]
      BY <2>8, ChunkTypes DEF JoinAndReset
    <3>2. QED
      BY <2>8, <3>1 DEF JoinAndReset
  <2>9. QED
    BY <1>5, <2>1, <2>2, <2>3, <2>4, <2>5, <2>6, <2>7, <2>8 DEF AppNext
<1>6. ASSUME NEW latency \in LatencyRange, SetMaxLatency(latency) PROVE TypeOK'
  BY <1>6 DEF SetMaxLatency
<1>7. ASSUME NEW seq \in 1 .. ready_for_encode - 1, CallWaitCPUFence(seq)
      PROVE TypeOK'
  BY <1>7 DEF CallWaitCPUFence
<1>8. CASE Destroy
  BY <1>8 DEF Destroy
<1>9. CASE EncNext
  <2>1. CASE Encode
    <3>1. chunks' \in [0 .. N - 1 -> Chunk]
      BY <2>1, SlotInRing, ChunkTypes DEF Encode
    <3>2. QED
      BY <2>1, <3>1 DEF Encode, EncStep, EncPCs
  <2>2. CASE EncCheck \/ EncWait \/ EncRecheck
    BY <2>2 DEF EncCheck, EncWait, EncRecheck, EncStep, EncPCs
  <2>3. CASE Submit
    BY <2>3 DEF Submit, EncStep, EncPCs
  <2>4. CASE SignalCommit
    BY <2>4 DEF SignalCommit, EncStep, EncPCs
  <2>5. QED
    BY <1>9, <2>1, <2>2, <2>3, <2>4 DEF EncNext
<1>10. CASE FinNext
  <2>1. CASE FinCheck \/ FinWait \/ FinRecheck
    BY <2>1 DEF FinCheck, FinWait, FinRecheck, FinStep, FinPCs
  <2>2. CASE WaitUntilCompleted
    <3>1. chunks[Slot(fin_seq)].signal_frame_latency_fence \in Nat
      BY SlotInRing DEF Chunk
    <3>2. frame_latency_fence' \in Nat
      BY <2>2, <3>1 DEF WaitUntilCompleted, Signal
    <3>3. QED
      BY <2>2, <3>2 DEF WaitUntilCompleted, FinStep, FinPCs
  <2>3. CASE ResetChunk
    <3>1. chunks' \in [0 .. N - 1 -> Chunk]
      BY <2>3, SlotInRing, ChunkTypes DEF ResetChunk
    <3>2. QED
      BY <2>3, <3>1 DEF ResetChunk, FinStep, FinPCs
  <2>4. CASE SignalCoherent
    BY <2>4 DEF SignalCoherent, Signal, FinStep, FinPCs
  <2>5. CASE SubOngoing
    BY <2>5 DEF SubOngoing, Decrement, FinStep, FinPCs
  <2>6. QED
    BY <1>10, <2>1, <2>2, <2>3, <2>4, <2>5 DEF FinNext
<1>11. ASSUME NEW seq \in gpu, GpuComplete(seq) PROVE TypeOK'
  BY <1>11 DEF GpuComplete
<1>12. CASE UNCHANGED vars
  BY <1>12 DEF vars
<1>13. QED
  BY <1>1, <1>3, <1>4, <1>5, <1>6, <1>7, <1>8, <1>9, <1>10, <1>11, <1>12
     DEF Next, AppChoice, GpuNext, Terminated

(* Every variable keeps its type, for any ring size and any number of      *)
(* commits.                                                                *)
THEOREM TypeCorrect == Spec => []TypeOK
  BY TypeInit, TypeStep, PTL DEF Spec

-----------------------------------------------------------------------------
(* The numbers the threads hold and the atomics agree.                     *)

LEMMA CountingInit == Init => Counting
  BY DEF Init, Counting, Submitted, Committed

LEMMA CountingStep == TypeOK /\ Counting /\ [Next]_vars => Counting'
<1> SUFFICES ASSUME TypeOK, Counting, [Next]_vars PROVE Counting'
  OBVIOUS
<1> USE DEF TypeOK, Counting, Submitted, Committed
<1>1. CASE Emit
  BY <1>1 DEF Emit
<1>0. ASSUME NEW c, Publish(c), app_pc = "record" PROVE Counting'
  <2>1. /\ ready_for_encode' = ready_for_encode + 1
        /\ ready_for_commit' = ready_for_commit /\ app_pc' = "ongoing_wait"
        /\ stopped' = stopped /\ cpu_coherent' = cpu_coherent
        /\ enc_vars' = enc_vars /\ fin_vars' = fin_vars
    BY <1>0 DEF Publish
  <2>2. QED
    BY <1>0, <2>1
<1>2. CASE Commit
  BY <1>0, <1>2 DEF Commit
<1>3. CASE Present
  BY <1>0, <1>3 DEF Present
<1>4. CASE AppNext
  <2>1. CASE WaitOngoing
    BY <2>1 DEF WaitOngoing
  <2>2. CASE AddOngoing
    BY <2>2 DEF AddOngoing
  <2>3. CASE PresentBoundary
    BY <2>3 DEF PresentBoundary
  <2>4. CASE WakeEncodingThread
    BY <2>4 DEF WakeEncodingThread
  <2>5. CASE WakeFinishThread
    BY <2>5 DEF WakeFinishThread
  <2>6. CASE JoinAndReset
    BY <2>6 DEF JoinAndReset
  <2>7. CASE WaitLatency
    BY <2>7 DEF WaitLatency
  <2>8. CASE ReturnWaitCPUFence
    BY <2>8 DEF ReturnWaitCPUFence
  <2>9. QED
    BY <1>4, <2>1, <2>2, <2>3, <2>4, <2>5, <2>6, <2>7, <2>8 DEF AppNext
<1>5. ASSUME NEW latency \in LatencyRange, SetMaxLatency(latency) PROVE Counting'
  BY <1>5 DEF SetMaxLatency
<1>6. ASSUME NEW seq \in 1 .. ready_for_encode - 1, CallWaitCPUFence(seq)
      PROVE Counting'
  BY <1>6 DEF CallWaitCPUFence
<1>7. CASE Destroy
  BY <1>7 DEF Destroy
<1>8. CASE EncNext
  <2>1. CASE EncCheck
    BY <2>1 DEF EncCheck, EncStep
  <2>2. CASE EncWait
    BY <2>2 DEF EncWait, EncStep
  <2>3. CASE EncRecheck
    BY <2>3 DEF EncRecheck, EncStep
  <2>4. CASE Encode
    BY <2>4 DEF Encode, EncStep
  <2>5. CASE Submit
    BY <2>5 DEF Submit, EncStep
  <2>6. CASE SignalCommit
    BY <2>6 DEF SignalCommit, EncStep
  <2>7. QED
    BY <1>8, <2>1, <2>2, <2>3, <2>4, <2>5, <2>6 DEF EncNext
<1>9. CASE FinNext
  <2>1. CASE FinCheck
    BY <2>1 DEF FinCheck, FinStep
  <2>2. CASE FinWait
    BY <2>2 DEF FinWait, FinStep
  <2>3. CASE FinRecheck
    BY <2>3 DEF FinRecheck, FinStep
  <2>4. CASE WaitUntilCompleted
    BY <2>4 DEF WaitUntilCompleted, FinStep
  <2>5. CASE ResetChunk
    BY <2>5 DEF ResetChunk, FinStep
  <2>6. CASE SignalCoherent
    BY <2>6 DEF SignalCoherent, Signal, FinStep
  <2>7. CASE SubOngoing
    BY <2>7 DEF SubOngoing, FinStep
  <2>8. QED
    BY <1>9, <2>1, <2>2, <2>3, <2>4, <2>5, <2>6, <2>7 DEF FinNext
<1>10. ASSUME NEW seq \in gpu, GpuComplete(seq) PROVE Counting'
  BY <1>10 DEF GpuComplete
<1>11. CASE UNCHANGED vars
  BY <1>11 DEF vars
<1>12. QED
  BY <1>1, <1>2, <1>3, <1>4, <1>5, <1>6, <1>7, <1>8, <1>9, <1>10, <1>11
     DEF Next, AppChoice, GpuNext, Terminated

-----------------------------------------------------------------------------
(* chunk_ongoing bounds the chunks in flight.                              *)

LEMMA BoundedInit == Init => Bounded
  BY DEF Init, Bounded, Counted, InFlight, Committed

LEMMA BoundedStep == TypeOK /\ Counting /\ Bounded /\ [Next]_vars => Bounded'
<1> SUFFICES ASSUME TypeOK, Counting, Bounded, [Next]_vars PROVE Bounded'
  OBVIOUS
<1>1. /\ InFlight \in Int /\ InFlight >= 0 /\ chunk_ongoing \in 0 .. W - 1
      /\ fin_seq \in Nat /\ ready_for_encode \in Nat
  BY DEF TypeOK, Counting, InFlight, Committed, Submitted
<1> USE DEF Bounded, Counted, InFlight, Committed
<1>2. CASE Emit
  BY <1>2 DEF Emit
<1>3. CASE Commit
  BY <1>1, <1>3 DEF Commit, Publish
<1>4. CASE Present
  BY <1>1, <1>4 DEF Present, Publish
<1>5. CASE AppNext
  <2>1. CASE WaitOngoing
    BY <1>1, <2>1 DEF WaitOngoing, OngoingLimit
  <2>2. CASE AddOngoing
    BY <1>1, <2>2 DEF AddOngoing, Increment
  <2>3. CASE PresentBoundary \/ WaitLatency \/ ReturnWaitCPUFence
    BY <1>1, <2>3 DEF PresentBoundary, WaitLatency, ReturnWaitCPUFence
  <2>4. CASE WakeEncodingThread
    BY <1>1, <2>4 DEF WakeEncodingThread
  <2>5. CASE WakeFinishThread \/ JoinAndReset
    BY <1>1, <2>5 DEF WakeFinishThread, JoinAndReset
  <2>6. QED
    BY <1>5, <2>1, <2>2, <2>3, <2>4, <2>5 DEF AppNext
<1>6. ASSUME NEW latency \in LatencyRange, SetMaxLatency(latency) PROVE Bounded'
  BY <1>6 DEF SetMaxLatency
<1>7. ASSUME NEW seq \in 1 .. ready_for_encode - 1, CallWaitCPUFence(seq)
      PROVE Bounded'
  BY <1>1, <1>7 DEF CallWaitCPUFence
<1>8. CASE Destroy
  BY <1>1, <1>8 DEF Destroy
<1>9. CASE EncNext
  BY <1>9 DEF EncNext, EncCheck, EncWait, EncRecheck, Encode, Submit, SignalCommit
<1>10. CASE FinNext
  <2>1. CASE SubOngoing
    <3>1. InFlight >= 1
      BY <2>1 DEF SubOngoing, FinStep, Counting, Submitted, TypeOK
    <3>2. QED
      BY <1>1, <2>1, <3>1 DEF SubOngoing, Decrement
  <2>2. CASE FinCheck \/ FinWait \/ FinRecheck \/ WaitUntilCompleted
             \/ ResetChunk \/ SignalCoherent
    BY <2>2 DEF FinCheck, FinWait, FinRecheck, WaitUntilCompleted, ResetChunk,
                SignalCoherent
  <2>3. QED
    BY <1>10, <2>1, <2>2 DEF FinNext
<1>11. ASSUME NEW seq \in gpu, GpuComplete(seq) PROVE Bounded'
  BY <1>11 DEF GpuComplete
<1>12. CASE UNCHANGED vars
  BY <1>12 DEF vars
<1>13. QED
  BY <1>2, <1>3, <1>4, <1>5, <1>6, <1>7, <1>8, <1>9, <1>10, <1>11, <1>12
     DEF Next, AppChoice, GpuNext, Terminated

-----------------------------------------------------------------------------
(* Every slot of the ring is held by one chunk in flight or is free.       *)

(* The numbers whose slots Slots speaks of; the current chunk is one.      *)
Window == LastReset + 1 .. LastReset + N

LEMMA WindowTypes ==
  ASSUME TypeOK, Counting, Bounded
  PROVE  /\ LastReset \in Nat /\ Committed \in Nat
         /\ \A seq \in Window : seq \in Nat
         /\ app_pc = "record" =>
              Committed + 1 \in Window /\ Committed + 1 = ready_for_encode
         /\ fin_seq - 1 <= LastReset /\ LastReset <= fin_seq
         /\ Committed <= fin_seq - 1 + N
  BY DEF TypeOK, Counting, Bounded, InFlight, LastReset, Committed, Submitted, Window

(* Writing one slot leaves the other numbers of the window alone.          *)
LEMMA OtherSlots ==
  ASSUME TypeOK, Counting, Bounded,
         NEW s \in Window, NEW c, chunks' = [chunks EXCEPT ![Slot(s)] = c]
  PROVE  /\ chunks'[Slot(s)] = c
         /\ \A seq \in Window : seq # s => chunks'[Slot(seq)] = chunks[Slot(seq)]
<1>1. s \in Nat /\ LastReset \in Nat
  BY WindowTypes
<1>2. chunks \in [0 .. N - 1 -> Chunk]
  BY DEF TypeOK
<1>3. chunks'[Slot(s)] = c
  BY <1>1, <1>2, SlotInRing
<1>4. ASSUME NEW seq \in Window, seq # s
      PROVE  chunks'[Slot(seq)] = chunks[Slot(seq)]
  <2>1. seq \in Nat
    BY WindowTypes
  <2>2. Slot(seq) # Slot(s)
    <3>1. CASE seq < s
      BY <3>1, <2>1, <1>1, SlotsDiffer DEF Window
    <3>2. CASE s < seq
      BY <3>2, <2>1, <1>1, SlotsDiffer DEF Window
    <3>3. QED
      BY <3>1, <3>2, <1>4, <2>1, <1>1
  <2>3. QED
    BY <2>1, <2>2, <1>1, <1>2, SlotInRing
<1>5. QED
  BY <1>3, <1>4

(* A step that leaves the ring, its window and the attached chunks alone.  *)
LEMMA SlotsFrame ==
  ASSUME Slots, app_pc # "gone", chunks' = chunks,
         LastReset' = LastReset, Committed' = Committed,
         \A seq \in Window : IsAttached(seq)' <=> IsAttached(seq)
  PROVE  Slots'
  BY DEF Slots, HoldsChunk, IsFree, Window

LEMMA SlotsInit == Init => Slots
<1> SUFFICES ASSUME Init, NEW seq \in LastReset + 1 .. LastReset + N
             PROVE  /\ ~(seq <= Committed)
                    /\ IsFree(chunks[Slot(seq)], seq)
  BY DEF Slots
<1>1. LastReset = 0 /\ Committed = 0
  BY DEF Init, LastReset, Committed
<1>2. seq \in Nat /\ ~(seq <= Committed)
  BY <1>1
<1>3. Slot(seq) \in 0 .. N - 1
  BY <1>2, SlotInRing
<1>4. QED
  BY <1>2, <1>3 DEF Init, IsFree

(* Publishing a chunk whose slot was free: it now holds its slot.          *)
LEMMA PublishSlots ==
  ASSUME TypeOK, Counting, Bounded, Slots, app_pc = "record",
         NEW c \in Chunk, Publish(c),
         c.list_enc \subseteq {ready_for_encode}, c.attached_cmdbuf = NoBuffer
  PROVE  Slots'
<1>0. PICK r, d : r = ready_for_encode /\ d = [c EXCEPT !.chunk_id = r]
  OBVIOUS
<1>1. /\ r \in Window /\ r = Committed + 1 /\ r \in Nat
      /\ LastReset \in Nat /\ Committed \in Nat
      /\ \A seq \in Window : seq \in Nat
  BY <1>0, WindowTypes DEF TypeOK
<1>2. LastReset' = LastReset /\ Committed' = r /\ app_pc' = "ongoing_wait"
  <2>1. ready_for_encode' = r + 1 /\ app_pc' = "ongoing_wait"
        /\ fin_vars' = fin_vars
    BY <1>0 DEF Publish
  <2>2. QED
    BY <1>1, <2>1 DEF LastReset, Committed
<1>3. chunks' = [chunks EXCEPT ![Slot(r)] = d]
  BY <1>0 DEF Publish
<1>4. /\ chunks'[Slot(r)] = d
      /\ \A seq \in Window : seq # r => chunks'[Slot(seq)] = chunks[Slot(seq)]
  BY <1>1, <1>3, OtherSlots
<1>5. \A seq : IsAttached(seq)' <=> IsAttached(seq)
  BY DEF Publish, IsAttached
<1>6. ~IsAttached(r)
  BY <1>1 DEF IsAttached, Counting, TypeOK, Submitted, Committed
<1>7. HoldsChunk(d, r)'
  BY <1>0, <1>5, <1>6 DEF HoldsChunk, Chunk, Publish
<1>8. ASSUME NEW seq \in Window
      PROVE  IF seq <= r THEN HoldsChunk(chunks[Slot(seq)], seq)'
                         ELSE IsFree(chunks[Slot(seq)], seq)'
  <2>1. CASE seq = r
    BY <2>1, <1>1, <1>4, <1>7 DEF HoldsChunk
  <2>2. CASE seq < r
    <3>1. HoldsChunk(chunks[Slot(seq)], seq)
      BY <2>2, <1>1 DEF Slots, Window
    <3>2. QED
      BY <3>1, <2>2, <1>1, <1>4, <1>5 DEF HoldsChunk
  <2>3. CASE seq > r
    <3>1. IsFree(chunks[Slot(seq)], seq)
      BY <2>3, <1>1 DEF Slots, Window
    <3>2. QED
      BY <3>1, <2>3, <1>1, <1>2, <1>4 DEF IsFree
  <2>4. QED
    BY <2>1, <2>2, <2>3, <1>1
<1>9. QED
  BY <1>2, <1>8 DEF Slots, Window

LEMMA SlotsStep ==
  TypeOK /\ Counting /\ Bounded /\ Slots /\ [Next]_vars => Slots'
<1> SUFFICES ASSUME TypeOK, Counting, Bounded, Slots, [Next]_vars PROVE Slots'
  OBVIOUS
<1>1. /\ LastReset \in Nat /\ Committed \in Nat
      /\ \A seq \in Window : seq \in Nat
      /\ fin_seq - 1 <= LastReset /\ LastReset <= fin_seq
      /\ Committed <= fin_seq - 1 + N
  BY WindowTypes
<1>2. ASSUME app_pc = "record"
      PROVE  /\ ready_for_encode \in Window
             /\ ready_for_encode = Committed + 1
             /\ IsFree(chunks[Slot(ready_for_encode)], ready_for_encode)
  BY <1>2, <1>1, WindowTypes DEF Slots, Window
<1>3. CASE Emit
  <2>0. PICK r, d : /\ r = ready_for_encode
                    /\ d = [chunks[Slot(r)] EXCEPT !.list_enc = @ \union {r}]
    OBVIOUS
  <2>1. /\ r \in Window /\ r = Committed + 1 /\ IsFree(chunks[Slot(r)], r)
    BY <2>0, <1>2, <1>3 DEF Emit
  <2>2. chunks[Slot(r)] \in Chunk
    BY <2>1, <1>1, SlotInRing DEF TypeOK
  <2>3. chunks' = [chunks EXCEPT ![Slot(r)] = d]
    BY <2>0, <1>3 DEF Emit
  <2>4. /\ chunks'[Slot(r)] = d
        /\ \A seq \in Window : seq # r => chunks'[Slot(seq)] = chunks[Slot(seq)]
    BY <2>1, <2>3, OtherSlots
  <2>5. LastReset' = LastReset /\ Committed' = Committed /\ app_pc' = "record"
    BY <1>3 DEF Emit, LastReset, Committed
  <2>6. \A seq : IsAttached(seq)' <=> IsAttached(seq)
    BY <1>3 DEF Emit, IsAttached
  <2>7. IsFree(d, r)'
    BY <2>0, <2>1, <2>2, <2>5 DEF IsFree, Chunk
  <2>8. ASSUME NEW seq \in Window
        PROVE  IF seq <= Committed THEN HoldsChunk(chunks[Slot(seq)], seq)'
                                   ELSE IsFree(chunks[Slot(seq)], seq)'
    <3>1. CASE seq = r
      BY <3>1, <2>1, <2>4, <2>7, <1>1 DEF IsFree
    <3>2. CASE seq # r
      <4>1. IF seq <= Committed THEN HoldsChunk(chunks[Slot(seq)], seq)
                                ELSE IsFree(chunks[Slot(seq)], seq)
        BY <1>3 DEF Slots, Window, Emit
      <4>2. QED
        BY <4>1, <3>2, <2>4, <2>5, <2>6 DEF HoldsChunk, IsFree
    <3>3. QED
      BY <3>1, <3>2
  <2>9. QED
    BY <2>5, <2>8 DEF Slots, Window
<1>4. CASE Commit
  <2>1. app_pc = "record" /\ Publish(chunks[Slot(ready_for_encode)])
    BY <1>4 DEF Commit
  <2>2. chunks[Slot(ready_for_encode)] \in Chunk
    BY SlotInRing DEF TypeOK
  <2>3. QED
    BY <2>1, <2>2, <1>2, PublishSlots DEF IsFree
<1>5. CASE Present
  <2> DEFINE r == ready_for_encode
             c == [chunks[Slot(r)] EXCEPT !.list_enc = @ \union {r},
                     !.signal_frame_latency_fence = CurrentFrameSeq]
  <2>1. app_pc = "record" /\ Publish(c)
    BY <1>5 DEF Present
  <2>2. chunks[Slot(r)] \in Chunk /\ r \in Nat /\ CurrentFrameSeq \in Nat
    <3>1. r \in Nat /\ frame_count \in Nat /\ chunks \in [0 .. N - 1 -> Chunk]
      BY DEF TypeOK
    <3>2. Slot(r) \in 0 .. N - 1
      BY <3>1, SlotInRing
    <3>3. QED
      BY <3>1, <3>2 DEF CurrentFrameSeq
  <2>3. c \in Chunk
    BY <2>2, ChunkTypes
  <2>4. r = Committed + 1 /\ IsFree(chunks[Slot(r)], r)
    BY <1>2, <2>1
  <2>5. c.list_enc \subseteq {r} /\ c.attached_cmdbuf = NoBuffer
    BY <2>2, <2>4 DEF IsFree, Chunk
  <2>6. QED
    BY <2>1, <2>3, <2>5, PublishSlots
<1>6. CASE AppNext
  <2>1. CASE JoinAndReset
    BY <2>1 DEF JoinAndReset, Slots
  <2>2. CASE WakeEncodingThread
    <3>1. LastReset' = LastReset /\ Committed' = Committed
      BY <2>2 DEF WakeEncodingThread, LastReset, Committed, TypeOK
    <3>2. QED
      BY <2>2, <3>1, SlotsFrame DEF WakeEncodingThread, IsAttached
  <2>3. CASE ~JoinAndReset /\ ~WakeEncodingThread
    <3>1. /\ chunks' = chunks /\ app_pc # "gone"
          /\ ready_for_encode' = ready_for_encode
          /\ app_pc \in {"dtor_commit", "dtor_join", "gone"}
               <=> app_pc' \in {"dtor_commit", "dtor_join", "gone"}
          /\ enc_vars' = enc_vars /\ fin_vars' = fin_vars
      BY <1>6, <2>3 DEF AppNext, WaitOngoing, AddOngoing, PresentBoundary,
         WaitLatency, ReturnWaitCPUFence, WakeFinishThread
    <3>2. LastReset' = LastReset /\ Committed' = Committed
      BY <3>1 DEF LastReset, Committed
    <3>3. QED
      BY <3>1, <3>2, SlotsFrame DEF IsAttached
  <2>4. QED
    BY <2>1, <2>2, <2>3
<1>7. ASSUME NEW latency \in LatencyRange, SetMaxLatency(latency) PROVE Slots'
  BY <1>7, SlotsFrame DEF SetMaxLatency, LastReset, Committed, IsAttached
<1>8. ASSUME NEW seq \in 1 .. ready_for_encode - 1, CallWaitCPUFence(seq)
      PROVE Slots'
  BY <1>8, SlotsFrame DEF CallWaitCPUFence, LastReset, Committed, IsAttached
<1>9. CASE Destroy
  BY <1>9, SlotsFrame DEF Destroy, LastReset, Committed, IsAttached
<1>10. CASE EncNext
  <2>1. app_pc # "gone" /\ app_pc' = app_pc /\ LastReset' = LastReset
        /\ Committed' = Committed
    BY <1>10 DEF EncNext, EncStep, EncCheck, EncWait, EncRecheck, Encode, Submit,
       SignalCommit, LastReset, Committed, Counting
  <2>2. CASE Encode
    <3> DEFINE d == [chunks[Slot(enc_seq)] EXCEPT !.attached_cmdbuf = enc_seq]
    <3>1. enc_pc = "encode" /\ enc_pc' = "submit" /\ enc_seq' = enc_seq
          /\ chunks' = [chunks EXCEPT ![Slot(enc_seq)] = d]
      BY <2>2 DEF Encode, EncStep
    <3>2. enc_seq \in Window /\ enc_seq <= Committed
      <4>1. enc_seq \in Nat /\ enc_seq <= Committed
        BY <3>1 DEF Counting, TypeOK
      <4>2. LastReset < enc_seq
        BY <4>1 DEF Counting, LastReset, TypeOK, Submitted
      <4>3. QED
        BY <4>1, <4>2, <1>1 DEF Window, TypeOK
    <3>3. chunks[Slot(enc_seq)] \in Chunk /\ HoldsChunk(chunks[Slot(enc_seq)], enc_seq)
      BY <3>2, <2>1, <1>1, SlotInRing DEF TypeOK, Slots, Window
    <3>4. /\ chunks'[Slot(enc_seq)] = d
          /\ \A seq \in Window :
               seq # enc_seq => chunks'[Slot(seq)] = chunks[Slot(seq)]
      BY <3>1, <3>2, OtherSlots
    <3>5. \A seq : seq # enc_seq => (IsAttached(seq)' <=> IsAttached(seq))
      BY <3>1 DEF IsAttached
    <3>6. /\ d.chunk_id = enc_seq /\ d.list_enc \subseteq {enc_seq}
          /\ d.attached_cmdbuf = enc_seq
      BY <3>3 DEF HoldsChunk, Chunk
    <3> HIDE DEF d
    <3>7. ASSUME NEW seq \in Window
          PROVE  IF seq <= Committed THEN HoldsChunk(chunks[Slot(seq)], seq)'
                                     ELSE IsFree(chunks[Slot(seq)], seq)'
      <4>1. CASE seq = enc_seq
        <5>1. seq <= Committed
          BY <4>1, <3>2
        <5>2. IsAttached(seq)'
          BY <4>1, <3>1 DEF IsAttached
        <5>3. chunks'[Slot(seq)] = d
          BY <4>1, <3>4
        <5>4. HoldsChunk(chunks[Slot(seq)], seq)'
          BY <4>1, <5>2, <5>3, <3>6 DEF HoldsChunk
        <5>5. QED
          BY <5>1, <5>4
      <4>2. CASE seq # enc_seq
        <5>1. IF seq <= Committed THEN HoldsChunk(chunks[Slot(seq)], seq)
                                  ELSE IsFree(chunks[Slot(seq)], seq)
          BY <2>1 DEF Slots, Window
        <5>2. QED
          BY <5>1, <4>2, <3>4, <3>5, <2>1 DEF HoldsChunk, IsFree
      <4>3. QED
        BY <4>1, <4>2
    <3>8. QED
      BY <2>1, <3>7 DEF Slots, Window
  <2>3. CASE ~Encode
    <3>1. chunks' = chunks
      BY <1>10, <2>3 DEF EncNext, EncCheck, EncWait, EncRecheck, Submit, SignalCommit
    <3>2. ASSUME NEW seq \in Window PROVE IsAttached(seq)' <=> IsAttached(seq)
      <4>1. seq \in Nat /\ enc_seq \in Nat
        BY <1>1 DEF TypeOK
      <4>2. CASE SignalCommit
        BY <4>1, <4>2 DEF SignalCommit, EncStep, IsAttached
      <4>3. CASE ~SignalCommit
        BY <1>10, <2>3, <4>3 DEF EncNext, EncStep, EncCheck, EncWait, EncRecheck,
           Submit, IsAttached
      <4>4. QED
        BY <4>2, <4>3
    <3>3. QED
      BY <3>1, <3>2, <2>1, SlotsFrame
  <2>4. QED
    BY <2>2, <2>3
<1>11. CASE FinNext
  <2>1. app_pc # "gone" /\ app_pc' = app_pc /\ Committed' = Committed
        /\ enc_vars' = enc_vars
    BY <1>11 DEF FinNext, FinStep, FinCheck, FinWait, FinRecheck,
       WaitUntilCompleted, ResetChunk, SignalCoherent, SubOngoing, Committed, Counting
  <2>2. \A seq : IsAttached(seq)' <=> IsAttached(seq)
    BY <2>1 DEF IsAttached
  <2>3. CASE ResetChunk
    <3>0. PICK f, d : f = fin_seq /\ d = Reset(chunks[Slot(f)])
      OBVIOUS
    <3>1. LastReset = f - 1 /\ LastReset' = f
          /\ chunks' = [chunks EXCEPT ![Slot(f)] = d]
      BY <3>0, <2>3 DEF ResetChunk, FinStep, LastReset, TypeOK
    <3>2. f \in Nat /\ f \in Window
      BY <3>0, <3>1, <1>1 DEF Window, TypeOK
    <3>3. /\ chunks'[Slot(f)] = d
          /\ \A seq \in Window :
               seq # f => chunks'[Slot(seq)] = chunks[Slot(seq)]
      BY <3>1, <3>2, OtherSlots
    <3>4. chunks[Slot(f)] \in Chunk
      BY <3>2, SlotInRing DEF TypeOK
    <3>5. /\ f + N > Committed
          /\ IsFree(chunks[Slot(f + N)], f + N)'
      <4>1. Slot(f + N) = Slot(f)
        BY <3>2, SlotWraps
      <4>2. f + N > Committed
        BY <3>0, <3>2, <1>1
      <4>3. d.list_enc = {} /\ d.attached_cmdbuf = NoBuffer
            /\ d.signal_frame_latency_fence = NoSignal
        BY <3>0, <3>4 DEF Reset, Chunk
      <4>4. chunks'[Slot(f + N)] = d
        BY <4>1, <3>3
      <4>5. QED
        BY <4>2, <4>3, <4>4 DEF IsFree
    <3>6. ASSUME NEW seq \in f + 1 .. f + N
          PROVE  IF seq <= Committed THEN HoldsChunk(chunks[Slot(seq)], seq)'
                                     ELSE IsFree(chunks[Slot(seq)], seq)'
      <4>1. CASE seq = f + N
        BY <4>1, <3>5, <3>2, <1>1 DEF IsFree
      <4>2. CASE seq # f + N
        <5>1. seq \in Window /\ seq # f
          BY <4>2, <3>1, <3>2 DEF Window
        <5>2. IF seq <= Committed THEN HoldsChunk(chunks[Slot(seq)], seq)
                                  ELSE IsFree(chunks[Slot(seq)], seq)
          BY <5>1, <2>1 DEF Slots, Window
        <5>3. QED
          BY <5>1, <5>2, <3>3, <2>1, <2>2 DEF HoldsChunk, IsFree
      <4>3. QED
        BY <4>1, <4>2
    <3>7. QED
      BY <2>1, <3>1, <3>6 DEF Slots
  <2>4. CASE ~ResetChunk
    <3>1. chunks' = chunks
      BY <1>11, <2>4 DEF FinNext, FinCheck, FinWait, FinRecheck,
         WaitUntilCompleted, SignalCoherent, SubOngoing
    <3>2. LastReset' = LastReset
      <4>1. CASE SubOngoing
        BY <4>1 DEF SubOngoing, FinStep, LastReset, TypeOK
      <4>2. CASE ~SubOngoing
        BY <4>2, <1>11, <2>4 DEF FinNext, FinStep, FinCheck, FinWait, FinRecheck,
           WaitUntilCompleted, SignalCoherent, LastReset
      <4>3. QED
        BY <4>1, <4>2
    <3>3. QED
      BY <3>1, <3>2, <2>1, <2>2, SlotsFrame
  <2>5. QED
    BY <2>3, <2>4
<1>12. ASSUME NEW seq \in gpu, GpuComplete(seq) PROVE Slots'
  BY <1>12, SlotsFrame DEF GpuComplete, LastReset, Committed, IsAttached, Slots
<1>13. CASE UNCHANGED vars
  BY <1>13 DEF vars, Slots, HoldsChunk, IsFree, LastReset, Committed, IsAttached
<1>14. QED
  BY <1>3, <1>4, <1>5, <1>6, <1>7, <1>8, <1>9, <1>10, <1>11, <1>12, <1>13
     DEF Next, AppChoice, GpuNext, Terminated

-----------------------------------------------------------------------------
(* The GPU runs only chunks that were submitted and still hold their slot. *)

LEMMA OnGpuInit == Init => OnGpu
  BY DEF Init, OnGpu

LEMMA OnGpuStep ==
  TypeOK /\ Counting /\ Bounded /\ Slots /\ OnGpu /\ [Next]_vars => OnGpu'
<1> SUFFICES ASSUME TypeOK, Counting, Bounded, Slots, OnGpu, [Next]_vars
             PROVE  OnGpu'
  OBVIOUS
<1> DEFINE Same == gpu' = gpu /\ enc_vars' = enc_vars /\ fin_vars' = fin_vars
<1>1. Same => OnGpu'
  BY DEF OnGpu, LastReset
<1>2. CASE Emit \/ Destroy \/ AppNext \/ UNCHANGED vars
  BY <1>1, <1>2 DEF Emit, Destroy, AppNext, WaitOngoing, AddOngoing,
     PresentBoundary, WaitLatency, ReturnWaitCPUFence, WakeEncodingThread,
     WakeFinishThread, JoinAndReset, vars
<1>3. CASE Commit \/ Present
  BY <1>1, <1>3 DEF Commit, Present, Publish
<1>4. ASSUME NEW latency \in LatencyRange, SetMaxLatency(latency) PROVE OnGpu'
  BY <1>1, <1>4 DEF SetMaxLatency
<1>5. ASSUME NEW seq \in 1 .. ready_for_encode - 1, CallWaitCPUFence(seq)
      PROVE OnGpu'
  BY <1>1, <1>5 DEF CallWaitCPUFence
<1>6. CASE EncNext
  <2>1. fin_vars' = fin_vars /\ enc_seq \in Nat /\ gpu \subseteq Nat
    BY <1>6 DEF EncNext, EncCheck, EncWait, EncRecheck, Encode, Submit,
       SignalCommit, TypeOK
  <2>2. CASE Submit
    <3>1. LastReset < enc_seq /\ fin_seq <= enc_seq
      BY DEF Counting, LastReset, TypeOK, Submitted
    <3>2. fin_pc = "reset" => fin_seq # enc_seq
      BY DEF Counting, TypeOK, Submitted
    <3>3. QED
      BY <2>1, <2>2, <3>1, <3>2 DEF Submit, EncStep, OnGpu, LastReset
  <2>3. CASE SignalCommit
    BY <2>1, <2>3 DEF SignalCommit, EncStep, OnGpu, LastReset
  <2>4. CASE EncCheck \/ EncWait \/ EncRecheck \/ Encode
    BY <2>1, <2>4 DEF EncCheck, EncWait, EncRecheck, Encode, EncStep, OnGpu,
       LastReset
  <2>5. QED
    BY <1>6, <2>2, <2>3, <2>4 DEF EncNext
<1>7. CASE FinNext
  <2>1. gpu' = gpu /\ enc_vars' = enc_vars /\ fin_seq \in Nat /\ gpu \subseteq Nat
    BY <1>7 DEF FinNext, FinCheck, FinWait, FinRecheck, WaitUntilCompleted,
       ResetChunk, SignalCoherent, SubOngoing, TypeOK
  <2>2. CASE WaitUntilCompleted
    <3>1. fin_seq < enc_seq
      BY <2>2 DEF WaitUntilCompleted, FinStep, Counting, Submitted, TypeOK
    <3>2. HoldsChunk(chunks[Slot(fin_seq)], fin_seq)
      <4>1. fin_seq <= Committed /\ LastReset + 1 = fin_seq /\ app_pc # "gone"
        BY <2>2 DEF WaitUntilCompleted, FinStep, Counting, Submitted, Committed,
           LastReset, TypeOK
      <4>2. fin_seq \in LastReset + 1 .. LastReset + N
        BY <4>1, <2>1 DEF LastReset
      <4>3. QED
        BY <4>1, <4>2 DEF Slots
    <3>3. chunks[Slot(fin_seq)].attached_cmdbuf = fin_seq
      BY <3>1, <3>2 DEF HoldsChunk, IsAttached
    <3>4. fin_seq \notin gpu
      BY <2>2, <3>3 DEF WaitUntilCompleted, IsCompleted
    <3>5. fin_pc = "completed" /\ fin_pc' = "reset" /\ fin_seq' = fin_seq
      BY <2>2 DEF WaitUntilCompleted, FinStep
    <3>6. QED
      BY <2>1, <3>4, <3>5 DEF OnGpu, LastReset
  <2>3. CASE ResetChunk
    <3>1. fin_pc = "reset" /\ fin_pc' = "coherent" /\ fin_seq' = fin_seq
      BY <2>3 DEF ResetChunk, FinStep
    <3>2. LastReset = fin_seq - 1 /\ LastReset' = fin_seq
      BY <3>1, <2>1 DEF LastReset
    <3>3. QED
      BY <2>1, <3>1, <3>2 DEF OnGpu
  <2>4. CASE SubOngoing
    <3>1. LastReset' = LastReset /\ fin_pc' = "check"
      BY <2>1, <2>4 DEF SubOngoing, FinStep, LastReset
    <3>2. QED
      BY <2>1, <3>1 DEF OnGpu
  <2>5. CASE FinCheck \/ FinWait \/ FinRecheck \/ SignalCoherent
    BY <2>1, <2>5 DEF FinCheck, FinWait, FinRecheck, SignalCoherent, FinStep,
       OnGpu, LastReset
  <2>6. QED
    BY <1>7, <2>2, <2>3, <2>4, <2>5 DEF FinNext
<1>8. ASSUME NEW seq \in gpu, GpuComplete(seq) PROVE OnGpu'
  BY <1>8 DEF GpuComplete, OnGpu, LastReset
<1>9. QED
  BY <1>2, <1>3, <1>4, <1>5, <1>6, <1>7, <1>8
     DEF Next, AppChoice, GpuNext, Terminated

-----------------------------------------------------------------------------
(* The theorems.                                                           *)

(* The threads' numbers, the counter of chunks in flight, the ring and the *)
(* GPU agree in every reachable state.                                     *)
THEOREM Invariance == Spec => []IInv
<1>1. Init => IInv
  BY TypeInit, CountingInit, BoundedInit, SlotsInit, OnGpuInit DEF IInv
<1>2. IInv /\ [Next]_vars => IInv'
  BY TypeStep, CountingStep, BoundedStep, SlotsStep, OnGpuStep DEF IInv
<1>3. QED
  BY <1>1, <1>2, PTL DEF Spec

(* CommitCurrentChunk returns only when the next slot is free: the context *)
(* never records into a chunk that is still in flight.                     *)
THEOREM RecordsSafely == Spec => []RecordsIntoFreeSlot
<1>1. IInv => RecordsIntoFreeSlot
  <2> SUFFICES ASSUME IInv, app_pc = "record"
               PROVE  LET chunk == chunks[Slot(ready_for_encode)] IN
                        /\ chunk.list_enc \subseteq {ready_for_encode}
                        /\ chunk.attached_cmdbuf = NoBuffer
                        /\ chunk.signal_frame_latency_fence = NoSignal
    BY DEF RecordsIntoFreeSlot
  <2>1. /\ ready_for_encode \in Window /\ ready_for_encode = Committed + 1
        /\ Committed \in Nat
    BY WindowTypes DEF IInv
  <2>2. IsFree(chunks[Slot(ready_for_encode)], ready_for_encode)
    BY <2>1 DEF IInv, Slots, Window
  <2>3. QED
    BY <2>1, <2>2 DEF IsFree
<1>2. QED
  BY <1>1, Invariance, PTL

(* EncodingThread encodes the chunk whose turn it is, and only once.       *)
THEOREM EncodesSafely == Spec => []EncodesItsChunk
<1>1. IInv => EncodesItsChunk
  <2> SUFFICES ASSUME IInv, enc_pc = "encode"
               PROVE  LET chunk == chunks[Slot(enc_seq)] IN
                        /\ chunk.chunk_id = enc_seq
                        /\ chunk.list_enc \subseteq {enc_seq}
                        /\ chunk.attached_cmdbuf = NoBuffer
    BY DEF EncodesItsChunk
  <2>1. enc_seq \in Nat /\ enc_seq <= Committed /\ app_pc # "gone"
    BY DEF IInv, Counting, TypeOK
  <2>2. LastReset < enc_seq
    BY <2>1 DEF IInv, Counting, LastReset, TypeOK, Submitted
  <2>3. LastReset \in Nat /\ fin_seq - 1 <= LastReset
        /\ Committed <= fin_seq - 1 + N /\ Committed \in Nat /\ fin_seq \in Nat
    BY WindowTypes DEF IInv, TypeOK
  <2>4. HoldsChunk(chunks[Slot(enc_seq)], enc_seq)
    BY <2>1, <2>2, <2>3 DEF IInv, Slots
  <2>5. QED
    BY <2>1, <2>4 DEF HoldsChunk, IsAttached
<1>2. QED
  BY <1>1, Invariance, PTL

(* No chunk the GPU is working on is reset, recorded into or reported as   *)
(* coherent.                                                               *)
THEOREM KeepsInFlight == Spec => []InFlightChunkIsKept
<1>1. IInv => InFlightChunkIsKept
  <2> SUFFICES ASSUME IInv, NEW seq \in gpu
               PROVE  /\ cpu_coherent < seq
                      /\ app_pc /= "gone" =>
                           /\ chunks[Slot(seq)].attached_cmdbuf = seq
                           /\ chunks[Slot(seq)].list_enc \subseteq {seq}
    BY DEF InFlightChunkIsKept
  <2>1. /\ LastReset < seq /\ seq \in Nat /\ enc_seq \in Nat
        /\ seq < enc_seq \/ (seq = enc_seq /\ enc_pc = "signal")
    BY DEF IInv, OnGpu, TypeOK
  <2>2. LastReset \in Nat /\ fin_seq - 1 <= LastReset
        /\ Committed <= fin_seq - 1 + N /\ Committed \in Nat /\ fin_seq \in Nat
    BY WindowTypes DEF IInv, TypeOK
  <2>3. seq <= Committed
    BY <2>1, <2>2 DEF IInv, Counting, Submitted, TypeOK
  <2>4. cpu_coherent < seq
    BY <2>1, <2>2 DEF IInv, Counting, LastReset
  <2>5. IsAttached(seq)
    BY <2>1 DEF IsAttached
  <2>6. app_pc # "gone" => HoldsChunk(chunks[Slot(seq)], seq)
    BY <2>1, <2>2, <2>3 DEF IInv, Slots
  <2>7. QED
    BY <2>4, <2>5, <2>6 DEF HoldsChunk
<1>2. QED
  BY <1>1, Invariance, PTL

(* WaitForFinishThread waits for the command buffer of its own chunk.      *)
THEOREM FinishesSafely == Spec => []FinishesSubmittedChunk
<1>1. IInv => FinishesSubmittedChunk
  <2> SUFFICES ASSUME IInv, fin_pc = "completed"
               PROVE  chunks[Slot(fin_seq)].attached_cmdbuf = fin_seq
    BY DEF FinishesSubmittedChunk
  <2>1. fin_seq \in Nat /\ enc_seq \in Nat /\ fin_seq < enc_seq
        /\ fin_seq <= Committed /\ app_pc # "gone"
    BY DEF IInv, Counting, Submitted, Committed, TypeOK
  <2>2. LastReset + 1 = fin_seq
    BY <2>1 DEF LastReset
  <2>3. fin_seq \in LastReset + 1 .. LastReset + N
    BY <2>1, <2>2 DEF LastReset
  <2>4. HoldsChunk(chunks[Slot(fin_seq)], fin_seq)
    BY <2>1, <2>3 DEF IInv, Slots
  <2>5. QED
    BY <2>1, <2>4 DEF HoldsChunk, IsAttached
<1>2. QED
  BY <1>1, Invariance, PTL

(* The coherent sequence number goes up by one at a time.                  *)
THEOREM RetiresInOrder == Spec => CoherentAdvancesByOne
<1>1. IInv /\ [Next]_vars => [cpu_coherent' = cpu_coherent + 1]_cpu_coherent
  <2> SUFFICES ASSUME IInv, [Next]_vars, cpu_coherent' # cpu_coherent
               PROVE  cpu_coherent' = cpu_coherent + 1
    OBVIOUS
  <2>1. SignalCoherent
    <3>1. ~AppChoice
      BY DEF AppChoice, Emit, Commit, Present, Publish, Destroy, SetMaxLatency,
         CallWaitCPUFence
    <3>2. ~AppNext
      BY DEF AppNext, WaitOngoing, AddOngoing, PresentBoundary, WaitLatency,
         ReturnWaitCPUFence, WakeEncodingThread, WakeFinishThread, JoinAndReset
    <3>3. ~EncNext
      BY DEF EncNext, EncCheck, EncWait, EncRecheck, Encode, Submit, SignalCommit
    <3>4. ~GpuNext /\ ~Terminated /\ ~UNCHANGED vars
      BY DEF GpuNext, GpuComplete, Terminated, vars
    <3>5. FinNext => SignalCoherent
      BY DEF FinNext, FinCheck, FinWait, FinRecheck, WaitUntilCompleted,
         ResetChunk, SubOngoing
    <3>6. QED
      BY <3>1, <3>2, <3>3, <3>4, <3>5 DEF Next
  <2>2. QED
    BY <2>1 DEF SignalCoherent, FinStep, Signal, IInv, Counting, TypeOK
<1>2. QED
  BY <1>1, Invariance, PTL DEF Spec, CoherentAdvancesByOne

(* The context, the two threads and the destructor together implement the  *)
(* pipeline: chunks reach the GPU and are retired in the order they were   *)
(* committed, and no more than N of them exist, the open one included.     *)
THEOREM Refinement == Spec => ImplementsPipeline
<1> DEFINE Open == app_pc \notin {"ongoing_wait", "ongoing_add"}
<1>1. Init => Pipeline!Init
  BY DEF Init, Pipeline!Init
<1>2. IInv /\ [Next]_vars => [Pipeline!Next]_Pipeline!vars
  <2> SUFFICES ASSUME IInv, [Next]_vars PROVE [Pipeline!Next]_Pipeline!vars
    OBVIOUS
  <2>1. /\ TypeOK /\ Counting /\ Committed \in Nat
    BY WindowTypes DEF IInv
  <2>2. Submitted \in Nat /\ Submitted = enc_seq - 1
    BY <2>1 DEF Counting, Submitted, TypeOK
  <2> DEFINE Stutter == /\ Open' = Open /\ Committed' = Committed
                        /\ Submitted' = Submitted /\ cpu_coherent' = cpu_coherent
  <2>3. Stutter => [Pipeline!Next]_Pipeline!vars
    BY DEF Pipeline!vars, Committed, Submitted
  <2> HIDE DEF Stutter
  <2>4. CASE Commit \/ Present
    <3>1. Open /\ ~Open' /\ Committed' = Committed + 1 /\ Submitted' = Submitted
          /\ cpu_coherent' = cpu_coherent
      <4>1. /\ app_pc = "record" /\ app_pc' = "ongoing_wait"
            /\ ready_for_encode' = ready_for_encode + 1
            /\ ready_for_commit' = ready_for_commit /\ cpu_coherent' = cpu_coherent
        BY <2>4 DEF Commit, Present, Publish
      <4>2. QED
        BY <2>1, <4>1 DEF Committed, Submitted, TypeOK
    <3>2. Pipeline!Commit
      BY <3>1 DEF Pipeline!Commit, Committed, Submitted
    <3>3. QED
      BY <3>2 DEF Pipeline!Next
  <2>5. CASE Emit \/ Destroy \/ UNCHANGED vars
    BY <2>3, <2>5 DEF Stutter, Emit, Destroy, vars, Committed, Submitted
  <2>6. ASSUME NEW latency \in LatencyRange, SetMaxLatency(latency)
        PROVE  Stutter
    BY <2>6 DEF Stutter, SetMaxLatency, Committed, Submitted
  <2>7. ASSUME NEW seq \in 1 .. ready_for_encode - 1, CallWaitCPUFence(seq)
        PROVE  Stutter
    BY <2>7 DEF Stutter, CallWaitCPUFence, Committed, Submitted
  <2>8. CASE AppNext
    <3>1. CASE AddOngoing
      <4>1. ~Open /\ Open' /\ Committed' = Committed /\ Submitted' = Submitted
            /\ cpu_coherent' = cpu_coherent
        BY <3>1 DEF AddOngoing, Committed, Submitted
      <4>2. Committed - cpu_coherent < N
        <5>1. fin_seq \in Nat /\ fin_seq - 1 <= cpu_coherent /\ cpu_coherent \in Nat
          BY <2>1 DEF Counting, TypeOK
        <5>2. Committed - (fin_seq - 1) <= N - 1
          BY <3>1 DEF AddOngoing, IInv, Bounded, InFlight
        <5>3. QED
          BY <5>1, <5>2, <2>1
      <4>3. Pipeline!Reopen
        BY <4>1, <4>2 DEF Pipeline!Reopen, Committed, Submitted
      <4>4. QED
        BY <4>3 DEF Pipeline!Next
    <3>2. CASE WakeEncodingThread \/ WakeFinishThread \/ JoinAndReset
      <4>1. ready_for_encode \in Nat /\ ready_for_commit \in Nat
        BY <2>1 DEF TypeOK
      <4>2. CASE WakeEncodingThread
        BY <2>3, <4>1, <4>2 DEF Stutter, WakeEncodingThread, Committed, Submitted
      <4>3. CASE WakeFinishThread
        BY <2>3, <4>1, <4>3 DEF Stutter, WakeFinishThread, Committed, Submitted
      <4>4. CASE JoinAndReset
        BY <2>3, <4>1, <4>4 DEF Stutter, JoinAndReset, Committed, Submitted
      <4>5. QED
        BY <3>2, <4>2, <4>3, <4>4
    <3>3. CASE WaitOngoing \/ PresentBoundary
      BY <2>3, <3>3 DEF Stutter, WaitOngoing, PresentBoundary, Committed, Submitted
    <3>4. CASE WaitLatency \/ ReturnWaitCPUFence
      BY <2>3, <3>4 DEF Stutter, WaitLatency, ReturnWaitCPUFence, Committed,
         Submitted
    <3>5. QED
      BY <2>8, <3>1, <3>2, <3>3, <3>4 DEF AppNext
  <2>9. CASE EncNext
    <3>1. CASE SignalCommit
      <4>1. enc_pc = "signal" /\ app_pc' = app_pc /\ Open' = Open
            /\ Committed' = Committed /\ Submitted' = Submitted + 1
            /\ cpu_coherent' = cpu_coherent
        BY <2>1, <3>1 DEF SignalCommit, EncStep, Committed, Submitted, TypeOK
      <4>2. Submitted < Committed
        BY <2>1, <2>2, <4>1 DEF Counting, TypeOK
      <4>3. Pipeline!Submit
        BY <4>1, <4>2 DEF Pipeline!Submit, Committed, Submitted
      <4>4. QED
        BY <4>3 DEF Pipeline!Next
    <3>2. CASE ~SignalCommit
      BY <2>3, <2>9, <3>2 DEF Stutter, EncNext, EncCheck, EncWait, EncRecheck,
         Encode, Submit, Committed, Submitted
    <3>3. QED
      BY <3>1, <3>2
  <2>10. CASE FinNext
    <3>1. CASE SignalCoherent
      <4>1. fin_pc = "coherent" /\ app_pc' = app_pc /\ Open' = Open
            /\ Committed' = Committed /\ Submitted' = Submitted
        BY <3>1 DEF SignalCoherent, FinStep, Committed, Submitted
      <4>2. cpu_coherent < Submitted /\ cpu_coherent' = cpu_coherent + 1
        BY <2>1, <2>2, <3>1, <4>1 DEF SignalCoherent, Signal, Counting, TypeOK
      <4>3. Pipeline!Complete
        BY <4>1, <4>2 DEF Pipeline!Complete, Committed, Submitted
      <4>4. QED
        BY <4>3 DEF Pipeline!Next
    <3>2. CASE ~SignalCoherent
      BY <2>3, <2>10, <3>2 DEF Stutter, FinNext, FinCheck, FinWait, FinRecheck,
         WaitUntilCompleted, ResetChunk, SubOngoing, Committed, Submitted
    <3>3. QED
      BY <3>1, <3>2
  <2>11. ASSUME NEW seq \in gpu, GpuComplete(seq) PROVE Stutter
    BY <2>11 DEF Stutter, GpuComplete, Committed, Submitted
  <2>12. QED
    BY <2>3, <2>4, <2>5, <2>6, <2>7, <2>8, <2>9, <2>10, <2>11
       DEF Next, AppChoice, GpuNext, Terminated
<1>3. QED
  BY <1>1, <1>2, Invariance, PTL DEF Spec, ImplementsPipeline, Pipeline!Spec

-----------------------------------------------------------------------------
(* The frames: the numbers that presents leave in the chunks, and the      *)
(* latency fence.                                                          *)

Frames == FrameNumbers /\ FramesAreFenced /\ FramesAreHeld

(* Chunks from the last one found completed on are in the window.          *)
LEMMA FrameWindow ==
  ASSUME TypeOK, Counting, Bounded, FrameNumbers
  PROVE  /\ Finished \in Nat /\ LastReset \in Nat /\ Committed \in Nat
         /\ LastReset <= Finished /\ Finished <= Committed
         /\ Window \subseteq Nat
         /\ frame_latency_fence \in Nat /\ frame_count \in Nat /\ Len(frame_chunk) \in Nat
         /\ DOMAIN frame_chunk = 1 .. Len(frame_chunk)
         /\ \A f \in DOMAIN frame_chunk :
              /\ frame_chunk[f] \in Nat /\ frame_chunk[f] <= Committed
              /\ Finished < frame_chunk[f] => frame_chunk[f] \in Window
         /\ \A seq \in LastReset + 1 .. Committed : seq \in Window
<1>1. /\ LastReset \in Nat /\ Committed \in Nat /\ Window \subseteq Nat
      /\ fin_seq - 1 <= LastReset /\ LastReset <= fin_seq /\ Committed <= fin_seq - 1 + N
      /\ fin_seq \in Nat
  BY WindowTypes DEF TypeOK
<1>2. /\ Finished \in Nat /\ LastReset <= Finished /\ Finished <= Committed
  BY DEF Finished, Counting, TypeOK, LastReset, Committed, Submitted
<1>3. /\ frame_chunk \in Seq(Nat) /\ frame_latency_fence \in Nat /\ frame_count \in Nat
  BY DEF TypeOK
<1>4. /\ Len(frame_chunk) \in Nat /\ DOMAIN frame_chunk = 1 .. Len(frame_chunk)
      /\ \A f \in DOMAIN frame_chunk : frame_chunk[f] \in Nat
  BY <1>3
<1>5. \A seq \in LastReset + 1 .. Committed : seq \in Window
  BY <1>1 DEF Window
<1>6. ASSUME NEW f \in DOMAIN frame_chunk
      PROVE  /\ frame_chunk[f] <= Committed
             /\ Finished < frame_chunk[f] => frame_chunk[f] \in Window
  <2>1. frame_chunk[f] <= Committed
    BY DEF FrameNumbers
  <2> QED
    BY <1>1, <1>2, <1>4, <1>5, <2>1
<1> QED
  BY <1>1, <1>2, <1>3, <1>4, <1>5, <1>6

(* At the start no frame was presented.                                    *)
LEMMA FramesInit == Init => Frames
<1> SUFFICES ASSUME Init PROVE Frames
  OBVIOUS
<1>1. /\ frame_chunk = <<>> /\ frame_count = 0 /\ frame_latency_fence = 0 /\ app_pc = "record"
      /\ LastReset = 0 /\ Committed = 0
  BY DEF Init, LastReset, Committed
<1>2. DOMAIN frame_chunk = {} /\ Len(frame_chunk) = 0 /\ 1 .. 0 = {}
  BY <1>1
<1> QED
  BY <1>1, <1>2 DEF Frames, FrameNumbers, FramesAreFenced, FramesAreHeld, PresentPending

(* A step that neither presents nor finds a chunk completed keeps what is  *)
(* known if chunks in flight keep their frames.                            *)
LEMMA FramesKept ==
  ASSUME TypeOK, Counting, Bounded, Frames, app_pc # "gone",
         UNCHANGED <<frame_chunk, frame_latency_fence>>,
         Committed' = Committed, Finished' = Finished, LastReset' \in Nat,
         LastReset <= LastReset', LastReset' <= Finished,
         Len(frame_chunk) = frame_count' + (IF PresentPending' THEN 1 ELSE 0),
         app_pc' = "boundary" => presenting',
         \A seq \in Window : LastReset' < seq /\ seq <= Committed =>
           /\ chunks'[Slot(seq)].signal_frame_latency_fence
                = chunks[Slot(seq)].signal_frame_latency_fence
           /\ chunks[Slot(seq)].list_enc \subseteq chunks'[Slot(seq)].list_enc
  PROVE  Frames'
<1>1. FrameNumbers /\ FramesAreFenced /\ FramesAreHeld
  BY DEF Frames
<1>2. FrameNumbers' /\ FramesAreFenced'
  BY <1>1 DEF FrameNumbers, FramesAreFenced
<1>3. ASSUME NEW f \in DOMAIN frame_chunk, Finished < frame_chunk[f]
      PROVE  /\ chunks'[Slot(frame_chunk[f])].signal_frame_latency_fence = f
             /\ frame_chunk[f] \in chunks'[Slot(frame_chunk[f])].list_enc
  <2>1. /\ chunks[Slot(frame_chunk[f])].signal_frame_latency_fence = f
        /\ frame_chunk[f] \in chunks[Slot(frame_chunk[f])].list_enc
    BY <1>1, <1>3 DEF FramesAreHeld
  <2>2. /\ frame_chunk[f] \in Window /\ LastReset' < frame_chunk[f]
        /\ frame_chunk[f] <= Committed
    BY <1>1, <1>3, FrameWindow
  <2> QED
    BY <2>1, <2>2
<1>4. ASSUME NEW seq \in LastReset' + 1 .. Committed,
             chunks'[Slot(seq)].signal_frame_latency_fence # NoSignal
      PROVE  /\ chunks'[Slot(seq)].signal_frame_latency_fence \in DOMAIN frame_chunk
             /\ frame_chunk[chunks'[Slot(seq)].signal_frame_latency_fence] = seq
  <2>1. seq \in LastReset + 1 .. Committed /\ LastReset' < seq /\ seq <= Committed
    <3>1. PICK n \in Nat : n = LastReset' /\ LastReset <= n
      OBVIOUS
    <3>2. PICK last \in Nat : last = Committed
      BY <1>1, FrameWindow
    <3>3. seq \in n + 1 .. last
      BY <3>1, <3>2
    <3>4. n < seq /\ seq <= last /\ (\A m \in Nat : m <= n => seq \in m + 1 .. last)
      BY <3>3
    <3>5. LastReset \in Nat /\ LastReset <= n
      BY <1>1, <3>1, FrameWindow
    <3> QED
      BY <3>1, <3>2, <3>4, <3>5, Zenon
  <2>2. seq \in Window
    BY <1>1, <2>1, FrameWindow
  <2>3. chunks'[Slot(seq)].signal_frame_latency_fence = chunks[Slot(seq)].signal_frame_latency_fence
    BY <2>1, <2>2
  <2> QED
    BY <1>1, <1>4, <2>1, <2>3 DEF FramesAreHeld
<1>5. FramesAreHeld'
  BY <1>3, <1>4 DEF FramesAreHeld
<1> QED
  BY <1>2, <1>5 DEF Frames

(* A chunk is published; one that presents signals the next frame.         *)
LEMMA FramesPublished ==
  ASSUME TypeOK, Counting, Bounded, Frames, app_pc = "record",
         NEW c \in Chunk, Publish(c),
         \/ /\ c.signal_frame_latency_fence = NoSignal
            /\ frame_chunk' = frame_chunk /\ presenting' = FALSE
         \/ /\ c.signal_frame_latency_fence = frame_count + 1
            /\ ready_for_encode \in c.list_enc
            /\ frame_chunk' = Append(frame_chunk, ready_for_encode) /\ presenting' = TRUE
  PROVE  Frames'
<1>1. /\ FrameNumbers /\ FramesAreFenced /\ FramesAreHeld
      /\ frame_chunk \in Seq(Nat)
  BY DEF Frames, TypeOK
<1>2. PICK r, d : r = ready_for_encode /\ d = [c EXCEPT !.chunk_id = r]
  OBVIOUS
<1>3. /\ r \in Window /\ r = Committed + 1 /\ r \in Nat
  BY <1>2, WindowTypes DEF TypeOK
<1>4. /\ app_pc' = "ongoing_wait" /\ frame_count' = frame_count
      /\ UNCHANGED <<fin_pc, fin_seq, frame_latency_fence>>
      /\ ready_for_encode' = r + 1 /\ chunks' = [chunks EXCEPT ![Slot(r)] = d]
  BY <1>2 DEF Publish
<1>5. LastReset' = LastReset /\ Finished' = Finished /\ Committed' = r
  BY <1>3, <1>4 DEF LastReset, Finished, Committed
<1>6. /\ chunks'[Slot(r)] = d
      /\ \A seq \in Window : seq # r => chunks'[Slot(seq)] = chunks[Slot(seq)]
  BY <1>3, <1>4, OtherSlots
<1>7. /\ d.signal_frame_latency_fence = c.signal_frame_latency_fence
      /\ d.list_enc = c.list_enc
  BY <1>2 DEF Chunk
<1>8. Len(frame_chunk) = frame_count
  BY <1>1 DEF FrameNumbers, PresentPending, TypeOK
<1>9. \A f \in DOMAIN frame_chunk : Finished < frame_chunk[f] =>
        /\ chunks'[Slot(frame_chunk[f])].signal_frame_latency_fence = f
        /\ frame_chunk[f] \in chunks'[Slot(frame_chunk[f])].list_enc
  <2> SUFFICES ASSUME NEW f \in DOMAIN frame_chunk, Finished < frame_chunk[f]
               PROVE  /\ chunks'[Slot(frame_chunk[f])].signal_frame_latency_fence = f
                      /\ frame_chunk[f] \in chunks'[Slot(frame_chunk[f])].list_enc
    OBVIOUS
  <2>1. /\ chunks[Slot(frame_chunk[f])].signal_frame_latency_fence = f
        /\ frame_chunk[f] \in chunks[Slot(frame_chunk[f])].list_enc
    BY <1>1 DEF FramesAreHeld
  <2>2. frame_chunk[f] \in Window /\ frame_chunk[f] # r
    BY <1>1, <1>3, FrameWindow
  <2> QED
    BY <1>6, <2>1, <2>2
<1>10. \A seq \in LastReset + 1 .. Committed :
         LET frame == chunks'[Slot(seq)].signal_frame_latency_fence IN
           frame # NoSignal => frame \in DOMAIN frame_chunk /\ frame_chunk[frame] = seq
  <2> SUFFICES ASSUME NEW seq \in LastReset + 1 .. Committed
               PROVE  LET frame == chunks'[Slot(seq)].signal_frame_latency_fence IN
                        frame # NoSignal => frame \in DOMAIN frame_chunk /\ frame_chunk[frame] = seq
    OBVIOUS
  <2>1. seq \in Window /\ seq # r
    BY <1>1, <1>3, FrameWindow
  <2> QED
    BY <1>1, <1>6, <2>1 DEF FramesAreHeld
<1>11. \A seq \in LastReset + 1 .. r : seq \in LastReset + 1 .. Committed \/ seq = r
  BY <1>1, <1>3, FrameWindow
<1>12. CASE c.signal_frame_latency_fence = NoSignal /\ frame_chunk' = frame_chunk /\ presenting' = FALSE
  <2>1. FrameNumbers'
    <3>1. \A f \in DOMAIN frame_chunk : 1 <= frame_chunk[f] /\ frame_chunk[f] <= r
      BY <1>1, <1>3, FrameWindow DEF FrameNumbers
    <3>2. Len(frame_chunk) = frame_count + 0
      BY <1>8, <1>1
    <3> QED
      BY <1>1, <1>4, <1>5, <1>12, <3>1, <3>2 DEF FrameNumbers, PresentPending
  <2>2. FramesAreFenced'
    BY <1>1, <1>4, <1>5, <1>12 DEF FramesAreFenced
  <2>3. FramesAreHeld'
    BY <1>5, <1>6, <1>7, <1>9, <1>10, <1>11, <1>12 DEF FramesAreHeld
  <2> QED
    BY <2>1, <2>2, <2>3 DEF Frames
<1>13. CASE /\ c.signal_frame_latency_fence = frame_count + 1 /\ ready_for_encode \in c.list_enc
            /\ frame_chunk' = Append(frame_chunk, ready_for_encode) /\ presenting' = TRUE
  <2> DEFINE n == frame_count + 1
  <2>1. /\ Len(frame_chunk') = n /\ DOMAIN frame_chunk' = 1 .. n /\ frame_chunk'[n] = r
        /\ n \in Nat /\ n \in DOMAIN frame_chunk'
        /\ \A f \in DOMAIN frame_chunk : f \in DOMAIN frame_chunk' /\ f < n
                                         /\ frame_chunk'[f] = frame_chunk[f]
        /\ \A f \in DOMAIN frame_chunk' : f = n \/ (f \in DOMAIN frame_chunk /\ f < n)
    BY <1>1, <1>2, <1>3, <1>8, <1>13
  <2>2. d.signal_frame_latency_fence = n /\ r \in d.list_enc
    BY <1>2, <1>7, <1>13
  <2> HIDE DEF n
  <2>3. FrameNumbers'
    <3>1. \A f \in DOMAIN frame_chunk : 1 <= frame_chunk[f] /\ frame_chunk[f] < r
      BY <1>1, <1>3, FrameWindow DEF FrameNumbers
    <3>2. PresentPending' /\ presenting'
      BY <1>4, <1>13 DEF PresentPending
    <3>3. Len(frame_chunk') = frame_count' + 1
      BY <1>4, <2>1 DEF n
    <3>4. \A f \in DOMAIN frame_chunk' : 1 <= frame_chunk'[f] /\ frame_chunk'[f] <= r
      BY <1>1, <1>3, <2>1, <3>1, FrameWindow
    <3>5. ASSUME NEW f \in DOMAIN frame_chunk', NEW g \in DOMAIN frame_chunk', f < g
          PROVE  frame_chunk'[f] < frame_chunk'[g]
      <4>1. f \in DOMAIN frame_chunk /\ frame_chunk'[f] = frame_chunk[f]
        BY <2>1, <3>5
      <4>2. CASE g = n
        BY <2>1, <3>1, <4>1, <4>2
      <4>3. CASE g \in DOMAIN frame_chunk
        BY <1>1, <2>1, <3>5, <4>1, <4>3 DEF FrameNumbers
      <4> QED
        BY <2>1, <4>2, <4>3
    <3> QED
      BY <1>5, <3>2, <3>3, <3>4, <3>5 DEF FrameNumbers
  <2>4. FramesAreFenced'
    <3>1. frame_latency_fence < n /\ frame_latency_fence \in Nat
      BY <1>1, <1>8, FrameWindow DEF FramesAreFenced, n
    <3>2. ~(r <= Finished)
      BY <1>1, <1>3, FrameWindow
    <3>3. \A f \in DOMAIN frame_chunk' : frame_latency_fence >= f <=> frame_chunk'[f] <= Finished
      <4> SUFFICES ASSUME NEW f \in DOMAIN frame_chunk'
                   PROVE  frame_latency_fence >= f <=> frame_chunk'[f] <= Finished
        OBVIOUS
      <4>1. CASE f = n
        <5>1. ~(frame_latency_fence >= n)
          BY <2>1, <3>1
        <5> QED
          BY <2>1, <3>2, <4>1, <5>1
      <4>2. CASE f \in DOMAIN frame_chunk
        BY <1>1, <2>1, <4>2 DEF FramesAreFenced
      <4> QED
        BY <2>1, <4>1, <4>2
    <3>4. frame_latency_fence <= Len(frame_chunk')
      BY <2>1, <3>1
    <3> QED
      BY <1>4, <1>5, <3>3, <3>4 DEF FramesAreFenced
  <2>5. FramesAreHeld'
    <3>1. \A f \in DOMAIN frame_chunk' : Finished < frame_chunk'[f] =>
            /\ chunks'[Slot(frame_chunk'[f])].signal_frame_latency_fence = f
            /\ frame_chunk'[f] \in chunks'[Slot(frame_chunk'[f])].list_enc
      BY <1>6, <1>9, <2>1, <2>2
    <3>2. ASSUME NEW seq \in LastReset + 1 .. r,
                 chunks'[Slot(seq)].signal_frame_latency_fence # NoSignal
          PROVE  /\ chunks'[Slot(seq)].signal_frame_latency_fence \in DOMAIN frame_chunk'
                 /\ frame_chunk'[chunks'[Slot(seq)].signal_frame_latency_fence] = seq
      <4>1. CASE seq = r
        BY <1>6, <2>1, <2>2, <4>1
      <4>2. CASE seq \in LastReset + 1 .. Committed
        BY <1>10, <2>1, <3>2, <4>2
      <4> QED
        BY <1>11, <4>1, <4>2
    <3> QED
      BY <1>5, <3>1, <3>2 DEF FramesAreHeld
  <2> QED
    BY <2>3, <2>4, <2>5 DEF Frames
<1> QED
  BY <1>12, <1>13

(* WaitForFinishThread finds its chunk completed and raises the fence to   *)
(* the frame that the chunk presents.                                      *)
LEMMA FramesCompleted ==
  ASSUME TypeOK, Counting, Bounded, Frames, WaitUntilCompleted
  PROVE  Frames'
<1>1. /\ FrameNumbers /\ FramesAreFenced /\ FramesAreHeld
  BY DEF Frames
<1>2. /\ fin_pc = "completed" /\ fin_pc' = "reset" /\ fin_seq' = fin_seq
      /\ UNCHANGED <<chunks, frame_chunk, frame_count, presenting, app_pc, ready_for_encode>>
      /\ frame_latency_fence' =
           Signal(frame_latency_fence, chunks[Slot(fin_seq)].signal_frame_latency_fence)
  BY DEF WaitUntilCompleted, FinStep
<1>3. /\ fin_seq \in Nat /\ app_pc # "gone" /\ fin_seq <= Committed
      /\ Finished = fin_seq - 1 /\ LastReset = fin_seq - 1
      /\ Finished' = fin_seq /\ LastReset' = LastReset /\ Committed' = Committed
  BY <1>2 DEF Counting, TypeOK, Finished, LastReset, Committed, Submitted
<1> DEFINE s == chunks[Slot(fin_seq)].signal_frame_latency_fence
<1>4. s \in Nat
  <2>1. chunks[Slot(fin_seq)] \in Chunk
    BY <1>3, SlotInRing DEF TypeOK
  <2> QED
    BY <2>1 DEF Chunk
<1>5. fin_seq \in LastReset + 1 .. Committed
  BY <1>1, <1>3, FrameWindow
<1>6. s # NoSignal => s \in DOMAIN frame_chunk /\ frame_chunk[s] = fin_seq
  BY <1>1, <1>3, <1>5 DEF FramesAreHeld
<1>7. \A f \in DOMAIN frame_chunk : frame_chunk[f] = fin_seq => s = f
  <2> SUFFICES ASSUME NEW f \in DOMAIN frame_chunk, frame_chunk[f] = fin_seq
               PROVE  s = f
    OBVIOUS
  <2>1. Finished < frame_chunk[f]
    BY <1>3
  <2> QED
    BY <1>1, <1>3, <2>1 DEF FramesAreHeld
<1>8. /\ frame_latency_fence' = Signal(frame_latency_fence, s)
      /\ frame_latency_fence \in Nat
  BY <1>1, <1>2, FrameWindow
<1> HIDE DEF s
<1>9. PICK fence \in Nat : /\ fence = frame_latency_fence'
                           /\ frame_latency_fence <= fence /\ s <= fence
                           /\ fence = frame_latency_fence \/ fence = s
  BY <1>4, <1>8 DEF Signal
<1>10. FrameNumbers'
  BY <1>1, <1>2, <1>3 DEF FrameNumbers, PresentPending
<1>11. FramesAreFenced'
  <2>1. fence <= Len(frame_chunk)
    <3>1. CASE fence = frame_latency_fence
      BY <1>1, <3>1 DEF FramesAreFenced
    <3>2. CASE fence = s /\ s # NoSignal
      BY <1>1, <1>6, <3>2, FrameWindow
    <3>3. CASE s = NoSignal
      BY <1>1, <1>9, <3>1, <3>3, FrameWindow DEF NoSignal
    <3> QED
      BY <1>9, <3>1, <3>2, <3>3
  <2>2. ASSUME NEW f \in DOMAIN frame_chunk
        PROVE  fence >= f <=> frame_chunk[f] <= fin_seq
    <3>1. /\ f \in Nat /\ 1 <= f /\ frame_chunk[f] \in Nat
          /\ frame_latency_fence >= f <=> frame_chunk[f] <= fin_seq - 1
      BY <1>1, <1>3, FrameWindow DEF FramesAreFenced
    <3>2. ASSUME frame_chunk[f] <= fin_seq
          PROVE  fence >= f
      <4>1. CASE frame_chunk[f] = fin_seq
        BY <1>4, <1>7, <1>9, <4>1
      <4>2. CASE frame_chunk[f] <= fin_seq - 1
        BY <1>8, <1>9, <3>1, <4>2
      <4> QED
        BY <1>3, <3>1, <3>2, <4>1, <4>2
    <3>3. ASSUME fence >= f
          PROVE  frame_chunk[f] <= fin_seq
      <4>1. CASE fence = frame_latency_fence
        BY <1>3, <3>1, <3>3, <4>1
      <4>2. CASE fence = s
        <5>1. s \in DOMAIN frame_chunk /\ frame_chunk[s] = fin_seq
          BY <1>4, <1>6, <3>1, <3>3, <4>2 DEF NoSignal
        <5>2. CASE f < s
          BY <1>1, <1>3, <3>1, <5>1, <5>2 DEF FrameNumbers
        <5>3. CASE f = s
          BY <1>3, <5>1, <5>3
        <5> QED
          BY <1>4, <3>1, <3>3, <4>2, <5>2, <5>3
      <4> QED
        BY <1>9, <4>1, <4>2
    <3> QED
      BY <3>2, <3>3
  <2> QED
    BY <1>2, <1>3, <1>9, <2>1, <2>2 DEF FramesAreFenced
<1>12. FramesAreHeld'
  <2>1. \A f \in DOMAIN frame_chunk : fin_seq < frame_chunk[f] => Finished < frame_chunk[f]
    BY <1>1, <1>3, FrameWindow
  <2> QED
    BY <1>1, <1>2, <1>3, <2>1 DEF FramesAreHeld
<1> QED
  BY <1>10, <1>11, <1>12 DEF Frames

(* A step that leaves alone all that is said of frames.                    *)
LEMMA FramesRest ==
  ASSUME TypeOK, Counting, Bounded, Frames,
         UNCHANGED <<chunks, frame_chunk, frame_latency_fence, frame_count, presenting>>,
         Committed' = Committed, Finished' = Finished, LastReset' = LastReset,
         app_pc' = app_pc \/ {app_pc, app_pc'} \cap {"ongoing_wait", "ongoing_add", "boundary"} = {},
         app_pc = "gone" => app_pc' = "gone"
  PROVE  Frames'
<1>1. PresentPending' = PresentPending
  BY DEF PresentPending
<1>2. app_pc' = "boundary" => app_pc = "boundary"
  OBVIOUS
<1> QED
  BY <1>1, <1>2 DEF Frames, FrameNumbers, FramesAreFenced, FramesAreHeld

(* The steps of the thread that records.                                   *)
LEMMA FramesOfApplication ==
  ASSUME IInv, Frames, AppChoice \/ AppNext
  PROVE  Frames'
<1>1. /\ TypeOK /\ Counting /\ Bounded /\ Slots
      /\ FrameNumbers /\ FramesAreFenced /\ FramesAreHeld
      /\ ready_for_encode \in Nat /\ frame_count \in Nat
      /\ chunks \in [0 .. N - 1 -> Chunk]
  BY DEF IInv, Frames, TypeOK
<1>2. ASSUME app_pc = "record"
      PROVE  /\ ready_for_encode \in Window /\ ready_for_encode = Committed + 1
             /\ chunks[Slot(ready_for_encode)] \in Chunk
             /\ IsFree(chunks[Slot(ready_for_encode)], ready_for_encode)
  BY <1>1, <1>2, WindowTypes, SlotInRing DEF Slots, Window
<1>3. CASE Emit
  <2> DEFINE r == ready_for_encode
             d == [chunks[Slot(r)] EXCEPT !.list_enc = @ \union {r}]
  <2>1. /\ app_pc = "record" /\ chunks' = [chunks EXCEPT ![Slot(r)] = d]
        /\ UNCHANGED <<counters, fences, app_vars, enc_vars, fin_vars, gpu>>
    BY <1>3 DEF Emit
  <2>2. /\ Committed' = Committed /\ Finished' = Finished /\ LastReset' = LastReset
        /\ PresentPending' = PresentPending
    BY <2>1 DEF Committed, Finished, LastReset, PresentPending
  <2>3. r \in Window /\ r = Committed + 1
    BY <1>2, <2>1
  <2> HIDE DEF d
  <2>4. \A seq \in Window : seq # r => chunks'[Slot(seq)] = chunks[Slot(seq)]
    BY <1>1, <2>1, <2>3, OtherSlots
  <2>5. \A seq \in Window : seq <= Committed => seq # r
    BY <1>1, <2>3, FrameWindow
  <2>6. LastReset \in Nat /\ LastReset <= LastReset /\ LastReset <= Finished
    BY <1>1, FrameWindow
  <2> QED
    BY <1>1, <2>1, <2>2, <2>4, <2>5, <2>6, FramesKept DEF FrameNumbers
<1>4. CASE Commit
  <2>1. /\ app_pc = "record" /\ Publish(chunks[Slot(ready_for_encode)])
        /\ presenting' = FALSE /\ frame_chunk' = frame_chunk
    BY <1>4 DEF Commit
  <2>2. /\ chunks[Slot(ready_for_encode)] \in Chunk
        /\ chunks[Slot(ready_for_encode)].signal_frame_latency_fence = NoSignal
    BY <1>2, <2>1 DEF IsFree
  <2> QED
    BY <1>1, <2>1, <2>2, FramesPublished
<1>5. CASE Present
  <2> DEFINE r == ready_for_encode
             c == [chunks[Slot(r)] EXCEPT !.list_enc = @ \union {r},
                     !.signal_frame_latency_fence = CurrentFrameSeq]
  <2>1. /\ app_pc = "record" /\ Publish(c)
        /\ presenting' = TRUE /\ frame_chunk' = Append(frame_chunk, r)
    BY <1>5 DEF Present
  <2>2. chunks[Slot(r)] \in Chunk /\ r \in Nat /\ CurrentFrameSeq \in Nat
    BY <1>1, <1>2, <2>1 DEF CurrentFrameSeq
  <2>3. c \in Chunk
    BY <2>2, ChunkTypes
  <2>4. c.signal_frame_latency_fence = frame_count + 1 /\ r \in c.list_enc
    BY <2>2 DEF Chunk, CurrentFrameSeq
  <2> HIDE DEF c
  <2> QED
    BY <1>1, <2>1, <2>3, <2>4, FramesPublished
<1>6. CASE JoinAndReset
  <2>1. /\ app_pc = "dtor_join" /\ app_pc' = "gone"
        /\ UNCHANGED <<counters, fences, presenting, frame_count, frame_chunk, fin_vars>>
    BY <1>6 DEF JoinAndReset
  <2>2. Committed' = Committed /\ Finished' = Finished
    BY <2>1 DEF Committed, Finished
  <2> QED
    BY <1>1, <2>1, <2>2
       DEF Frames, FrameNumbers, FramesAreFenced, FramesAreHeld, PresentPending
<1>7. CASE WaitOngoing \/ AddOngoing \/ PresentBoundary
  <2>1. /\ UNCHANGED <<chunks, frame_chunk, fences, fin_vars, ready_for_encode, presenting>>
        /\ {app_pc, app_pc'} \subseteq {"ongoing_wait", "ongoing_add", "boundary", "latency", "record"}
    BY <1>7 DEF WaitOngoing, AddOngoing, PresentBoundary
  <2>2. /\ Committed' = Committed /\ Finished' = Finished /\ LastReset' = LastReset
    BY <2>1 DEF Committed, Finished, LastReset
  <2>3. /\ Len(frame_chunk) = frame_count' + (IF PresentPending' THEN 1 ELSE 0)
        /\ app_pc' = "boundary" => presenting'
    <3>1. CASE WaitOngoing \/ AddOngoing
      BY <1>1, <3>1 DEF WaitOngoing, AddOngoing, PresentPending, FrameNumbers, TypeOK
    <3>2. CASE PresentBoundary
      <4>1. /\ app_pc = "boundary" /\ presenting /\ frame_count' = frame_count + 1
            /\ app_pc' \in {"latency", "record"}
        BY <1>1, <3>2 DEF PresentBoundary, FrameNumbers
      <4>2. PresentPending /\ ~PresentPending'
        BY <4>1 DEF PresentPending
      <4>3. Len(frame_chunk) = frame_count + 1
        BY <1>1, <4>2 DEF FrameNumbers
      <4>4. frame_count' + 0 = frame_count + 1
        BY <1>1, <4>1
      <4> QED
        BY <4>1, <4>2, <4>3, <4>4
    <3> QED
      BY <1>7, <3>1, <3>2
  <2>4. LastReset \in Nat /\ LastReset <= LastReset /\ LastReset <= Finished
    BY <1>1, FrameWindow
  <2>5. app_pc # "gone"
    BY <2>1
  <2> QED
    BY <1>1, <2>1, <2>2, <2>3, <2>4, <2>5, FramesKept
<1>8. CASE \/ WaitLatency \/ ReturnWaitCPUFence \/ WakeFinishThread \/ Destroy
           \/ \E latency \in LatencyRange : SetMaxLatency(latency)
           \/ \E seq \in 1 .. ready_for_encode - 1 : CallWaitCPUFence(seq)
  <2>1. /\ UNCHANGED <<chunks, frame_chunk, fences, fin_vars, ready_for_encode, presenting,
                       frame_count>>
        /\ app_pc \in {"latency", "fence", "record", "dtor_commit"}
        /\ app_pc' \in {"record", "fence", "dtor_encode", "dtor_join"}
        /\ app_pc = "dtor_commit" <=> app_pc' = "dtor_join"
    BY <1>8 DEF WaitLatency, ReturnWaitCPUFence, WakeFinishThread, Destroy, SetMaxLatency,
                CallWaitCPUFence
  <2>2. /\ Committed' = Committed /\ Finished' = Finished /\ LastReset' = LastReset
    BY <2>1 DEF Committed, Finished, LastReset
  <2> QED
    BY <1>1, <2>1, <2>2, FramesRest
<1>9. CASE WakeEncodingThread
  <2>1. /\ UNCHANGED <<chunks, frame_chunk, fences, fin_vars, presenting, frame_count>>
        /\ app_pc = "dtor_encode" /\ app_pc' = "dtor_commit"
        /\ ready_for_encode' = ready_for_encode + 1
    BY <1>9 DEF WakeEncodingThread
  <2>2. /\ Committed' = Committed /\ Finished' = Finished /\ LastReset' = LastReset
    BY <1>1, <2>1 DEF Committed, Finished, LastReset
  <2> QED
    BY <1>1, <2>1, <2>2, FramesRest
<1> QED
  BY <1>3, <1>4, <1>5, <1>6, <1>7, <1>8, <1>9 DEF AppChoice, AppNext

(* The steps of the queue's threads and of the GPU.                        *)
LEMMA FramesOfQueue ==
  ASSUME IInv, Frames, EncNext \/ FinNext \/ GpuNext \/ UNCHANGED vars
  PROVE  Frames'
<1>1. /\ TypeOK /\ Counting /\ Bounded
      /\ FrameNumbers /\ FramesAreFenced /\ FramesAreHeld
      /\ chunks \in [0 .. N - 1 -> Chunk] /\ fin_seq \in Nat /\ enc_seq \in Nat
  BY DEF IInv, Frames, TypeOK
<1>2. LastReset \in Nat /\ LastReset <= Finished /\ LastReset <= LastReset
  BY <1>1, FrameWindow
<1>3. CASE Encode
  <2> DEFINE d == [chunks[Slot(enc_seq)] EXCEPT !.attached_cmdbuf = enc_seq]
  <2>1. /\ enc_pc = "encode" /\ chunks' = [chunks EXCEPT ![Slot(enc_seq)] = d]
        /\ UNCHANGED <<counters, fences, app_vars, fin_vars>>
    BY <1>3 DEF Encode, EncStep
  <2>2. /\ Committed' = Committed /\ Finished' = Finished /\ LastReset' = LastReset
        /\ PresentPending' = PresentPending
    BY <2>1 DEF Committed, Finished, LastReset, PresentPending
  <2>3. chunks[Slot(enc_seq)] \in Chunk
    BY <1>1, SlotInRing
  <2>4. /\ d.signal_frame_latency_fence = chunks[Slot(enc_seq)].signal_frame_latency_fence
        /\ d.list_enc = chunks[Slot(enc_seq)].list_enc
    BY <2>3 DEF Chunk
  <2> HIDE DEF d
  <2>5. \A seq \in Window :
          /\ chunks'[Slot(seq)].signal_frame_latency_fence
               = chunks[Slot(seq)].signal_frame_latency_fence
          /\ chunks'[Slot(seq)].list_enc = chunks[Slot(seq)].list_enc
    <3>1. \A seq \in Window : Slot(seq) \in 0 .. N - 1
      BY <1>1, FrameWindow, SlotInRing
    <3> QED
      BY <1>1, <2>1, <2>4, <3>1
  <2>6. app_pc # "gone"
    BY <1>1, <2>1 DEF Counting
  <2> QED
    BY <1>1, <1>2, <2>1, <2>2, <2>5, <2>6, FramesKept DEF FrameNumbers
<1>4. CASE ResetChunk
  <2> DEFINE d == Reset(chunks[Slot(fin_seq)])
  <2>1. /\ fin_pc = "reset" /\ fin_pc' = "coherent"
        /\ chunks' = [chunks EXCEPT ![Slot(fin_seq)] = d]
        /\ UNCHANGED <<counters, fences, app_vars, enc_vars, fin_seq>>
    BY <1>4 DEF ResetChunk, FinStep
  <2>2. /\ Committed' = Committed /\ Finished' = Finished /\ PresentPending' = PresentPending
        /\ LastReset = fin_seq - 1 /\ LastReset' = fin_seq /\ Finished = fin_seq
    BY <1>1, <2>1 DEF Committed, Finished, LastReset, PresentPending
  <2>3. fin_seq \in Window
    BY <1>1, <1>2, <2>2 DEF Window
  <2> HIDE DEF d
  <2>4. \A seq \in Window : seq # fin_seq => chunks'[Slot(seq)] = chunks[Slot(seq)]
    BY <1>1, <2>1, <2>3, OtherSlots
  <2>5. LastReset <= fin_seq /\ fin_seq <= Finished
    BY <1>1, <2>2
  <2>6. \A seq \in Window : fin_seq < seq => chunks'[Slot(seq)] = chunks[Slot(seq)]
    BY <1>1, <2>4, FrameWindow
  <2>7. app_pc # "gone"
    BY <1>1, <2>1 DEF Counting
  <2> QED
    BY <1>1, <1>2, <2>1, <2>2, <2>5, <2>6, <2>7, FramesKept DEF FrameNumbers
<1>5. CASE WaitUntilCompleted
  BY <1>1, <1>5, FramesCompleted DEF Frames
<1>6. CASE \/ EncCheck \/ EncWait \/ EncRecheck \/ Submit \/ SignalCommit
           \/ FinCheck \/ FinWait \/ FinRecheck \/ SignalCoherent \/ SubOngoing
           \/ GpuNext \/ UNCHANGED vars
  <2>1. /\ UNCHANGED <<chunks, frame_chunk, frame_latency_fence, frame_count, presenting, app_pc,
                       ready_for_encode>>
    BY <1>6 DEF EncCheck, EncWait, EncRecheck, Submit, SignalCommit, FinCheck, FinWait, FinRecheck,
                SignalCoherent, SubOngoing, GpuNext, GpuComplete, vars
  <2>2. Finished' = Finished /\ LastReset' = LastReset
    <3>1. CASE SubOngoing
      BY <1>1, <3>1 DEF SubOngoing, FinStep, Finished, LastReset
    <3>2. CASE FinCheck \/ FinWait \/ FinRecheck \/ SignalCoherent
      BY <3>2 DEF FinCheck, FinWait, FinRecheck, SignalCoherent, FinStep, Finished, LastReset
    <3>3. CASE \/ EncCheck \/ EncWait \/ EncRecheck \/ Submit \/ SignalCommit
               \/ GpuNext \/ UNCHANGED vars
      BY <3>3 DEF EncCheck, EncWait, EncRecheck, Submit, SignalCommit, GpuNext, GpuComplete, vars,
                  Finished, LastReset
    <3> QED
      BY <1>6, <3>1, <3>2, <3>3
  <2>3. Committed' = Committed
    BY <2>1 DEF Committed
  <2> QED
    BY <1>1, <2>1, <2>2, <2>3, FramesRest DEF Frames
<1> QED
  BY <1>3, <1>4, <1>5, <1>6 DEF EncNext, FinNext

-----------------------------------------------------------------------------
(* The invariant of the ring with that of the frames.                      *)
THEOREM FramesInvariance == Spec => []FrameInv
<1>1. Init => Frames
  BY FramesInit
<1>2. IInv /\ Frames /\ [Next]_vars => Frames'
  BY FramesOfApplication, FramesOfQueue DEF Next, Terminated
<1>3. IInv /\ Frames <=> FrameInv
  BY DEF Frames, FrameInv
<1> QED
  BY <1>1, <1>2, <1>3, Invariance, PTL DEF Spec

(* A frame that was presented is signalled, or its chunk still holds the   *)
(* present command and the frame's number.                                 *)
THEOREM KeepsFrameSignals == Spec => []FrameSignalIsKept
<1>1. FrameInv => FrameSignalIsKept
  <2> SUFFICES ASSUME FrameInv, NEW f \in DOMAIN frame_chunk,
                      ~(frame_latency_fence >= f), app_pc # "gone"
               PROVE  /\ chunks[Slot(frame_chunk[f])].signal_frame_latency_fence = f
                      /\ frame_chunk[f] \in chunks[Slot(frame_chunk[f])].list_enc
    BY DEF FrameSignalIsKept
  <2>1. /\ TypeOK /\ Counting /\ Bounded
        /\ FrameNumbers /\ FramesAreFenced /\ FramesAreHeld
    BY DEF FrameInv, IInv
  <2>2. Finished < frame_chunk[f]
    BY <2>1, FrameWindow DEF FramesAreFenced
  <2> QED
    BY <2>1, <2>2 DEF FramesAreHeld
<1> QED
  BY <1>1, FramesInvariance, PTL

(* When Present returns for a frame, the GPU has completed the chunk that  *)
(* presents the frame max_latency frames before it.                        *)
THEOREM PacesPresents == Spec => PresentIsPaced
<1> DEFINE Paced ==
      (app_pc \in {"boundary", "latency"} /\ app_pc' = "record") =>
        (frame_count' > max_latency /\ max_latency > 0 =>
           LET seq == frame_chunk[frame_count' - max_latency] IN
             seq < enc_seq /\ seq \notin gpu)
<1>1. FrameInv /\ [Next]_vars => Paced
  <2> SUFFICES ASSUME FrameInv, [Next]_vars,
                      app_pc \in {"boundary", "latency"}, app_pc' = "record",
                      frame_count' > max_latency, max_latency > 0
               PROVE  /\ frame_chunk[frame_count' - max_latency] < enc_seq
                      /\ frame_chunk[frame_count' - max_latency] \notin gpu
    OBVIOUS
  <2>1. /\ TypeOK /\ Counting /\ Bounded /\ OnGpu
        /\ FrameNumbers /\ FramesAreFenced
        /\ frame_count \in Nat /\ max_latency \in Nat /\ fin_seq \in Nat /\ enc_seq \in Nat
        /\ gpu \subseteq Nat
    BY DEF FrameInv, IInv, TypeOK
  <2>2. WaitLatency \/ PresentBoundary
    BY DEF Next, AppChoice, AppNext, Emit, Commit, Present, Publish, Destroy, SetMaxLatency,
           CallWaitCPUFence, WaitOngoing, AddOngoing, ReturnWaitCPUFence, WakeEncodingThread,
           WakeFinishThread, JoinAndReset, EncNext, EncCheck, EncWait, EncRecheck, Encode, Submit,
           SignalCommit, FinNext, FinCheck, FinWait, FinRecheck, WaitUntilCompleted, ResetChunk,
           SignalCoherent, SubOngoing, GpuNext, GpuComplete, Terminated, vars
  <2>3. /\ app_pc = "latency" /\ frame_count' = frame_count
        /\ frame_latency_fence >= frame_count - max_latency
    <3>1. CASE WaitLatency
      BY <3>1 DEF WaitLatency, LatencyTarget
    <3>2. CASE PresentBoundary
      BY <3>2 DEF PresentBoundary
    <3> QED
      BY <2>2, <3>1, <3>2
  <2> DEFINE f == frame_count - max_latency
  <2>4. f \in 1 .. frame_count /\ frame_latency_fence >= f
    BY <2>1, <2>3
  <2>5. Len(frame_chunk) = frame_count
    BY <2>1, <2>3 DEF FrameNumbers, PresentPending
  <2> HIDE DEF f
  <2>6. f \in DOMAIN frame_chunk
    BY <2>1, <2>4, <2>5, FrameWindow
  <2>7. frame_chunk[f] \in Nat /\ frame_chunk[f] <= Finished
    BY <2>1, <2>4, <2>6, FrameWindow DEF FramesAreFenced
  <2>8. Finished < enc_seq
    BY <2>1 DEF Counting, Finished, Submitted, TypeOK
  <2>9. frame_chunk[f] < enc_seq
    BY <2>1, <2>7, <2>8, FrameWindow
  <2>10. frame_chunk[f] \notin gpu
    <3> SUFFICES ASSUME frame_chunk[f] \in gpu
                 PROVE  FALSE
      OBVIOUS
    <3>1. LastReset < frame_chunk[f] /\ (fin_pc = "reset" => fin_seq \notin gpu)
      BY <2>1 DEF OnGpu
    <3>2. CASE fin_pc = "reset"
      <4>1. LastReset = fin_seq - 1 /\ Finished = fin_seq
        BY <2>1, <3>2 DEF LastReset, Finished
      <4>2. frame_chunk[f] = fin_seq
        BY <2>1, <2>7, <3>1, <4>1
      <4> QED
        BY <3>1, <3>2, <4>2
    <3>3. CASE fin_pc # "reset"
      <4>1. LastReset = Finished
        BY <2>1, <3>3 DEF LastReset, Finished
      <4> QED
        BY <2>1, <2>7, <3>1, <4>1, FrameWindow
    <3> QED
      BY <3>2, <3>3
  <2> QED
    BY <2>3, <2>9, <2>10 DEF f
<1> QED
  BY <1>1, FramesInvariance, PTL DEF Spec, PresentIsPaced

=============================================================================
