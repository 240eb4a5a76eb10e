---------------------------- MODULE CommandQueue ----------------------------
(***************************************************************************)
(* dxmt::CommandQueue: the ring of command chunks that the D3D11 context   *)
(* fills (under the device lock), the encoding thread translates into      *)
(* Metal command buffers and the finishing thread retires, together with   *)
(* the frame-latency wait of Present and the destructor's shutdown.        *)
(*                                                                         *)
(* One step is one access to a variable that another thread reads or       *)
(* writes (an atomic or a chunk handed over by one); what a thread does    *)
(* between two such accesses belongs to the step.                          *)
(***************************************************************************)
EXTENDS Integers, Sequences

CONSTANTS
  N,            \* kCommandChunkCount, 32 in the code
  W,            \* 2^64: the modulus of the counter chunk_ongoing
  MaxSeq,       \* bound: chunks committed in a behaviour
  LatencyRange  \* values the application gives to SetMaxLatency; the code
                \* starts from one of them, 3

ASSUME NAssumption       == N \in Nat \ {0, 1}
ASSUME WAssumption       == W \in Nat /\ W > N
ASSUME MaxSeqAssumption  == MaxSeq \in Nat
ASSUME LatencyAssumption == LatencyRange \subseteq Nat

NoSignal == 0   \* ~0ull in signal_frame_latency_fence_: frames start from 1
NoBuffer == 0   \* a null attached_cmdbuf: chunks start from 1

VARIABLES
  ready_for_encode, ready_for_commit, chunk_ongoing, stopped,
  cpu_coherent, frame_latency_fence, frame_count, max_latency,
  chunks,        \* the ring; list_enc holds the number of the chunk that
                 \* was current when each command was recorded
  app_pc,        \* the thread that holds the device lock
  presenting,    \* the commit under way was made by Present
  fence_target,  \* argument of the WaitCPUFence under way
  enc_pc, enc_seq,   \* EncodingThread and its internal_seq
  fin_pc, fin_seq,   \* WaitForFinishThread and its internal_seq
  gpu,           \* command buffers the GPU has not completed
  frame_chunk    \* history: the chunk that carries each present

app_vars == <<app_pc, presenting, fence_target, frame_count, max_latency,
              frame_chunk>>
enc_vars == <<enc_pc, enc_seq>>
fin_vars == <<fin_pc, fin_seq>>
counters == <<ready_for_encode, ready_for_commit, chunk_ongoing, stopped>>
fences   == <<cpu_coherent, frame_latency_fence>>

vars == <<counters, fences, chunks, app_vars, enc_vars, fin_vars, gpu>>

Slot(seq) == seq % N

(* Names that start with Fault are plausible mistakes in the definition    *)
(* that follows them. They are used nowhere: they show which property of   *)
(* the section at the end notices the mistake.                             *)

(* fetch_add and fetch_sub on the unsigned chunk_ongoing. *)
Increment(n) == IF n = W - 1 THEN 0 ELSE n + 1
Decrement(n) == IF n = 0 THEN W - 1 ELSE n - 1

(* The value of chunk_ongoing at which CommitCurrentChunk blocks. *)
FaultOneMore == N
OngoingLimit == N - 1

(* CommandQueue::CurrentFrameSeq *)
FaultLastFrame == frame_count
CurrentFrameSeq == frame_count + 1

(* The frame PresentBoundary waits for. *)
FaultOneFrameEarlier == frame_count - max_latency - 1
LatencyTarget == frame_count - max_latency

(* CpuFence::signal never lowers the fence. *)
Signal(fence, value) == IF value > fence THEN value ELSE fence

(* The command buffer's status is beyond Scheduled: nothing to wait for. *)
FaultNotWaited(cmdbuf) == TRUE
IsCompleted(cmdbuf) == cmdbuf \notin gpu

Chunk == [chunk_id : Nat, list_enc : SUBSET Nat, attached_cmdbuf : Nat,
          signal_frame_latency_fence : Nat]

(* CommandChunk::reset; chunk_id keeps its value. *)
FaultKeepsCommands(chunk) ==
  [chunk EXCEPT !.attached_cmdbuf = NoBuffer,
                !.signal_frame_latency_fence = NoSignal]
Reset(chunk) == [chunk EXCEPT !.list_enc = {}, !.attached_cmdbuf = NoBuffer,
                              !.signal_frame_latency_fence = NoSignal]

Init ==
  /\ ready_for_encode = 1 /\ ready_for_commit = 1
  /\ chunk_ongoing = 0 /\ stopped = FALSE
  /\ cpu_coherent = 0 /\ frame_latency_fence = 0
  /\ frame_count = 0 /\ max_latency \in LatencyRange
  /\ chunks = [i \in 0 .. N - 1 |->
                 [chunk_id |-> 0, list_enc |-> {}, attached_cmdbuf |-> NoBuffer,
                  signal_frame_latency_fence |-> NoSignal]]
  /\ app_pc = "record" /\ presenting = FALSE /\ fence_target = 0
  /\ enc_pc = "check" /\ enc_seq = 1
  /\ fin_pc = "check" /\ fin_seq = 1
  /\ gpu = {} /\ frame_chunk = <<>>

-----------------------------------------------------------------------------
(* The context's thread.                                                   *)

(* CurrentChunk()->emitcc: a command goes into the current chunk. *)
Emit ==
  /\ app_pc = "record"
  /\ chunks' = [chunks EXCEPT ![Slot(ready_for_encode)].list_enc =
                                @ \union {ready_for_encode}]
  /\ UNCHANGED <<counters, fences, app_vars, enc_vars, fin_vars, gpu>>

(* CommitCurrentChunk up to the increment that publishes the chunk. *)
Publish(chunk) ==
  /\ ready_for_encode <= MaxSeq
  /\ chunks' = [chunks EXCEPT ![Slot(ready_for_encode)] =
                                [chunk EXCEPT !.chunk_id = ready_for_encode]]
  /\ ready_for_encode' = ready_for_encode + 1
  /\ app_pc' = "ongoing_wait"
  /\ UNCHANGED <<ready_for_commit, chunk_ongoing, stopped, fences,
                 fence_target, frame_count, max_latency, enc_vars, fin_vars, gpu>>

Commit ==
  /\ app_pc = "record"
  /\ presenting' = FALSE
  /\ Publish(chunks[Slot(ready_for_encode)])
  /\ UNCHANGED frame_chunk

(* Present1: the current chunk signals the frame when it is retired, and   *)
(* also holds the present command.                                         *)
Present ==
  /\ app_pc = "record"
  /\ presenting' = TRUE
  /\ Publish([chunks[Slot(ready_for_encode)] EXCEPT
                !.list_enc = @ \union {ready_for_encode},
                !.signal_frame_latency_fence = CurrentFrameSeq])
  /\ frame_chunk' = Append(frame_chunk, ready_for_encode)

(* chunk_ongoing.wait(kCommandChunkCount - 1) *)
WaitOngoing ==
  /\ app_pc = "ongoing_wait"
  /\ chunk_ongoing /= OngoingLimit
  /\ app_pc' = "ongoing_add"
  /\ UNCHANGED <<counters, fences, chunks, presenting, fence_target,
                 frame_count, max_latency, frame_chunk, enc_vars, fin_vars, gpu>>

(* chunk_ongoing.fetch_add(1) *)
AddOngoing ==
  /\ app_pc = "ongoing_add"
  /\ chunk_ongoing' = Increment(chunk_ongoing)
  /\ app_pc' = IF presenting THEN "boundary" ELSE "record"
  /\ UNCHANGED <<ready_for_encode, ready_for_commit, stopped, fences, chunks,
                 presenting, fence_target, frame_count, max_latency,
                 frame_chunk, enc_vars, fin_vars, gpu>>

(* PresentBoundary: count the frame, then wait for an older one if the     *)
(* application is max_latency frames ahead.                                *)
PresentBoundary ==
  /\ app_pc = "boundary"
  /\ frame_count' = frame_count + 1
  /\ app_pc' = IF frame_count' > max_latency THEN "latency" ELSE "record"
  /\ UNCHANGED <<counters, fences, chunks, presenting, fence_target,
                 max_latency, frame_chunk, enc_vars, fin_vars, gpu>>

WaitLatency ==
  /\ app_pc = "latency"
  /\ frame_latency_fence >= LatencyTarget
  /\ app_pc' = "record"
  /\ UNCHANGED <<counters, fences, chunks, presenting, fence_target,
                 frame_count, max_latency, frame_chunk, enc_vars, fin_vars, gpu>>

SetMaxLatency(latency) ==
  /\ app_pc = "record"
  /\ max_latency' = latency
  /\ UNCHANGED <<counters, fences, chunks, app_pc, presenting, fence_target,
                 frame_count, frame_chunk, enc_vars, fin_vars, gpu>>

(* WaitCPUFence on a chunk that was committed. *)
CallWaitCPUFence(seq) ==
  /\ app_pc = "record"
  /\ app_pc' = "fence"
  /\ fence_target' = seq
  /\ UNCHANGED <<counters, fences, chunks, presenting, frame_count,
                 max_latency, frame_chunk, enc_vars, fin_vars, gpu>>

ReturnWaitCPUFence ==
  /\ app_pc = "fence"
  /\ cpu_coherent >= fence_target
  /\ app_pc' = "record"
  /\ UNCHANGED <<counters, fences, chunks, presenting, fence_target,
                 frame_count, max_latency, frame_chunk, enc_vars, fin_vars, gpu>>

(* ~CommandQueue, one step per shared access. *)
FaultNotStopped ==
  /\ app_pc = "record"
  /\ app_pc' = "dtor_encode"
  /\ UNCHANGED <<counters, fences, chunks, presenting, fence_target,
                 frame_count, max_latency, frame_chunk, enc_vars, fin_vars, gpu>>

Destroy ==
  /\ app_pc = "record"
  /\ stopped' = TRUE
  /\ app_pc' = "dtor_encode"
  /\ UNCHANGED <<ready_for_encode, ready_for_commit, chunk_ongoing, fences,
                 chunks, presenting, fence_target, frame_count, max_latency,
                 frame_chunk, enc_vars, fin_vars, gpu>>

WakeEncodingThread ==
  /\ app_pc = "dtor_encode"
  /\ ready_for_encode' = ready_for_encode + 1
  /\ app_pc' = "dtor_commit"
  /\ UNCHANGED <<ready_for_commit, chunk_ongoing, stopped, fences, chunks,
                 presenting, fence_target, frame_count, max_latency,
                 frame_chunk, enc_vars, fin_vars, gpu>>

FaultNoWake ==
  /\ app_pc = "dtor_commit"
  /\ app_pc' = "dtor_join"
  /\ UNCHANGED <<counters, fences, chunks, presenting, fence_target,
                 frame_count, max_latency, frame_chunk, enc_vars, fin_vars, gpu>>

WakeFinishThread ==
  /\ app_pc = "dtor_commit"
  /\ ready_for_commit' = ready_for_commit + 1
  /\ app_pc' = "dtor_join"
  /\ UNCHANGED <<ready_for_encode, chunk_ongoing, stopped, fences, chunks,
                 presenting, fence_target, frame_count, max_latency,
                 frame_chunk, enc_vars, fin_vars, gpu>>

(* Both threads are joined, then every chunk is reset. *)
JoinAndReset ==
  /\ app_pc = "dtor_join"
  /\ enc_pc = "done" /\ fin_pc = "done"
  /\ chunks' = [i \in 0 .. N - 1 |-> Reset(chunks[i])]
  /\ app_pc' = "gone"
  /\ UNCHANGED <<counters, fences, presenting, fence_target, frame_count,
                 max_latency, frame_chunk, enc_vars, fin_vars, gpu>>

-----------------------------------------------------------------------------
(* EncodingThread.                                                         *)

EncStep(from, to) == enc_pc = from /\ enc_pc' = to

EncCheck ==
  /\ EncStep("check", IF stopped THEN "done" ELSE "wait")
  /\ UNCHANGED <<counters, fences, chunks, app_vars, enc_seq, fin_vars, gpu>>

(* ready_for_encode.wait(internal_seq) *)
FaultWaitsForTwo ==
  /\ EncStep("wait", "recheck")
  /\ ready_for_encode > enc_seq + 1
  /\ UNCHANGED <<counters, fences, chunks, app_vars, enc_seq, fin_vars, gpu>>

EncWait ==
  /\ EncStep("wait", "recheck")
  /\ ready_for_encode /= enc_seq
  /\ UNCHANGED <<counters, fences, chunks, app_vars, enc_seq, fin_vars, gpu>>

EncRecheck ==
  /\ EncStep("recheck", IF stopped THEN "done" ELSE "encode")
  /\ UNCHANGED <<counters, fences, chunks, app_vars, enc_seq, fin_vars, gpu>>

(* CommitChunkInternal: attach a command buffer and encode the chunk. *)
Encode ==
  /\ EncStep("encode", "submit")
  /\ chunks' = [chunks EXCEPT ![Slot(enc_seq)].attached_cmdbuf = enc_seq]
  /\ UNCHANGED <<counters, fences, app_vars, enc_seq, fin_vars, gpu>>

(* cmdbuf.commit() *)
Submit ==
  /\ EncStep("submit", "signal")
  /\ gpu' = gpu \union {enc_seq}
  /\ UNCHANGED <<counters, fences, chunks, app_vars, enc_seq, fin_vars>>

(* ready_for_commit.fetch_add(1) and internal_seq++ *)
SignalCommit ==
  /\ EncStep("signal", "check")
  /\ ready_for_commit' = ready_for_commit + 1
  /\ enc_seq' = enc_seq + 1
  /\ UNCHANGED <<ready_for_encode, chunk_ongoing, stopped, fences, chunks,
                 app_vars, fin_vars, gpu>>

EncNext == \/ EncCheck \/ EncWait \/ EncRecheck
           \/ Encode \/ Submit \/ SignalCommit

-----------------------------------------------------------------------------
(* WaitForFinishThread.                                                    *)

FinStep(from, to) == fin_pc = from /\ fin_pc' = to

FinCheck ==
  /\ FinStep("check", IF stopped THEN "done" ELSE "wait")
  /\ UNCHANGED <<counters, fences, chunks, app_vars, enc_vars, fin_seq, gpu>>

(* ready_for_commit.wait(internal_seq) *)
FaultWrongCounter ==
  /\ FinStep("wait", "recheck")
  /\ ready_for_encode /= fin_seq
  /\ UNCHANGED <<counters, fences, chunks, app_vars, enc_vars, fin_seq, gpu>>

FinWait ==
  /\ FinStep("wait", "recheck")
  /\ ready_for_commit /= fin_seq
  /\ UNCHANGED <<counters, fences, chunks, app_vars, enc_vars, fin_seq, gpu>>

FinRecheck ==
  /\ FinStep("recheck", IF stopped THEN "done" ELSE "completed")
  /\ UNCHANGED <<counters, fences, chunks, app_vars, enc_vars, fin_seq, gpu>>

(* waitUntilCompleted, then frame_latency_fence_.signal, which only ever   *)
(* raises the fence. A null command buffer has the status                  *)
(* NotEnqueued and waiting for it returns at once.                         *)
WaitUntilCompleted ==
  LET chunk == chunks[Slot(fin_seq)] IN
  /\ FinStep("completed", "reset")
  /\ IsCompleted(chunk.attached_cmdbuf)
  /\ frame_latency_fence' =
       Signal(frame_latency_fence, chunk.signal_frame_latency_fence)
  /\ UNCHANGED <<counters, cpu_coherent, chunks, app_vars, enc_vars, fin_seq, gpu>>

ResetChunk ==
  /\ FinStep("reset", "coherent")
  /\ chunks' = [chunks EXCEPT ![Slot(fin_seq)] = Reset(@)]
  /\ UNCHANGED <<counters, fences, app_vars, enc_vars, fin_seq, gpu>>

(* cpu_coherent.signal(internal_seq) *)
SignalCoherent ==
  /\ FinStep("coherent", "sub")
  /\ cpu_coherent' = Signal(cpu_coherent, fin_seq)
  /\ UNCHANGED <<counters, frame_latency_fence, chunks, app_vars, enc_vars,
                 fin_seq, gpu>>

(* chunk_ongoing.fetch_sub(1) and internal_seq++ *)
FaultSubTwice ==
  /\ FinStep("sub", "check")
  /\ chunk_ongoing' = Decrement(Decrement(chunk_ongoing))
  /\ fin_seq' = fin_seq + 1
  /\ UNCHANGED <<ready_for_encode, ready_for_commit, stopped, fences, chunks,
                 app_vars, enc_vars, gpu>>

SubOngoing ==
  /\ FinStep("sub", "check")
  /\ chunk_ongoing' = Decrement(chunk_ongoing)
  /\ fin_seq' = fin_seq + 1
  /\ UNCHANGED <<ready_for_encode, ready_for_commit, stopped, fences, chunks,
                 app_vars, enc_vars, gpu>>

FinNext == \/ FinCheck \/ FinWait \/ FinRecheck
           \/ WaitUntilCompleted \/ ResetChunk \/ SignalCoherent \/ SubOngoing

-----------------------------------------------------------------------------
(* The GPU completes a command buffer; no order is assumed between them.   *)
GpuComplete(seq) ==
  /\ gpu' = gpu \ {seq}
  /\ UNCHANGED <<counters, fences, chunks, app_vars, enc_vars, fin_vars>>

(* What the application may or may not do. *)
AppChoice ==
  \/ Emit \/ Commit \/ Present \/ Destroy
  \/ \E latency \in LatencyRange : SetMaxLatency(latency)
  \/ \E seq \in 1 .. ready_for_encode - 1 : CallWaitCPUFence(seq)

(* What it does once it has called into the queue. *)
AppNext ==
  \/ WaitOngoing \/ AddOngoing \/ PresentBoundary \/ WaitLatency
  \/ ReturnWaitCPUFence
  \/ WakeEncodingThread \/ WakeFinishThread \/ JoinAndReset

GpuNext == \E seq \in gpu : GpuComplete(seq)

(* The process has torn the queue down; nothing is left to do. *)
Terminated == app_pc = "gone" /\ gpu = {} /\ UNCHANGED vars

Next == AppChoice \/ AppNext \/ EncNext \/ FinNext \/ GpuNext \/ Terminated

Spec == Init /\ [][Next]_vars

(* Threads are scheduled and the GPU does not hang; the application owes   *)
(* nothing, but a call it made goes on when it can.                        *)
Fairness ==
  /\ WF_vars(AppNext) /\ WF_vars(EncNext) /\ WF_vars(FinNext)
  /\ \A seq \in 1 .. MaxSeq : WF_vars(seq \in gpu /\ GpuComplete(seq))

FairSpec == Spec /\ Fairness

-----------------------------------------------------------------------------
(* Properties.                                                             *)

AppPCs == {"record", "ongoing_wait", "ongoing_add", "boundary", "latency",
           "fence", "dtor_encode", "dtor_commit", "dtor_join", "gone"}
EncPCs == {"check", "wait", "recheck", "encode", "submit", "signal", "done"}
FinPCs == {"check", "wait", "recheck", "completed", "reset", "coherent", "sub",
           "done"}

(* Every variable has its type; the ring has N slots. *)
TypeOK ==
  /\ ready_for_encode \in Nat /\ ready_for_commit \in Nat
  /\ chunk_ongoing \in 0 .. W - 1 /\ stopped \in BOOLEAN
  /\ cpu_coherent \in Nat /\ frame_latency_fence \in Nat
  /\ frame_count \in Nat /\ max_latency \in Nat
  /\ chunks \in [0 .. N - 1 -> Chunk]
  /\ app_pc \in AppPCs /\ presenting \in BOOLEAN /\ fence_target \in Nat
  /\ enc_pc \in EncPCs /\ enc_seq \in Nat
  /\ fin_pc \in FinPCs /\ fin_seq \in Nat
  /\ gpu \in SUBSET Nat /\ frame_chunk \in Seq(Nat)

(* When CommitCurrentChunk has returned, the slot the context records into *)
(* is free: no chunk in flight lives there, no command of an older chunk   *)
(* is left in it and no command buffer is attached to it.                  *)
RecordsIntoFreeSlot ==
  app_pc = "record" =>
    LET chunk == chunks[Slot(ready_for_encode)] IN
      /\ chunk.list_enc \subseteq {ready_for_encode}
      /\ chunk.attached_cmdbuf = NoBuffer
      /\ chunk.signal_frame_latency_fence = NoSignal

(* EncodingThread translates exactly the chunk whose turn it is: its slot  *)
(* carries that number, only commands recorded for it, and was not encoded *)
(* before.                                                                 *)
EncodesItsChunk ==
  enc_pc = "encode" =>
    LET chunk == chunks[Slot(enc_seq)] IN
      /\ chunk.chunk_id = enc_seq
      /\ chunk.list_enc \subseteq {enc_seq}
      /\ chunk.attached_cmdbuf = NoBuffer

(* While the GPU runs a command buffer, the chunk behind it keeps its      *)
(* commands, its command buffer and its references: neither the finishing  *)
(* thread resets the slot, nor the context records into it, nor is its     *)
(* number reported as coherent. (The destructor gives this up: it resets   *)
(* the chunks without waiting for the GPU.)                                *)
InFlightChunkIsKept ==
  \A seq \in gpu :
    /\ cpu_coherent < seq
    /\ app_pc /= "gone" =>
         /\ chunks[Slot(seq)].attached_cmdbuf = seq
         /\ chunks[Slot(seq)].list_enc \subseteq {seq}

(* WaitForFinishThread only ever handles a chunk that went to the GPU, in  *)
(* particular when the destructor wakes it up: the command buffer it waits *)
(* for is the one of its own chunk, never null.                            *)
FinishesSubmittedChunk ==
  fin_pc = "completed" => chunks[Slot(fin_seq)].attached_cmdbuf = fin_seq

(* The promise of a present is kept until its chunk is retired: the chunk  *)
(* still holds the present command and signals that frame's number.        *)
FrameSignalIsKept ==
  \A frame \in DOMAIN frame_chunk :
    LET seq == frame_chunk[frame] IN
      \/ frame_latency_fence >= frame
      \/ app_pc = "gone"
      \/ /\ chunks[Slot(seq)].signal_frame_latency_fence = frame
         /\ seq \in chunks[Slot(seq)].list_enc

(* Present never lets the application get more than max_latency frames     *)
(* ahead: when it returns for frame n, the GPU is done with the chunk that *)
(* presents frame n - max_latency.                                         *)
PresentIsPaced ==
  [][(app_pc \in {"boundary", "latency"} /\ app_pc' = "record") =>
       (frame_count' > max_latency /\ max_latency > 0 =>
          LET seq == frame_chunk[frame_count' - max_latency] IN
            seq < enc_seq /\ seq \notin gpu)]_vars

(* Retirement is in order and leaves no gap: the coherent sequence number  *)
(* that the allocators and Map rely on goes up by one at a time.           *)
CoherentAdvancesByOne ==
  [][cpu_coherent' = cpu_coherent + 1]_cpu_coherent

(* The threads implement the pipeline: the numbers the destructor adds to  *)
(* wake the threads up are not chunks.                                     *)
Pipeline ==
  INSTANCE ChunkPipeline WITH
    Depth     <- N,
    open      <- app_pc \notin {"ongoing_wait", "ongoing_add"},
    committed <- ready_for_encode
                   - (IF app_pc \in {"dtor_commit", "dtor_join", "gone"} THEN 2 ELSE 1),
    submitted <- ready_for_commit
                   - (IF app_pc \in {"dtor_join", "gone"} THEN 2 ELSE 1),
    completed <- cpu_coherent

ImplementsPipeline == Pipeline!Spec

(* A call into the queue returns: CommitCurrentChunk gets its slot, the    *)
(* latency wait and WaitCPUFence end, the destructor joins its threads.    *)
CallsReturn == app_pc \notin {"record", "gone"} ~> app_pc \in {"record", "gone"}

(* Every committed chunk is retired unless the queue is destroyed first.   *)
ChunksRetire ==
  \A seq \in 1 .. MaxSeq :
    (app_pc = "record" /\ seq < ready_for_encode) ~> (cpu_coherent >= seq \/ stopped)

(* Once the destructor has started, both threads stop and it completes.    *)
ShutdownCompletes == stopped ~> app_pc = "gone"

=============================================================================
