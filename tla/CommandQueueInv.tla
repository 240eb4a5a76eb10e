-------------------------- MODULE CommandQueueInv ---------------------------
(***************************************************************************)
(* The inductive invariant of CommandQueue, in named parts. It is checked  *)
(* by TLC with the other properties and proved in CommandQueueProofs.      *)
(***************************************************************************)
EXTENDS CommandQueue

(* The last chunk published, the last one handed over by EncodingThread,   *)
(* and the last one reset by WaitForFinishThread.                          *)
Committed == ready_for_encode
  - (IF app_pc \in {"dtor_commit", "dtor_join", "gone"} THEN 2 ELSE 1)
Submitted == ready_for_commit
  - (IF app_pc \in {"dtor_join", "gone"} THEN 2 ELSE 1)
LastReset == fin_seq - (IF fin_pc \in {"coherent", "sub"} THEN 0 ELSE 1)

(* Each thread's private counter agrees with the atomics, and no thread is *)
(* past a wait whose chunk does not exist, unless the queue is stopped.    *)
Counting ==
  /\ enc_seq = Submitted + 1
  /\ cpu_coherent = fin_seq - (IF fin_pc = "sub" THEN 0 ELSE 1)
  /\ 1 <= fin_seq /\ fin_seq <= Submitted + 1 /\ Submitted <= Committed
  /\ enc_pc \in {"encode", "submit", "signal"} => enc_seq <= Committed
  /\ enc_pc = "recheck" => enc_seq <= Committed \/ stopped
  /\ fin_pc \in {"completed", "reset", "coherent", "sub"} => fin_seq <= Submitted
  /\ fin_pc = "recheck" => fin_seq <= Submitted \/ stopped
  /\ stopped <=> app_pc \in {"dtor_encode", "dtor_commit", "dtor_join", "gone"}
  /\ app_pc = "gone" => enc_pc = "done" /\ fin_pc = "done"

(* chunk_ongoing counts the chunks in flight modulo W; the one just        *)
(* published is not counted before AddOngoing, so that the counter may     *)
(* wrap below zero.                                                        *)
InFlight == Committed - (fin_seq - 1)
Counted  == InFlight - (IF app_pc \in {"ongoing_wait", "ongoing_add"} THEN 1 ELSE 0)

Bounded ==
  /\ chunk_ongoing = IF Counted < 0 THEN Counted + W ELSE Counted
  /\ InFlight <= N - (IF app_pc = "ongoing_wait" THEN 0 ELSE 1)

(* The chunk whose number maps to a slot: in flight, or free.              *)
IsAttached(seq) ==
  seq < enc_seq \/ (seq = enc_seq /\ enc_pc \in {"submit", "signal"})

HoldsChunk(chunk, seq) ==
  /\ chunk.chunk_id = seq
  /\ chunk.list_enc \subseteq {seq}
  /\ chunk.attached_cmdbuf = IF IsAttached(seq) THEN seq ELSE NoBuffer

IsFree(chunk, seq) ==
  /\ chunk.list_enc \subseteq (IF seq = Committed + 1 THEN {seq} ELSE {})
  /\ chunk.attached_cmdbuf = NoBuffer
  /\ chunk.signal_frame_latency_fence = NoSignal

Slots ==
  app_pc /= "gone" =>
    \A seq \in LastReset + 1 .. LastReset + N :
      IF seq <= Committed THEN HoldsChunk(chunks[Slot(seq)], seq)
                          ELSE IsFree(chunks[Slot(seq)], seq)

(* The GPU runs only submitted chunks that were not reset.                 *)
OnGpu ==
  /\ \A seq \in gpu :
       /\ LastReset < seq
       /\ seq < enc_seq \/ (seq = enc_seq /\ enc_pc = "signal")
  /\ fin_pc = "reset" => fin_seq \notin gpu

(* Everything the ring's safety rests on: the numbers of the threads agree *)
(* with the atomics, chunk_ongoing counts the chunks in flight, every slot *)
(* is held by the one chunk in flight that maps to it or is free, and the  *)
(* GPU only runs chunks that still hold their slot.                        *)
IInv == TypeOK /\ Counting /\ Bounded /\ Slots /\ OnGpu

-----------------------------------------------------------------------------
(* The frames. The last chunk that WaitForFinishThread found completed,    *)
(* and the present that PresentBoundary has not counted yet.               *)
Finished == fin_seq - (IF fin_pc \in {"reset", "coherent", "sub"} THEN 0 ELSE 1)
PresentPending ==
  presenting /\ app_pc \in {"ongoing_wait", "ongoing_add", "boundary"}

(* frame_count counts the presents, each of which is in a later chunk than *)
(* the one before.                                                         *)
FrameNumbers ==
  /\ Len(frame_chunk) = frame_count + (IF PresentPending THEN 1 ELSE 0)
  /\ app_pc = "boundary" => presenting
  /\ \A f \in DOMAIN frame_chunk : 1 <= frame_chunk[f] /\ frame_chunk[f] <= Committed
  /\ \A f, g \in DOMAIN frame_chunk : f < g => frame_chunk[f] < frame_chunk[g]

(* The latency fence has reached a frame exactly when the chunk that       *)
(* presents it has been found completed.                                   *)
FramesAreFenced ==
  /\ frame_latency_fence <= Len(frame_chunk)
  /\ \A f \in DOMAIN frame_chunk : frame_latency_fence >= f <=> frame_chunk[f] <= Finished

(* A frame to come is in its chunk, and what a chunk in flight signals is  *)
(* the frame that it presents.                                             *)
FramesAreHeld ==
  app_pc # "gone" =>
    /\ \A f \in DOMAIN frame_chunk :
         LET chunk == chunks[Slot(frame_chunk[f])] IN
           Finished < frame_chunk[f] =>
             chunk.signal_frame_latency_fence = f /\ frame_chunk[f] \in chunk.list_enc
    /\ \A seq \in LastReset + 1 .. Committed :
         LET frame == chunks[Slot(seq)].signal_frame_latency_fence IN
           frame # NoSignal => frame \in DOMAIN frame_chunk /\ frame_chunk[frame] = seq

FrameInv == IInv /\ FrameNumbers /\ FramesAreFenced /\ FramesAreHeld

=============================================================================
