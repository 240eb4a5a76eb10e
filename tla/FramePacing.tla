----------------------------- MODULE FramePacing -----------------------------
(***************************************************************************)
(* The frame-latency wait of Present when it is not alone: several swap    *)
(* chains of one device present from their own threads, and any thread may *)
(* call SetMaximumFrameLatency. Present1 holds the device lock up to and   *)
(* including the commit of its chunk, and gives it up before               *)
(* PresentBoundary, so that frame_count and max_latency_, which are plain  *)
(* integers, are accessed by several threads at once: here one step is one *)
(* load or store of them. CommandQueue is the abstract ChunkPipeline. The  *)
(* device lock excludes anyone only once the application has turned on     *)
(* multithread protection, which it must to present from several threads.  *)
(***************************************************************************)
EXTENDS Integers, Sequences

CONSTANTS
  Presenters,   \* threads that present, each to its own swap chain
  LatencyRange, \* values given to SetMaximumFrameLatency
  RacySet,      \* may it be called while another thread is in PresentBoundary?
  Depth,        \* kCommandChunkCount
  MaxFrames,    \* bound: presents in a behaviour
  MaxSets,      \* bound: calls to SetMaximumFrameLatency
  W             \* 2^64, the modulus of frame numbers

ASSUME FramesAssumption  == MaxFrames \in Nat /\ W \in Nat /\ W > 2 * MaxFrames
ASSUME LatencyAssumption == LatencyRange \subseteq 0 .. MaxFrames
ASSUME DepthAssumption   == Depth \in Nat \ {0}

VARIABLES
  open, committed, submitted, completed, \* the queue, see ChunkPipeline
  frame_signal,  \* signal_frame_latency_fence_ of each committed chunk
  frame_latency_fence,
  frame_count, max_latency,
  lock,          \* who holds the device lock, or NoOne
  pc, loaded,    \* of each presenter: where it is, and what it has read
  sets           \* calls of SetMaximumFrameLatency so far

pipeline == <<open, committed, submitted, completed>>
pacing_vars == <<pipeline, frame_signal, frame_latency_fence, frame_count, max_latency,
          lock, pc, loaded, sets>>

Pipeline == INSTANCE ChunkPipeline

NoOne == "no one"

PacingInit ==
  /\ Pipeline!Init
  /\ frame_signal = <<>> /\ frame_latency_fence = 0
  /\ frame_count = 0 /\ max_latency \in LatencyRange
  /\ lock = NoOne
  /\ pc = [p \in Presenters |-> "idle"]
  /\ loaded = [p \in Presenters |-> 0]
  /\ sets = 0

Goto(p, from, to) == pc[p] = from /\ pc' = [pc EXCEPT ![p] = to]

-----------------------------------------------------------------------------
(* Present1 under the device lock: the chunk it commits signals the frame  *)
(* CurrentFrameSeq() when it is retired.                                   *)
FaultFrameCount == frame_count
CurrentFrameSeq == frame_count + 1

Present(p) ==
  /\ Len(frame_signal) < MaxFrames
  /\ lock = NoOne /\ lock' = p
  /\ Goto(p, "idle", "commit")
  /\ Pipeline!Commit
  /\ frame_signal' = Append(frame_signal, CurrentFrameSeq)
  /\ UNCHANGED <<frame_latency_fence, frame_count, max_latency, loaded, sets>>

(* CommitCurrentChunk got its next slot: Present1 unlocks the device. *)
Unlock(p) ==
  /\ Goto(p, "commit", "load")
  /\ Pipeline!Reopen
  /\ lock' = NoOne
  /\ UNCHANGED <<frame_signal, frame_latency_fence, frame_count, max_latency,
                 loaded, sets>>

(* PresentBoundary: frame_count++, a load and a store. *)
LoadFrameCount(p) ==
  /\ Goto(p, "load", "store")
  /\ loaded' = [loaded EXCEPT ![p] = frame_count]
  /\ UNCHANGED <<pipeline, frame_signal, frame_latency_fence, frame_count,
                 max_latency, lock, sets>>

StoreFrameCount(p) ==
  /\ Goto(p, "store", "compare")
  /\ frame_count' = loaded[p] + 1
  /\ UNCHANGED <<pipeline, frame_signal, frame_latency_fence, max_latency, lock,
                 loaded, sets>>

(* if (frame_count > max_latency_) *)
IsAhead == frame_count > max_latency

CompareLatency(p) ==
  /\ Goto(p, "compare", IF IsAhead THEN "subtract" ELSE "idle")
  /\ UNCHANGED <<pipeline, frame_signal, frame_latency_fence, frame_count,
                 max_latency, lock, loaded, sets>>

(* frame_count - max_latency_, both read again, in unsigned arithmetic. *)
FaultNextFrame == (frame_count - max_latency + 1) % W
LatencyTarget == (frame_count - max_latency) % W

SubtractLatency(p) ==
  /\ Goto(p, "subtract", "wait")
  /\ loaded' = [loaded EXCEPT ![p] = LatencyTarget]
  /\ UNCHANGED <<pipeline, frame_signal, frame_latency_fence, frame_count,
                 max_latency, lock, sets>>

WaitLatency(p) ==
  /\ Goto(p, "wait", "idle")
  /\ frame_latency_fence >= loaded[p]
  /\ UNCHANGED <<pipeline, frame_signal, frame_latency_fence, frame_count,
                 max_latency, lock, loaded, sets>>

(* SetMaximumFrameLatency takes no lock. *)
SetMaxLatency(latency) ==
  /\ sets < MaxSets
  /\ RacySet \/ \A p \in Presenters : pc[p] = "idle"
  /\ max_latency' = latency
  /\ sets' = sets + 1
  /\ UNCHANGED <<pipeline, frame_signal, frame_latency_fence, frame_count, lock,
                 pc, loaded>>

-----------------------------------------------------------------------------
(* The queue's threads.                                                    *)
Submit ==
  /\ Pipeline!Submit
  /\ UNCHANGED <<frame_signal, frame_latency_fence, frame_count, max_latency,
                 lock, pc, loaded, sets>>

(* A chunk is retired: its frame is signalled, and the fence never goes    *)
(* back.                                                                   *)
Signal(fence, value) == IF value > fence THEN value ELSE fence

Retire ==
  /\ Pipeline!Complete
  /\ frame_latency_fence' = Signal(frame_latency_fence, frame_signal[completed + 1])
  /\ UNCHANGED <<frame_signal, frame_count, max_latency, lock, pc, loaded, sets>>

PresenterNext(p) ==
  \/ Unlock(p) \/ LoadFrameCount(p) \/ StoreFrameCount(p)
  \/ CompareLatency(p) \/ SubtractLatency(p) \/ WaitLatency(p)

(* All presents the bound allows have returned. *)
Finished ==
  /\ Len(frame_signal) = MaxFrames /\ completed = MaxFrames
  /\ \A p \in Presenters : pc[p] = "idle"
  /\ UNCHANGED pacing_vars

PacingNext ==
  \/ \E p \in Presenters : Present(p) \/ PresenterNext(p)
  \/ \E latency \in LatencyRange : SetMaxLatency(latency)
  \/ Submit \/ Retire \/ Finished

PacingSpec == PacingInit /\ [][PacingNext]_pacing_vars

(* Threads are scheduled; the application owes no further present. *)
Fairness ==
  /\ \A p \in Presenters : WF_pacing_vars(PresenterNext(p))
  /\ WF_pacing_vars(Submit) /\ WF_pacing_vars(Retire)

FairSpec == PacingSpec /\ Fairness

-----------------------------------------------------------------------------
(* Properties.                                                             *)

PCs == {"idle", "commit", "load", "store", "compare", "subtract", "wait"}

PacingTypeOK ==
  /\ open \in BOOLEAN
  /\ committed \in 0 .. MaxFrames /\ submitted \in 0 .. committed
  /\ completed \in 0 .. submitted
  /\ frame_signal \in Seq(1 .. MaxFrames) /\ Len(frame_signal) = committed
  /\ frame_latency_fence \in 0 .. MaxFrames
  /\ frame_count \in 0 .. MaxFrames /\ max_latency \in LatencyRange
  /\ lock \in Presenters \union {NoOne}
  /\ pc \in [Presenters -> PCs]
  /\ loaded \in [Presenters -> 0 .. W - 1]
  /\ sets \in 0 .. MaxSets

(* "After present N-th frame, wait for (N - max_latency)-th frame to       *)
(* finish rendering": the frame Present waits for is one that some         *)
(* committed chunk signals, so that the wait ends without further presents.*)
(* PresentBoundary keeps this for a single presenting thread, as long as   *)
(* SetMaximumFrameLatency is called between its presents.                  *)
WaitsForPresentedFrame ==
  \A p \in Presenters :
    pc[p] = "wait" =>
      \/ loaded[p] <= frame_latency_fence
      \/ \E i \in DOMAIN frame_signal : frame_signal[i] >= loaded[p]

(* Every present returns, if the application presents again or not.        *)
PresentReturns ==
  \A p \in Presenters : pc[p] # "idle" ~> pc[p] = "idle"

=============================================================================
