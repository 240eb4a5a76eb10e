--------------------------- MODULE FramePacingInv ---------------------------
(***************************************************************************)
(* What holds of FramePacing with one presenting thread: the inductive     *)
(* invariant from which follows that Present waits only for a frame that   *)
(* was presented.                                                          *)
(***************************************************************************)
EXTENDS FramePacing

(* One thread presents, and no other sets the latency in the middle of it. *)
OnePresenter ==
  /\ \A p, q \in Presenters : p = q
  /\ RacySet = FALSE

Types ==
  /\ frame_signal \in Seq(Nat) /\ frame_count \in Nat
  /\ max_latency \in Nat
  /\ pc \in [Presenters -> PCs] /\ loaded \in [Presenters -> Nat]

(* The frame that is being presented and not counted yet.                  *)
Uncounted(p) == IF pc[p] \in {"commit", "load", "store"} THEN 1 ELSE 0

(* Each chunk signals its own number, which is counted when the presenter  *)
(* is through with frame_count, and the presenter's copies are up to date. *)
Numbers ==
  /\ Len(frame_signal) <= MaxFrames
  /\ \A i \in DOMAIN frame_signal : frame_signal[i] = i
  /\ \A p \in Presenters :
       /\ Len(frame_signal) = frame_count + Uncounted(p)
       /\ pc[p] = "store" => loaded[p] = frame_count
       /\ pc[p] = "subtract" => frame_count > max_latency
       /\ pc[p] = "wait" => loaded[p] \in 1 .. frame_count

PacingInv == Types /\ Numbers

=============================================================================
