---------------------------- MODULE D3D12QueueInv ----------------------------
(***************************************************************************)
(* The inductive invariant behind WaitOrders.                              *)
(***************************************************************************)
EXTENDS D3D12Queue

Buffer ==
  [kind : {"work"}, id : Nat]
  \union [kind : {"signal", "wait"}, fence : Fences, event : Nat, value : Nat]
EventWait == [kind : {"event"}, fence : Fences, event : Nat, value : Nat]
Waiting == {Running} \union [kind : {"work"}, id : Nat] \union EventWait

(* Every variable has its type, and a fence always has an event.           *)
QueueTypeOK ==
  /\ event \in [Fences -> Seq(Nat) \ {<<>>}]
  /\ last_signaled_ \in [Fences -> Nat]
  /\ queue \in [Queues -> Seq(Buffer)]
  /\ thread \in [Threads -> Waiting]
  /\ handles \subseteq EventWait
  /\ done \subseteq Nat
  /\ signals \in [Fences -> SUBSET [value : Nat, work : SUBSET Nat]]
  /\ submitted \in Nat
  /\ entered \in Nat

(* What signals a fence or waits for it does so on the event it has now.   *)
BuffersUseCurrentEvent ==
  \A q \in Queues : \A i \in 1 .. Len(queue[q]) :
    queue[q][i].kind # "work" => queue[q][i].event = Event(queue[q][i].fence)

WaitsUseCurrentEvent ==
  /\ \A t \in Threads :
       thread[t].kind = "event" => thread[t].event = Event(thread[t].fence)
  /\ \A h \in handles : h.event = Event(h.fence)

(* The value of the event is that of a signal whose work is finished.      *)
ReachedIsFinished ==
  \A f \in Fences : completedValue(f) # 0 =>
    \E s \in signals[f] : s.value >= completedValue(f) /\ s.work \subseteq done

(* A signal that a queue still holds comes after work that is finished or  *)
(* before it in that queue.                                                *)
WorkBefore(q, i) ==
  {queue[q][j].id : j \in {k \in 1 .. i - 1 : queue[q][k].kind = "work"}}

SignalsFollowWork ==
  \A q \in Queues : \A i \in 1 .. Len(queue[q]) :
    queue[q][i].kind = "signal" =>
      \E s \in signals[queue[q][i].fence] :
        s.value = queue[q][i].value /\ s.work \subseteq done \union WorkBefore(q, i)

QueueInv ==
  /\ QueueTypeOK
  /\ BuffersUseCurrentEvent
  /\ WaitsUseCurrentEvent
  /\ ReachedIsFinished
  /\ SignalsFollowWork

=============================================================================
