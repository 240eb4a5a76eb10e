----------------------------- MODULE D3D12Queue -----------------------------
(***************************************************************************)
(* D3D12 command queues and fences (d3d12_command_queue.cpp,               *)
(* d3d12_fence.cpp, dxmt_fence.hpp), with the threads that use them.       *)
(*                                                                         *)
(* A fence is a Metal shared event and the value it was last told to take. *)
(* An event only counts up: to lower a fence, the code replaces its event, *)
(* and what waits for the old one stays there. Execution and Present wait  *)
(* for the GPU inside the call.                                            *)
(***************************************************************************)
EXTENDS Integers, Sequences

CONSTANTS
  Threads, Queues, Fences,
  InitialValues,  \* of CreateFence
  Values,         \* that the application signals and waits for
  MaxWork,        \* bound on the submissions
  MaxEntered        \* bound on the calls

ASSUME ValuesAssumption == Values \subseteq Nat \ {0} /\ InitialValues \subseteq Nat

VARIABLES
  event,          \* of a fence: the value of each event it has had, event_ last
  last_signaled_,
  queue,          \* the command buffers that a queue has not finished
  thread,         \* what a thread waits for inside a call
  handles,        \* Win32 events that the listener has to set
  done,           \* submissions that the GPU has finished
  signals,        \* of a fence: its signals since it was last lowered, each
                  \* with the submissions it comes after
  submitted, entered

queue_vars == <<event, last_signaled_, queue, thread, handles, done, signals, submitted, entered>>

Running == [kind |-> "running"]
ForWork(id) == [kind |-> "work", id |-> id]
ForEvent(f, e, v) == [kind |-> "event", fence |-> f, event |-> e, value |-> v]
WorkBuffer(id) == [kind |-> "work", id |-> id]
SignalBuffer(f, e, v) == [kind |-> "signal", fence |-> f, event |-> e, value |-> v]
WaitBuffer(f, e, v) == [kind |-> "wait", fence |-> f, event |-> e, value |-> v]

Event(f) == Len(event[f])
completedValue(f) == event[f][Event(f)]

QueueInit ==
  /\ last_signaled_ \in [Fences -> InitialValues]
  /\ event = [f \in Fences |-> <<last_signaled_[f]>>]
  /\ queue = [q \in Queues |-> <<>>]
  /\ thread = [t \in Threads |-> Running]
  /\ handles = {}
  /\ done = {}
  /\ signals = [f \in Fences |-> {[value |-> last_signaled_[f], work |-> {}]}]
  /\ submitted = 0
  /\ entered = 0

Enters(t) == thread[t] = Running /\ entered < MaxEntered /\ entered' = entered + 1

-----------------------------------------------------------------------------
(* What the application has to observe. last_signaled_ is the value told   *)
(* last, not the one reached, and nothing guards it: a fence is told to    *)
(* fall when nothing is left that signals it or waits for it.              *)
Buffers(q) == {queue[q][i] : i \in 1 .. Len(queue[q])}

IsIdle(f) ==
  /\ \A q \in Queues : \A b \in Buffers(q) : b.kind # "work" => b.fence # f
  /\ \A t \in Threads : thread[t].kind = "event" => thread[t].fence # f
  /\ \A h \in handles : h.fence # f

MayTell(f, v) == v < last_signaled_[f] => IsIdle(f)

(* A queue's wait is recorded when the signal it needs has been, since the *)
(* thread that executes after it does not return before.                   *)
IsTold(f, v) == v <= last_signaled_[f]

-----------------------------------------------------------------------------
(* Fence::signal, for both of its targets *)
FaultNeverResets(f, v) == FALSE
NeedsReset(f, v) == v < last_signaled_[f]

Events(f, v) == IF NeedsReset(f, v) THEN Append(event[f], 0) ELSE event[f]

FaultSignalsOldEvent(f, v) == Event(f)
EventToSignal(f, v) == Len(Events(f, v))

Told(f, v, work) ==
  /\ last_signaled_' = [last_signaled_ EXCEPT ![f] = v]
  /\ signals' = [signals EXCEPT ![f] =
       (IF v < last_signaled_[f] THEN {} ELSE @) \union {[value |-> v, work |-> work]}]

WorkOf(q) == {b.id : b \in {c \in Buffers(q) : c.kind = "work"}}

(* ID3D12Fence::Signal. A value that was told last is not told again.      *)
SignalFence(t, f, v) ==
  /\ Enters(t)
  /\ v # last_signaled_[f] /\ MayTell(f, v)
  /\ event' = [event EXCEPT ![f] = [Events(f, v) EXCEPT ![EventToSignal(f, v)] = v]]
  /\ Told(f, v, {})
  /\ UNCHANGED <<queue, thread, handles, done, submitted>>

(* ID3D12CommandQueue::Signal *)
Signal(t, q, f, v) ==
  /\ Enters(t)
  /\ v # last_signaled_[f] /\ MayTell(f, v)
  /\ event' = [event EXCEPT ![f] = Events(f, v)]
  /\ queue' = [queue EXCEPT ![q] = Append(@, SignalBuffer(f, EventToSignal(f, v), v))]
  /\ Told(f, v, WorkOf(q))
  /\ UNCHANGED <<thread, handles, done, submitted>>

(* The same with the value told last: a command buffer without commands.   *)
SignalAgain(t, f) ==
  /\ Enters(t)
  /\ UNCHANGED <<event, last_signaled_, queue, thread, handles, done, signals, submitted>>

(* ID3D12CommandQueue::Wait *)
Wait(t, q, f, v) ==
  /\ Enters(t)
  /\ IsTold(f, v)
  /\ queue' = [queue EXCEPT ![q] = Append(@, WaitBuffer(f, Event(f), v))]
  /\ UNCHANGED <<event, last_signaled_, thread, handles, done, signals, submitted>>

(* ExecuteCommandLists and Present: the buffer is committed and waited for.*)
Execute(t, q) ==
  /\ Enters(t)
  /\ submitted < MaxWork
  /\ submitted' = submitted + 1
  /\ queue' = [queue EXCEPT ![q] = Append(@, WorkBuffer(submitted'))]
  /\ thread' = [thread EXCEPT ![t] = ForWork(submitted')]
  /\ UNCHANGED <<event, last_signaled_, handles, done, signals>>

(* SetEventOnCompletion: without a handle it blocks.                       *)
SetEventOnCompletion(t, f, v, blocks) ==
  /\ Enters(t)
  /\ LET later == completedValue(f) < v
         wait == ForEvent(f, Event(f), v)
     IN /\ thread' = IF later /\ blocks THEN [thread EXCEPT ![t] = wait] ELSE thread
        /\ handles' = IF later /\ ~blocks THEN handles \union {wait} ELSE handles
  /\ UNCHANGED <<event, last_signaled_, queue, done, signals, submitted>>

-----------------------------------------------------------------------------
IsReached(wait) == event[wait.fence][wait.event] >= wait.value

(* waitUntilCompleted or waitUntilSignaledValue returns.                   *)
Return(t) ==
  /\ thread[t].kind = "work" => thread[t].id \in done
  /\ thread[t].kind = "event" => IsReached(thread[t])
  /\ thread[t] # Running
  /\ thread' = [thread EXCEPT ![t] = Running]
  /\ UNCHANGED <<event, last_signaled_, queue, handles, done, signals, submitted, entered>>

(* The thread of EventListener sets the handle.                            *)
Listen(h) ==
  /\ IsReached(h)
  /\ handles' = handles \ {h}
  /\ UNCHANGED <<event, last_signaled_, queue, thread, done, signals, submitted, entered>>

(* The GPU runs the command buffers of a queue in their order; a wait      *)
(* holds back all that follow, a signal raises its event.                  *)
RunBuffer(q) ==
  /\ queue[q] # <<>>
  /\ LET b == Head(queue[q])
     IN /\ b.kind = "wait" => IsReached(b)
        /\ done' = IF b.kind = "work" THEN done \union {b.id} ELSE done
        /\ event' = IF b.kind = "signal" /\ event[b.fence][b.event] < b.value
                      THEN [event EXCEPT ![b.fence][b.event] = b.value] ELSE event
  /\ queue' = [queue EXCEPT ![q] = Tail(@)]
  /\ UNCHANGED <<last_signaled_, thread, handles, signals, submitted, entered>>

QueueNext ==
  \/ \E t \in Threads :
       \/ \E f \in Fences, v \in Values :
            \/ SignalFence(t, f, v)
            \/ \E blocks \in BOOLEAN : SetEventOnCompletion(t, f, v, blocks)
            \/ \E q \in Queues : Signal(t, q, f, v) \/ Wait(t, q, f, v)
       \/ \E f \in Fences : SignalAgain(t, f)
       \/ \E q \in Queues : Execute(t, q)
       \/ Return(t)
  \/ \E h \in handles : Listen(h)
  \/ \E q \in Queues : RunBuffer(q)

(* The GPU works, and threads that may return do. *)
Fairness ==
  /\ \A q \in Queues : WF_queue_vars(RunBuffer(q))
  /\ \A t \in Threads : WF_queue_vars(Return(t))
  /\ WF_queue_vars(\E h \in handles : Listen(h))

QueueSpec == QueueInit /\ [][QueueNext]_queue_vars
FairSpec == QueueSpec /\ Fairness

-----------------------------------------------------------------------------
(* Whoever waits for a value of a fence goes on only when the submissions  *)
(* before a signal of that value, or of a higher one, are finished: also   *)
(* when the fence had a higher value before, and was lowered since. The    *)
(* same holds of the completed value that GetCompletedValue returns.       *)
IsFinished(wait) ==
  wait.value # 0 =>
    \E s \in signals[wait.fence] : s.value >= wait.value /\ s.work \subseteq done

WaitOrders ==
  [][/\ \A t \in Threads :
          thread[t].kind = "event" /\ thread'[t] = Running => IsFinished(thread[t])
     /\ \A h \in handles \ handles' : IsFinished(h)
     /\ \A q \in Queues :
          queue[q] # <<>> /\ Head(queue[q]).kind = "wait" /\ queue'[q] = Tail(queue[q])
            => IsFinished(Head(queue[q]))
     /\ \A f \in Fences : IsFinished([fence |-> f, value |-> completedValue(f)])]_queue_vars

(* A thread inside ExecuteCommandLists or Present returns, and so does one *)
(* that waits for a value that was told, although lowered fences leave     *)
(* events behind and queues wait for each other's signals.                 *)
IsDue(t) ==
  thread[t].kind = "work" \/ (thread[t].kind = "event" /\ IsTold(thread[t].fence, thread[t].value))
CallsReturn == \A t \in Threads : IsDue(t) ~> thread[t] = Running

=============================================================================
