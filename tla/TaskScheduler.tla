--------------------------- MODULE TaskScheduler ---------------------------
(***************************************************************************)
(* dxmt::task_scheduler: worker threads that compile shaders and           *)
(* pipelines. A task that needs another task's result gives up its worker  *)
(* and is registered as the continuation of that task.                     *)
(*                                                                         *)
(* deps_mutex_ is held for one step each time; worker_mutex_ too, except   *)
(* that a worker holds it from testing its predicate until it sleeps: the  *)
(* destructor changes what was tested without taking the mutex.            *)
(***************************************************************************)
EXTENDS Integers, Sequences, FiniteSets

CONSTANTS
  Tasks,
  DependsOn,      \* the tasks whose result a task asks for, in this order
  Workers,        \* max_threads of them at most
  InitialThreads, \* how many the constructor starts
  None

ASSUME NoneAssumption == None \notin Tasks
ASSUME DependsOnAssumption == DependsOn \in [Tasks -> Seq(Tasks)]
ASSUME ThreadsAssumption ==
  IsFiniteSet(Workers) /\ InitialThreads \in 1 .. Cardinality(Workers)

VARIABLES
  task_queue, task_continuation_queue,
  task_continuation,   \* pairs of a task and one that waits for it
  done,                \* tasks whose ready_ is set
  running,             \* the counter of workers with a task
  worker,              \* of each worker: see WorkerRecord
  destructor,          \* how far the destructor is
  slept_late           \* has a worker gone to sleep after its notify_all?

scheduler == <<task_queue, task_continuation_queue, task_continuation, done,
               running, worker, destructor, slept_late>>

WorkerPcs == {"unstarted", "loop", "take", "falling_asleep", "asleep", "count",
              "run", "finish", "push", "notify", "stop", "exited"}

WorkerRecord ==
  [pc : WorkerPcs,
   task : Tasks \union {None},
   continuation : Tasks \union {None},   \* what run_task returned
   buffer : SUBSET Tasks]                \* continuation_buffer

SchedulerInit ==
  /\ task_queue = <<>> /\ task_continuation_queue = <<>>
  /\ task_continuation = {} /\ done = {}
  /\ running = 0
  /\ \E started \in SUBSET Workers :
       /\ Cardinality(started) = InitialThreads
       /\ worker = [w \in Workers |->
            [pc |-> IF w \in started THEN "loop" ELSE "unstarted",
             task |-> None, continuation |-> None, buffer |-> {}]]
  /\ destructor = "none"
  /\ slept_late = FALSE

threads == Cardinality({w \in Workers : worker[w].pc /= "unstarted"})

WorkerMutexFree == \A w \in Workers : worker[w].pc /= "falling_asleep"

Asleep == {w \in Workers : worker[w].pc = "asleep"}

Destroyed == destructor \in {"stored", "joining", "joined"}

At(w, pc) == worker[w].pc = pc
GoTo(w, pc) == worker' = [worker EXCEPT ![w].pc = pc]

-----------------------------------------------------------------------------
(* submit, for callers. With all threads busy it starts another one, which *)
(* notify_one cannot be meant for: that one has not slept yet.             *)

AllBusy == running = threads /\ threads < Cardinality(Workers)

FaultNotifyNobody(workers) == worker' = workers
NotifyOne(workers) ==
  IF Asleep = {} THEN worker' = workers
  ELSE \E w \in Asleep : worker' = [workers EXCEPT ![w].pc = "take"]

Submit(task) ==
  /\ WorkerMutexFree
  /\ task_queue' = Append(task_queue, task)
  /\ IF AllBusy
       THEN \E w \in Workers : At(w, "unstarted")
              /\ NotifyOne([worker EXCEPT ![w].pc = "loop"])
       ELSE NotifyOne(worker)
  /\ UNCHANGED <<task_continuation_queue, task_continuation, done, running,
                 destructor, slept_late>>

-----------------------------------------------------------------------------
(* worker_func.                                                            *)

CheckDestroyed(w) ==
  /\ At(w, "loop")
  /\ GoTo(w, IF Destroyed THEN "exited" ELSE "take")
  /\ UNCHANGED <<task_queue, task_continuation_queue, task_continuation, done,
                 running, destructor, slept_late>>

NothingQueued == task_queue = <<>> /\ task_continuation_queue = <<>>

(* Both queues are empty: the predicate, and what follows if it holds. *)
FindNothing(w) ==
  /\ At(w, "take")
  /\ WorkerMutexFree
  /\ NothingQueued
  /\ GoTo(w, IF Destroyed THEN "exited" ELSE "falling_asleep")
  /\ UNCHANGED <<task_queue, task_continuation_queue, task_continuation, done,
                 running, destructor, slept_late>>

FallAsleep(w) ==
  /\ At(w, "falling_asleep")
  /\ GoTo(w, "asleep")
  /\ slept_late' = (slept_late \/ destructor = "joining")
  /\ UNCHANGED <<task_queue, task_continuation_queue, task_continuation, done,
                 running, destructor>>

(* A condition variable may wake a thread for no reason. *)
WakeSpuriously(w) ==
  /\ At(w, "asleep")
  /\ GoTo(w, "take")
  /\ UNCHANGED <<task_queue, task_continuation_queue, task_continuation, done,
                 running, destructor, slept_late>>

Take(w) ==
  LET continues == task_continuation_queue /= <<>>
      from == IF continues THEN task_continuation_queue ELSE task_queue
  IN
  /\ At(w, "take")
  /\ WorkerMutexFree
  /\ ~NothingQueued
  /\ worker' = [worker EXCEPT ![w].pc = "count", ![w].task = Head(from)]
  /\ IF continues
       THEN task_continuation_queue' = Tail(from) /\ UNCHANGED task_queue
       ELSE task_queue' = Tail(from) /\ UNCHANGED task_continuation_queue
  /\ UNCHANGED <<task_continuation, done, running, destructor, slept_late>>

StartRunning(w) ==
  /\ At(w, "count")
  /\ running' = running + 1
  /\ GoTo(w, "run")
  /\ UNCHANGED <<task_queue, task_continuation_queue, task_continuation, done,
                 destructor, slept_late>>

(* run_task returns the first dependency that is not ready, or the task. *)
Missing(task) == {i \in DOMAIN DependsOn[task] : DependsOn[task][i] \notin done}

FirstMissing(task) ==
  DependsOn[task][CHOOSE i \in Missing(task) : \A j \in Missing(task) : i <= j]

RunTask(w) ==
  LET task == worker[w].task IN
  /\ At(w, "run")
  /\ worker' = [worker EXCEPT ![w].pc = "finish", ![w].continuation =
       IF Missing(task) = {} THEN task ELSE FirstMissing(task)]
  /\ UNCHANGED <<task_queue, task_continuation_queue, task_continuation, done,
                 running, destructor, slept_late>>

FaultKeepsContinuations(task) == task_continuation
WithoutContinuationsOf(task) ==
  {pair \in task_continuation : pair[1] /= task}

(* The task is finished: its continuations leave the map, and it is done. *)
SetDone(w) ==
  LET task == worker[w].task IN
  /\ At(w, "finish")
  /\ worker[w].continuation = task
  /\ worker' = [worker EXCEPT ![w].pc = "push", ![w].task = None,
       ![w].continuation = None,
       ![w].buffer = {pair[2] : pair \in {x \in task_continuation : x[1] = task}}]
  /\ task_continuation' = WithoutContinuationsOf(task)
  /\ done' = done \union {task}
  /\ UNCHANGED <<task_queue, task_continuation_queue, running, destructor,
                 slept_late>>

(* The tasks of a set in some order: that of the multimap is unspecified. *)
Orders(tasks) ==
  {s \in [1 .. Cardinality(tasks) -> tasks] : \A t \in tasks : \E i \in DOMAIN s : s[i] = t}

PushContinuations(w) ==
  /\ At(w, "push")
  /\ WorkerMutexFree
  /\ \E s \in Orders(worker[w].buffer) :
       task_continuation_queue' = task_continuation_queue \o s
  /\ worker' = [worker EXCEPT ![w].pc = "notify", ![w].buffer = {}]
  /\ UNCHANGED <<task_queue, task_continuation, done, running, destructor,
                 slept_late>>

FaultNobodyWakes(workers) == workers
AllAwake(workers) ==
  [x \in Workers |->
     IF x \in Asleep THEN [workers[x] EXCEPT !.pc = "take"] ELSE workers[x]]

NotifyAll(w) ==
  /\ At(w, "notify")
  /\ worker' = AllAwake([worker EXCEPT ![w].pc = "stop"])
  /\ UNCHANGED <<task_queue, task_continuation_queue, task_continuation, done,
                 running, destructor, slept_late>>

(* The dependency is done by now, or the task waits for it. *)
FaultAlwaysWaits(task) == FALSE
IsDone(task) == task \in done

RegisterContinuation(w) ==
  LET dependency == worker[w].continuation IN
  /\ At(w, "finish")
  /\ dependency /= worker[w].task
  /\ IF IsDone(dependency)
       THEN /\ worker' = [worker EXCEPT ![w].pc = "run", ![w].continuation = None]
            /\ UNCHANGED task_continuation
       ELSE /\ worker' = [worker EXCEPT ![w].pc = "stop", ![w].task = None,
                 ![w].continuation = None]
            /\ task_continuation' =
                 task_continuation \union {<<dependency, worker[w].task>>}
  /\ UNCHANGED <<task_queue, task_continuation_queue, done, running, destructor,
                 slept_late>>

StopRunning(w) ==
  /\ At(w, "stop")
  /\ running' = running - 1
  /\ GoTo(w, "loop")
  /\ UNCHANGED <<task_queue, task_continuation_queue, task_continuation, done,
                 destructor, slept_late>>

-----------------------------------------------------------------------------
(* The destructor.                                                         *)

StoreDestroyed ==
  /\ destructor = "none"
  /\ destructor' = "stored"
  /\ UNCHANGED <<task_queue, task_continuation_queue, task_continuation, done,
                 running, worker, slept_late>>

NotifyDestroyed ==
  /\ destructor = "stored"
  /\ worker' = AllAwake(worker)
  /\ destructor' = "joining"
  /\ UNCHANGED <<task_queue, task_continuation_queue, task_continuation, done,
                 running, slept_late>>

Join ==
  /\ destructor = "joining"
  /\ \A w \in Workers : worker[w].pc \in {"unstarted", "exited"}
  /\ destructor' = "joined"
  /\ UNCHANGED <<task_queue, task_continuation_queue, task_continuation, done,
                 running, worker, slept_late>>

-----------------------------------------------------------------------------
WorkerStep(w) ==
  \/ CheckDestroyed(w) \/ FindNothing(w) \/ FallAsleep(w) \/ Take(w)
  \/ StartRunning(w) \/ RunTask(w) \/ SetDone(w) \/ PushContinuations(w)
  \/ NotifyAll(w) \/ RegisterContinuation(w) \/ StopRunning(w)

DestructorStep == NotifyDestroyed \/ Join

SchedulerTypeOK ==
  /\ task_queue \in Seq(Tasks) /\ task_continuation_queue \in Seq(Tasks)
  /\ task_continuation \subseteq Tasks \X Tasks
  /\ done \subseteq Tasks
  /\ running \in 0 .. Cardinality(Workers)
  /\ worker \in [Workers -> WorkerRecord]
  /\ destructor \in {"none", "stored", "joining", "joined"}
  /\ slept_late \in BOOLEAN

=============================================================================
