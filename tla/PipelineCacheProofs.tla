------------------------ MODULE PipelineCacheProofs ------------------------
(***************************************************************************)
(* OneHolder, and with one kind of pipeline NoHalfCreatedShader and        *)
(* NoStrandedContinuation, for any tasks, workers, threads and requests.   *)
(*                                                                         *)
(* No part of the scheduler holds a task twice, no two parts hold the      *)
(* same, and one holds it from when it is submitted until it is done       *)
(* (HolderInv): each step of a worker takes a task from one part and puts  *)
(* it into another. A task is submitted once because a pipeline is         *)
(* constructed under the mutex of its kind and a variant by whoever has    *)
(* inserted it. With one mutex, who looks up a variant finds it submitted, *)
(* so that a pipeline is submitted after its shaders and waits only for a  *)
(* task that is on its way (ShaderInv).                                    *)
(***************************************************************************)
EXTENDS PipelineCacheInv, FiniteSetTheorems, WellFoundedInduction, TLAPS

-----------------------------------------------------------------------------
(* Queues of which each task is a member once.                             *)

LEMMA Appended ==
  ASSUME NEW q \in Seq(Tasks), NEW t \in Tasks
  PROVE  /\ Append(q, t) \in Seq(Tasks)
         /\ \A u : In(u, Append(q, t)) <=> In(u, q) \/ u = t
         /\ Distinct(q) /\ ~In(t, q) => Distinct(Append(q, t))
<1> DEFINE r == Append(q, t)
<1>1. /\ r \in Seq(Tasks) /\ DOMAIN r = 1 .. Len(q) + 1
      /\ \A i \in 1 .. Len(q) : r[i] = q[i]
      /\ r[Len(q) + 1] = t /\ Len(q) \in Nat /\ DOMAIN q = 1 .. Len(q)
  OBVIOUS
<1> HIDE DEF r
<1>2. \A i \in 1 .. Len(q) + 1 : i = Len(q) + 1 \/ i \in 1 .. Len(q)
  BY <1>1
<1>3. \A u : In(u, r) <=> In(u, q) \/ u = t
  <2> TAKE u
  <2>1. Len(q) + 1 \in DOMAIN r /\ \A i \in DOMAIN q : i \in DOMAIN r
    BY <1>1
  <2> QED
    BY <1>1, <1>2, <2>1 DEF In
<1>4. Distinct(q) /\ ~In(t, q) => Distinct(r)
  BY <1>1, <1>2 DEF Distinct, In
<1> QED
  BY <1>1, <1>3, <1>4 DEF r

LEMMA HeadTaken ==
  ASSUME NEW q \in Seq(Tasks), q # <<>>, Distinct(q)
  PROVE  /\ Tail(q) \in Seq(Tasks) /\ Head(q) \in Tasks /\ In(Head(q), q)
         /\ \A u : In(u, Tail(q)) <=> In(u, q) /\ u # Head(q)
         /\ Distinct(Tail(q))
<1> DEFINE r == Tail(q)
<1>1. /\ r \in Seq(Tasks) /\ DOMAIN r = 1 .. Len(q) - 1
      /\ \A i \in 1 .. Len(q) - 1 : r[i] = q[i + 1]
      /\ Head(q) = q[1] /\ Len(q) \in Nat \ {0} /\ DOMAIN q = 1 .. Len(q)
      /\ Head(q) \in Tasks
  OBVIOUS
<1> HIDE DEF r
<1>2. \A u : In(u, r) <=> In(u, q) /\ u # Head(q)
  <2> TAKE u
  <2>1. ASSUME In(u, r) PROVE In(u, q) /\ u # Head(q)
    <3>1. PICK i \in 1 .. Len(q) - 1 : r[i] = u
      BY <1>1, <2>1 DEF In
    <3>2. i + 1 \in DOMAIN q /\ 1 \in DOMAIN q /\ i + 1 # 1 /\ q[i + 1] = u
      BY <1>1, <3>1
    <3> QED
      BY <1>1, <3>2 DEF In, Distinct
  <2>2. ASSUME In(u, q), u # Head(q) PROVE In(u, r)
    <3>1. PICK i \in 1 .. Len(q) : q[i] = u
      BY <1>1, <2>2 DEF In
    <3>2. i - 1 \in 1 .. Len(q) - 1 /\ i = (i - 1) + 1
      BY <1>1, <2>2, <3>1
    <3>3. r[i - 1] = u
      BY <1>1, <3>1, <3>2
    <3> QED
      BY <1>1, <3>2, <3>3 DEF In
  <2> QED
    BY <2>1, <2>2
<1>3. Distinct(r)
  <2> SUFFICES ASSUME NEW i \in 1 .. Len(q) - 1, NEW j \in 1 .. Len(q) - 1, r[i] = r[j]
               PROVE  i = j
    BY <1>1 DEF Distinct
  <2>1. i + 1 \in DOMAIN q /\ j + 1 \in DOMAIN q /\ q[i + 1] = q[j + 1]
    BY <1>1
  <2>2. i + 1 = j + 1
    BY <2>1 DEF Distinct
  <2> QED
    BY <2>2, <1>1
<1> QED
  <2>1. In(Head(q), q)
    BY <1>1 DEF In
  <2> QED
    BY <1>1, <1>2, <1>3, <2>1 DEF r

LEMMA Joined ==
  ASSUME NEW q \in Seq(Tasks), NEW s \in Seq(Tasks), Distinct(q), Distinct(s),
         \A u : ~(In(u, q) /\ In(u, s))
  PROVE  /\ q \o s \in Seq(Tasks)
         /\ \A u : In(u, q \o s) <=> In(u, q) \/ In(u, s)
         /\ Distinct(q \o s)
<1> DEFINE r == q \o s
<1>1. /\ r \in Seq(Tasks) /\ DOMAIN r = 1 .. Len(q) + Len(s)
      /\ \A i \in 1 .. Len(q) : r[i] = q[i]
      /\ \A i \in 1 .. Len(q) + Len(s) : i > Len(q) => r[i] = s[i - Len(q)]
      /\ Len(q) \in Nat /\ DOMAIN q = 1 .. Len(q)
      /\ Len(s) \in Nat /\ DOMAIN s = 1 .. Len(s)
  OBVIOUS
<1> HIDE DEF r
<1>2. \A i \in DOMAIN r : \/ i \in DOMAIN q /\ r[i] = q[i]
                          \/ i > Len(q) /\ i - Len(q) \in DOMAIN s /\ r[i] = s[i - Len(q)]
  BY <1>1
<1>3. \A u : In(u, r) <=> In(u, q) \/ In(u, s)
  <2> TAKE u
  <2>1. In(u, q) => In(u, r)
    BY <1>1 DEF In
  <2>2. ASSUME In(u, s) PROVE In(u, r)
    <3>1. PICK i \in 1 .. Len(s) : s[i] = u
      BY <1>1, <2>2 DEF In
    <3>2. /\ i + Len(q) \in 1 .. Len(q) + Len(s)
          /\ i + Len(q) > Len(q) /\ (i + Len(q)) - Len(q) = i
      BY <1>1
    <3>3. r[i + Len(q)] = u
      BY <1>1, <3>1, <3>2
    <3> QED
      BY <1>1, <3>2, <3>3 DEF In
  <2>3. In(u, r) => In(u, q) \/ In(u, s)
    BY <1>2 DEF In
  <2> QED
    BY <2>1, <2>2, <2>3
<1>4. Distinct(r)
  <2> SUFFICES ASSUME NEW i \in DOMAIN r, NEW j \in DOMAIN r, r[i] = r[j] PROVE i = j
    BY DEF Distinct
  <2>1. CASE i \in DOMAIN q /\ r[i] = q[i] /\ j \in DOMAIN q /\ r[j] = q[j]
    BY <2>1 DEF Distinct
  <2>2. CASE /\ i > Len(q) /\ i - Len(q) \in DOMAIN s /\ r[i] = s[i - Len(q)]
             /\ j > Len(q) /\ j - Len(q) \in DOMAIN s /\ r[j] = s[j - Len(q)]
    <3>1. i - Len(q) = j - Len(q)
      BY <2>2 DEF Distinct
    <3> QED
      BY <1>1, <3>1
  <2>3. ~(i \in DOMAIN q /\ r[i] = q[i] /\ j - Len(q) \in DOMAIN s /\ r[j] = s[j - Len(q)])
    BY DEF In
  <2>4. ~(j \in DOMAIN q /\ r[j] = q[j] /\ i - Len(q) \in DOMAIN s /\ r[i] = s[i - Len(q)])
    BY DEF In
  <2> QED
    BY <1>2, <2>1, <2>2, <2>3, <2>4
<1> QED
  BY <1>1, <1>3, <1>4 DEF r

(* A buffer of continuations in some order.                                *)
LEMMA Ordered ==
  ASSUME NEW tasks \in SUBSET Tasks, IsFiniteSet(tasks), NEW s \in Orders(tasks)
  PROVE  s \in Seq(Tasks) /\ Distinct(s) /\ \A u : In(u, s) <=> u \in tasks
<1> DEFINE n == Cardinality(tasks)
<1>1. n \in Nat
  BY FS_CardinalityType
<1>2. s \in [1 .. n -> tasks] /\ \A t \in tasks : \E i \in DOMAIN s : s[i] = t
  BY DEF Orders
<1>3. IsFiniteSet(1 .. n) /\ Cardinality(1 .. n) = n
  BY <1>1, FS_Interval
<1> HIDE DEF n
<1>4. s \in Surjection(1 .. n, tasks)
  BY <1>2 DEF Surjection
<1>5. s \in Injection(1 .. n, tasks)
  BY <1>3, <1>4, FS_SurjSameCardinalityImpliesInj DEF n
<1>6. Distinct(s)
  BY <1>2, <1>5 DEF Distinct, Injection, IsInjective
<1>7. s \in Seq(Tasks)
  BY <1>1, <1>2
<1>8. \A u : In(u, s) <=> u \in tasks
  BY <1>2 DEF In
<1> QED
  BY <1>6, <1>7, <1>8

-----------------------------------------------------------------------------
(* Steps that leave every task where it is, and every task as submitted.   *)

Resubmits == \A t \in Tasks : Submitted(t)' <=> Submitted(t)

LEMMA QuietKeeps ==
  ASSUME SchedulerTypes, NoRepeats, Places, Resubmits,
         UNCHANGED <<task_queue, task_continuation_queue, task_continuation, done>>,
         worker' \in [Workers -> WorkerRecord],
         \A w \in Workers : /\ worker'[w].task = worker[w].task
                            /\ worker'[w].buffer = worker[w].buffer
  PROVE  SchedulerTypes' /\ NoRepeats' /\ Places'
<1>1. SchedulerTypes'
  BY DEF SchedulerTypes
<1>2. NoRepeats'
  BY DEF NoRepeats, Distinct
<1>3. ASSUME NEW t \in Tasks PROVE OnePlace(t)' /\ HeldUntilDone(t)'
  <2>1. OnePlace(t) /\ HeldUntilDone(t) /\ (Submitted(t)' <=> Submitted(t))
    BY DEF Places, Resubmits
  <2>2. /\ In(t, task_queue)' <=> In(t, task_queue)
        /\ In(t, task_continuation_queue)' <=> In(t, task_continuation_queue)
        /\ Waits(t)' <=> Waits(t)
        /\ Runs(t)' <=> Runs(t)
        /\ Buffered(t)' <=> Buffered(t)
    BY DEF In, Waits, Runs, Buffered
  <2> QED
    BY <2>1, <2>2 DEF OnePlace, HeldUntilDone, Held
<1> QED
  BY <1>1, <1>2, <1>3 DEF Places

(* A notification changes nothing but where a worker goes on.              *)
Woken(workers) ==
  /\ worker' \in [Workers -> WorkerRecord]
  /\ \A w \in Workers :
       /\ worker'[w].task = workers[w].task
       /\ worker'[w].buffer = workers[w].buffer
       /\ worker'[w].continuation = workers[w].continuation
       /\ \/ worker'[w].pc = workers[w].pc
          \/ worker[w].pc = "asleep" /\ worker'[w].pc = "take"

LEMMA OneWoken ==
  ASSUME SchedulerTypes, NEW workers \in [Workers -> WorkerRecord], NotifyOne(workers)
  PROVE  Woken(workers)
BY DEF NotifyOne, Woken, Asleep, WorkerRecord, WorkerPcs

LEMMA AllWoken ==
  ASSUME NEW workers \in [Workers -> WorkerRecord], worker' = AllAwake(workers)
  PROVE  Woken(workers)
BY DEF AllAwake, Woken, Asleep, WorkerRecord, WorkerPcs

(* Submitting a task that was not submitted puts it into the queue.        *)
LEMMA SubmitEffect ==
  ASSUME SchedulerTypes, WorkersHold, NEW t \in Tasks, Submit(t)
  PROVE  /\ task_queue' = Append(task_queue, t)
         /\ UNCHANGED <<task_continuation_queue, task_continuation, done>>
         /\ worker' \in [Workers -> WorkerRecord]
         /\ \A w \in Workers : /\ worker'[w].task = worker[w].task
                               /\ worker'[w].buffer = worker[w].buffer
         /\ \A w \in Workers : worker'[w].pc = "finish" =>
              worker[w].pc = "finish" /\ worker'[w].continuation = worker[w].continuation
         /\ WorkersHold'
<1>1. /\ task_queue' = Append(task_queue, t)
      /\ UNCHANGED <<task_continuation_queue, task_continuation, done>>
  BY DEF Submit
<1>2. worker \in [Workers -> WorkerRecord]
  BY DEF SchedulerTypes
<1>3. \/ Woken(worker)
      \/ \E v \in Workers : At(v, "unstarted") /\ Woken([worker EXCEPT ![v].pc = "loop"])
  <2>1. CASE ~AllBusy
    BY <1>2, <2>1, OneWoken DEF Submit
  <2>2. CASE AllBusy
    <3>1. PICK v \in Workers : At(v, "unstarted") /\ NotifyOne([worker EXCEPT ![v].pc = "loop"])
      BY <2>2 DEF Submit
    <3>2. [worker EXCEPT ![v].pc = "loop"] \in [Workers -> WorkerRecord]
      BY <1>2 DEF WorkerRecord, WorkerPcs
    <3> QED
      BY <3>1, <3>2, OneWoken
  <2> QED
    BY <2>1, <2>2
<1>4. /\ worker' \in [Workers -> WorkerRecord]
      /\ \A w \in Workers :
           /\ worker'[w].task = worker[w].task
           /\ worker'[w].buffer = worker[w].buffer
           /\ worker'[w].continuation = worker[w].continuation
           /\ \/ worker'[w].pc = worker[w].pc
              \/ /\ worker[w].pc \in {"asleep", "unstarted"}
                 /\ worker'[w].pc \in {"take", "loop"}
  <2>1. CASE Woken(worker)
    BY <2>1 DEF Woken
  <2>2. ASSUME NEW v \in Workers, At(v, "unstarted"), Woken([worker EXCEPT ![v].pc = "loop"])
        PROVE  <1>4
    BY <1>2, <2>2 DEF Woken, At, WorkerRecord
  <2> QED
    BY <1>3, <2>1, <2>2
<1>5. WorkersHold'
  BY <1>4 DEF WorkersHold, WorkerHolds
<1> QED
  BY <1>1, <1>4, <1>5

LEMMA SubmitKeeps ==
  ASSUME SchedulerTypes, WorkersHold, NoRepeats, Places, NEW t \in Tasks, Submit(t),
         ~Submitted(t),
         \A u \in Tasks : Submitted(u)' <=> Submitted(u) \/ u = t
  PROVE  SchedulerTypes' /\ WorkersHold' /\ NoRepeats' /\ Places'
<1>1. /\ task_queue' = Append(task_queue, t)
      /\ UNCHANGED <<task_continuation_queue, task_continuation, done>>
      /\ worker' \in [Workers -> WorkerRecord]
      /\ \A w \in Workers : /\ worker'[w].task = worker[w].task
                            /\ worker'[w].buffer = worker[w].buffer
      /\ WorkersHold'
  BY SubmitEffect
<1>2. ~Held(t) /\ t \notin done
  BY DEF Places, HeldUntilDone
<1>3. /\ task_queue' \in Seq(Tasks)
      /\ \A u : In(u, task_queue)' <=> In(u, task_queue) \/ u = t
      /\ Distinct(task_queue)'
  <2>1. task_queue \in Seq(Tasks) /\ Distinct(task_queue) /\ ~In(t, task_queue)
    BY <1>2 DEF SchedulerTypes, NoRepeats, Held
  <2>2. /\ Append(task_queue, t) \in Seq(Tasks)
        /\ \A u : In(u, Append(task_queue, t)) <=> In(u, task_queue) \/ u = t
        /\ Distinct(Append(task_queue, t))
    BY <2>1, Appended
  <2> QED
    BY <1>1, <2>2 DEF In, Distinct
<1>4. SchedulerTypes'
  BY <1>1, <1>3 DEF SchedulerTypes
<1>5. NoRepeats'
  BY <1>1, <1>3 DEF NoRepeats, Distinct
<1>6. ASSUME NEW u \in Tasks PROVE OnePlace(u)' /\ HeldUntilDone(u)'
  <2>1. OnePlace(u) /\ HeldUntilDone(u) /\ (Submitted(u)' <=> Submitted(u) \/ u = t)
    BY DEF Places
  <2>2. /\ In(u, task_queue)' <=> In(u, task_queue) \/ u = t
        /\ In(u, task_continuation_queue)' <=> In(u, task_continuation_queue)
        /\ Waits(u)' <=> Waits(u)
        /\ Runs(u)' <=> Runs(u)
        /\ Buffered(u)' <=> Buffered(u)
        /\ done' = done
    BY <1>1, <1>3 DEF In, Waits, Runs, Buffered
  <2> QED
    BY <1>2, <2>1, <2>2 DEF OnePlace, HeldUntilDone, Held
<1> QED
  BY <1>1, <1>4, <1>5, <1>6 DEF Places

-----------------------------------------------------------------------------
(* The steps of a worker.                                                  *)

SchedulerInv == SchedulerTypes /\ WorkersHold /\ NoRepeats /\ Places

LEMMA CacheKeeps ==
  ASSUME UNCHANGED cache
  PROVE  Resubmits /\ (CacheTypes => CacheTypes') /\ (RequestersAre => RequestersAre')
BY DEF cache, Resubmits, Submitted, NextDependency, CacheTypes, RequestersAre, RequesterIs,
       OneCreator, Constructing, Creating

(* run_task returns a task: the one it was given, or a dependency.         *)
LeastOf(T) == CHOOSE i \in T : \A j \in T : i <= j

LEMMA LeastMember ==
  ASSUME NEW T, T \subseteq Nat, T # {}
  PROVE  LeastOf(T) \in T
<1>1. PICK x \in T : \A y \in T : ~(<<y, x>> \in OpToRel(<, Nat))
  BY NatLessThanWellFounded, WFMin
<1>2. \A y \in T : ~(y < x)
  BY <1>1 DEF OpToRel
<1>3. \E z \in T : \A y \in T : z <= y
  BY <1>2
<1> QED
  BY <1>3, Zenon DEF LeastOf

LEMMA MissingIsDependency ==
  ASSUME NEW t \in Tasks, Missing(t) # {}
  PROVE  \E i \in DOMAIN DependsOn[t] :
           FirstMissing(t) = DependsOn[t][i] /\ FirstMissing(t) \in Tasks
<1>1. DependsOn[t] \in Seq(Tasks) /\ Missing(t) \subseteq DOMAIN DependsOn[t]
  BY DependsOnAssumption DEF Missing
<1>2. Missing(t) \subseteq Nat
  BY <1>1
<1>3. LeastOf(Missing(t)) \in Missing(t)
  BY <1>2, LeastMember
<1>4. FirstMissing(t) = DependsOn[t][LeastOf(Missing(t))]
  BY DEF FirstMissing, LeastOf
<1> HIDE DEF FirstMissing, LeastOf
<1> QED
  BY <1>1, <1>3, <1>4

(* Steps that only move a worker on.                                       *)
MovesOn(w) ==
  \/ CheckDestroyed(w) \/ FindNothing(w) \/ FallAsleep(w) \/ WakeSpuriously(w)
  \/ StartRunning(w) \/ RunTask(w) \/ NotifyAll(w) \/ StopRunning(w)

LEMMA MovesOnEffect ==
  ASSUME SchedulerTypes, WorkersHold, NEW w \in Workers, MovesOn(w)
  PROVE  /\ UNCHANGED <<task_queue, task_continuation_queue, task_continuation, done>>
         /\ worker' \in [Workers -> WorkerRecord]
         /\ \A v \in Workers : /\ worker'[v].task = worker[v].task
                               /\ worker'[v].buffer = worker[v].buffer
         /\ WorkersHold'
<1> USE DEF At, GoTo
<1>1. /\ UNCHANGED <<task_queue, task_continuation_queue, task_continuation, done>>
      /\ worker \in [Workers -> WorkerRecord]
  BY DEF MovesOn, CheckDestroyed, FindNothing, FallAsleep, WakeSpuriously, StartRunning,
         RunTask, NotifyAll, StopRunning, SchedulerTypes
<1>2. CASE \E pc \in WorkerPcs : worker' = [worker EXCEPT ![w].pc = pc]
                 /\ (pc \in {"count", "run", "finish"} <=> worker[w].pc \in {"count", "run", "finish"})
                 /\ pc # "finish" /\ worker[w].pc # "push"
  <2>1. PICK pc \in WorkerPcs : worker' = [worker EXCEPT ![w].pc = pc]
                 /\ (pc \in {"count", "run", "finish"} <=> worker[w].pc \in {"count", "run", "finish"})
                 /\ pc # "finish" /\ worker[w].pc # "push"
    BY <1>2
  <2>2. worker'[w] = [worker[w] EXCEPT !.pc = pc] /\ worker'[w] \in WorkerRecord
    BY <1>1, <2>1 DEF WorkerRecord
  <2>3. /\ worker' \in [Workers -> WorkerRecord]
        /\ \A v \in Workers : v # w => worker'[v] = worker[v]
    BY <1>1, <2>1, <2>2
  <2>4. WorkersHold'
    BY <1>1, <2>1, <2>2, <2>3 DEF WorkersHold, WorkerHolds, WorkerRecord
  <2> QED
    BY <1>1, <2>2, <2>3, <2>4 DEF WorkerRecord
<1>3. CASE RunTask(w)
  <2> DEFINE c == IF Missing(worker[w].task) = {} THEN worker[w].task
                  ELSE FirstMissing(worker[w].task)
  <2>1. worker' = [worker EXCEPT ![w].pc = "finish", ![w].continuation = c]
    BY <1>3 DEF RunTask
  <2>2. worker[w].pc = "run" /\ worker[w].task \in Tasks
    BY <1>1, <1>3 DEF RunTask, WorkersHold, WorkerHolds, WorkerRecord
  <2>3. c \in Tasks
    BY <2>2, MissingIsDependency
  <2> HIDE DEF c
  <2>4. /\ worker'[w] = [worker[w] EXCEPT !.pc = "finish", !.continuation = c]
        /\ worker'[w] \in WorkerRecord
    BY <1>1, <2>1, <2>3 DEF WorkerRecord, WorkerPcs
  <2>5. /\ worker' \in [Workers -> WorkerRecord]
        /\ \A v \in Workers : v # w => worker'[v] = worker[v]
    BY <1>1, <2>1, <2>4
  <2>6. WorkersHold'
    <3>1. WorkerHolds(w)'
      BY <1>1, <2>2, <2>3, <2>4 DEF WorkersHold, WorkerHolds, WorkerRecord
    <3>2. ASSUME NEW v \in Workers, v # w PROVE WorkerHolds(v)'
      BY <2>5, <3>2 DEF WorkersHold, WorkerHolds
    <3> QED
      BY <3>1, <3>2 DEF WorkersHold
  <2> QED
    BY <1>1, <2>4, <2>5, <2>6 DEF WorkerRecord
<1>4. CASE NotifyAll(w)
  <2> DEFINE workers == [worker EXCEPT ![w].pc = "stop"]
  <2>1. worker[w].pc = "notify" /\ worker' = AllAwake(workers)
    BY <1>4 DEF NotifyAll
  <2>2. workers \in [Workers -> WorkerRecord]
    BY <1>1 DEF WorkerRecord, WorkerPcs
  <2>3. Woken(workers)
    BY <2>1, <2>2, AllWoken
  <2>4. \A v \in Workers :
          /\ workers[v].task = worker[v].task
          /\ workers[v].buffer = worker[v].buffer
          /\ workers[v].continuation = worker[v].continuation
          /\ v # w => workers[v].pc = worker[v].pc
          /\ v = w => workers[v].pc = "stop"
    BY <1>1 DEF WorkerRecord
  <2> HIDE DEF workers
  <2>5. /\ worker' \in [Workers -> WorkerRecord]
        /\ \A v \in Workers : /\ worker'[v].task = worker[v].task
                              /\ worker'[v].buffer = worker[v].buffer
    BY <2>3, <2>4 DEF Woken
  <2>6. WorkersHold'
    <3> SUFFICES ASSUME NEW v \in Workers PROVE WorkerHolds(v)'
      BY DEF WorkersHold
    <3>1. WorkerHolds(v)
      BY DEF WorkersHold
    <3> QED
      BY <2>1, <2>3, <2>4, <3>1 DEF Woken, WorkerHolds
  <2> QED
    BY <1>1, <2>5, <2>6
<1> QED
  BY <1>2, <1>3, <1>4
     DEF MovesOn, CheckDestroyed, FindNothing, FallAsleep, WakeSpuriously, StartRunning,
         StopRunning, WorkerPcs

LEMMA MovesOnKeeps ==
  ASSUME SchedulerInv, Resubmits, NEW w \in Workers, MovesOn(w)
  PROVE  SchedulerInv'
BY MovesOnEffect, QuietKeeps DEF SchedulerInv

(* A worker takes a task out of a queue.                                   *)
LEMMA TakeKeeps ==
  ASSUME SchedulerInv, Resubmits, NEW w \in Workers, Take(w)
  PROVE  SchedulerInv'
<1> USE DEF SchedulerInv
<1> DEFINE from == IF task_continuation_queue # <<>> THEN task_continuation_queue
                   ELSE task_queue
           t == Head(from)
<1>1. /\ worker[w].pc = "take" /\ from # <<>>
      /\ worker' = [worker EXCEPT ![w].pc = "count", ![w].task = t]
      /\ UNCHANGED <<task_continuation, done>>
      /\ \/ from = task_queue /\ task_queue' = Tail(from)
              /\ UNCHANGED task_continuation_queue
         \/ from = task_continuation_queue /\ task_continuation_queue' = Tail(from)
              /\ UNCHANGED task_queue
  BY DEF Take, At, NothingQueued
<1>2. from \in Seq(Tasks) /\ Distinct(from) /\ worker \in [Workers -> WorkerRecord]
  BY DEF SchedulerTypes, NoRepeats
<1> HIDE DEF from
<1>3. /\ Tail(from) \in Seq(Tasks) /\ t \in Tasks /\ In(t, from) /\ Distinct(Tail(from))
      /\ \A u : In(u, Tail(from)) <=> In(u, from) /\ u # t
  BY <1>1, <1>2, HeadTaken
<1> HIDE DEF t
<1>4. /\ worker'[w] = [worker[w] EXCEPT !.pc = "count", !.task = t]
      /\ worker'[w] \in WorkerRecord
  BY <1>1, <1>2, <1>3 DEF WorkerRecord, WorkerPcs
<1>5. /\ worker' \in [Workers -> WorkerRecord]
      /\ \A v \in Workers : v # w => worker'[v] = worker[v]
      /\ worker'[w].task = t /\ worker'[w].buffer = worker[w].buffer
  BY <1>1, <1>2, <1>4 DEF WorkerRecord
<1>6. t # None /\ worker[w].task = None
  BY <1>1, <1>3, NoneAssumption DEF WorkersHold, WorkerHolds
<1>7. OnePlace(t) /\ ~Runs(t)
  BY <1>1, <1>3 DEF Places, OnePlace
<1>8. /\ task_queue' \in Seq(Tasks) /\ task_continuation_queue' \in Seq(Tasks)
      /\ Distinct(task_queue)' /\ Distinct(task_continuation_queue)'
      /\ \A u : u # t =>
           /\ In(u, task_queue') <=> In(u, task_queue)
           /\ In(u, task_continuation_queue') <=> In(u, task_continuation_queue)
      /\ ~(In(t, task_queue') /\ In(t, task_queue))
      /\ ~(In(t, task_continuation_queue') /\ In(t, task_continuation_queue))
      /\ In(t, task_queue') => In(t, task_queue)
      /\ In(t, task_continuation_queue') => In(t, task_continuation_queue)
      /\ In(t, task_queue) \/ In(t, task_continuation_queue)
  <2>1. /\ task_queue \in Seq(Tasks) /\ task_continuation_queue \in Seq(Tasks)
        /\ Distinct(task_queue) /\ Distinct(task_continuation_queue)
    BY DEF SchedulerTypes, NoRepeats
  <2>2. CASE from = task_queue /\ task_queue' = Tail(from) /\ UNCHANGED task_continuation_queue
    <3>1. Distinct(task_queue)' /\ Distinct(task_continuation_queue)'
      BY <1>3, <2>1, <2>2 DEF Distinct
    <3>2. ~In(t, task_continuation_queue)
      BY <1>3, <1>7, <2>2 DEF OnePlace
    <3> QED
      BY <1>3, <2>1, <2>2, <3>1, <3>2
  <2>3. CASE /\ from = task_continuation_queue /\ task_continuation_queue' = Tail(from)
             /\ UNCHANGED task_queue
    <3>1. Distinct(task_queue)' /\ Distinct(task_continuation_queue)'
      BY <1>3, <2>1, <2>3 DEF Distinct
    <3>2. ~In(t, task_queue)
      BY <1>3, <1>7, <2>3 DEF OnePlace
    <3> QED
      BY <1>3, <2>1, <2>3, <3>1, <3>2
  <2> QED
    BY <1>1, <2>2, <2>3
<1>9. SchedulerTypes'
  BY <1>1, <1>5, <1>8 DEF SchedulerTypes
<1>10. WorkersHold'
  BY <1>1, <1>2, <1>4, <1>5, <1>6 DEF WorkersHold, WorkerHolds, WorkerRecord
<1>11. NoRepeats'
  <2>1. \A x, y \in Workers :
          worker'[x].task = worker'[y].task /\ worker'[x].task # None => x = y
    BY <1>5, <1>7 DEF NoRepeats, Runs
  <2>2. \A x, y \in Workers : x # y => worker'[x].buffer \cap worker'[y].buffer = {}
    BY <1>5 DEF NoRepeats
  <2> QED
    BY <1>1, <1>8, <2>1, <2>2 DEF NoRepeats
<1>12. ASSUME NEW u \in Tasks PROVE OnePlace(u)' /\ HeldUntilDone(u)'
  <2>1. OnePlace(u) /\ HeldUntilDone(u) /\ (Submitted(u)' <=> Submitted(u))
    BY DEF Places, Resubmits
  <2>2. /\ Waits(u)' <=> Waits(u)
        /\ Buffered(u)' <=> Buffered(u)
    BY <1>1, <1>5 DEF Waits, Buffered
  <2>3. Runs(u)' <=> Runs(u) \/ u = t
    BY <1>5, <1>6, NoneAssumption DEF Runs
  <2>0. /\ In(u, task_queue)' <=> In(u, task_queue')
        /\ In(u, task_continuation_queue)' <=> In(u, task_continuation_queue')
    BY DEF In
  <2>4. CASE u = t
    BY <1>1, <1>3, <1>7, <1>8, <2>0, <2>1, <2>2, <2>3, <2>4 DEF OnePlace, HeldUntilDone, Held
  <2>5. CASE u # t
    <3>1. /\ In(u, task_queue)' <=> In(u, task_queue)
          /\ In(u, task_continuation_queue)' <=> In(u, task_continuation_queue)
          /\ (Runs(u)' <=> Runs(u)) /\ done' = done
      BY <1>1, <1>8, <2>0, <2>3, <2>5
    <3> QED
      BY <2>1, <2>2, <3>1 DEF OnePlace, HeldUntilDone, Held
  <2> QED
    BY <2>4, <2>5
<1> QED
  BY <1>9, <1>10, <1>11, <1>12 DEF Places

(* A finished task is held no more; its continuations are in the buffer.   *)
LEMMA SetDoneKeeps ==
  ASSUME SchedulerInv, Resubmits, NEW w \in Workers, SetDone(w)
  PROVE  SchedulerInv'
<1> USE DEF SchedulerInv
<1> DEFINE t == worker[w].task
           freed == {pair[2] : pair \in {x \in task_continuation : x[1] = t}}
<1>1. /\ worker[w].pc = "finish"
      /\ worker' = [worker EXCEPT ![w].pc = "push", ![w].task = None,
                                  ![w].continuation = None, ![w].buffer = freed]
      /\ task_continuation' = {x \in task_continuation : x[1] # t}
      /\ done' = done \union {t}
      /\ UNCHANGED <<task_queue, task_continuation_queue>>
  BY DEF SetDone, At, WithoutContinuationsOf
<1>2. /\ worker \in [Workers -> WorkerRecord]
      /\ task_continuation \subseteq Tasks \X Tasks /\ IsFiniteSet(task_continuation)
  BY DEF SchedulerTypes
<1>3. t \in Tasks /\ t # None /\ Runs(t) /\ worker[w].buffer = {}
  BY <1>1, <1>2, NoneAssumption DEF WorkersHold, WorkerHolds, WorkerRecord, Runs
<1>4. OnePlace(t) /\ HeldUntilDone(t)
  BY <1>3 DEF Places
<1>5. freed \in SUBSET Tasks /\ IsFiniteSet(freed)
  <2>1. freed \in SUBSET Tasks
    BY <1>2
  <2> DEFINE pairs == {x \in task_continuation : x[1] = t}
             second == [x \in pairs |-> x[2]]
  <2>2. IsFiniteSet(pairs)
    BY <1>2, FS_Subset
  <2>3. second \in Surjection(pairs, freed)
    BY DEF Surjection
  <2> QED
    BY <2>1, <2>2, <2>3, FS_Surjection
<1>6. \A u : u \in freed <=> \E x \in task_continuation : x[1] = t /\ x[2] = u
  OBVIOUS
<1> HIDE DEF freed
<1>7. /\ worker'[w] = [worker[w] EXCEPT !.pc = "push", !.task = None,
                                        !.continuation = None, !.buffer = freed]
      /\ worker'[w] \in WorkerRecord
  BY <1>1, <1>2, <1>5 DEF WorkerRecord, WorkerPcs
<1>8. /\ worker' \in [Workers -> WorkerRecord]
      /\ \A v \in Workers : v # w => worker'[v] = worker[v]
      /\ worker'[w].task = None /\ worker'[w].buffer = freed
  BY <1>1, <1>2, <1>7 DEF WorkerRecord
<1>9. SchedulerTypes'
  <2>1. IsFiniteSet(task_continuation')
    BY <1>1, <1>2, FS_Subset
  <2> QED
    BY <1>1, <1>3, <1>5, <1>8, <2>1 DEF SchedulerTypes
<1>10. WorkersHold'
  BY <1>1, <1>2, <1>7, <1>8 DEF WorkersHold, WorkerHolds, WorkerRecord
<1>11. \A v \in Workers : worker[v].buffer \cap freed = {}
  <2> SUFFICES ASSUME NEW v \in Workers, NEW u \in worker[v].buffer \cap freed PROVE FALSE
    OBVIOUS
  <2>1. Waits(u) /\ Buffered(u) /\ u \in Tasks
    BY <1>5, <1>6 DEF Waits, Buffered
  <2> QED
    BY <2>1 DEF Places, OnePlace
<1>12. NoRepeats'
  <2>1. \A x, y \in Workers :
          worker'[x].task = worker'[y].task /\ worker'[x].task # None => x = y
    BY <1>8 DEF NoRepeats
  <2>2. \A x, y \in Workers : x # y => worker'[x].buffer \cap worker'[y].buffer = {}
    BY <1>8, <1>11 DEF NoRepeats
  <2>3. \A x, y \in task_continuation' : x[2] = y[2] => x = y
    BY <1>1 DEF NoRepeats
  <2> QED
    BY <1>1, <2>1, <2>2, <2>3 DEF NoRepeats, Distinct
<1>13. ASSUME NEW u \in Tasks PROVE OnePlace(u)' /\ HeldUntilDone(u)'
  <2>1. OnePlace(u) /\ HeldUntilDone(u) /\ (Submitted(u)' <=> Submitted(u))
    BY DEF Places, Resubmits
  <2>2. /\ In(u, task_queue)' <=> In(u, task_queue)
        /\ In(u, task_continuation_queue)' <=> In(u, task_continuation_queue)
    BY <1>1 DEF In
  <2>3. Runs(u)' <=> Runs(u) /\ u # t
    <3>1. u # None
      BY NoneAssumption
    <3>2. \A v \in Workers : worker[v].task = t => v = w
      BY <1>3 DEF NoRepeats
    <3> QED
      BY <1>8, <3>1, <3>2 DEF Runs
  <2>4. Buffered(u)' <=> Buffered(u) \/ u \in freed
    BY <1>3, <1>8 DEF Buffered
  <2>5. Waits(u)' <=> Waits(u) /\ u \notin freed
    <3>1. Waits(u)' <=> \E x \in task_continuation : x[1] # t /\ x[2] = u
      BY <1>1 DEF Waits
    <3>2. \A x, y \in task_continuation : x[2] = y[2] => x = y
      BY DEF NoRepeats
    <3> QED
      BY <1>6, <3>1, <3>2 DEF Waits
  <2>6. u \in freed => Waits(u)
    BY <1>6 DEF Waits
  <2>7. u \in done' <=> u \in done \/ u = t
    BY <1>1
  <2>8. CASE u = t
    BY <1>3, <1>4, <2>1, <2>2, <2>3, <2>4, <2>5, <2>6, <2>7, <2>8
       DEF OnePlace, HeldUntilDone, Held
  <2>9. CASE u # t
    BY <2>1, <2>2, <2>3, <2>4, <2>5, <2>6, <2>7, <2>9 DEF OnePlace, HeldUntilDone, Held
  <2> QED
    BY <2>8, <2>9
<1> QED
  BY <1>9, <1>10, <1>12, <1>13 DEF Places

(* The buffer goes to the end of the queue of continuations.               *)
LEMMA PushKeeps ==
  ASSUME SchedulerInv, Resubmits, NEW w \in Workers, PushContinuations(w)
  PROVE  SchedulerInv'
<1> USE DEF SchedulerInv
<1> DEFINE freed == worker[w].buffer
           q == task_continuation_queue
<1>1. PICK s \in Orders(freed) : q' = q \o s
  BY DEF PushContinuations
<1>2. /\ worker[w].pc = "push"
      /\ worker' = [worker EXCEPT ![w].pc = "notify", ![w].buffer = {}]
      /\ UNCHANGED <<task_queue, task_continuation, done>>
  BY DEF PushContinuations, At
<1>3. /\ worker \in [Workers -> WorkerRecord]
      /\ freed \in SUBSET Tasks /\ IsFiniteSet(freed)
      /\ q \in Seq(Tasks) /\ Distinct(q)
  BY DEF SchedulerTypes, WorkerRecord, NoRepeats
<1>4. s \in Seq(Tasks) /\ Distinct(s) /\ \A u : In(u, s) <=> u \in freed
  BY <1>3, Ordered
<1>5. \A u : ~(In(u, q) /\ In(u, s))
  <2> SUFFICES ASSUME NEW u, In(u, q), In(u, s) PROVE FALSE
    OBVIOUS
  <2>1. u \in Tasks /\ Buffered(u)
    BY <1>3, <1>4 DEF Buffered
  <2> QED
    BY <2>1 DEF Places, OnePlace
<1>6. /\ q' \in Seq(Tasks) /\ Distinct(q')
      /\ \A u : In(u, q') <=> In(u, q) \/ u \in freed
  BY <1>1, <1>3, <1>4, <1>5, Joined
<1> HIDE DEF q, freed
<1>7. /\ worker'[w] = [worker[w] EXCEPT !.pc = "notify", !.buffer = {}]
      /\ worker'[w] \in WorkerRecord
  BY <1>2, <1>3 DEF WorkerRecord, WorkerPcs
<1>8. /\ worker' \in [Workers -> WorkerRecord]
      /\ \A v \in Workers : v # w => worker'[v] = worker[v]
      /\ worker'[w].task = worker[w].task /\ worker'[w].buffer = {}
  BY <1>2, <1>3, <1>7 DEF WorkerRecord
<1>9. SchedulerTypes'
  <2>1. \A v \in Workers : IsFiniteSet(worker'[v].buffer)
    BY <1>8, FS_EmptySet DEF SchedulerTypes
  <2> QED
    BY <1>2, <1>6, <1>8, <2>1 DEF SchedulerTypes, q
<1>10. WorkersHold'
  BY <1>2, <1>3, <1>7, <1>8 DEF WorkersHold, WorkerHolds, WorkerRecord
<1>11. NoRepeats'
  <2>1. \A x, y \in Workers :
          worker'[x].task = worker'[y].task /\ worker'[x].task # None => x = y
    BY <1>8 DEF NoRepeats
  <2>2. \A x, y \in Workers : x # y => worker'[x].buffer \cap worker'[y].buffer = {}
    BY <1>8 DEF NoRepeats
  <2>3. Distinct(task_queue') /\ Distinct(task_continuation_queue')
    BY <1>2, <1>6 DEF NoRepeats, q
  <2> QED
    BY <1>2, <2>1, <2>2, <2>3 DEF NoRepeats, Distinct
<1>12. ASSUME NEW u \in Tasks PROVE OnePlace(u)' /\ HeldUntilDone(u)'
  <2>1. OnePlace(u) /\ HeldUntilDone(u) /\ (Submitted(u)' <=> Submitted(u))
    BY DEF Places, Resubmits
  <2>2. /\ In(u, task_queue)' <=> In(u, task_queue)
        /\ Waits(u)' <=> Waits(u)
        /\ Runs(u)' <=> Runs(u)
        /\ done' = done
    BY <1>2, <1>8 DEF In, Waits, Runs
  <2>3. In(u, task_continuation_queue)' <=> In(u, task_continuation_queue) \/ u \in freed
    BY <1>6 DEF In, q
  <2>4. u \in freed => ~Buffered(u)'
    BY <1>8 DEF Buffered, NoRepeats, freed
  <2>5. Buffered(u) <=> Buffered(u)' \/ u \in freed
    BY <1>8 DEF Buffered, freed
  <2> QED
    BY <2>1, <2>2, <2>3, <2>4, <2>5 DEF OnePlace, HeldUntilDone, Held
<1> QED
  BY <1>9, <1>10, <1>11, <1>12 DEF Places

(* A task whose dependency is not done is registered with it.              *)
LEMMA RegisterKeeps ==
  ASSUME SchedulerInv, Resubmits, NEW w \in Workers, RegisterContinuation(w)
  PROVE  SchedulerInv'
<1> USE DEF SchedulerInv
<1> DEFINE d == worker[w].continuation
           t == worker[w].task
<1>1. /\ worker[w].pc = "finish" /\ d # t
      /\ UNCHANGED <<task_queue, task_continuation_queue, done>>
  BY DEF RegisterContinuation, At
<1>2. /\ worker \in [Workers -> WorkerRecord]
      /\ task_continuation \subseteq Tasks \X Tasks /\ IsFiniteSet(task_continuation)
  BY DEF SchedulerTypes
<1>3. t \in Tasks /\ t # None /\ d \in Tasks /\ worker[w].buffer = {}
  BY <1>1, <1>2 DEF WorkersHold, WorkerHolds, WorkerRecord
<1>4. CASE d \in done
  <2>1. /\ worker' = [worker EXCEPT ![w].pc = "run", ![w].continuation = None]
        /\ UNCHANGED task_continuation
    BY <1>4 DEF RegisterContinuation, IsDone
  <2>2. /\ worker'[w] = [worker[w] EXCEPT !.pc = "run", !.continuation = None]
        /\ worker'[w] \in WorkerRecord
    BY <1>2, <2>1 DEF WorkerRecord, WorkerPcs
  <2>3. /\ worker' \in [Workers -> WorkerRecord]
        /\ \A v \in Workers : v # w => worker'[v] = worker[v]
        /\ worker'[w].task = worker[w].task /\ worker'[w].buffer = worker[w].buffer
    BY <1>2, <2>1, <2>2 DEF WorkerRecord
  <2>4. WorkersHold'
    BY <1>1, <1>2, <2>2, <2>3 DEF WorkersHold, WorkerHolds, WorkerRecord
  <2> QED
    BY <1>1, <2>1, <2>3, <2>4, QuietKeeps
<1>5. CASE d \notin done
  <2>1. /\ worker' = [worker EXCEPT ![w].pc = "stop", ![w].task = None,
                                    ![w].continuation = None]
        /\ task_continuation' = task_continuation \union {<<d, t>>}
    BY <1>5 DEF RegisterContinuation, IsDone
  <2> HIDE DEF d, t
  <2>2. /\ worker'[w] = [worker[w] EXCEPT !.pc = "stop", !.task = None, !.continuation = None]
        /\ worker'[w] \in WorkerRecord
    BY <1>2, <2>1 DEF WorkerRecord, WorkerPcs
  <2>3. /\ worker' \in [Workers -> WorkerRecord]
        /\ \A v \in Workers : v # w => worker'[v] = worker[v]
        /\ worker'[w].task = None /\ worker'[w].buffer = {}
    BY <1>2, <1>3, <2>1, <2>2 DEF WorkerRecord
  <2>4. \A v \in Workers : worker'[v].buffer = worker[v].buffer
    BY <1>3, <2>3
  <2>5. SchedulerTypes'
    <3>1. IsFiniteSet(task_continuation')
      BY <1>2, <2>1, FS_AddElement
    <3> QED
      BY <1>1, <1>3, <2>1, <2>3, <2>4, <3>1 DEF SchedulerTypes
  <2>6. WorkersHold'
    <3>1. WorkerHolds(w)'
      BY <1>1, <1>2, <2>2, <2>3 DEF WorkersHold, WorkerHolds, WorkerRecord
    <3>2. ASSUME NEW v \in Workers, v # w PROVE WorkerHolds(v)'
      BY <2>3, <3>2 DEF WorkersHold, WorkerHolds
    <3> QED
      BY <3>1, <3>2 DEF WorkersHold
  <2>7. Runs(t) /\ OnePlace(t) /\ ~Waits(t)
    BY <1>3 DEF Runs, Places, OnePlace, t
  <2>8. NoRepeats'
    <3>1. \A x, y \in Workers :
            worker'[x].task = worker'[y].task /\ worker'[x].task # None => x = y
      BY <2>3 DEF NoRepeats
    <3>2. \A x, y \in task_continuation' : x[2] = y[2] => x = y
      <4>1. \A x \in task_continuation : x[2] # t
        BY <2>7 DEF Waits
      <4> QED
        BY <2>1, <4>1 DEF NoRepeats
    <3> QED
      BY <1>1, <2>4, <3>1, <3>2 DEF NoRepeats, Distinct
  <2>9. ASSUME NEW u \in Tasks PROVE OnePlace(u)' /\ HeldUntilDone(u)'
    <3>1. OnePlace(u) /\ HeldUntilDone(u) /\ (Submitted(u)' <=> Submitted(u))
      BY DEF Places, Resubmits
    <3>2. /\ In(u, task_queue)' <=> In(u, task_queue)
          /\ In(u, task_continuation_queue)' <=> In(u, task_continuation_queue)
          /\ Buffered(u)' <=> Buffered(u)
          /\ done' = done
      BY <1>1, <2>4 DEF In, Buffered
    <3>3. Waits(u)' <=> Waits(u) \/ u = t
      <4>1. /\ \A x : x \in task_continuation' <=> x \in task_continuation \/ x = <<d, t>>
            /\ <<d, t>>[2] = t
        BY <2>1
      <4> QED
        BY <4>1 DEF Waits
    <3>4. Runs(u)' <=> Runs(u) /\ u # t
      <4>1. u # None
        BY NoneAssumption
      <4>2. \A v \in Workers : worker[v].task = t => v = w
        BY <1>3 DEF NoRepeats, t
      <4> QED
        BY <2>3, <4>1, <4>2 DEF Runs, t
    <3>5. CASE u = t
      BY <2>7, <3>1, <3>2, <3>3, <3>4, <3>5 DEF OnePlace, HeldUntilDone, Held
    <3>6. CASE u # t
      BY <3>1, <3>2, <3>3, <3>4, <3>6 DEF OnePlace, HeldUntilDone, Held
    <3> QED
      BY <3>5, <3>6
  <2> QED
    BY <2>5, <2>6, <2>8, <2>9 DEF Places
<1> QED
  BY <1>4, <1>5

(* The destructor wakes the workers, and joins them.                       *)
LEMMA DestructorKeeps ==
  ASSUME SchedulerInv, Resubmits, DestructorStep \/ StoreDestroyed
  PROVE  SchedulerInv'
<1> USE DEF SchedulerInv
<1>1. UNCHANGED <<task_queue, task_continuation_queue, task_continuation, done>>
  BY DEF DestructorStep, NotifyDestroyed, Join, StoreDestroyed
<1>2. worker \in [Workers -> WorkerRecord]
  BY DEF SchedulerTypes
<1>3. worker' = worker \/ Woken(worker)
  BY <1>2, AllWoken DEF DestructorStep, NotifyDestroyed, Join, StoreDestroyed
<1>4. /\ worker' \in [Workers -> WorkerRecord]
      /\ \A w \in Workers : /\ worker'[w].task = worker[w].task
                            /\ worker'[w].buffer = worker[w].buffer
  BY <1>2, <1>3 DEF Woken
<1>5. WorkersHold'
  BY <1>3 DEF Woken, WorkersHold, WorkerHolds
<1> QED
  BY <1>1, <1>4, <1>5, QuietKeeps

-----------------------------------------------------------------------------
(* The threads that draw.                                                  *)

LEMMA NextIsVariant ==
  ASSUME RequestersAre, NEW r \in Requesters, Constructing(r),
         requester[r].next \in DOMAIN DependsOn[requester[r].pipeline]
  PROVE  NextDependency(r) \in Variants
<1>1. requester[r].pipeline \in Pipelines
  BY DEF RequestersAre, RequesterIs
<1>2. DependsOn[requester[r].pipeline] \in Seq(Variants)
  BY <1>1, VariantsAssumption
<1> QED
  BY <1>2 DEF NextDependency

(* A step of one thread leaves the others where they are.                  *)
Moves(r, to) ==
  /\ to \in RequesterRecord
  /\ requester' = [requester EXCEPT ![r] = to]

LEMMA OthersStay ==
  ASSUME CacheTypes, NEW r \in Requesters, NEW to, Moves(r, to)
  PROVE  /\ requester' \in [Requesters -> RequesterRecord]
         /\ requester'[r] = to
         /\ \A s \in Requesters : s # r =>
              /\ requester'[s] = requester[s]
              /\ NextDependency(s)' = NextDependency(s)
              /\ Constructing(s)' = Constructing(s) /\ Creating(s)' = Creating(s)
<1>1. /\ requester' \in [Requesters -> RequesterRecord]
      /\ requester'[r] = to
      /\ \A s \in Requesters : s # r => requester'[s] = requester[s]
  BY DEF Moves, CacheTypes
<1> QED
  BY <1>1 DEF NextDependency, Constructing, Creating

(* Asking for a pipeline: the mutex of its kind is free.                   *)
LEMMA EntryKeeps ==
  ASSUME CacheTypes, RequestersAre, NEW r \in Requesters, NEW p \in Pipelines,
         GetPipelineEntry(r, p)
  PROVE  CacheTypes' /\ RequestersAre' /\ Resubmits
<1> DEFINE to == [pc |-> IF p \in pipelines THEN "requested" ELSE "get_shader",
                  pipeline |-> p, next |-> 1]
<1>1. /\ requester[r].pc = "idle" /\ MutexFree(Kind[p])
      /\ requester' = [requester EXCEPT ![r] = to]
      /\ UNCHANGED <<pipelines, variants>>
  BY DEF GetPipelineEntry
<1>2. Moves(r, to)
  BY <1>1, PipelinesAssumption DEF Moves, RequesterRecord
<1>3. to.pc \in {"requested", "get_shader"} /\ to.pipeline = p
      /\ (to.pc = "get_shader" => p \notin pipelines)
  OBVIOUS
<1> HIDE DEF to
<1>4. /\ requester' \in [Requesters -> RequesterRecord]
      /\ requester'[r] = to
      /\ \A s \in Requesters : s # r =>
           /\ requester'[s] = requester[s]
           /\ NextDependency(s)' = NextDependency(s)
           /\ Constructing(s)' = Constructing(s) /\ Creating(s)' = Creating(s)
  BY <1>2, OthersStay
<1>5. CacheTypes'
  BY <1>1, <1>4 DEF CacheTypes
<1>6. ~Creating(r)' /\ ~Creating(r)
  BY <1>1, <1>3, <1>4 DEF Creating
<1>7. \A s \in Requesters : RequesterIs(s)'
  <2>1. RequesterIs(r)'
    BY <1>1, <1>3, <1>4, <1>6 DEF RequesterIs, Constructing, Creating
  <2>2. ASSUME NEW s \in Requesters, s # r PROVE RequesterIs(s)'
    BY <1>1, <1>4, <2>2 DEF RequestersAre, RequesterIs
  <2> QED
    BY <2>1, <2>2
<1>8. OneCreator'
  <2>1. \A s \in Requesters : s # r /\ Constructing(s) => Kind[requester[s].pipeline] # Kind[p]
    BY <1>1 DEF MutexFree
  <2>2. requester'[r].pipeline = p
    BY <1>3, <1>4
  <2> QED
    BY <1>4, <1>6, <2>1, <2>2 DEF RequestersAre, OneCreator
<1>9. Resubmits
  BY <1>1, <1>3, <1>4 DEF Resubmits, Submitted
<1> QED
  BY <1>5, <1>7, <1>8, <1>9 DEF RequestersAre

(* Leaving: the draw is encoded, or dropped.                               *)
LEMMA LeaveKeeps ==
  ASSUME CacheTypes, RequestersAre, NEW r \in Requesters, GetPipeline(r) \/ DropDraw(r)
  PROVE  CacheTypes' /\ RequestersAre' /\ Resubmits
<1> DEFINE to == [requester[r] EXCEPT !.pc = "idle"]
<1>1. /\ requester[r].pc = "requested"
      /\ requester' = [requester EXCEPT ![r].pc = "idle"]
      /\ UNCHANGED <<pipelines, variants>>
  BY DEF GetPipeline, DropDraw
<1>2. Moves(r, to)
  BY <1>1 DEF Moves, RequesterRecord, CacheTypes
<1>3. to.pc = "idle"
  BY DEF CacheTypes, RequesterRecord
<1> HIDE DEF to
<1>4. /\ requester' \in [Requesters -> RequesterRecord]
      /\ requester'[r] = to
      /\ \A s \in Requesters : s # r =>
           /\ requester'[s] = requester[s]
           /\ NextDependency(s)' = NextDependency(s)
           /\ Constructing(s)' = Constructing(s) /\ Creating(s)' = Creating(s)
  BY <1>2, OthersStay
<1>5. ~Constructing(r)' /\ ~Creating(r)' /\ ~Creating(r)
  BY <1>1, <1>3, <1>4 DEF Constructing, Creating
<1>6. \A s \in Requesters : RequesterIs(s)'
  <2>1. RequesterIs(r)'
    BY <1>5 DEF RequesterIs, Creating
  <2>2. ASSUME NEW s \in Requesters, s # r PROVE RequesterIs(s)'
    BY <1>1, <1>4, <2>2 DEF RequestersAre, RequesterIs
  <2> QED
    BY <2>1, <2>2
<1>7. OneCreator'
  BY <1>4, <1>5 DEF RequestersAre, OneCreator
<1>8. Resubmits
  BY <1>1, <1>3, <1>4 DEF Resubmits, Submitted
<1> QED
  BY <1>1, <1>4, <1>6, <1>7, <1>8 DEF RequestersAre, CacheTypes

(* Looking a variant up: whoever inserts it is the one that creates it.    *)
LEMMA GetShaderKeeps ==
  ASSUME CacheTypes, RequestersAre, NEW r \in Requesters, GetShader(r)
  PROVE  CacheTypes' /\ RequestersAre' /\ Resubmits
<1> DEFINE v == NextDependency(r)
<1>1. /\ requester[r].pc = "get_shader"
      /\ requester[r].next \in DOMAIN DependsOn[requester[r].pipeline]
      /\ UNCHANGED pipelines
  BY DEF GetShader
<1>2. Constructing(r) /\ ~Creating(r) /\ RequesterIs(r)
  BY <1>1 DEF Constructing, Creating, RequestersAre
<1>3. v \in Variants
  BY <1>1, <1>2, NextIsVariant
<1>4. requester[r] \in RequesterRecord /\ variants \in [Variants -> {"absent", "empty", "created"}]
  BY DEF CacheTypes
<1>5. CASE variants[v] = "absent"
  <2> DEFINE to == [requester[r] EXCEPT !.pc = "create"]
  <2>1. /\ variants' = [variants EXCEPT ![v] = "empty"]
        /\ requester' = [requester EXCEPT ![r].pc = "create"]
    BY <1>5 DEF GetShader
  <2>2. Moves(r, to)
    BY <1>4, <2>1 DEF Moves, RequesterRecord
  <2>3. to.pc = "create" /\ to.pipeline = requester[r].pipeline /\ to.next = requester[r].next
    BY <1>4 DEF RequesterRecord
  <2> HIDE DEF to, v
  <2>4. /\ requester' \in [Requesters -> RequesterRecord]
        /\ requester'[r] = to
        /\ \A s \in Requesters : s # r =>
             /\ requester'[s] = requester[s]
             /\ NextDependency(s)' = NextDependency(s)
             /\ Constructing(s)' = Constructing(s) /\ Creating(s)' = Creating(s)
    BY <2>2, OthersStay
  <2>5. NextDependency(r)' = v /\ Constructing(r)' /\ Creating(r)'
    BY <2>3, <2>4 DEF NextDependency, Constructing, Creating, v
  <2>6. /\ variants' \in [Variants -> {"absent", "empty", "created"}]
        /\ variants'[v] = "empty"
        /\ \A u \in Variants : u # v => variants'[u] = variants[u]
    BY <1>3, <1>4, <2>1
  <2>7. \A s \in Requesters : Creating(s) => NextDependency(s) # v
    BY <1>5 DEF RequestersAre, RequesterIs, Creating
  <2>8. \A s \in Requesters : Creating(s) => NextDependency(s) \in Variants
    BY NextIsVariant DEF RequestersAre, RequesterIs, Creating, Constructing
  <2>9. \A s \in Requesters : RequesterIs(s)'
    <3>1. RequesterIs(r)'
      BY <1>1, <1>2, <2>3, <2>4, <2>5, <2>6 DEF RequesterIs
    <3>2. ASSUME NEW s \in Requesters, s # r PROVE RequesterIs(s)'
      BY <1>1, <2>4, <2>6, <2>7, <2>8, <3>2 DEF RequestersAre, RequesterIs, Creating
    <3> QED
      BY <3>1, <3>2
  <2>10. OneCreator'
    BY <1>2, <2>3, <2>4, <2>5, <2>7 DEF RequestersAre, OneCreator
  <2>11. Resubmits
    <3> SUFFICES ASSUME NEW t \in Tasks PROVE Submitted(t)' <=> Submitted(t)
      BY DEF Resubmits
    <3>1. CASE t \in Pipelines
      BY <1>1, <3>1 DEF Submitted
    <3>2. CASE t = v
      BY <1>3, <1>5, <2>6, <3>2 DEF Submitted, Variants
    <3>3. CASE t \notin Pipelines /\ t # v
      BY <1>1, <2>3, <2>4, <2>6, <3>3 DEF Submitted, Variants
    <3> QED
      BY <3>1, <3>2, <3>3
  <2> QED
    BY <1>1, <2>4, <2>6, <2>9, <2>10, <2>11 DEF RequestersAre, CacheTypes
<1>6. CASE variants[v] # "absent"
  <2> DEFINE to == [requester[r] EXCEPT !.next = @ + 1]
  <2>1. /\ UNCHANGED variants
        /\ requester' = [requester EXCEPT ![r].next = @ + 1]
    BY <1>6 DEF GetShader
  <2>2. Moves(r, to)
    BY <1>4, <2>1 DEF Moves, RequesterRecord
  <2>3. to.pc = "get_shader" /\ to.pipeline = requester[r].pipeline
    BY <1>1, <1>4 DEF RequesterRecord
  <2> HIDE DEF to
  <2>4. /\ requester' \in [Requesters -> RequesterRecord]
        /\ requester'[r] = to
        /\ \A s \in Requesters : s # r =>
             /\ requester'[s] = requester[s]
             /\ NextDependency(s)' = NextDependency(s)
             /\ Constructing(s)' = Constructing(s) /\ Creating(s)' = Creating(s)
    BY <2>2, OthersStay
  <2>5. Constructing(r)' /\ ~Creating(r)'
    BY <2>3, <2>4 DEF Constructing, Creating
  <2>6. \A s \in Requesters : RequesterIs(s)'
    <3>1. RequesterIs(r)'
      BY <1>1, <1>2, <2>3, <2>4, <2>5 DEF RequesterIs
    <3>2. ASSUME NEW s \in Requesters, s # r PROVE RequesterIs(s)'
      BY <1>1, <2>1, <2>4, <3>2 DEF RequestersAre, RequesterIs
    <3> QED
      BY <3>1, <3>2
  <2>7. OneCreator'
    BY <1>2, <2>3, <2>4, <2>5 DEF RequestersAre, OneCreator
  <2>8. Resubmits
    BY <1>1, <2>1, <2>3, <2>4 DEF Resubmits, Submitted
  <2> QED
    BY <1>1, <2>1, <2>4, <2>6, <2>7, <2>8 DEF RequestersAre, CacheTypes
<1> QED
  BY <1>5, <1>6

(* A created variant is not submitted yet.                                 *)
LEMMA CreateKeeps ==
  ASSUME CacheTypes, RequestersAre, NEW r \in Requesters, CreateVariant(r)
  PROVE  CacheTypes' /\ RequestersAre' /\ Resubmits
<1> DEFINE v == NextDependency(r)
           to == [requester[r] EXCEPT !.pc = "submit_shader"]
<1>1. /\ requester[r].pc = "create"
      /\ variants' = [variants EXCEPT ![v] = "created"]
      /\ requester' = [requester EXCEPT ![r].pc = "submit_shader"]
      /\ UNCHANGED pipelines
  BY DEF CreateVariant
<1>2. Constructing(r) /\ Creating(r) /\ RequesterIs(r)
  BY <1>1 DEF Constructing, Creating, RequestersAre
<1>3. v \in Variants /\ variants[v] = "empty"
  BY <1>1, <1>2, NextIsVariant DEF RequesterIs
<1>4. requester[r] \in RequesterRecord /\ variants \in [Variants -> {"absent", "empty", "created"}]
  BY DEF CacheTypes
<1>5. Moves(r, to)
  BY <1>1, <1>4 DEF Moves, RequesterRecord
<1>6. /\ to.pc = "submit_shader"
      /\ to.pipeline = requester[r].pipeline /\ to.next = requester[r].next
  BY <1>4 DEF RequesterRecord
<1> HIDE DEF to, v
<1>7. /\ requester' \in [Requesters -> RequesterRecord]
      /\ requester'[r] = to
      /\ \A s \in Requesters : s # r =>
           /\ requester'[s] = requester[s]
           /\ NextDependency(s)' = NextDependency(s)
           /\ Constructing(s)' = Constructing(s) /\ Creating(s)' = Creating(s)
  BY <1>5, OthersStay
<1>8. NextDependency(r)' = v /\ Constructing(r)' /\ Creating(r)'
  BY <1>6, <1>7 DEF NextDependency, Constructing, Creating, v
<1>9. /\ variants' \in [Variants -> {"absent", "empty", "created"}]
      /\ variants'[v] = "created"
      /\ \A u \in Variants : u # v => variants'[u] = variants[u]
  BY <1>1, <1>3, <1>4
<1>10. \A s \in Requesters : Creating(s) /\ s # r => NextDependency(s) # v
  BY <1>2 DEF RequestersAre, OneCreator, v
<1>11. \A s \in Requesters : Creating(s) => NextDependency(s) \in Variants
  BY NextIsVariant DEF RequestersAre, RequesterIs, Creating, Constructing
<1>12. \A s \in Requesters : RequesterIs(s)'
  <2>1. RequesterIs(r)'
    BY <1>1, <1>2, <1>6, <1>7, <1>8, <1>9 DEF RequesterIs
  <2>2. ASSUME NEW s \in Requesters, s # r PROVE RequesterIs(s)'
    BY <1>1, <1>7, <1>9, <1>10, <1>11, <2>2 DEF RequestersAre, RequesterIs, Creating
  <2> QED
    BY <2>1, <2>2
<1>13. OneCreator'
  BY <1>2, <1>6, <1>7, <1>8, <1>10 DEF RequestersAre, OneCreator
<1>14. Resubmits
  <2> SUFFICES ASSUME NEW t \in Tasks PROVE Submitted(t)' <=> Submitted(t)
    BY DEF Resubmits
  <2>1. CASE t \in Pipelines
    BY <1>1, <2>1 DEF Submitted
  <2>2. CASE t = v
    BY <1>3, <1>6, <1>7, <1>8, <2>2 DEF Submitted, Variants
  <2>3. CASE t \notin Pipelines /\ t # v
    BY <1>1, <1>6, <1>7, <1>8, <1>9, <2>3 DEF Submitted, Variants
  <2> QED
    BY <2>1, <2>2, <2>3
<1> QED
  BY <1>1, <1>7, <1>9, <1>12, <1>13, <1>14 DEF RequestersAre, CacheTypes

(* Submitting a variant, which only its creator does, ...                  *)
LEMMA SubmitShaderKeeps ==
  ASSUME CacheTypes, RequestersAre, NEW r \in Requesters, SubmitShader(r)
  PROVE  /\ CacheTypes' /\ RequestersAre'
         /\ NextDependency(r) \in Tasks /\ ~Submitted(NextDependency(r))
         /\ \A u \in Tasks :
              Submitted(u)' <=> Submitted(u) \/ u = NextDependency(r)
<1> DEFINE v == NextDependency(r)
           to == [requester[r] EXCEPT !.pc = "get_shader", !.next = @ + 1]
<1>1. /\ requester[r].pc = "submit_shader"
      /\ requester' = [requester EXCEPT ![r].pc = "get_shader", ![r].next = @ + 1]
      /\ UNCHANGED <<pipelines, variants>>
  BY DEF SubmitShader
<1>2. Constructing(r) /\ Creating(r) /\ RequesterIs(r)
  BY <1>1 DEF Constructing, Creating, RequestersAre
<1>3. v \in Variants /\ variants[v] = "created"
  BY <1>1, <1>2, NextIsVariant DEF RequesterIs
<1>4. requester[r] \in RequesterRecord
  BY DEF CacheTypes
<1>5. Moves(r, to)
  <2>1. to \in RequesterRecord
    <3>1. requester[r].next + 1 \in Nat
      BY <1>4 DEF RequesterRecord
    <3>2. to = [[requester[r] EXCEPT !.pc = "get_shader"] EXCEPT !.next = requester[r].next + 1]
      BY <1>4 DEF RequesterRecord
    <3> QED
      BY <1>4, <3>1, <3>2 DEF RequesterRecord
  <2>2. requester' = [requester EXCEPT ![r] = to]
    BY <1>1 DEF CacheTypes
  <2> QED
    BY <2>1, <2>2 DEF Moves
<1>6. to.pc = "get_shader" /\ to.pipeline = requester[r].pipeline
  BY <1>4 DEF RequesterRecord
<1> HIDE DEF to
<1>7. /\ requester' \in [Requesters -> RequesterRecord]
      /\ requester'[r] = to
      /\ \A s \in Requesters : s # r =>
           /\ requester'[s] = requester[s]
           /\ NextDependency(s)' = NextDependency(s)
           /\ Constructing(s)' = Constructing(s) /\ Creating(s)' = Creating(s)
  BY <1>5, OthersStay
<1>8. Constructing(r)' /\ ~Creating(r)'
  BY <1>6, <1>7 DEF Constructing, Creating
<1>9. \A s \in Requesters : RequesterIs(s)'
  <2>1. RequesterIs(r)'
    BY <1>1, <1>2, <1>6, <1>7, <1>8 DEF RequesterIs
  <2>2. ASSUME NEW s \in Requesters, s # r PROVE RequesterIs(s)'
    BY <1>1, <1>7, <2>2 DEF RequestersAre, RequesterIs
  <2> QED
    BY <2>1, <2>2
<1>10. OneCreator'
  BY <1>2, <1>6, <1>7, <1>8 DEF RequestersAre, OneCreator
<1>11. \A s \in Requesters : Creating(s) /\ s # r => NextDependency(s) # v
  BY <1>2 DEF RequestersAre, OneCreator
<1>12. v \in Tasks /\ v \notin Pipelines
  BY <1>3 DEF Variants
<1> HIDE DEF v
<1>13. ~Submitted(v)
  BY <1>1, <1>12 DEF Submitted, v
<1>14. ASSUME NEW u \in Tasks PROVE Submitted(u)' <=> Submitted(u) \/ u = v
  <2>1. CASE u \in Pipelines
    BY <1>1, <1>12, <2>1 DEF Submitted
  <2>2. CASE u = v
    BY <1>1, <1>3, <1>6, <1>7, <1>11, <1>12, <2>2 DEF Submitted, Creating
  <2>3. CASE u \notin Pipelines /\ u # v
    BY <1>1, <1>6, <1>7, <2>3 DEF Submitted, v
  <2> QED
    BY <2>1, <2>2, <2>3
<1> QED
  BY <1>1, <1>7, <1>9, <1>10, <1>12, <1>13, <1>14 DEF RequestersAre, CacheTypes, v

(* ... or a pipeline, under the mutex of its kind.                         *)
LEMMA SubmitPipelineKeeps ==
  ASSUME CacheTypes, RequestersAre, NEW r \in Requesters, SubmitPipeline(r)
  PROVE  /\ CacheTypes' /\ RequestersAre'
         /\ requester[r].pipeline \in Pipelines /\ ~Submitted(requester[r].pipeline)
         /\ \A u \in Tasks :
              Submitted(u)' <=> Submitted(u) \/ u = requester[r].pipeline
<1> DEFINE p == requester[r].pipeline
           to == [requester[r] EXCEPT !.pc = "requested"]
<1>1. /\ requester[r].pc = "get_shader"
      /\ requester' = [requester EXCEPT ![r].pc = "requested"]
      /\ pipelines' = pipelines \union {p} /\ UNCHANGED variants
  BY DEF SubmitPipeline
<1>2. Constructing(r) /\ ~Creating(r) /\ RequesterIs(r)
  BY <1>1 DEF Constructing, Creating, RequestersAre
<1>3. p \in Pipelines /\ p \notin pipelines
  BY <1>2 DEF RequesterIs
<1>4. requester[r] \in RequesterRecord
  BY DEF CacheTypes
<1>5. Moves(r, to)
  BY <1>1, <1>4 DEF Moves, RequesterRecord
<1>6. to.pc = "requested"
  BY <1>4 DEF RequesterRecord
<1> HIDE DEF to
<1>7. /\ requester' \in [Requesters -> RequesterRecord]
      /\ requester'[r] = to
      /\ \A s \in Requesters : s # r =>
           /\ requester'[s] = requester[s]
           /\ NextDependency(s)' = NextDependency(s)
           /\ Constructing(s)' = Constructing(s) /\ Creating(s)' = Creating(s)
  BY <1>5, OthersStay
<1>8. ~Constructing(r)' /\ ~Creating(r)'
  BY <1>6, <1>7 DEF Constructing, Creating
<1>9. \A s \in Requesters : Constructing(s) /\ s # r => requester[s].pipeline # p
  BY <1>2 DEF RequestersAre, OneCreator
<1>10. \A s \in Requesters : RequesterIs(s)'
  <2>1. RequesterIs(r)'
    BY <1>6, <1>7, <1>8 DEF RequesterIs
  <2>2. ASSUME NEW s \in Requesters, s # r PROVE RequesterIs(s)'
    BY <1>1, <1>7, <1>9, <2>2 DEF RequestersAre, RequesterIs
  <2> QED
    BY <2>1, <2>2
<1>11. OneCreator'
  BY <1>7, <1>8 DEF RequestersAre, OneCreator
<1>12. ASSUME NEW u \in Tasks PROVE Submitted(u)' <=> Submitted(u) \/ u = p
  <2>1. CASE u \in Pipelines
    BY <1>1, <2>1 DEF Submitted
  <2>2. CASE u \notin Pipelines
    BY <1>1, <1>3, <1>6, <1>7, <2>2 DEF Submitted
  <2> QED
    BY <2>1, <2>2
<1>13. ~Submitted(p)
  BY <1>3 DEF Submitted
<1> QED
  BY <1>1, <1>3, <1>7, <1>10, <1>11, <1>12, <1>13 DEF RequestersAre, CacheTypes

-----------------------------------------------------------------------------
(* The invariant of the places of tasks.                                   *)

LEMMA Initial == Init => HolderInv
<1> SUFFICES ASSUME Init PROVE HolderInv
  OBVIOUS
<1> USE DEF Init, SchedulerInit
<1>1. PICK started \in SUBSET Workers :
        worker = [w \in Workers |->
            [pc |-> IF w \in started THEN "loop" ELSE "unstarted",
             task |-> None, continuation |-> None, buffer |-> {}]]
  OBVIOUS
<1>2. SchedulerTypes
  <2>1. worker \in [Workers -> WorkerRecord]
    BY <1>1 DEF WorkerRecord, WorkerPcs
  <2>2. \A w \in Workers : IsFiniteSet(worker[w].buffer)
    BY <1>1, FS_EmptySet
  <2>3. IsFiniteSet(task_continuation)
    BY FS_EmptySet
  <2> QED
    BY <2>1, <2>2, <2>3 DEF SchedulerTypes
<1>3. WorkersHold
  BY <1>1 DEF WorkersHold, WorkerHolds
<1>4. NoRepeats
  BY <1>1 DEF NoRepeats, Distinct
<1>5. CacheTypes /\ RequestersAre
  BY DEF CacheTypes, RequesterRecord, RequestersAre, RequesterIs, OneCreator, Constructing, Creating
<1>6. ASSUME NEW t \in Tasks PROVE OnePlace(t) /\ HeldUntilDone(t)
  <2>1. ~Submitted(t)
    BY DEF Submitted, Variants
  <2>2. ~Held(t)
    <3>1. ~In(t, task_queue) /\ ~In(t, task_continuation_queue) /\ ~Waits(t)
      BY DEF In, Waits
    <3>2. ~Runs(t) /\ ~Buffered(t)
      BY <1>1, NoneAssumption DEF Runs, Buffered
    <3> QED
      BY <3>1, <3>2 DEF Held
  <2>3. t \notin done
    OBVIOUS
  <2> HIDE DEF Init
  <2> QED
    BY <2>1, <2>2, <2>3 DEF OnePlace, HeldUntilDone, Held
<1> QED
  BY <1>2, <1>3, <1>4, <1>5, <1>6 DEF HolderInv, Places

LEMMA WorkerKeeps ==
  ASSUME HolderInv, NEW w \in Workers, WorkerStep(w) \/ WakeSpuriously(w), UNCHANGED cache
  PROVE  HolderInv'
<1>1. SchedulerInv /\ CacheTypes /\ RequestersAre
  BY DEF HolderInv, SchedulerInv
<1>2. Resubmits /\ CacheTypes' /\ RequestersAre'
  BY <1>1, CacheKeeps
<1>3. SchedulerInv'
  BY <1>1, <1>2, MovesOnKeeps, TakeKeeps, SetDoneKeeps, PushKeeps, RegisterKeeps
     DEF WorkerStep, MovesOn
<1> QED
  BY <1>2, <1>3 DEF HolderInv, SchedulerInv

LEMMA RequesterKeeps ==
  ASSUME HolderInv, NEW r \in Requesters,
         \/ Requesting(r) \/ GetPipeline(r) \/ DropDraw(r)
         \/ \E p \in Pipelines : GetPipelineEntry(r, p)
  PROVE  HolderInv'
<1>1. SchedulerInv /\ CacheTypes /\ RequestersAre
  BY DEF HolderInv, SchedulerInv
<1>2. CASE \/ GetShader(r) \/ CreateVariant(r) \/ GetPipeline(r) \/ DropDraw(r)
           \/ \E p \in Pipelines : GetPipelineEntry(r, p)
  <2>1. CacheTypes' /\ RequestersAre' /\ Resubmits
    BY <1>1, <1>2, GetShaderKeeps, CreateKeeps, LeaveKeeps, EntryKeeps
  <2>2. UNCHANGED scheduler
    BY <1>2 DEF GetShader, CreateVariant, GetPipeline, DropDraw, GetPipelineEntry
  <2>3. /\ UNCHANGED <<task_queue, task_continuation_queue, task_continuation, done>>
        /\ worker' = worker /\ worker' \in [Workers -> WorkerRecord]
    BY <1>1, <2>2 DEF scheduler, SchedulerInv, SchedulerTypes
  <2>4. WorkersHold'
    BY <1>1, <2>3 DEF SchedulerInv, WorkersHold, WorkerHolds
  <2>5. SchedulerTypes' /\ NoRepeats' /\ Places'
    BY <1>1, <2>1, <2>3, QuietKeeps DEF SchedulerInv
  <2> QED
    BY <2>1, <2>4, <2>5 DEF HolderInv
<1>3. CASE SubmitShader(r)
  <2>1. /\ CacheTypes' /\ RequestersAre'
        /\ NextDependency(r) \in Tasks /\ ~Submitted(NextDependency(r))
        /\ \A u \in Tasks : Submitted(u)' <=> Submitted(u) \/ u = NextDependency(r)
    BY <1>1, <1>3, SubmitShaderKeeps
  <2>2. Submit(NextDependency(r))
    BY <1>3 DEF SubmitShader
  <2> HIDE DEF NextDependency
  <2>3. SchedulerTypes' /\ WorkersHold' /\ NoRepeats' /\ Places'
    BY <1>1, <2>1, <2>2, SubmitKeeps DEF SchedulerInv
  <2> QED
    BY <2>1, <2>3 DEF HolderInv
<1>4. CASE SubmitPipeline(r)
  <2> DEFINE p == requester[r].pipeline
  <2>1. /\ CacheTypes' /\ RequestersAre'
        /\ p \in Pipelines /\ ~Submitted(p)
        /\ \A u \in Tasks : Submitted(u)' <=> Submitted(u) \/ u = p
    BY <1>1, <1>4, SubmitPipelineKeeps
  <2>2. Submit(p) /\ p \in Tasks
    BY <1>4, <2>1, PipelinesAssumption DEF SubmitPipeline
  <2> HIDE DEF p
  <2>3. SchedulerTypes' /\ WorkersHold' /\ NoRepeats' /\ Places'
    BY <1>1, <2>1, <2>2, SubmitKeeps DEF SchedulerInv
  <2> QED
    BY <2>1, <2>3 DEF HolderInv
<1> QED
  BY <1>2, <1>3, <1>4 DEF Requesting

LEMMA DestructionKeeps ==
  ASSUME HolderInv, DestructorStep \/ StoreDestroyed, UNCHANGED cache
  PROVE  HolderInv'
<1>1. SchedulerInv /\ CacheTypes /\ RequestersAre
  BY DEF HolderInv, SchedulerInv
<1>2. Resubmits /\ CacheTypes' /\ RequestersAre'
  BY <1>1, CacheKeeps
<1>3. SchedulerInv'
  BY <1>1, <1>2, DestructorKeeps
<1> QED
  BY <1>2, <1>3 DEF HolderInv, SchedulerInv

LEMMA StutterKeeps ==
  ASSUME HolderInv, UNCHANGED vars
  PROVE  HolderInv'
<1>1. UNCHANGED cache /\ UNCHANGED scheduler
  BY DEF vars
<1>2. SchedulerTypes /\ WorkersHold /\ NoRepeats /\ Places /\ CacheTypes /\ RequestersAre
  BY DEF HolderInv
<1>3. Resubmits /\ CacheTypes' /\ RequestersAre'
  BY <1>1, <1>2, CacheKeeps
<1>4. /\ UNCHANGED <<task_queue, task_continuation_queue, task_continuation, done>>
      /\ worker' = worker /\ worker' \in [Workers -> WorkerRecord]
  BY <1>1, <1>2 DEF scheduler, SchedulerTypes
<1>5. WorkersHold'
  BY <1>2, <1>4 DEF WorkersHold, WorkerHolds
<1>6. SchedulerTypes' /\ NoRepeats' /\ Places'
  BY <1>2, <1>3, <1>4, QuietKeeps
<1> QED
  BY <1>3, <1>5, <1>6 DEF HolderInv

LEMMA HolderStep == HolderInv /\ [Next]_vars => HolderInv'
BY WorkerKeeps, RequesterKeeps, DestructionKeeps, StutterKeeps DEF Next, Release, Idle

(* Each task is where it must be, in exactly one place or in none.         *)
THEOREM HolderInvariance == Spec => []HolderInv
<1>1. Init => HolderInv
  BY Initial
<1>2. HolderInv /\ [Next]_vars => HolderInv'
  BY HolderStep
<1> QED
  BY <1>1, <1>2, PTL DEF Spec

-----------------------------------------------------------------------------
(* Counting: a set that has at most one member.                            *)

LEMMA AtMostOne ==
  ASSUME NEW S, \A x, y \in S : x = y
  PROVE  Cardinality(S) = IF S = {} THEN 0 ELSE 1
<1>1. CASE S = {}
  BY <1>1, FS_EmptySet
<1>2. CASE S # {}
  <2>1. PICK x \in S : TRUE
    BY <1>2
  <2>2. S = {x}
    BY <2>1
  <2> QED
    BY <1>2, <2>2, FS_Singleton
<1> QED
  BY <1>1, <1>2

LEMMA HoldersOf ==
  ASSUME HolderInv, NEW t \in Tasks
  PROVE  Holders(t) = IF Submitted(t) /\ t \notin done THEN 1 ELSE 0
<1>1. NoRepeats /\ OnePlace(t) /\ HeldUntilDone(t) /\ t # None
  BY NoneAssumption DEF HolderInv, Places
<1> DEFINE A == {i \in DOMAIN task_queue : task_queue[i] = t}
           B == {i \in DOMAIN task_continuation_queue : task_continuation_queue[i] = t}
           C == {pair \in task_continuation : pair[2] = t}
           D == {w \in Workers : worker[w].task = t}
           E == {w \in Workers : t \in worker[w].buffer}
<1>2. Cardinality(A) = IF In(t, task_queue) THEN 1 ELSE 0
  <2>1. \A x, y \in A : x = y
    BY <1>1 DEF NoRepeats, Distinct
  <2>2. A = {} <=> ~In(t, task_queue)
    BY DEF In
  <2> HIDE DEF A
  <2> QED
    BY <2>1, <2>2, AtMostOne
<1>3. Cardinality(B) = IF In(t, task_continuation_queue) THEN 1 ELSE 0
  <2>1. \A x, y \in B : x = y
    BY <1>1 DEF NoRepeats, Distinct
  <2>2. B = {} <=> ~In(t, task_continuation_queue)
    BY DEF In
  <2> HIDE DEF B
  <2> QED
    BY <2>1, <2>2, AtMostOne
<1>4. Cardinality(C) = IF Waits(t) THEN 1 ELSE 0
  <2>1. \A x, y \in C : x = y
    BY <1>1 DEF NoRepeats
  <2>2. C = {} <=> ~Waits(t)
    BY DEF Waits
  <2> HIDE DEF C
  <2> QED
    BY <2>1, <2>2, AtMostOne
<1>5. Cardinality(D) = IF Runs(t) THEN 1 ELSE 0
  <2>1. \A x, y \in D : x = y
    BY <1>1 DEF NoRepeats
  <2>2. D = {} <=> ~Runs(t)
    BY DEF Runs
  <2> HIDE DEF D
  <2> QED
    BY <2>1, <2>2, AtMostOne
<1>6. Cardinality(E) = IF Buffered(t) THEN 1 ELSE 0
  <2>1. \A x, y \in E : x = y
    BY <1>1 DEF NoRepeats
  <2>2. E = {} <=> ~Buffered(t)
    BY DEF Buffered
  <2> HIDE DEF E
  <2> QED
    BY <2>1, <2>2, AtMostOne
<1>7. Holders(t) = Cardinality(A) + Cardinality(B) + Cardinality(C) + Cardinality(D)
                     + Cardinality(E)
  BY DEF Holders, Count
<1> HIDE DEF A, B, C, D, E
<1> QED
  BY <1>1, <1>2, <1>3, <1>4, <1>5, <1>6, <1>7 DEF OnePlace, HeldUntilDone, Held

(* A task that was submitted and is not done is in one place, and any      *)
(* other in none, whatever the workers and the threads do.                 *)
THEOREM TasksHaveOneHolder == Spec => []OneHolder
<1>1. HolderInv => OneHolder
  BY HoldersOf DEF OneHolder
<1> QED
  BY <1>1, HolderInvariance, PTL

-----------------------------------------------------------------------------
(* One kind of pipeline.                                                   *)

(* With one mutex there is one thread that constructs.                     *)
LEMMA OneConstructs ==
  ASSUME OneKind, HolderInv, NEW r \in Requesters, NEW s \in Requesters,
         Constructing(r), Constructing(s)
  PROVE  r = s
<1>1. requester[r].pipeline \in Pipelines /\ requester[s].pipeline \in Pipelines
  BY DEF HolderInv, RequestersAre, RequesterIs
<1> QED
  BY <1>1 DEF OneKind, HolderInv, RequestersAre, OneCreator

LEMMA LookupFinds ==
  ASSUME OneKind, ShaderInv, NEW r \in Requesters, requester[r].pc = "get_shader",
         requester[r].next \in DOMAIN DependsOn[requester[r].pipeline]
  PROVE  /\ NextDependency(r) \in Variants
         /\ variants[NextDependency(r)] # "empty"
         /\ variants[NextDependency(r)] # "absent" => Submitted(NextDependency(r))
<1>1. HolderInv /\ Constructing(r)
  BY DEF ShaderInv, Constructing
<1>2. NextDependency(r) \in Variants
  BY <1>1, NextIsVariant DEF HolderInv
<1>3. \A s \in Requesters : requester[s].pc \notin {"create", "submit_shader"}
  <2> SUFFICES ASSUME NEW s \in Requesters, requester[s].pc \in {"create", "submit_shader"}
               PROVE  FALSE
    OBVIOUS
  <2>1. Constructing(s)
    BY DEF Constructing
  <2>2. r = s
    BY <1>1, <2>1, OneConstructs
  <2> QED
    BY <2>2
<1>4. variants[NextDependency(r)] # "empty"
  BY <1>2, <1>3 DEF ShaderInv, EmptyIsBeingCreated
<1>5. variants[NextDependency(r)] \in {"absent", "empty", "created"}
  BY <1>1, <1>2 DEF HolderInv, CacheTypes
<1> QED
  BY <1>2, <1>3, <1>4, <1>5 DEF Submitted, Variants

(* What is submitted stays so.                                             *)
Grows == \A t \in Tasks : Submitted(t) => Submitted(t)'

(* Steps that leave the threads that draw alone, and their cache.          *)
LEMMA CacheLeavesLookups ==
  ASSUME EmptyIsBeingCreated, DependenciesFirst, UNCHANGED cache
  PROVE  EmptyIsBeingCreated' /\ DependenciesFirst'
BY DEF cache, EmptyIsBeingCreated, DependenciesFirst, NextDependency, Constructing, Submitted

(* A task that is run waits for what was submitted before it.              *)
LEMMA RunsForSubmitted ==
  ASSUME HolderInv, DependenciesFirst, NEW w \in Workers, RunTask(w)
  PROVE  Submitted(worker'[w].continuation)
<1> DEFINE t == worker[w].task
           c == IF Missing(t) = {} THEN t ELSE FirstMissing(t)
<1>1. worker[w].pc = "run" /\ worker' = [worker EXCEPT ![w].pc = "finish", ![w].continuation = c]
  BY DEF RunTask, At
<1>2. worker \in [Workers -> WorkerRecord] /\ t \in Tasks
  BY <1>1 DEF HolderInv, SchedulerTypes, WorkersHold, WorkerHolds, WorkerRecord
<1>3. worker'[w].continuation = c
  BY <1>1, <1>2 DEF WorkerRecord
<1>4. Submitted(t)
  BY <1>2 DEF HolderInv, Places, HeldUntilDone, Held, Runs
<1> HIDE DEF t
<1>5. Submitted(c)
  <2>1. CASE Missing(t) = {}
    BY <1>4, <2>1
  <2>2. CASE Missing(t) # {}
    <3>1. PICK i \in DOMAIN DependsOn[t] : FirstMissing(t) = DependsOn[t][i]
      BY <1>2, <2>2, MissingIsDependency
    <3>2. t \in Pipelines
      BY <1>2, <3>1, VariantsAssumption DEF Variants
    <3>3. t \in pipelines
      BY <1>4, <3>2 DEF Submitted
    <3>4. Submitted(DependsOn[t][i])
      BY <3>1, <3>3 DEF DependenciesFirst
    <3> QED
      BY <2>2, <3>1, <3>4
  <2> QED
    BY <2>1, <2>2
<1> QED
  BY <1>3, <1>5

LEMMA WorkerWaits ==
  ASSUME HolderInv, DependenciesFirst, WaitsForSubmitted, NEW w \in Workers,
         WorkerStep(w) \/ WakeSpuriously(w), UNCHANGED cache
  PROVE  WaitsForSubmitted'
<1>1. /\ worker \in [Workers -> WorkerRecord] /\ SchedulerTypes
      /\ task_continuation \subseteq Tasks \X Tasks
  BY DEF HolderInv, SchedulerTypes
<1>2. \A t : Submitted(t)' <=> Submitted(t)
  BY DEF cache, Submitted, NextDependency
<1>3. \A v \in Workers : worker'[v].pc = "finish" =>
        \/ worker[v].pc = "finish" /\ worker'[v].continuation = worker[v].continuation
        \/ v = w /\ RunTask(w)
  <2>1. CASE NotifyAll(w)
    <3> DEFINE workers == [worker EXCEPT ![w].pc = "stop"]
    <3>1. workers \in [Workers -> WorkerRecord] /\ worker' = AllAwake(workers)
      BY <1>1, <2>1 DEF NotifyAll, WorkerRecord, WorkerPcs
    <3>2. Woken(workers)
      BY <3>1, AllWoken
    <3>3. \A v \in Workers : v # w => workers[v] = worker[v]
      BY <1>1
    <3>4. workers[w].pc = "stop"
      BY <1>1 DEF WorkerRecord
    <3> HIDE DEF workers
    <3> QED
      BY <3>2, <3>3, <3>4 DEF Woken
  <2>2. CASE ~NotifyAll(w) /\ ~RunTask(w)
    <3>1. \A v \in Workers : v # w => worker'[v] = worker[v]
      BY <1>1, <2>2 DEF WorkerStep, WakeSpuriously, CheckDestroyed, FindNothing, FallAsleep,
         Take, StartRunning, SetDone, PushContinuations, RegisterContinuation, StopRunning, GoTo
    <3>2. worker'[w].pc # "finish"
      BY <1>1, <2>2 DEF WorkerStep, WakeSpuriously, CheckDestroyed, FindNothing, FallAsleep,
         Take, StartRunning, SetDone, PushContinuations, RegisterContinuation, StopRunning, GoTo,
         WorkerRecord
    <3> QED
      BY <3>1, <3>2
  <2>3. CASE RunTask(w)
    <3>1. \A v \in Workers : v # w => worker'[v] = worker[v]
      BY <1>1, <2>3 DEF RunTask
    <3> QED
      BY <2>3, <3>1
  <2> QED
    BY <2>1, <2>2, <2>3
<1>4. ASSUME NEW v \in Workers, worker'[v].pc = "finish"
      PROVE  Submitted(worker'[v].continuation)
  <2>1. CASE worker[v].pc = "finish" /\ worker'[v].continuation = worker[v].continuation
    BY <2>1 DEF WaitsForSubmitted
  <2>2. CASE v = w /\ RunTask(w)
    BY <2>2, RunsForSubmitted
  <2> QED
    BY <1>3, <1>4, <2>1, <2>2
<1>5. ASSUME NEW pair \in task_continuation'
      PROVE  Submitted(pair[1]) /\ pair[1] \notin done'
  <2>1. CASE SetDone(w)
    <3>1. pair \in task_continuation /\ pair[1] # worker[w].task
          /\ done' = done \union {worker[w].task}
      BY <2>1 DEF SetDone, WithoutContinuationsOf
    <3> QED
      BY <3>1 DEF WaitsForSubmitted
  <2>2. CASE RegisterContinuation(w)
    <3> DEFINE d == worker[w].continuation
    <3>1. worker[w].pc = "finish" /\ done' = done
      BY <2>2 DEF RegisterContinuation, At
    <3>2. \/ pair \in task_continuation
          \/ d \notin done /\ pair = <<d, worker[w].task>>
      BY <2>2 DEF RegisterContinuation, IsDone
    <3>3. Submitted(d)
      BY <3>1 DEF WaitsForSubmitted
    <3> HIDE DEF d
    <3>4. CASE pair \in task_continuation
      BY <3>1, <3>4 DEF WaitsForSubmitted
    <3>5. CASE d \notin done /\ pair = <<d, worker[w].task>>
      <4>1. pair[1] = d
        BY <3>5
      <4> QED
        BY <3>1, <3>3, <3>5, <4>1
    <3> QED
      BY <3>2, <3>4, <3>5
  <2>3. CASE ~SetDone(w) /\ ~RegisterContinuation(w)
    <3>1. task_continuation' = task_continuation /\ done' = done
      BY <2>3 DEF WorkerStep, WakeSpuriously, CheckDestroyed, FindNothing, FallAsleep,
         Take, StartRunning, RunTask, PushContinuations, NotifyAll, StopRunning
    <3> QED
      BY <3>1 DEF WaitsForSubmitted
  <2> QED
    BY <2>1, <2>2, <2>3
<1> QED
  BY <1>2, <1>4, <1>5 DEF WaitsForSubmitted

(* A step that leaves the waiting tasks alone, while more is submitted.    *)
LEMMA WaitsKeep ==
  ASSUME HolderInv, WaitsForSubmitted, Grows,
         UNCHANGED <<task_continuation, done>>,
         \A w \in Workers : worker'[w].pc = "finish" =>
           worker[w].pc = "finish" /\ worker'[w].continuation = worker[w].continuation
  PROVE  WaitsForSubmitted'
<1>1. /\ \A pair \in task_continuation : pair[1] \in Tasks
      /\ \A w \in Workers : worker[w].pc = "finish" => worker[w].continuation \in Tasks
  BY DEF HolderInv, SchedulerTypes, WorkersHold, WorkerHolds
<1>2. \A t \in Tasks : Submitted(t) => Submitted(t)'
  BY DEF Grows
<1>3. ASSUME NEW w \in Workers, worker'[w].pc = "finish"
      PROVE  Submitted(worker[w].continuation)'
  <2>1. worker[w].pc = "finish" /\ worker'[w].continuation = worker[w].continuation
    BY <1>3
  <2>2. worker[w].continuation \in Tasks /\ Submitted(worker[w].continuation)
    BY <1>1, <2>1 DEF WaitsForSubmitted
  <2>3. \A t \in Tasks :
          t = worker'[w].continuation /\ Submitted(t)' => Submitted(worker[w].continuation)'
    BY DEF Submitted
  <2> QED
    BY <1>2, <2>1, <2>2, <2>3
<1>4. ASSUME NEW pair \in task_continuation
      PROVE  Submitted(pair[1])' /\ pair[1] \notin done
  BY <1>1, <1>2 DEF WaitsForSubmitted
<1> QED
  BY <1>3, <1>4 DEF WaitsForSubmitted

(* A step of one thread, of which only its own lookups need to be checked. *)
LEMMA LookupsKeep ==
  ASSUME DependenciesFirst, Grows, HolderInv, NEW r \in Requesters,
         \A s \in Requesters : s # r => requester'[s] = requester[s],
         Constructing(r)' =>
           /\ requester'[r].next > 0
           /\ \A i \in DOMAIN DependsOn[requester'[r].pipeline] :
                i < requester'[r].next =>
                  \E t \in Tasks : t = DependsOn[requester'[r].pipeline][i] /\ Submitted(t)',
         \A p \in pipelines' : p \in pipelines \/
           (p \in Pipelines
              /\ \A i \in DOMAIN DependsOn[p] : Submitted(DependsOn[p][i]))
  PROVE  DependenciesFirst'
<1>1. \A p \in Pipelines : \A i \in DOMAIN DependsOn[p] : DependsOn[p][i] \in Tasks
  BY DependsOnAssumption, PipelinesAssumption
<1>2. pipelines \subseteq Pipelines
  BY DEF HolderInv, CacheTypes
<1>3. ASSUME NEW p \in pipelines', NEW i \in DOMAIN DependsOn[p]
      PROVE  Submitted(DependsOn[p][i])'
  BY <1>1, <1>2 DEF DependenciesFirst, Grows
<1>4. ASSUME NEW s \in Requesters, Constructing(s)'
      PROVE  /\ requester'[s].next > 0
             /\ \A i \in DOMAIN DependsOn[requester'[s].pipeline] :
                  i < requester'[s].next => Submitted(DependsOn[requester[s].pipeline][i])'
  <2>1. CASE s = r
    <3>1. requester'[r].next > 0
      BY <1>4, <2>1
    <3> SUFFICES ASSUME NEW i \in DOMAIN DependsOn[requester'[r].pipeline],
                        i < requester'[r].next
                 PROVE  Submitted(DependsOn[requester[r].pipeline][i])'
      BY <2>1, <3>1
    <3>2. PICK t \in Tasks : t = DependsOn[requester'[r].pipeline][i] /\ Submitted(t)'
      BY <1>4, <2>1
    <3> QED
      BY <3>2 DEF Submitted
  <2>2. CASE s # r
    <3>1. requester'[s] = requester[s] /\ Constructing(s)
      BY <1>4, <2>2 DEF Constructing
    <3>2. requester[s].pipeline \in Pipelines
      BY <3>1 DEF HolderInv, RequestersAre, RequesterIs
    <3>3. requester[s].next > 0
      BY <3>1 DEF DependenciesFirst
    <3> SUFFICES ASSUME NEW i \in DOMAIN DependsOn[requester[s].pipeline],
                        i < requester[s].next
                 PROVE  Submitted(DependsOn[requester[s].pipeline][i])'
      BY <3>1, <3>3
    <3>4. /\ Submitted(DependsOn[requester[s].pipeline][i])
          /\ DependsOn[requester[s].pipeline][i] \in Tasks
      BY <1>1, <3>1, <3>2 DEF DependenciesFirst
    <3>5. PICK t \in Tasks : t = DependsOn[requester[s].pipeline][i] /\ Submitted(t)'
      BY <3>4 DEF Grows
    <3> QED
      BY <3>1, <3>5 DEF Submitted
  <2> QED
    BY <2>1, <2>2
<1> QED
  BY <1>3, <1>4 DEF DependenciesFirst

LEMMA GetShaderLookups ==
  ASSUME OneKind, ShaderInv, Grows, NEW r \in Requesters, GetShader(r)
  PROVE  EmptyIsBeingCreated' /\ DependenciesFirst'
<1> DEFINE v == NextDependency(r)
<1>1. /\ requester[r].pc = "get_shader"
      /\ requester[r].next \in DOMAIN DependsOn[requester[r].pipeline]
      /\ UNCHANGED pipelines
  BY DEF GetShader
<1>2. /\ HolderInv /\ CacheTypes /\ DependenciesFirst /\ Constructing(r)
      /\ requester \in [Requesters -> RequesterRecord] /\ requester[r] \in RequesterRecord
      /\ variants \in [Variants -> {"absent", "empty", "created"}]
  BY <1>1 DEF ShaderInv, HolderInv, Constructing, CacheTypes
<1>3. /\ v \in Variants /\ v \in Tasks /\ variants[v] # "empty"
      /\ variants[v] # "absent" => Submitted(v)
  BY <1>1, LookupFinds DEF Variants
<1>4. v = DependsOn[requester[r].pipeline][requester[r].next]
  BY DEF NextDependency
<1>5. requester[r].next \in Nat /\ requester[r].next > 0
  BY <1>2 DEF RequesterRecord, DependenciesFirst
<1>6. requester[r].pipeline \in Pipelines /\ DependsOn[requester[r].pipeline] \in Seq(Tasks)
  BY <1>2, PipelinesAssumption, DependsOnAssumption DEF HolderInv, RequestersAre, RequesterIs
<1>7. \A i \in DOMAIN DependsOn[requester[r].pipeline] : i < requester[r].next =>
        \E t \in Tasks : t = DependsOn[requester[r].pipeline][i] /\ Submitted(t)'
  BY <1>2, <1>6 DEF DependenciesFirst, Grows
<1>8. CASE variants[v] = "absent"
  <2>1. /\ variants' = [variants EXCEPT ![v] = "empty"]
        /\ requester' = [requester EXCEPT ![r].pc = "create"]
    BY <1>8 DEF GetShader
  <2>2. /\ requester'[r].pc = "create" /\ requester'[r].pipeline = requester[r].pipeline
        /\ requester'[r].next = requester[r].next
        /\ \A s \in Requesters : s # r => requester'[s] = requester[s]
    BY <1>2, <2>1 DEF RequesterRecord
  <2>3. DependenciesFirst'
    BY <1>1, <1>2, <1>5, <1>7, <2>2, LookupsKeep
  <2>4. NextDependency(r)' = v
    BY <1>4, <2>2 DEF NextDependency
  <2>5. \A u \in Variants : u # v => variants'[u] = variants[u]
    BY <1>2, <2>1
  <2>6. EmptyIsBeingCreated'
    <3> SUFFICES ASSUME NEW u \in Variants, variants'[u] = "empty"
                 PROVE  \E s \in Requesters : requester'[s].pc = "create" /\ NextDependency(s)' = u
      BY DEF EmptyIsBeingCreated
    <3>1. CASE u = v
      BY <2>2, <2>4, <3>1
    <3>2. CASE u # v
      <4>1. PICK s \in Requesters : requester[s].pc = "create" /\ NextDependency(s) = u
        BY <2>5, <3>2 DEF ShaderInv, EmptyIsBeingCreated
      <4>2. requester'[s] = requester[s]
        BY <1>1, <2>2, <4>1
      <4> QED
        BY <4>1, <4>2 DEF NextDependency
    <3> QED
      BY <3>1, <3>2
  <2> QED
    BY <2>3, <2>6
<1>9. CASE variants[v] # "absent"
  <2>1. UNCHANGED variants /\ requester' = [requester EXCEPT ![r].next = @ + 1]
    BY <1>9 DEF GetShader
  <2>2. /\ requester'[r].pipeline = requester[r].pipeline
        /\ requester'[r].next = requester[r].next + 1
        /\ \A s \in Requesters : s # r => requester'[s] = requester[s]
    BY <1>2, <2>1 DEF RequesterRecord
  <2>3. \E t \in Tasks : t = v /\ Submitted(t)'
    BY <1>3, <1>9 DEF Grows
  <2>4. \A i \in DOMAIN DependsOn[requester[r].pipeline] : i < requester[r].next + 1 =>
          i < requester[r].next \/ i = requester[r].next
    BY <1>5, <1>6
  <2> HIDE DEF v
  <2>5. \A i \in DOMAIN DependsOn[requester'[r].pipeline] : i < requester'[r].next =>
          \E t \in Tasks : t = DependsOn[requester'[r].pipeline][i] /\ Submitted(t)'
    BY <1>3, <1>4, <1>7, <2>2, <2>3, <2>4
  <2>6. requester'[r].next > 0
    BY <1>5, <2>2
  <2>7. DependenciesFirst'
    BY <1>1, <1>2, <2>2, <2>5, <2>6, LookupsKeep
  <2>8. EmptyIsBeingCreated'
    <3> SUFFICES ASSUME NEW u \in Variants, variants[u] = "empty"
                 PROVE  \E s \in Requesters : requester'[s].pc = "create" /\ NextDependency(s)' = u
      BY <2>1 DEF EmptyIsBeingCreated
    <3>1. PICK s \in Requesters : requester[s].pc = "create" /\ NextDependency(s) = u
      BY DEF ShaderInv, EmptyIsBeingCreated
    <3>2. requester'[s] = requester[s]
      BY <1>1, <2>2, <3>1
    <3> QED
      BY <3>1, <3>2 DEF NextDependency
  <2> QED
    BY <2>7, <2>8
<1> QED
  BY <1>8, <1>9

LEMMA CreateLookups ==
  ASSUME ShaderInv, Grows, NEW r \in Requesters, CreateVariant(r)
  PROVE  EmptyIsBeingCreated' /\ DependenciesFirst'
<1> DEFINE v == NextDependency(r)
<1>1. /\ requester[r].pc = "create"
      /\ variants' = [variants EXCEPT ![v] = "created"]
      /\ requester' = [requester EXCEPT ![r].pc = "submit_shader"]
      /\ UNCHANGED pipelines
  BY DEF CreateVariant
<1>2. /\ HolderInv /\ DependenciesFirst /\ Constructing(r)
      /\ requester \in [Requesters -> RequesterRecord]
      /\ variants \in [Variants -> {"absent", "empty", "created"}]
  BY <1>1 DEF ShaderInv, HolderInv, Constructing, CacheTypes
<1>3. /\ requester'[r].pipeline = requester[r].pipeline
      /\ requester'[r].next = requester[r].next
      /\ \A s \in Requesters : s # r => requester'[s] = requester[s]
  BY <1>1, <1>2 DEF RequesterRecord
<1>4. requester[r].pipeline \in Pipelines /\ DependsOn[requester[r].pipeline] \in Seq(Tasks)
  BY <1>2, PipelinesAssumption, DependsOnAssumption DEF HolderInv, RequestersAre, RequesterIs
<1>5. \A i \in DOMAIN DependsOn[requester[r].pipeline] : i < requester[r].next =>
        \E t \in Tasks : t = DependsOn[requester[r].pipeline][i] /\ Submitted(t)'
  BY <1>2, <1>4 DEF DependenciesFirst, Grows
<1>6. requester[r].next > 0
  BY <1>2 DEF DependenciesFirst
<1>7. DependenciesFirst'
  BY <1>1, <1>2, <1>3, <1>5, <1>6, LookupsKeep
<1>8. EmptyIsBeingCreated'
  <2> SUFFICES ASSUME NEW u \in Variants, variants'[u] = "empty"
               PROVE  \E s \in Requesters : requester'[s].pc = "create" /\ NextDependency(s)' = u
    BY DEF EmptyIsBeingCreated
  <2> HIDE DEF v
  <2>1. u # v /\ variants[u] = "empty"
    BY <1>1, <1>2
  <2>2. PICK s \in Requesters : requester[s].pc = "create" /\ NextDependency(s) = u
    BY <2>1 DEF ShaderInv, EmptyIsBeingCreated
  <2>3. requester'[s] = requester[s]
    BY <1>3, <2>1, <2>2 DEF v
  <2> QED
    BY <2>2, <2>3 DEF NextDependency
<1> QED
  BY <1>7, <1>8

(* The other steps create nothing.                                         *)
LEMMA NothingCreated ==
  ASSUME EmptyIsBeingCreated, NEW r \in Requesters, requester[r].pc # "create",
         \A s \in Requesters : s # r => requester'[s] = requester[s], UNCHANGED variants
  PROVE  EmptyIsBeingCreated'
<1> SUFFICES ASSUME NEW u \in Variants, variants[u] = "empty"
             PROVE  \E s \in Requesters : requester'[s].pc = "create" /\ NextDependency(s)' = u
  BY DEF EmptyIsBeingCreated
<1>1. PICK s \in Requesters : requester[s].pc = "create" /\ NextDependency(s) = u
  BY DEF EmptyIsBeingCreated
<1>2. requester'[s] = requester[s]
  BY <1>1
<1> QED
  BY <1>1, <1>2 DEF NextDependency

LEMMA EntryLookups ==
  ASSUME ShaderInv, Grows, NEW r \in Requesters, NEW p \in Pipelines, GetPipelineEntry(r, p)
  PROVE  EmptyIsBeingCreated' /\ DependenciesFirst'
<1>1. /\ requester[r].pc = "idle" /\ UNCHANGED <<pipelines, variants>>
      /\ requester' = [requester EXCEPT ![r] =
           [pc |-> IF p \in pipelines THEN "requested" ELSE "get_shader",
            pipeline |-> p, next |-> 1]]
  BY DEF GetPipelineEntry
<1>2. /\ HolderInv /\ DependenciesFirst /\ EmptyIsBeingCreated
      /\ requester \in [Requesters -> RequesterRecord]
  BY DEF ShaderInv, HolderInv, CacheTypes
<1>3. /\ requester'[r].next = 1 /\ requester'[r].pipeline = p
      /\ \A s \in Requesters : s # r => requester'[s] = requester[s]
  BY <1>1, <1>2
<1>4. \A i \in DOMAIN DependsOn[p] : ~(i < 1)
  BY DependsOnAssumption, PipelinesAssumption
<1>5. DependenciesFirst'
  BY <1>1, <1>2, <1>3, <1>4, LookupsKeep
<1> QED
  BY <1>1, <1>2, <1>3, <1>5, NothingCreated

LEMMA LeaveLookups ==
  ASSUME ShaderInv, Grows, NEW r \in Requesters, GetPipeline(r) \/ DropDraw(r)
  PROVE  EmptyIsBeingCreated' /\ DependenciesFirst'
<1>1. /\ requester[r].pc = "requested" /\ UNCHANGED <<pipelines, variants>>
      /\ requester' = [requester EXCEPT ![r].pc = "idle"]
  BY DEF GetPipeline, DropDraw
<1>2. /\ HolderInv /\ DependenciesFirst /\ EmptyIsBeingCreated
      /\ requester \in [Requesters -> RequesterRecord]
  BY DEF ShaderInv, HolderInv, CacheTypes
<1>3. /\ ~Constructing(r)'
      /\ \A s \in Requesters : s # r => requester'[s] = requester[s]
  BY <1>1, <1>2 DEF Constructing, RequesterRecord
<1>4. DependenciesFirst'
  BY <1>1, <1>2, <1>3, LookupsKeep
<1> QED
  BY <1>1, <1>2, <1>3, <1>4, NothingCreated

LEMMA SubmitShaderLookups ==
  ASSUME ShaderInv, Grows, NEW r \in Requesters, SubmitShader(r)
  PROVE  EmptyIsBeingCreated' /\ DependenciesFirst'
<1> DEFINE v == NextDependency(r)
<1>1. /\ requester[r].pc = "submit_shader"
      /\ requester' = [requester EXCEPT ![r].pc = "get_shader", ![r].next = @ + 1]
      /\ UNCHANGED <<pipelines, variants>>
  BY DEF SubmitShader
<1>2. /\ HolderInv /\ CacheTypes /\ RequestersAre /\ DependenciesFirst /\ EmptyIsBeingCreated
      /\ Constructing(r) /\ requester \in [Requesters -> RequesterRecord]
  BY <1>1 DEF ShaderInv, HolderInv, CacheTypes, Constructing
<1>3. \E t \in Tasks : t = v /\ Submitted(t)'
  BY <1>2, SubmitShaderKeeps
<1>4. v = DependsOn[requester[r].pipeline][requester[r].next]
  BY DEF NextDependency
<1>5. requester[r].next \in Nat /\ requester[r].next > 0
  BY <1>2 DEF RequesterRecord, DependenciesFirst
<1>6. requester[r].pipeline \in Pipelines /\ DependsOn[requester[r].pipeline] \in Seq(Tasks)
  BY <1>2, PipelinesAssumption, DependsOnAssumption DEF RequestersAre, RequesterIs
<1>7. \A i \in DOMAIN DependsOn[requester[r].pipeline] : i < requester[r].next =>
        \E t \in Tasks : t = DependsOn[requester[r].pipeline][i] /\ Submitted(t)'
  BY <1>2, <1>6 DEF DependenciesFirst, Grows
<1>8. /\ requester'[r].pipeline = requester[r].pipeline
      /\ requester'[r].next = requester[r].next + 1
      /\ \A s \in Requesters : s # r => requester'[s] = requester[s]
  BY <1>1, <1>2 DEF RequesterRecord
<1>9. \A i \in DOMAIN DependsOn[requester[r].pipeline] : i < requester[r].next + 1 =>
        i < requester[r].next \/ i = requester[r].next
  BY <1>5, <1>6
<1> HIDE DEF v
<1>10. \A i \in DOMAIN DependsOn[requester'[r].pipeline] : i < requester'[r].next =>
         \E t \in Tasks : t = DependsOn[requester'[r].pipeline][i] /\ Submitted(t)'
  BY <1>3, <1>4, <1>7, <1>8, <1>9
<1>11. requester'[r].next > 0
  BY <1>5, <1>8
<1>12. DependenciesFirst'
  BY <1>1, <1>2, <1>8, <1>10, <1>11, LookupsKeep
<1> QED
  BY <1>1, <1>2, <1>8, <1>12, NothingCreated

LEMMA SubmitPipelineLookups ==
  ASSUME ShaderInv, Grows, NEW r \in Requesters, SubmitPipeline(r)
  PROVE  EmptyIsBeingCreated' /\ DependenciesFirst'
<1> DEFINE p == requester[r].pipeline
<1>1. /\ requester[r].pc = "get_shader" /\ requester[r].next \notin DOMAIN DependsOn[p]
      /\ requester' = [requester EXCEPT ![r].pc = "requested"]
      /\ pipelines' = pipelines \union {p} /\ UNCHANGED variants
  BY DEF SubmitPipeline
<1>2. /\ HolderInv /\ RequestersAre /\ DependenciesFirst /\ EmptyIsBeingCreated
      /\ Constructing(r) /\ requester \in [Requesters -> RequesterRecord]
  BY <1>1 DEF ShaderInv, HolderInv, CacheTypes, Constructing
<1>3. p \in Pipelines /\ DependsOn[p] \in Seq(Tasks)
  BY <1>2, PipelinesAssumption, DependsOnAssumption DEF RequestersAre, RequesterIs
<1>4. requester[r].next \in Nat /\ requester[r].next > 0
  BY <1>2 DEF RequesterRecord, DependenciesFirst
<1>5. \A i \in DOMAIN DependsOn[p] : i < requester[r].next
  BY <1>1, <1>3, <1>4
<1>6. \A i \in DOMAIN DependsOn[p] : Submitted(DependsOn[p][i])
  BY <1>2, <1>5 DEF DependenciesFirst
<1>7. /\ ~Constructing(r)'
      /\ \A s \in Requesters : s # r => requester'[s] = requester[s]
  BY <1>1, <1>2 DEF Constructing, RequesterRecord
<1>8. DependenciesFirst'
  BY <1>1, <1>2, <1>3, <1>6, <1>7, LookupsKeep
<1> QED
  BY <1>1, <1>2, <1>7, <1>8, NothingCreated

-----------------------------------------------------------------------------
(* The invariant with one kind of pipeline.                                *)

LEMMA ShaderInitial == Init => ShaderInv
<1> SUFFICES ASSUME Init PROVE ShaderInv
  OBVIOUS
<1>1. HolderInv
  BY Initial
<1>2. EmptyIsBeingCreated
  BY DEF Init, EmptyIsBeingCreated
<1>3. DependenciesFirst
  BY DEF Init, DependenciesFirst, Constructing
<1>4. WaitsForSubmitted
  BY DEF Init, SchedulerInit, WaitsForSubmitted
<1> QED
  BY <1>1, <1>2, <1>3, <1>4 DEF ShaderInv

LEMMA RequesterShaders ==
  ASSUME OneKind, ShaderInv, NEW r \in Requesters,
         \/ Requesting(r) \/ GetPipeline(r) \/ DropDraw(r)
         \/ \E p \in Pipelines : GetPipelineEntry(r, p)
  PROVE  ShaderInv'
<1>1. HolderInv /\ CacheTypes /\ RequestersAre /\ SchedulerTypes /\ WorkersHold
      /\ WaitsForSubmitted
  BY DEF ShaderInv, HolderInv
<1>2. HolderInv'
  BY <1>1, RequesterKeeps
<1>3. Grows
  BY <1>1, GetShaderKeeps, CreateKeeps, LeaveKeeps, EntryKeeps, SubmitShaderKeeps,
     SubmitPipelineKeeps DEF Requesting, Resubmits, Grows
<1>4. EmptyIsBeingCreated' /\ DependenciesFirst'
  BY <1>3, GetShaderLookups, CreateLookups, LeaveLookups, EntryLookups, SubmitShaderLookups,
     SubmitPipelineLookups DEF Requesting
<1>5. /\ UNCHANGED <<task_continuation, done>>
      /\ \A w \in Workers : worker'[w].pc = "finish" =>
           worker[w].pc = "finish" /\ worker'[w].continuation = worker[w].continuation
  <2>1. CASE SubmitShader(r)
    <3>1. NextDependency(r) \in Tasks /\ Submit(NextDependency(r))
      BY <1>1, <2>1, SubmitShaderKeeps DEF SubmitShader
    <3> HIDE DEF NextDependency
    <3> QED
      BY <1>1, <3>1, SubmitEffect
  <2>2. CASE SubmitPipeline(r)
    <3>1. requester[r].pipeline \in Tasks /\ Submit(requester[r].pipeline)
      BY <1>1, <2>2, SubmitPipelineKeeps, PipelinesAssumption DEF SubmitPipeline
    <3> QED
      BY <1>1, <3>1, SubmitEffect
  <2>3. CASE \/ GetShader(r) \/ CreateVariant(r) \/ GetPipeline(r) \/ DropDraw(r)
             \/ \E p \in Pipelines : GetPipelineEntry(r, p)
    BY <2>3 DEF GetShader, CreateVariant, GetPipeline, DropDraw, GetPipelineEntry, scheduler
  <2> QED
    BY <2>1, <2>2, <2>3 DEF Requesting
<1>6. WaitsForSubmitted'
  BY <1>1, <1>3, <1>5, WaitsKeep
<1> QED
  BY <1>2, <1>4, <1>6 DEF ShaderInv

LEMMA WorkerShaders ==
  ASSUME ShaderInv, NEW w \in Workers, WorkerStep(w) \/ WakeSpuriously(w), UNCHANGED cache
  PROVE  ShaderInv'
<1>1. HolderInv /\ EmptyIsBeingCreated /\ DependenciesFirst /\ WaitsForSubmitted
  BY DEF ShaderInv
<1>2. HolderInv'
  BY <1>1, WorkerKeeps
<1>3. EmptyIsBeingCreated' /\ DependenciesFirst'
  BY <1>1, CacheLeavesLookups
<1>4. WaitsForSubmitted'
  BY <1>1, WorkerWaits
<1> QED
  BY <1>2, <1>3, <1>4 DEF ShaderInv

LEMMA DestructionShaders ==
  ASSUME ShaderInv, DestructorStep \/ StoreDestroyed \/ UNCHANGED scheduler, UNCHANGED cache
  PROVE  ShaderInv'
<1>1. HolderInv /\ EmptyIsBeingCreated /\ DependenciesFirst /\ WaitsForSubmitted
  BY DEF ShaderInv
<1>2. HolderInv'
  BY <1>1, DestructionKeeps, StutterKeeps DEF vars
<1>3. EmptyIsBeingCreated' /\ DependenciesFirst'
  BY <1>1, CacheLeavesLookups
<1>4. /\ UNCHANGED <<task_continuation, done>>
      /\ worker' = worker \/ worker' = AllAwake(worker)
  BY DEF DestructorStep, NotifyDestroyed, Join, StoreDestroyed, scheduler
<1>5. worker \in [Workers -> WorkerRecord]
  BY <1>1 DEF HolderInv, SchedulerTypes
<1>6. \A w \in Workers : worker'[w].pc = "finish" =>
        worker[w].pc = "finish" /\ worker'[w].continuation = worker[w].continuation
  BY <1>4, <1>5, AllWoken DEF Woken
<1>7. Grows
  BY CacheKeeps DEF Grows, Resubmits
<1>8. WaitsForSubmitted'
  BY <1>1, <1>4, <1>6, <1>7, WaitsKeep
<1> QED
  BY <1>2, <1>3, <1>8 DEF ShaderInv

LEMMA ShaderStep ==
  ASSUME OneKind
  PROVE  ShaderInv /\ [Next]_vars => ShaderInv'
BY RequesterShaders, WorkerShaders, DestructionShaders DEF Next, Release, Idle, vars

(* With one kind of pipeline, shaders are submitted before the pipelines   *)
(* that need them, and tasks wait only for what was submitted.             *)
THEOREM ShaderInvariance == OneKind => (Spec => []ShaderInv)
<1> SUFFICES ASSUME OneKind
             PROVE  Spec => []ShaderInv
  OBVIOUS
<1>1. Init => ShaderInv
  BY ShaderInitial
<1>2. ShaderInv /\ [Next]_vars => ShaderInv'
  BY ShaderStep
<1> QED
  BY <1>1, <1>2, PTL DEF Spec

(* With one kind of pipeline no thread finds the nullptr that another one  *)
(* has inserted and not replaced yet.                                      *)
THEOREM ShadersAreWhole == OneKind => (Spec => []NoHalfCreatedShader)
<1> SUFFICES ASSUME OneKind
             PROVE  Spec => []NoHalfCreatedShader
  OBVIOUS
<1>1. ShaderInv => NoHalfCreatedShader
  BY LookupFinds DEF NoHalfCreatedShader
<1>2. Spec => []ShaderInv
  BY ShaderInvariance
<1> QED
  BY <1>1, <1>2, PTL

(* With one kind of pipeline a task waits only for one that the scheduler  *)
(* has and that has still to look for its continuations.                   *)
THEOREM ContinuationsAreExpected == OneKind => (Spec => []NoStrandedContinuation)
<1> SUFFICES ASSUME OneKind
             PROVE  Spec => []NoStrandedContinuation
  OBVIOUS
<1>1. ShaderInv => NoStrandedContinuation
  <2> SUFFICES ASSUME ShaderInv, NEW pair \in task_continuation
               PROVE  pair[1] \notin done /\ Holders(pair[1]) = 1
    BY DEF NoStrandedContinuation
  <2>1. HolderInv /\ Submitted(pair[1]) /\ pair[1] \notin done
    BY DEF ShaderInv, WaitsForSubmitted
  <2>2. pair[1] \in Tasks
    BY <2>1 DEF HolderInv, SchedulerTypes
  <2> QED
    BY <2>1, <2>2, HoldersOf
<1>2. Spec => []ShaderInv
  BY ShaderInvariance
<1> QED
  BY <1>1, <1>2, PTL

=============================================================================
