-------------------------- MODULE PipelineCacheInv --------------------------
(***************************************************************************)
(* The inductive invariants behind OneHolder, and, with one kind of        *)
(* pipeline, behind NoHalfCreatedShader and NoStrandedContinuation.        *)
(***************************************************************************)
EXTENDS PipelineCache

(* The variables that say where a task is have their types.                *)
SchedulerTypes ==
  /\ task_queue \in Seq(Tasks) /\ task_continuation_queue \in Seq(Tasks)
  /\ task_continuation \subseteq Tasks \X Tasks
  /\ IsFiniteSet(task_continuation)
  /\ done \subseteq Tasks
  /\ worker \in [Workers -> WorkerRecord]
  /\ \A w \in Workers : IsFiniteSet(worker[w].buffer)

CacheTypes ==
  /\ pipelines \subseteq Pipelines
  /\ variants \in [Variants -> {"absent", "empty", "created"}]
  /\ requester \in [Requesters -> RequesterRecord]

(* A worker has a task from taking it until it is finished or registered,  *)
(* and a buffer of continuations until it has pushed them.                 *)
WorkerHolds(w) ==
  /\ worker[w].task # None <=> worker[w].pc \in {"count", "run", "finish"}
  /\ worker[w].pc = "finish" => worker[w].continuation \in Tasks
  /\ worker[w].pc # "push" => worker[w].buffer = {}

WorkersHold == \A w \in Workers : WorkerHolds(w)

-----------------------------------------------------------------------------
(* Where a task is.                                                        *)

In(task, queue) == \E i \in DOMAIN queue : queue[i] = task
Distinct(queue) ==
  \A i \in DOMAIN queue : \A j \in DOMAIN queue : queue[i] = queue[j] => i = j

Waits(task)    == \E pair \in task_continuation : pair[2] = task
Runs(task)     == \E w \in Workers : worker[w].task = task
Buffered(task) == \E w \in Workers : task \in worker[w].buffer

Held(task) ==
  \/ In(task, task_queue) \/ In(task, task_continuation_queue)
  \/ Waits(task) \/ Runs(task) \/ Buffered(task)

(* No part of the scheduler holds a task twice ...                         *)
NoRepeats ==
  /\ Distinct(task_queue) /\ Distinct(task_continuation_queue)
  /\ \A x, y \in task_continuation : x[2] = y[2] => x = y
  /\ \A w, v \in Workers :
       worker[w].task = worker[v].task /\ worker[w].task # None => w = v
  /\ \A w, v \in Workers :
       w # v => worker[w].buffer \cap worker[v].buffer = {}

(* ... no two parts hold the same one, ...                                 *)
OnePlace(task) ==
  /\ In(task, task_queue) =>
       ~In(task, task_continuation_queue) /\ ~Waits(task) /\ ~Runs(task) /\ ~Buffered(task)
  /\ In(task, task_continuation_queue) => ~Waits(task) /\ ~Runs(task) /\ ~Buffered(task)
  /\ Waits(task) => ~Runs(task) /\ ~Buffered(task)
  /\ Runs(task) => ~Buffered(task)

(* ... and some part holds it from when it is submitted until it is done.  *)
HeldUntilDone(task) ==
  /\ Held(task) <=> Submitted(task) /\ task \notin done
  /\ task \in done => Submitted(task)

Places == \A task \in Tasks : OnePlace(task) /\ HeldUntilDone(task)

-----------------------------------------------------------------------------
(* The threads that draw.                                                  *)

Creating(r) == requester[r].pc \in {"create", "submit_shader"}

(* A thread constructs a pipeline that is not submitted, and creates a     *)
(* variant that it has inserted.                                           *)
RequesterIs(r) ==
  /\ Constructing(r) =>
       requester[r].pipeline \in Pipelines /\ requester[r].pipeline \notin pipelines
  /\ Creating(r) => requester[r].next \in DOMAIN DependsOn[requester[r].pipeline]
  /\ requester[r].pc = "create" => variants[NextDependency(r)] = "empty"
  /\ requester[r].pc = "submit_shader" => variants[NextDependency(r)] = "created"

(* No two threads construct the same kind of pipeline or create the same   *)
(* variant.                                                                *)
OneCreator ==
  \A r, s \in Requesters :
    /\ Constructing(r) /\ Constructing(s)
         /\ Kind[requester[r].pipeline] = Kind[requester[s].pipeline] => r = s
    /\ Creating(r) /\ Creating(s) /\ NextDependency(r) = NextDependency(s) => r = s

RequestersAre == (\A r \in Requesters : RequesterIs(r)) /\ OneCreator

HolderInv ==
  /\ SchedulerTypes /\ WorkersHold /\ NoRepeats /\ Places
  /\ CacheTypes /\ RequestersAre

-----------------------------------------------------------------------------
(* One kind of pipeline: one mutex for whoever constructs.                 *)

OneKind == \A p, q \in Pipelines : Kind[p] = Kind[q]

(* A variant is nullptr only while its thread creates it.                  *)
EmptyIsBeingCreated ==
  \A v \in Variants : variants[v] = "empty" =>
    \E r \in Requesters : requester[r].pc = "create" /\ NextDependency(r) = v

(* What a thread has looked up is submitted, and so is what a pipeline in  *)
(* the map depends on.                                                     *)
DependenciesFirst ==
  /\ \A r \in Requesters : Constructing(r) =>
       /\ requester[r].next > 0
       /\ \A i \in DOMAIN DependsOn[requester[r].pipeline] :
            i < requester[r].next => Submitted(DependsOn[requester[r].pipeline][i])
  /\ \A p \in pipelines : \A i \in DOMAIN DependsOn[p] : Submitted(DependsOn[p][i])

(* What a task waits for, or is about to, is submitted; and what it waits  *)
(* for is not done.                                                        *)
WaitsForSubmitted ==
  /\ \A w \in Workers :
       worker[w].pc = "finish" => Submitted(worker[w].continuation)
  /\ \A pair \in task_continuation :
       Submitted(pair[1]) /\ pair[1] \notin done

ShaderInv ==
  HolderInv /\ EmptyIsBeingCreated /\ DependenciesFirst /\ WaitsForSubmitted

=============================================================================
