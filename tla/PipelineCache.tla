--------------------------- MODULE PipelineCache ---------------------------
(***************************************************************************)
(* PipelineCache: threads ask for pipelines, whose construction asks for   *)
(* shader variants; the cache creates what it does not have and submits it *)
(* to the scheduler. The thread that encodes a draw waits for its pipeline.*)
(*                                                                         *)
(* Each kind of pipeline has a mutex, held from the lookup until the       *)
(* pipeline is submitted. The variants of a shader have none.              *)
(***************************************************************************)
EXTENDS TaskScheduler

CONSTANTS
  Pipelines,    \* the tasks that are pipelines; the others are shader variants
  Kind,         \* of each pipeline: graphics, geometry, tessellation, compute
  Requesters,   \* threads that draw
  MaxRequests   \* bound: requests of all threads

Variants == Tasks \ Pipelines

ASSUME PipelinesAssumption == Pipelines \subseteq Tasks
ASSUME VariantsAssumption ==
  /\ \A p \in Pipelines : DependsOn[p] \in Seq(Variants)
  /\ \A v \in Variants : DependsOn[v] = <<>>

VARIABLES
  pipelines,   \* keys of the maps of pipelines
  variants,    \* of each variant: absent, empty (inserted as nullptr), created
  requester,   \* of each thread: see RequesterRecord
  requests     \* requests so far

cache == <<pipelines, variants, requester, requests>>
vars == <<scheduler, cache>>

RequesterRecord ==
  [pc : {"idle", "get_shader", "create", "submit_shader", "requested"},
   pipeline : Tasks \union {None},
   next : Nat]    \* the dependency that is looked up next

Init ==
  /\ SchedulerInit
  /\ pipelines = {}
  /\ variants = [v \in Variants |-> "absent"]
  /\ requester = [r \in Requesters |->
                    [pc |-> "idle", pipeline |-> None, next |-> 1]]
  /\ requests = 0

Constructing(r) == requester[r].pc \in {"get_shader", "create", "submit_shader"}

FaultNoMutex(kind) == TRUE
MutexFree(kind) ==
  \A r \in Requesters : Constructing(r) => Kind[requester[r].pipeline] /= kind

NextDependency(r) == DependsOn[requester[r].pipeline][requester[r].next]

(* Get...Pipeline: lock, find, and return the pipeline or construct it. *)
GetPipelineEntry(r, p) ==
  /\ requester[r].pc = "idle"
  /\ requests < MaxRequests
  /\ destructor = "none"
  /\ MutexFree(Kind[p])
  /\ requester' = [requester EXCEPT ![r] =
       [pc |-> IF p \in pipelines THEN "requested" ELSE "get_shader",
        pipeline |-> p, next |-> 1]]
  /\ requests' = requests + 1
  /\ UNCHANGED <<scheduler, pipelines, variants>>

(* get_shader: insert {variant, nullptr}, or return what is there. *)
GetShader(r) ==
  LET v == NextDependency(r) IN
  /\ requester[r].pc = "get_shader"
  /\ requester[r].next \in DOMAIN DependsOn[requester[r].pipeline]
  /\ IF variants[v] = "absent"
       THEN /\ variants' = [variants EXCEPT ![v] = "empty"]
            /\ requester' = [requester EXCEPT ![r].pc = "create"]
       ELSE /\ requester' = [requester EXCEPT ![r].next = @ + 1]
            /\ UNCHANGED variants
  /\ UNCHANGED <<scheduler, pipelines, requests>>

CreateVariant(r) ==
  /\ requester[r].pc = "create"
  /\ variants' = [variants EXCEPT ![NextDependency(r)] = "created"]
  /\ requester' = [requester EXCEPT ![r].pc = "submit_shader"]
  /\ UNCHANGED <<scheduler, pipelines, requests>>

SubmitShader(r) ==
  /\ requester[r].pc = "submit_shader"
  /\ Submit(NextDependency(r))
  /\ requester' = [requester EXCEPT ![r].pc = "get_shader", ![r].next = @ + 1]
  /\ UNCHANGED <<pipelines, variants, requests>>

SubmitPipeline(r) ==
  LET p == requester[r].pipeline IN
  /\ requester[r].pc = "get_shader"
  /\ requester[r].next \notin DOMAIN DependsOn[p]
  /\ Submit(p)
  /\ pipelines' = pipelines \union {p}
  /\ requester' = [requester EXCEPT ![r].pc = "requested"]
  /\ UNCHANGED <<variants, requests>>

(* GetPipeline returns when ready_ is set; or the draw is never encoded. *)
GetPipeline(r) ==
  /\ requester[r].pc = "requested"
  /\ requester[r].pipeline \in done
  /\ requester' = [requester EXCEPT ![r].pc = "idle"]
  /\ UNCHANGED <<scheduler, pipelines, variants, requests>>

DropDraw(r) ==
  /\ requester[r].pc = "requested"
  /\ requester' = [requester EXCEPT ![r].pc = "idle"]
  /\ UNCHANGED <<scheduler, pipelines, variants, requests>>

(* The device is released once no thread uses it. *)
Release ==
  /\ \A r \in Requesters : requester[r].pc = "idle"
  /\ StoreDestroyed
  /\ UNCHANGED cache

Finished == destructor = "joined" \/ slept_late
Idle == Finished /\ UNCHANGED vars

Requesting(r) ==
  GetShader(r) \/ CreateVariant(r) \/ SubmitShader(r) \/ SubmitPipeline(r)

Next ==
  \/ \E r \in Requesters :
       Requesting(r) \/ GetPipeline(r) \/ DropDraw(r)
         \/ \E p \in Pipelines : GetPipelineEntry(r, p)
  \/ \E w \in Workers : (WorkerStep(w) \/ WakeSpuriously(w)) /\ UNCHANGED cache
  \/ DestructorStep /\ UNCHANGED cache
  \/ Release
  \/ Idle

Spec == Init /\ [][Next]_vars

(* Threads are scheduled. A thread that waits for worker_mutex_ gets it if *)
(* it is free again and again: spurious wakeups take it in between.        *)
Fairness ==
  /\ \A w \in Workers : SF_vars(WorkerStep(w) /\ UNCHANGED cache)
  /\ \A r \in Requesters : SF_vars(Requesting(r))
  /\ WF_vars(DestructorStep /\ UNCHANGED cache)

FairSpec == Spec /\ Fairness

-----------------------------------------------------------------------------
(* Properties.                                                             *)

(* Every variable has its type. *)
TypeOK ==
  /\ SchedulerTypeOK
  /\ pipelines \subseteq Pipelines
  /\ variants \in [Variants -> {"absent", "empty", "created"}]
  /\ requester \in [Requesters -> RequesterRecord]
  /\ requests \in 0 .. MaxRequests

Submitted(task) ==
  IF task \in Pipelines THEN task \in pipelines
  ELSE /\ variants[task] = "created"
       /\ ~\E r \in Requesters :
            requester[r].pc = "submit_shader" /\ NextDependency(r) = task

(* How many hold the task: the queues, the continuation map, the workers. *)
Count(task, queue) == Cardinality({i \in DOMAIN queue : queue[i] = task})

Holders(task) ==
  Count(task, task_queue) + Count(task, task_continuation_queue)
    + Cardinality({pair \in task_continuation : pair[2] = task})
    + Cardinality({w \in Workers : worker[w].task = task})
    + Cardinality({w \in Workers : task \in worker[w].buffer})

(* A task that was submitted and is not done has one holder, and any other *)
(* task none: no task is lost between the queues and the workers, run by   *)
(* two workers, or run again when it is done.                              *)
OneHolder ==
  \A task \in Tasks :
    Holders(task) = IF Submitted(task) /\ task \notin done THEN 1 ELSE 0

(* A task registered as a continuation waits for one that is still going   *)
(* to finish and to look for its continuations.                            *)
NoStrandedContinuation ==
  \A pair \in task_continuation :
    pair[1] \notin done /\ Holders(pair[1]) = 1

(* A thread that looks a variant up never finds the nullptr another thread *)
(* has inserted and not replaced yet.                                      *)
NoHalfCreatedShader ==
  \A r \in Requesters :
    (requester[r].pc = "get_shader"
       /\ requester[r].next \in DOMAIN DependsOn[requester[r].pipeline])
      => variants[NextDependency(r)] /= "empty"

(* A thread that waits for a pipeline is not kept waiting, unless the      *)
(* application releases the device.                                        *)
PipelineBecomesReady ==
  \A p \in Pipelines : (p \in pipelines) ~> (p \in done \/ Destroyed)

(* The destructor returns, unless a worker went to sleep after its         *)
(* notification, having tested destroyed before it was stored.             *)
ShutdownEnds == (destructor = "stored") ~> (destructor = "joined" \/ slept_late)

=============================================================================
