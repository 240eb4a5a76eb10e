# Verification of the ADX12 / DXMT runtime

The repository assembles a Direct3D 10/11/12 implementation that runs on Metal
(`src/source/dxmt-adx12/src`, below simply `src`), a frontend that loads Apple's
D3DMetal, and the scripts that build both. This directory holds TLA+ models of
its concurrent and stateful parts, the configurations under which TLC checks
them, and proofs that TLAPS checks.

## 1. Inventory

The D3D11 runtime is a pipeline of three threads and a GPU:

    application threads --device lock--> ImmediateContext --> CommandQueue ring
        ring --> EncodingThread --> MTLCommandBuffer --> GPU
        ring <-- WaitForFinishThread <-- completion

| Component (source) | State | Operations | Interacts with | What makes it correct |
|---|---|---|---|---|
| Command queue (`dxmt/dxmt_command_queue.*`, `util/util_cpu_fence.hpp`) | ring of chunks, counters `ready_for_encode`, `ready_for_commit`, `chunk_ongoing`, fence `cpu_coherent`, frame latency | commit, present boundary, wait, both threads, destructor | everything that records; the GPU | a slot belongs to one chunk; retirement in order; nothing reset while the GPU uses it; shutdown ends |
| Frame pacing (`dxmt_command_queue.hpp` 252-280, `d3d11_swapchain.cpp`, `d3d11_device.cpp`) | `frame_count`, `max_latency_`, latency fence | Present1, SetMaximumFrameLatency | several swap chains, the device lock | Present waits only for presented frames |
| Immediate context (`d3d11_context_imm.cpp`, `d3d11_context_impl.cpp`) | current pass, promoted flush, dirty flag, coherent number | draws, copies, Map, Flush, queries, command lists | queue, staging, queries | Map waits only for what is committed; queries are signalled, and not early |
| Staging resources (`dxmt_staging.*`) | numbers of the last GPU read and write, pool of names | tryMap, use, rename | context, `cpu_coherent` | memory given to the CPU is not in use by the GPU |
| Deferred contexts and dynamic resources (`d3d11_context_def.cpp`, `dxmt_dynamic.*`) | name of each dynamic resource, recycled and collected allocations | Map DISCARD / NO_OVERWRITE, FinishCommandList, ExecuteCommandList | context, allocator, `cpu_coherent` | an allocation handed out is free |
| Ring bump allocators (`dxmt_ring_bump_allocator.hpp`) | blocks with the number of their last use | allocate, free_blocks | queue, staging, initializer | no byte of a chunk in flight is reused |
| Resource initializer (`dxmt_resource_initializer.*`) | upload command buffer, its number, zero buffer | init*, flushToWait | chunks wait for its event | every resource is initialised before its first use |
| Queries (`d3d11_query.*`, `dxmt_occlusion_query.hpp`) | begin and end offsets, accumulated value | begin, end, issue, getValue | chunks, read-back | a query counts its own interval |
| Dependency tracking (`dxmt_deptrack.*`, `dxmt_residency.hpp`) | fences of the last reader and writer of an allocation | read, write, barrier | encoding context | conflicting passes are ordered |
| Encoding context (`dxmt_context.*`) | list of encoders of a chunk | start, end, merge, flush passes | deptrack, argument heaps | merging keeps the order of conflicting accesses |
| Task scheduler and caches (`dxmt_tasks.hpp`, `d3d11_pipeline_cache.*`, `dxmt_shader_cache.*`) | task and continuation queues, dependency map | submit, run, continuation | pipelines, shaders | no continuation is lost; shutdown ends |
| Keyed mutex (`dxmt_keyed_mutex.*`) | owned flag, event values | acquire, release | other processes | one owner; GPU work of the previous owner first |
| Multithread lock (`d3d11_multithread.*`) | owner, count, protected flag | lock, unlock, set_protected | all contexts | mutual exclusion |
| D3D12 list and allocator (`d3d12_command_list.cpp`, `d3d12_command_allocator.*`) | passes of each list, who records, API state and its dirty part | Create, Close, Reset, draws, dispatches, copies, clears, state setters, barriers | the queue, which follows a list's passes | a list executes what was recorded into it; each draw sees the state it was recorded with |
| D3D12 queue and fence (`d3d12_command_queue.cpp`, `d3d12_fence.cpp`, `dxmt_fence.*`) | shared event of a fence and the value it was last told | Execute, Present, Signal, Wait, SetEventOnCompletion | application threads, event listener thread, GPU | waits order the work; blocking calls return |
| D3D11/12 objects, D3D10, DXGI | descriptions, reference counts | create, query | – | sequential |
| airconv, DXBCParser | – | compile | caches | pure function |
| winemetal, util, nvapi, nvngx | – | forwarding | Metal, Windows | – |
| Frontend, scripts, patches, tests | process environment | – | – | – |

Hard behaviours: unlocked atomics between three threads, a ring that fills,
shutdown by fake counter increments, calls that block under the device lock for
work that only a later flush commits, memory reused on the strength of one
number, lists that are executed more than once. `PROJECT.json` lists each at its
line, with the properties that cover it or the module that is to.

## 2. Modules

| Module | Models |
|---|---|
| `ChunkPipeline` | abstract: chunks are committed, submitted and completed in order, at most `Depth` in flight |
| `CommandQueue` | the ring, both threads, frame latency, shutdown; one step per shared access |
| `CommandQueueInv` | its inductive invariant |
| `CommandQueueProofs` | theorems about it and about its frames (the numbers in chunks, the latency fence, Present) |
| `FramePacing` | several presenters of one device, over `ChunkPipeline` |
| `FramePacingInv` | the inductive invariant for one presenter |
| `ImmediateContext` | when chunks are committed, event queries, Map of staging resources |
| `ImmediateContextInv`, `ImmediateContextProofs` | its inductive invariant, theorems about it |
| `DynamicResource` | one dynamic buffer or texture: Map DISCARD and NO_OVERWRITE, renaming, command lists |
| `DynamicResourceInv` | its inductive invariants |
| `D3D11Proofs` | theorems about `FramePacing` and `DynamicResource` |
| `TaskScheduler` | the compilation threads: queues, continuations, destructor |
| `PipelineCache` | threads that ask for pipelines, over `TaskScheduler` |
| `PipelineCacheInv`, `PipelineCacheProofs` | its inductive invariants, theorems about it |
| `RingBump` | the block allocator: `allocate` and `free_blocks` as operators |
| `ResourceInitializer` | uploads, their memory, and the chunks that wait for them, over `RingBump` |
| `ResourceInitializerInv`, `ResourceInitializerProofs` | its inductive invariant, theorems about it and about the block allocator |
| `FenceTracking` | the access trackers, the sets of fences and the simplification of waits, as operators |
| `EncodingContext` | passes of a chunk, their fences and barriers, and the optimizer of a flush, over `FenceTracking` |
| `EncodingContextInv` | the inductive invariants of barriers inside a pass, of the list of passes, of the fences and of conflicts; what makes a list sound |
| `EncodingContextProofs` | theorems about barriers, the place of events, the fences and the order of conflicts |
| `EncodingListProofs` | theorems about what the optimizer makes of a list, and what is recorded |
| `D3D12Recording` | command lists that record into allocators: passes, dirty state, Reset and Close |
| `D3D12RecordingInv` | its inductive invariants |
| `D3D12Queue` | D3D12 queues and fences with the threads that wait for them |
| `D3D12QueueInv` | its inductive invariant |
| `D3D12Proofs` | theorems about both |
| `MC*` | instances for TLC |

Names are the source's. `FramePacing` and `D3D12Queue` say `PacingSpec` and `QueueSpec`, since a module
proves theorems about each of them and another component. Names that start with `Fault` are mistakes of the kind a
programmer makes in the definition after them; no specification uses them. They
show that a property can fail: with the mistake in place TLC finds it violated.

### CommandQueue

`ready_for_encode`, `ready_for_commit`, `chunk_ongoing`, `stopped`,
`cpu_coherent`, `frame_latency_fence` are the atomics; `chunks` is the array.
`app_pc`, `enc_pc`, `fin_pc` are where the three threads are between two shared
accesses. A wait is a step whose guard is the predicate of the `atomic::wait`.
`Emit`, `Commit`, `Present`, `SetMaxLatency`, `CallWaitCPUFence` and `Destroy`
are calls the application makes; `AppNext` is how a call goes on. EncodingThread is
`EncCheck .. EncSignal`, WaitForFinishThread `FinCheck .. SubOngoing`. The GPU
(`gpu`) completes command buffers in any order. `chunk_ongoing` is incremented
after `ready_for_encode`, so it may pass below zero: it is modelled modulo `W`.
`frame_chunk` is a history variable: which chunk carries each present.
An error status of a command buffer is not modelled (the code only logs it), nor
is a GPU that never completes.

### FramePacing

Present1 commits under the device lock and calls `PresentBoundary` after
releasing it. One step is one load or store of `frame_count` and `max_latency_`.
The queue is `ChunkPipeline`, which `CommandQueue` is proved to implement.

### ImmediateContext

One step is one call: the device lock makes handlers atomic, except that
Map gives up its step where it waits (`MapWaits`, `FenceReturns`). The chunk
number is `committed + 1`; the GPU runs (`Execute`) and the queue retires
(`Complete`) committed chunks in order. `cmdbuf_state`, `promote_flush`,
`has_dirty_op_since_last_event` are the code's. `query` holds each event
query's state and what it covers, `staging` each resource's numbers and names.

### DynamicResource

`name` and `owned` are the immediate name and its flag, `fifo` the queue of free
allocations, `list` the command lists with what they collected (`used`) and what
their commands read. The code resolves a command's memory when the chunk is
encoded, from the renames encoded before it; chunks are encoded in the order
they were recorded in, so the model resolves it when it is recorded, in `bound`
and `bound_sub`. `reads` is what each chunk reads, a history variable. A list is
released by the application or by the last chunk that held it, whichever is
later; its recycling is one step, since each `recycle` holds the mutex and nothing
the properties see happens between two of them.

Three constants choose what an instance contains. `Kinds`: with "texture" the list
marks its allocation as not the latest (`d3d11_context_def.cpp` 220) and both
`NoOverwriteIsBound` and `DiscardIsExclusive` fail. `LateRecycle`: a list's Reset
reads `CurrentSeqId` before it recycles, on the finishing thread, and a commit in
between makes the number too small; with `TRUE` `DiscardIsExclusive` fails.
`MaxExecutions`: a list with a suballocated buffer that is executed again, see the
findings. The passing run excludes the three; `PROJECT.json` lists each as a hazard.

### TaskScheduler and PipelineCache

`worker` holds for each thread where it is in `worker_func`, its task, what
`run_task` returned and its `continuation_buffer`. `task_continuation` is the
multimap. `deps_mutex_` is always held for one step. So is `worker_mutex_`, except
from a worker's test of its predicate to its sleep (`falling_asleep`): the destructor
stores `destroyed` and notifies without that mutex, so both may happen in
between, and that worker sleeps for ever. The history variable `slept_late` says
that it did. A condition variable may wake a thread for no reason.

`PipelineCache` extends it with the callers: a thread locks the mutex of a kind of
pipeline, looks the pipeline up, or creates it, which looks up its shader
variants (inserted as `nullptr`, then replaced, then submitted), and submits it.
`variants` tells a `nullptr` (`empty`) from a created variant: nothing but the mutex of
the kind keeps two threads from seeing one, so that pipelines of two kinds that
share a variant do (`Kind <- OneOfEach` in `MCPipelineCache` shows it); the run has one
kind. A thread then waits for the pipeline, or its draw is never encoded. What a
task computes, and the order in which a device's members are destroyed, are left
out.

### RingBump and ResourceInitializer

A block carries the number of its last use only. `Allocate` and `FreeBlocks` are
the two operations on the queue of blocks; sizes are in units of the alignment.

In `ResourceInitializer` a call holds `mutex_` and is one step, but where its
command does not fit it flushes and leaves in a second one (`flushing`), as
the macros at the head of the source do. `uploads` are the command buffers
of the upload queue, `signaled` its event, `wait` the event value each chunk
waits for. `created_in` is the chunk that was recorded when a resource was
created: the first that may use it, and the most demanding, as chunks run in order.
Resources whose initialisation was left out because the heap was full are kept
apart as `dropped`: they are never filled, which `PROJECT.json` lists as hazards.
Contents of depth-stencil textures, storage retained for references, a
Metal heap that cannot be allocated and `wait()` are not modelled.

### FenceTracking and EncodingContext

Every pass has an id (a render pass two: its vertex stage, then its fragment
stage), and an id has the fence `id % FenceCount`. `FenceTracking` has the
operations of `GenericAccessTracker`, which answer an access with the fences to
wait for and the barriers to emit, `TrackingSet` (the ring of recent readers), and
`collectAndSimplifyWaits` with its weak fences. `Lane` and `Parity` are `kLane` and
`kParity`; a small `Lane` makes ids share fences after a few passes.

`EncodingContext` keeps the list of encoders since the last flush, the
current one, and in `gpu` what Metal makes of what was encoded: a wait is for
the last update of the fence encoded before it, and passes run concurrently
otherwise. `Access` is one binding, `Command` a draw or dispatch with the barrier
resolution before it, `EndPass` the end of a pass with the simplification of its
waits. `FlushCommands` runs the whole optimizer (`Optimized`: `checkEncoderRelation` of
every clear and render with what follows it) and encodes what is left.
`SameAsRecorded` executes a list twice, as recorded and as optimized, and compares
contents and what each pass has read.

An application can reach states in which the properties fail. Named constants,
`FALSE` in the runs, exclude them; each was tried with `TRUE`.

- `FragmentToVertex`: a vertex stage that uses what a fragment stage of the same pass
  used. The barrier is omitted, with a warning (`dxmt_context.cpp` 822), and
  `exclusive_` goes back from the fragment's id to the vertex stage's
  (`dxmt_deptrack.cpp` 86), so that later passes do not wait for the fragments.
- `DistantWrites`: a render pass that writes what was written two lanes ago or more
  waits for that id whatever its distance (`dxmt_deptrack.cpp` 123, 221); that wait
  takes the fence's lane away from the weak fences.
- `ResolveAnywhere`: a resolve is merged into an earlier render pass although a
  pass in between uses its destination (`dxmt_context.cpp` 1364).
- `ClearAfterReaders`: depth that is cleared later is not stored (`dxmt_context.cpp`
  1352), although a pass in between reads it, or a pass before it that reads it is merged
  into one behind it: two passes that only read have no order. `FALSE` keeps what one
  pass has read-only and another only reads from being cleared in the list.
- A clear that is merged into a render hands its waits to the fragment stage only
  (`dxmt_context.cpp` 1319), so that the vertex stage loses what it was ordered after
  through the clear. With `Lane = 2` a clear, three clears of another texture and a render to it
  that reads the first in its vertex stage fail `ConflictsAreOrdered`: the three clears are
  merged into the render, and nothing is left that the vertex stage waits for. No constant
  excludes this: `encoding_merges` gives a lane four ids, which its lists do not exceed (in the
  code a lane has 64, and a list would need as many merged passes), and the theorem
  about distant passes is for lists of one pass.
- `Forgotten`, in `ConflictsAreOrdered`: a fragment stage that reads what the vertex
  stage of its own pass wrote is not remembered as a reader (`dxmt_deptrack.cpp` 157).
- In `BarriersBetweenConflicts`, while UAV overlap is on a barrier after reads counts
  as one between writes and is masked (`dxmt_deptrack.cpp` 28), so that only reads
  in compute passes are sure to be preceded by one.
- In `encoding_merges` shaders of render passes only read: merged render passes
  lose what orders two fragment stages that write through UAVs.

Left out: array length and the argument buffer in the comparison of two passes,
statistics, tessellation and geometry passes, visibility results, the passes
that clear UAVs; a command has one use of a resource, as D3D11 unbinds
conflicting bindings. Timestamps are events like signals and waits.

### D3D12Recording

`allocator` holds for each allocator whether a list records (`encoder_last` is set),
the pass that is open, and the passes behind each entry of `encoder_lists_`. `list`
holds the API state, one small version number for each part, and `dirty_state_`. A
pass holds in `bound` what was written into it, and each of its commands with what
was bound when it was encoded. `recorded` is the history variable: the commands
as the application recorded them. `Prepared` is `PreDraw` and `PreDispatch`; `Found` is
what ExecuteCommandLists finds when it follows the list's entry.

Index buffer and topology are read by the draw itself and not kept. Calls that
return at once for invalid arguments are left out, as are clears with rectangles;
at most 64 lists use an allocator between two Resets, so that entries do not
move; the application does not use a list whose Reset was refused, nor execute
one whose allocator was reset. `KkPipelines` and `CountChanges` exclude two cases in
which a draw sees old state, both listed as hazards.

### D3D12Queue

`event` has the value of each shared event a fence has had, the last of which is
`event_`; a queue's command buffers, and threads and handles that wait, name the event they were
recorded with. Signalling a lower value appends an event. Command buffers of a queue run in
their order, and Execute and Present leave their thread waiting for theirs.
`signals` is a history variable: the signals of a fence and the submissions each
comes after. `MayTell` and `IsTold` are what the code relies on and does not check:
a fence is lowered when nothing uses it, and a queue waits for what was signalled before. A second signal of the same
value has no effect, as in the code.

## 3. Runs

| Run | Instance | Shows |
|---|---|---|
| `queue` | 3 slots, 4 commits, latency 1, counter modulo 5 | ring, order, pacing, the inductive invariant, refinement of `ChunkPipeline`; blocking calls return, chunks retire, shutdown ends |
| `pacing_single` | one presenter, latency 0..2 changed twice, 4 frames | Present waits for presented frames only, and returns |
| `pacing_two` | two presenters, latency 3 | violation: the unprotected `frame_count` |
| `context_events` | one staging resource, one query, 4 calls | event queries, Map and polling; Map is exclusive |
| `dynamic` | a buffer with 1 or 2 suballocations, 2 lists, 3 chunks, 3 DISCARDs; lists executed twice with 1 suballocation, once with 2 | DISCARD returns free memory; NO_OVERWRITE returns what is bound; allocations have one owner |
| `dynamic_reexecuted` | 1 list with 2 suballocations, executed twice | violation: a second DISCARD returns the same memory |
| `pipelines` | two threads, two pipelines that share a shader, one worker growing to two | every task has one holder until it is done, continuations are not stranded, pipelines become ready, shutdown ends |
| `uploads` | four resources, three chunks, a heap of two commands, blocks of two units | chunks run after the uploads they need and wait for uploads that were sent; upload memory is exclusive |
| `encoding_fences` | render and compute passes over two buffers, 8 ids, lanes of 2 ids, each pass flushed before the next | conflicting passes and old passes are ordered by fences, conflicting commands by barriers |
| `encoding_merges` | lists of up to 4 clears, renders, copies, resolves, presents and events, 6 ids | merging keeps contents, order and the place of events |
| `recording` | two lists, one allocator, six calls | a list executes what was recorded, draws see their state |
| `d3d12_fences` | two threads, two queues, two fences that start at 2 and take the values 1 and 2, five calls | waits order the work, also after a fence was lowered; calls return |

Bounds. The ring of the code has 32 slots; with 3 slots and 4 commits the ring
wraps and the producer blocks, and the theorems hold for any number of
slots. Latency changes are left to `pacing_single`. Frame numbers and sequence numbers are 64-bit and never wrap in
practice; only `chunk_ongoing` passes below zero, and `PresentBoundary`'s
subtraction, which are modelled modulo `W`. Four calls of the context are enough
to record, end a query, record again and map or flush between them.
`StallThreshold` is the number of polls before GetData flushes by itself. Three
DISCARD maps are enough to rename on a list, on the immediate context and back
to a recycled allocation; three chunks to have one recording, one in flight and one
retired. The scheduler starts two threads and grows to twice the number of cores;
one growing to two has the same steps, and two requests suffice for each worker to
find the dependency of its task missing, running or done. An upload heap of two
commands is full after two resources; sizes 1 to 3 with blocks of 2 give a block that
is shared, one that is filled, and one of its own. Eight ids with lanes of two and
three parities take the trackers through every distance they distinguish: the
ring of readers, the lane before, and what only the weak fences cover; four passes in
a list let a pass move over two others. Six calls are enough to open a pass, set
state, draw, and hand the allocator to another list and back. Five D3D12 calls are
enough to lower a fence, raise it behind work and wait for it from the other
queue and from a thread.

Fairness. Threads are scheduled (weak fairness of each thread's next step), the GPU
completes what it was given, and a call that was made goes on. In `PipelineCache`
the fairness of workers and callers is strong: a thread that waits for
`worker_mutex_` gets it if it is free again and again, though spurious wakeups take
it in between. The application
owes nothing, except in `PollingTerminates`, which says what happens when it
keeps polling. `FairSpec` is used only where a run checks liveness.

In `D3D12Queue` the GPU takes the next command buffer of a queue if it can, and a
thread whose wait is over goes on.

`CHECK_DEADLOCK` is off in `encoding_fences`, `encoding_merges`, `recording` and
`d3d12_fences`: there an application stops when it has made the calls that the
bounds allow. Elsewhere an application that is done is an explicit step.

## 4. Findings

`pacing_two`: `PresentBoundary` increments and reads `frame_count` after the
device lock is gone; two threads that present lose increments, and the
comparison and the subtraction can see different values, so that a thread waits
for a frame that was not presented, against the comment above the code.

`dynamic_reexecuted`: `ExecuteCommandList` sets the immediate name to the
suballocation the list ended with each time the list is executed
(`dxmt_dynamic.cpp` 49). DISCARD maps after the first execution take the next
suballocations of the list's allocation; after the second they take the same ones
again, while commands that read them are in flight. The comment at
`d3d11_context_def.cpp` 135 has them reused only after the list is released.

## 5. Proofs

`CommandQueueProofs` proves, for every ring size `N >= 2`, every modulus `W > N`, every
bound and latency range, the type invariant, the inductive invariant and four
safety properties, that `cpu_coherent` advances by one, and that `CommandQueue`
implements `ChunkPipeline` (`Refinement`).

The properties are not inductive: that a slot is free when the context records
into it needs that `chunk_ongoing` counts what is in flight, which needs
that the threads' private counters agree with the atomics, which during
shutdown are off by the fake increments. `IInv` says so in five parts:
`TypeOK`; `Counting` (private counters against atomics, per program counter);
`Bounded` (`chunk_ongoing` is the number of chunks in flight modulo `W`, less
the one published but not yet counted); `Slots` (each slot is held by the one
chunk in flight that maps to it, with its number, commands and command buffer,
or is free); `OnGpu` (the GPU runs only what holds its slot). That two chunks in
flight never share a slot is a lemma about `%`. Each part has a lemma with one step
per action.

The same module adds the frames (`FrameInv`) and proves `FrameSignalIsKept` and
`PresentIsPaced`. The latency fence reaches a frame exactly when the chunk that
presents it is found completed (`FramesAreFenced`), because what a chunk in flight
signals is the frame it presents (`FramesAreHeld`), later frames are in later chunks
and `frame_count` is their number (`FrameNumbers`). The latter is where one thread at
a time presents; `pacing_two` shows what is lost otherwise.

`D3D11Proofs` proves `WaitsForPresentedFrame` of `FramePacing` for one thread that
presents and latencies that are set between its presents (`OnePresenter`), for any number of
frames, latencies and depth of the queue: each chunk signals its own number, and the
presenter's copies of `frame_count` are up to date (`PacingInv`).

`ImmediateContextProofs` proves the four safety properties of `context_events`, for any
staging resources, queries, stall threshold and number of calls. A wait is on a
committed chunk because a resource that belongs to the current chunk leaves
something to flush (`StagingIsFlushed`), which no call may undo without a commit: that
`ExecuteCommandList` replaces `promote_flush` is sound only because it makes the context dirty.
An event will be signalled because the last one numbered always is
(`LastEventIsDue`), and covers its commands because a clean context's last event
is signalled by no chunk before that of the last operation (`EventsCover`). Map is
exclusive because a copy in flight is either known to the resource under its
present name, or the entry of its name in `fifo` frees it only after the copy's chunk
(`UsesAreKnown`), and names in `fifo` differ (`NamesDiffer`). The calls that record an
operation share one lemma, those that flush another.

`ResourceInitializerProofs` proves, for any set of resources, heap, block size, lifetime
and depth of the upload queue, the type invariant and the three properties of
the run `uploads`. Its `IInv` has two more parts. Contents: what was created is
initialised or in an upload to come (`CreatedIsRecorded`), and a committed chunk
waits for that upload or a later one (`ChunksWait`), which is what is needed when
the chunk runs. Memory: the blocks of the ring are different ones
(`BlocksDiffer`), a completed upload leaves nothing (`CompletedIsEmpty`), and each unit
that a command reads is in a block that left the ring, or below the fill level of
one whose number is not lower than the command's (`MemoryIsLeased`), so that no
block is reused while a command reads it. The two lemmas about the allocator,
`AllocateTakes` and `FreeBlocksKeeps`, hold for queues of any length and are stated
without reference to the initializer.

`D3D12Proofs` proves `WaitOrders` for any threads, queues, fences and values. It
is about one step, and what it needs is about the past: that the value an event has
reached is that of a signal whose work is finished (`ReachedIsFinished`). The
GPU keeps that when it runs a signal, because the work the signal comes after is
finished or before it in its queue (`SignalsFollowWork`). A wait may use it only
if the event it waits for is the one that the fence has now
(`BuffersUseCurrentEvent`, `WaitsUseCurrentEvent`), which lowering a fence keeps, because
the application lowers a fence only when nothing uses it (`MayTell`).

`PipelineCacheProofs` proves `OneHolder` for any tasks, workers, threads and kinds of
pipeline. Each part of the scheduler holds a task once (`NoRepeats`), no two parts hold
the same one, and one does exactly from when a task is submitted until it is done
(`Places`); that a worker without a task holds none, and that its buffer is empty until
it fills it, is `WorkersHold`. A task is submitted once because a pipeline is
constructed under the mutex of its kind, and a variant by the thread that
inserted it (`RequestersAre`). `NoHalfCreatedShader` and `NoStrandedContinuation` are
proved for one kind (`OneKind`): then one thread constructs at a time, a `nullptr` is
its own (`EmptyIsBeingCreated`), what it has looked up is submitted before its pipeline
is (`DependenciesFirst`), and what a task waits for is on its way
(`WaitsForSubmitted`). With two kinds the first fails, and a pipeline may be
submitted before a shader that another thread is creating. `HolderInv` and `ShaderInv` hold in the
instance of `pipelines`, where TLC was given them too, and `HolderInv` with two kinds.

About `DynamicResource`, `D3D11Proofs` has three tiers. `OwnerInv` needs no hypothesis: the queue,
the name and the lists' `used` share the allocations out (`OwnersDiffer`,
`AllocatedIsOwned`), also when lists are executed again, released early and
recycled; `OneOwner` counts what it says. `BoundInv` is for buffers (`OnlyBuffers`): the
last entry of a list is the one marked latest (`LatestIsLast`), so that what a list hands
over when it is executed is what its last command read; a texture marks another
one, and `NoOverwriteIsBound` fails. `ReaderInv` is under `Supported`, which is what the
passing run has: buffers, lists with several suballocations executed once, no commit within a
Reset; without each of the last two `DiscardIsExclusive` fails. What a chunk
reads is not in `fifo` with a number the GPU may have reached, not above what the
immediate context has mapped in the allocation, and in no list that is still to be
executed (`ChunkReads`): these are the three ways a DISCARD gets its memory. It
rests on who owns the name (`NameIsExecuted`) and on what a list's maps gave it
(`ListReads`).

About `D3D12Recording`, `D3D12Proofs` has two tiers. `PassInv` needs no hypothesis: the list that
records has the last entry of its allocator, which with the pass that is open holds
what was recorded (`RecordingFits`, `Fits`), a closed list has an entry that no other list
has and that no later recording touches (`ClosedFits`, `EntriesDiffer`), and an
allocator that nobody records into has no open pass (`IdleHasNoPass`), so that the
next list does not continue it. `ExecutesWhatWasRecorded` follows. `StateInv` says that
what is not dirty has been given to the open pass (`BoundFits`), and is proved for
pipelines of one layout of root arguments and a number of viewports that changes
only between render passes (`OneLayout`, which the run `recording` has too): otherwise the
code keeps old state, see the hazards. `CommandsSeeState` follows. What a list of passes
contains is `FlattenSeq` of the community modules, which is recursive over the length of
a sequence; what it does to a longer list is proved from its definition by the least
length for which it would be false, as the prover cannot use the library's induction.

`EncodingContextProofs` proves `BarriersBetweenConflicts` for any resources, shader stages,
fences, modes of the context and number of commands. A tracker does not know which
commands a barrier has ordered: it keeps two numbers and three flags per resource.
`BarrierInv` says what they stand for. An access of the current pass that no
barrier has ordered is either covered by a barrier that the next command is to emit
(`IsDue`) or remembered (`RenderRemembers`, `ComputeRemembers`): a write by the id in
`exclusive` with no reader since, a read by the id at the head of the ring of readers,
with `isShared` and `isSharedPreRaster` telling which stage has read since the last
barrier (`FlagsFit`). Each of the six operations of the trackers has a lemma that its
answer keeps this or asks for the barrier (`BarriersAreDue`), and the barrier
resolution of a command one that what is left open was not ordered by what it
emitted. The theorem is under `FragmentToVertex = FALSE`, as the run is: otherwise the
barrier is omitted (section 3). `IdsAreBelow`, that no tracker remembers an id not given out
yet, is what makes a new pass start with nothing to remember.

It also proves `EventsKeepTheirPlace` for lists of any length, with any passes and no
bound on ids. The optimizer changes elements of the list in two nested loops, so the
statement about the final list is no invariant of a loop; `Kept` is: the changed list
has the same length and its events at the same indexes, and each id that a pass of one
list has, some pass of the other has with no event between the two (`IdsStay`, both ways).
`Kept` is transitive, each case of `CheckEncoderRelation` keeps it (a merge exchanges the
ids of two passes that `Visit` reached without meeting an event), and dropping the
null passes keeps the number of events before an id (`RemainingLeft`). What the cases
need of a pass, that it has the fields of a pass and only a render pass a vertex stage,
is `ListInv`, invariant on its own. The loops are recursive functions; what holds of each
of their steps is proved by the least step at which it would be false.

The last part proves `DistantPassesAreOrdered`, for lanes and parities of any size and any number
of passes. A pass does not wait for every pass that it must follow: `WeakFenceMask` adds
one generation of fences for all lanes but those it waits for anyway, and
`collectAndSimplifyWaits` drops what the other waits imply, which it reads from a summary
with one set of fences for each fence. `FenceInv` says why that is enough (`OrderIs`): what is
done before an id (`before`) holds with a pass all that pass had waited for (`IsClosed`) and
every id `Lane` or more below (`CoversOld`); and for the last generation of ids, the fence's
last update is by that id or later in its pass, and `before` holds the ids that the summary's
fences stand for (`Covers`). `FullCoversOld` is the arithmetic: of an id that is `Lane` or more
below, either the weak fences have its fence or one of the pass's waits is for an id
that had it before. `VisitCovers` is the loop: a fence dropped is in the summary
of one that is kept, because ids are visited from the last to the first. A wait must be for
the last id that has its fence (`Reaches`), or it orders another pass; trackers remember ids
that may be older (`exclusive` has no bound), which is why `MayWrite` is needed
(`DistantWrites = FALSE`; section 3 has what happens otherwise). `MaxList = 1` says that each pass is
flushed before the next one starts: merged passes lose waits (section 3, again), and run as
one.
`encoding_fences` has both hypotheses.

The same module proves `ConflictsAreOrdered`, under those hypotheses and
`FragmentToVertex = FALSE`. A tracker does not keep the passes that used a resource: it
has the last writer and a ring of as many readers as a fence has ids, and forgets the rest.
`ConflictInv` says for each resource what is left (`TrackerFits`). A reader that left
the ring is `Lane` or more below its head, as the readers of a ring are different ids, the
newest first (`IsRing`), so that whoever waits for the head by its own number follows it too.
Each access of a pass before the current one is the last writer's or one that `before`
has with it, or, if it is a read, one that the ring has in that way (`OldAreKnown`):
so a new access, which waits for the last writer or, if it writes, for the ring, is ordered after
every old one it conflicts with (`UsesAreAfter`), by a wait or by its distance. The last part is about
the pass itself (`OwnAreKnown`): a last writer or a newest reader with an id of the pass stands for
an access of the pass, and none of its accesses is above these two, so that the tracker knows
them when the pass ends. What an answer of a tracker does to these parts
is one lemma (`AccessFits`), used by the attachments of a render pass and by `Access`. When the
pass ends, `FenceInv` gives what its waits become: a wait that was dropped, or that a weak fence stands
for, is still in `before` (`EndIsOrdered`). A fragment stage's read of what the vertex stage of its
pass wrote is left out, as in the property (`IsForgotten`, section 3). `encoding_fences` has
these hypotheses; merged passes, of `encoding_merges`, stay with TLC.

`EncodingListProofs` proves `SameAsRecorded`, in two halves.

The first is about `flushCommands` alone and has no hypothesis on how the list came about:
`OptimizedRunsTheSame` says that a list of any length that is sound (`IsSound`) runs like
what the optimizer makes of it. In a sound list each pass updates fences of its own and waits
for passes it clashes with; two passes that clash, of which one alters what the other uses,
are ordered by a chain of waits (`Chains`); a resolve has a target that no pass before it
uses; nothing is cleared that one pass keeps read-only and another one reads; and what a
pass does not store is cleared before it is used (`IsCleared`). The chains are what makes
`hasDataDependency`, which looks at fences only, a sound test: a pass that an earlier one
passes on its way does not clash with it, since it would wait for it or for
one in between that does (`Apart`). Each case of `checkEncoderRelation` (a clear that becomes a load
action, a render that takes over a resolve, depth that is not stored, two renders that become one)
has lemmas that say what the new pass does to contents (`Exchange`), and that the list stays
sound with the loops' position as a parameter (`GoesOn`): merged passes carry the fences and the
accesses of both (`Carries`), and the order of a third pass is found again among the chains. What a
render sees between the two is compared plane by plane (`Contents`, `SeenIn`), and only the
planes that were moved may differ there. `SameEffect` ignores what is not stored; that
this is not seen by the semantics of `Run` is the last step.

The second half says that what is recorded is sound (`RecordInvariance`). A wait was dropped
where another implies it, so that the order must be found again in the list: `RecordInv`
says that there is a `g` that the GPU would have if the passes were encoded one by one as they
were recorded, for which all of `FenceInv` and `ConflictInv` holds (`Between`), and that the order it has
between two passes of the list is a chain of waits in the list (`OrderOf`). It also needs
that no pass waits for more than it must: a resolve that moves up to its render must not
leave behind a pass that it waits for. Every wait is for a pass it conflicts with, or for
ids a generation older (`WaitsAreNeeded`, `IsAdded`), which are of no pass in the list if the
list has at most `Lane / 2` passes (`ShortLists`). `kLane` is 64 in the code, so the theorem is
about flushes of at most 32 passes. The other hypotheses are those of `encoding_merges`:
`FragmentToVertex`, `DistantWrites`, `ResolveAnywhere` and `ClearAfterReaders` are `FALSE`,
each for a reason in section 3. The run complements the theorem: there lists of four passes
have lanes of four ids, so that TLC also has lists that are longer than half a lane, which the
theorem does not reach.

`OwnerInv`, `BoundInv`, `ReaderInv`, `PassInv`, `StateInv`, `BarrierInv`, `ListInv`, `FenceInv` and
`ConflictInv` were given to TLC on the instances of `dynamic`, `recording`, `encoding_fences` and
`encoding_merges` before they were proved. `RecordInv` asserts that a `g` exists, which TLC cannot
evaluate; that every recorded list is sound, and stays so in each step of the optimizer, was given
to TLC on the instance of `encoding_merges` with lanes of eight ids.

Only model-checked: all liveness (fairness and ENABLED are outside the prover), and
`ConflictsAreOrdered` for lists of several passes, where the order of accesses is relative to the pass
they end up in, and the two stages of a merged render must keep an order each, which in general they
do not (section 3).

## 6. Plan

Done: `CommandQueue`, `FramePacing`, `ImmediateContext`, `DynamicResource`,
`RingBump` and `ResourceInitializer`, `TaskScheduler` and `PipelineCache`,
`FenceTracking` and `EncodingContext`, `D3D12Recording` and `D3D12Queue`; the proofs of
section 5. Left, in order:

1. `ConflictsAreOrdered` of merged passes, for render passes whose vertex stage reads nothing
   that a pass of the list writes, from the chains of `EncodingListProofs`.
2. `RingBump` used for the chunks' own allocators and for argument buffers.
3. `OcclusionQuery`: begin and end offsets of a query that spans passes and chunks.
4. `ContextThreads`: GetData, and Signal and Wait on an ID3D11Fence, next to threads
   that record under the device lock.
5. `KeyedMutex`: owners in two processes.

## 7. Not modelled

Pure functions over large inputs (the shader compiler, format tables), single
system calls (winemetal, window system), sequential object creation (D3D10,
DXGI, most of the device), logging and statistics, vendored code, scripts. The
reason is in each component's note in `PROJECT.json`.
