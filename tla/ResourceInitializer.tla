------------------------ MODULE ResourceInitializer ------------------------
(***************************************************************************)
(* dxmt::ResourceInitializer: what a new resource is filled with is        *)
(* recorded as commands in a heap and sent to an upload queue of its own.  *)
(* A chunk of the command queue waits for the event that the upload queue  *)
(* had to reach when the chunk was committed.                              *)
(*                                                                         *)
(* A call holds mutex_ throughout. Where it flushes and then leaves, it is *)
(* two steps: flushing is the resource it was called for.                  *)
(***************************************************************************)
EXTENDS RingBump, FiniteSets

CONSTANTS
  Resources,     \* resources the application creates
  None,
  HeapSize,      \* commands that fit into the heap of the CPU
  UploadDepth,   \* kResourceInitializerChunks: uploads at most in flight
  Sizes,         \* bytes of a texture's contents
  MaxChunks      \* bound: chunks

ASSUME HeapAssumption == HeapSize \in Nat \ {0} /\ UploadDepth \in Nat \ {0}
ASSUME SizesAssumption == Sizes \subseteq Nat \ {0}
ASSUME NoneAssumption == None \notin Resources
ASSUME MaxChunksAssumption == MaxChunks \in Nat \ {0}

VARIABLES
  resource,   \* of each resource: new, created (and recorded), dropped
  flushing,   \* the resource whose init is about to flush and leave, or None
  heap,       \* commands in the heap; pending is what they do
  pending,
  zero_size,  \* zero_buffer_size_
  current_seq_id, cached_coherent_seq_id,
  ring,       \* gpu_command_heap_allocator
  blocks,     \* blocks allocated so far
  uploads,    \* of each upload in flight: its commands
  signaled,   \* value of upload_queue_event_
  initialized,\* resources whose upload is completed
  created_in, \* of each resource: the chunk recorded when it was created
  wait,       \* resource_initializer_event_id of each committed chunk
  chunk,      \* chunk that is recorded
  executed    \* chunks the GPU has executed

initializer == <<flushing, heap, pending, zero_size, current_seq_id,
                 cached_coherent_seq_id, ring, blocks>>
chunks == <<wait, chunk, executed>>
vars == <<resource, created_in, initializer, uploads, signaled, initialized, chunks>>

Command == [resource : Resources, memory : SUBSET (Nat \X Nat)]

Init ==
  /\ resource = [r \in Resources |-> "new"]
  /\ flushing = None
  /\ heap = 0 /\ pending = {} /\ zero_size = 0
  /\ current_seq_id = 1 /\ cached_coherent_seq_id = 0
  /\ ring = <<>> /\ blocks = 0
  /\ uploads = <<>> /\ signaled = 0
  /\ initialized = {}
  /\ created_in = [r \in Resources |-> 0]
  /\ wait = <<>>
  /\ chunk = 1 /\ executed = 0

-----------------------------------------------------------------------------
(* flushInternal: the upload queue hands out a command buffer once fewer   *)
(* than UploadDepth are in flight; the new one signals its number.         *)

Flush ==
  /\ current_seq_id - 1 - signaled < UploadDepth
  /\ uploads' = Append(uploads, pending)
  /\ current_seq_id' = current_seq_id + 1
  /\ heap' = 0 /\ pending' = {}
  /\ cached_coherent_seq_id' = signaled
  /\ ring' = FreeBlocks(ring, signaled)

(* The commands of an init are in the heap. *)
Record(r, commands, memory) ==
  /\ heap' = heap + commands
  /\ pending' = pending \union {[resource |-> r, memory |-> memory]}
  /\ resource' = [resource EXCEPT ![r] = "created"]
  /\ created_in' = [created_in EXCEPT ![r] = chunk]
  /\ UNCHANGED flushing

(* They are not: the init flushes, and what it was to do is left out. *)
LeaveOut(r) ==
  /\ flushing' = r
  /\ UNCHANGED <<resource, created_in, heap, pending>>

Creates(r) == resource[r] = "new" /\ flushing = None

HasRoom(commands) == heap + commands <= HeapSize

(* initWithZero of a buffer, and the inits by a render pass. *)
InitWithCommand(r) ==
  /\ Creates(r)
  /\ IF HasRoom(1) THEN Record(r, 1, {}) ELSE LeaveOut(r)
  /\ UNCHANGED <<zero_size, current_seq_id, cached_coherent_seq_id, ring, blocks,
                 uploads, signaled, initialized, chunks>>

(* initWithData: the contents are copied into memory of the ring. *)
InitWithData(r, size) ==
  LET after == Allocate(ring, current_seq_id, cached_coherent_seq_id, size, blocks + 1)
  IN
  /\ Creates(r)
  /\ IF HasRoom(1)
       THEN /\ ring' = after
            /\ blocks' = IF after[Len(after)].id > blocks THEN blocks + 1 ELSE blocks
            /\ Record(r, 1, Returned(after, size))
       ELSE LeaveOut(r) /\ UNCHANGED <<ring, blocks>>
  /\ UNCHANGED <<zero_size, current_seq_id, cached_coherent_seq_id, uploads,
                 signaled, initialized, chunks>>

(* initWithZero of a texture: a copy from the zero buffer, which is made   *)
(* the first time with a command of its own.                               *)
InitFromZeroBuffer(r, size) ==
  LET makes == zero_size < size IN
  /\ Creates(r)
  /\ zero_size = 0 \/ ~makes
  /\ IF HasRoom(IF makes THEN 2 ELSE 1)
       THEN Record(r, IF makes THEN 2 ELSE 1, {})
       ELSE LeaveOut(r)
  /\ zero_size' = IF makes /\ HasRoom(1) THEN size ELSE zero_size
  /\ UNCHANGED <<current_seq_id, cached_coherent_seq_id, ring, blocks, uploads,
                 signaled, initialized, chunks>>

(* ... but a buffer that is too small is flushed and forgotten. *)
GrowZeroBuffer(r, size) ==
  /\ Creates(r)
  /\ zero_size /= 0 /\ zero_size < size
  /\ Flush
  /\ zero_size' = 0
  /\ flushing' = r
  /\ UNCHANGED <<resource, created_in, blocks, signaled, initialized, chunks>>

FlushAndLeave ==
  /\ flushing /= None
  /\ Flush
  /\ resource' = [resource EXCEPT ![flushing] = "dropped"]
  /\ flushing' = None
  /\ UNCHANGED <<created_in, zero_size, blocks, signaled, initialized, chunks>>

-----------------------------------------------------------------------------
(* The command queue.                                                      *)

Publish(event) == wait' = Append(wait, event) /\ chunk' = chunk + 1

(* CommitCurrentChunk with nothing to flush: flushToWait returns the last  *)
(* upload, or 0 if that is done.                                           *)
FaultNothingToWait(coherent) == 0
LastUpload(coherent) ==
  IF coherent = current_seq_id - 1 THEN 0 ELSE current_seq_id - 1

CommitIdle ==
  /\ chunk < MaxChunks
  /\ flushing = None
  /\ pending = {}
  /\ ring' = FreeBlocks(ring, cached_coherent_seq_id)
  /\ cached_coherent_seq_id' =
       IF cached_coherent_seq_id = current_seq_id - 1 THEN cached_coherent_seq_id
       ELSE signaled
  /\ Publish(LastUpload(cached_coherent_seq_id'))
  /\ UNCHANGED <<resource, created_in, flushing, heap, pending, zero_size,
                 current_seq_id, blocks, uploads, signaled, initialized, executed>>

FaultNextUpload == current_seq_id + 1
FlushedUpload == current_seq_id

CommitFlush ==
  /\ chunk < MaxChunks
  /\ flushing = None
  /\ pending /= {}
  /\ Flush
  /\ Publish(FlushedUpload)
  /\ UNCHANGED <<resource, created_in, flushing, zero_size, blocks, signaled,
                 initialized, executed>>

(* The upload queue completes the oldest upload and signals its number. *)
CompleteUpload ==
  /\ signaled < Len(uploads)
  /\ signaled' = signaled + 1
  /\ uploads' = [uploads EXCEPT ![signaled + 1] = {}]
  /\ initialized' =
       initialized \union {command.resource : command \in uploads[signaled + 1]}
  /\ UNCHANGED <<resource, created_in, initializer, chunks>>

(* The GPU runs the next chunk when the event it waits for is reached. *)
ExecuteChunk ==
  /\ executed + 1 < chunk
  /\ wait[executed + 1] <= signaled
  /\ executed' = executed + 1
  /\ UNCHANGED <<resource, created_in, initializer, uploads, signaled,
                 initialized, wait, chunk>>

-----------------------------------------------------------------------------
Create(r) ==
  InitWithCommand(r)
    \/ \E size \in Sizes :
         InitWithData(r, size) \/ InitFromZeroBuffer(r, size) \/ GrowZeroBuffer(r, size)

Gpu == CompleteUpload \/ ExecuteChunk

(* The application has committed all its chunks. *)
Finished == chunk = MaxChunks /\ executed = MaxChunks - 1 /\ UNCHANGED vars

Next ==
  \/ \E r \in Resources : Create(r)
  \/ CommitIdle \/ CommitFlush \/ FlushAndLeave \/ Gpu \/ Finished

Spec == Init /\ [][Next]_vars

-----------------------------------------------------------------------------
(* Properties.                                                             *)

(* Every variable has its type; numbers that were reached were handed out. *)
TypeOK ==
  /\ resource \in [Resources -> {"new", "created", "dropped"}]
  /\ flushing \in Resources \union {None}
  /\ heap \in 0 .. HeapSize /\ pending \subseteq Command
  /\ zero_size \in Sizes \union {0}
  /\ current_seq_id = Len(uploads) + 1
  /\ cached_coherent_seq_id \in 0 .. signaled /\ signaled \in 0 .. Len(uploads)
  /\ ring \in Seq(Block) /\ blocks \in Nat
  /\ uploads \in Seq(SUBSET Command)
  /\ initialized \subseteq Resources
  /\ created_in \in [Resources -> 0 .. chunk]
  /\ wait \in Seq(Nat) /\ Len(wait) = chunk - 1
  /\ chunk \in 1 .. MaxChunks /\ executed \in 0 .. chunk - 1

(* When the GPU runs a chunk, the uploads of all resources the chunk may   *)
(* use, those created before it was committed, are completed, whichever    *)
(* call has sent them. What was left out is never uploaded.                *)
UploadedBeforeUse ==
  \A r \in Resources :
    (resource[r] = "created" /\ created_in[r] <= executed) => r \in initialized

(* Memory of the ring that a copy still reads. *)
MemoryInUse ==
  UNION {command.memory : command \in pending \union UNION {uploads[i] : i \in DOMAIN uploads}}

(* Memory that the application's data is copied into is read by no copy    *)
(* that is recorded or in flight.                                          *)
UploadMemoryIsExclusive ==
  [][\A command \in pending' \ pending : command.memory \cap MemoryInUse = {}]_vars

(* A chunk waits for an upload that was sent: the GPU would stop before    *)
(* any other chunk for ever.                                               *)
WaitsForSentUpload == \A c \in DOMAIN wait : wait[c] \in 0 .. Len(uploads)

=============================================================================
