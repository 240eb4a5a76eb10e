-------------------------- MODULE ImmediateContext --------------------------
(***************************************************************************)
(* MTLD3D11ImmediateContext: when the immediate context commits the chunk  *)
(* it records (passes, promote_flush, has_dirty_op_since_last_event), how  *)
(* event queries get the number they wait for, and how Map of a staging    *)
(* resource waits for, or renames away from, what the GPU still does to it.*)
(*                                                                         *)
(* A handler runs under the device lock and is one step, up to a wait. The *)
(* queue is reduced to three counters (see ChunkPipeline): a chunk is      *)
(* committed, executed by the GPU, and completed once the finishing thread *)
(* has retired it. That CommitCurrentChunk may wait for a free slot only   *)
(* delays the context and is left out.                                     *)
(***************************************************************************)
EXTENDS Integers, Sequences, FiniteSets

CONSTANTS
  Staging,        \* staging resources
  Queries,        \* event queries
  StallThreshold, \* kEventStallThreshold, 64 in the code
  MaxOps          \* bound: calls of the application that may record commands

ASSUME StallAssumption == StallThreshold \in Nat
ASSUME OpsAssumption   == MaxOps \in Nat

VARIABLES
  committed, executed, completed, \* the last chunk of which this holds
  cmdbuf_state,       \* the pass being recorded
  promote_flush,      \* commit as soon as the pass ends
  has_dirty_op_since_last_event,
  current_event_seq_id,
  signaled,           \* value of the shared event, set by the GPU
  chunk_event,        \* the last event number each chunk signals
  query,              \* of each event query: state, number waited for, polls
  staging,            \* of each staging resource: see StagingResource
  uses,               \* copies from and to staging memory that are not completed
  last_op,            \* history: the chunk that holds the last operation
  covers,             \* history: last_op when each query was ended
  pc, map_call, fence_target,
  ops

queue    == <<committed, executed, completed>>
recorded == <<committed, cmdbuf_state, promote_flush, has_dirty_op_since_last_event,
              current_event_seq_id, chunk_event, last_op>>
call     == <<pc, map_call, fence_target>>
vars == <<recorded, executed, completed, signaled, query, staging, uses, covers,
          call, ops>>

(* CommandQueue::CurrentSeqId and CoherentSeqId. *)
CurrentSeqId  == committed + 1
CoherentSeqId == completed

NoStaging == "no resource"
NoCall == [res |-> NoStaging, read |-> FALSE, write |-> FALSE]

Init ==
  /\ committed = 0 /\ executed = 0 /\ completed = 0
  /\ cmdbuf_state = "Idle"
  /\ promote_flush = FALSE /\ has_dirty_op_since_last_event = FALSE
  /\ current_event_seq_id = 0 /\ signaled = 0 /\ chunk_event = <<>>
  /\ query = [q \in Queries |-> [state |-> "Undefined", at |-> 0, stall |-> 0]]
  /\ staging = [r \in Staging |->
                  [name |-> 0, pool |-> 1, fifo |-> <<>>,
                   coherent_after |-> 0, occupied_until |-> 0]]
  /\ uses = {} /\ last_op = 0 /\ covers = [q \in Queries |-> 0]
  /\ pc = "idle" /\ map_call = NoCall /\ fence_target = 0
  /\ ops = 0

(* The application makes a call that may record commands. *)
Call ==
  /\ pc = "idle"
  /\ ops < MaxOps
  /\ ops' = ops + 1

-----------------------------------------------------------------------------
(* Commit: CommitCurrentChunk gives the chunk its event number.            *)
ClearsDirty == has_dirty_op_since_last_event' = FALSE

CommitChunk ==
  /\ committed' = committed + 1
  /\ current_event_seq_id' = current_event_seq_id + 1
  /\ chunk_event' = Append(chunk_event, current_event_seq_id + 1)

CommitIf(condition) ==
  IF condition THEN CommitChunk
               ELSE UNCHANGED <<committed, current_event_seq_id, chunk_event>>

(* InvalidateCurrentPass(defer_commit) commits if a flush was promoted.    *)
(* Passes that read back or upload staging data defer the commit, and so   *)
(* do the copies of depth-stencil data, which leave no pass open.          *)
Commits(defer_commit) == promote_flush /\ ~defer_commit
DefersCommit(pass) == pass \in {"ReadbackBlit", "UpdateBlit", "Idle"}

(* Switch to the pass an operation needs, then EmitOP.                     *)
EmitOP(pass, promote) ==
  LET commits == cmdbuf_state # pass /\ Commits(DefersCommit(pass)) IN
    /\ CommitIf(commits)
    /\ promote_flush' = (promote \/ (promote_flush /\ ~commits))
    /\ has_dirty_op_since_last_event' = TRUE
    /\ last_op' = committed' + 1
    /\ cmdbuf_state' = pass

(* Draw, Dispatch, a copy between device resources, a clear. *)
Operation(pass) ==
  /\ Call
  /\ EmitOP(pass, FALSE)
  /\ UNCHANGED <<executed, completed, signaled, query, staging, uses, covers, call>>

(* Clears and temporal upscaling end the pass and are outside of any, and  *)
(* so do uploads that the encoder itself places; these defer the commit.   *)
OperationOutsidePass(defer_commit) ==
  /\ Call
  /\ LET commits == Commits(defer_commit) IN
       /\ CommitIf(commits)
       /\ promote_flush' = (promote_flush /\ ~commits)
  /\ has_dirty_op_since_last_event' = TRUE
  /\ last_op' = committed' + 1
  /\ cmdbuf_state' = "Idle"
  /\ UNCHANGED <<executed, completed, signaled, query, staging, uses, covers, call>>

-----------------------------------------------------------------------------
(* Staging resources.                                                      *)

Larger(a, b) == IF a > b THEN a ELSE b

UseCopyDestination(r, seq) ==
  [r EXCEPT !.coherent_after = Larger(seq, @), !.occupied_until = Larger(seq, @)]

UseCopySource(r, seq) == [r EXCEPT !.occupied_until = Larger(seq, @)]

Use(r, seq, write) ==
  [res |-> r, name |-> staging[r].name, seq |-> seq, write |-> write]

(* A copy into a staging resource. CopyBuffer and CopyTexture promote a    *)
(* flush, since the application will read it; CopyStructureCount does not. *)
(* A depth-stencil copy ends the pass instead of switching to a blit pass. *)
CopyToStaging(r, pass, promote) ==
  /\ Call
  /\ EmitOP(pass, promote)
  /\ staging' = [staging EXCEPT ![r] = UseCopyDestination(@, committed' + 1)]
  /\ uses' = uses \union {Use(r, committed' + 1, TRUE)}
  /\ UNCHANGED <<executed, completed, signaled, query, covers, call>>

CopyFromStaging(r, pass) ==
  /\ Call
  /\ EmitOP(pass, FALSE)
  /\ staging' = [staging EXCEPT ![r] = UseCopySource(@, committed' + 1)]
  /\ uses' = uses \union {Use(r, committed' + 1, FALSE)}
  /\ UNCHANGED <<executed, completed, signaled, query, covers, call>>

(* A copy between staging resources uses an ordinary blit pass.            *)
CopyBetweenStaging(dst, src) ==
  /\ Call
  /\ EmitOP("Blit", TRUE)
  /\ staging' = [[staging EXCEPT ![dst] = UseCopyDestination(@, committed' + 1)]
                   EXCEPT ![src] = UseCopySource(@, committed' + 1)]
  /\ uses' = uses \union {Use(dst, committed' + 1, TRUE), Use(src, committed' + 1, FALSE)}
  /\ UNCHANGED <<executed, completed, signaled, query, covers, call>>

-----------------------------------------------------------------------------
(* Queries.                                                                *)

Issue(q, at) ==
  /\ query' = [query EXCEPT ![q] = [state |-> "Issued", at |-> at, stall |-> 0]]
  /\ covers' = [covers EXCEPT ![q] = last_op]

(* End of an event query: if nothing was done since the last event, that   *)
(* event is waited for.                                                    *)
FaultNotPromoted(q) ==
  /\ Call
  /\ IF has_dirty_op_since_last_event
       THEN /\ current_event_seq_id' = current_event_seq_id + 1
            /\ Issue(q, current_event_seq_id + 1)
            /\ cmdbuf_state' = "Idle"
            /\ has_dirty_op_since_last_event' = FALSE
            /\ UNCHANGED promote_flush
       ELSE /\ Issue(q, current_event_seq_id)
            /\ UNCHANGED <<current_event_seq_id, cmdbuf_state, promote_flush,
                           has_dirty_op_since_last_event>>
  /\ UNCHANGED <<queue, chunk_event, last_op, signaled, staging, uses, call>>

EndEvent(q) ==
  /\ Call
  /\ IF has_dirty_op_since_last_event
       THEN /\ current_event_seq_id' = current_event_seq_id + 1
            /\ Issue(q, current_event_seq_id + 1)
            /\ cmdbuf_state' = "Idle"
            /\ promote_flush' = TRUE
            /\ has_dirty_op_since_last_event' = FALSE
       ELSE /\ Issue(q, current_event_seq_id)
            /\ UNCHANGED <<current_event_seq_id, cmdbuf_state, promote_flush,
                           has_dirty_op_since_last_event>>
  /\ UNCHANGED <<queue, chunk_event, last_op, signaled, staging, uses, call>>

(* End of an occlusion query; a timestamp query is an operation, too. *)
EndOcclusion ==
  /\ Call
  /\ promote_flush' = TRUE
  /\ UNCHANGED <<queue, cmdbuf_state, has_dirty_op_since_last_event,
                 current_event_seq_id, chunk_event, last_op, signaled, query,
                 staging, uses, covers, call>>

EndTimestamp ==
  /\ Call
  /\ cmdbuf_state' = "Idle"
  /\ has_dirty_op_since_last_event' = TRUE
  /\ last_op' = committed + 1
  /\ promote_flush' = TRUE
  /\ UNCHANGED <<queue, current_event_seq_id, chunk_event, signaled, query,
                 staging, uses, covers, call>>

(* CheckEventState: after StallThreshold polls the query asks for a flush. *)
FaultStallsNever(q) ==
  CASE query[q].at <= signaled -> "Signaled"
    [] query[q].at > signaled /\ query[q].stall < StallThreshold -> "Pending"
    [] OTHER -> "Invalid"

EventState(q) ==
  CASE query[q].at <= signaled -> "Signaled"
    [] query[q].at > signaled /\ query[q].stall < StallThreshold -> "Pending"
    [] OTHER -> "Stall"

-----------------------------------------------------------------------------
(* Commit, Flush and the calls that are made of them.                      *)

FaultDirtyOnly == has_dirty_op_since_last_event
NeedsFlush == has_dirty_op_since_last_event \/ promote_flush

Commit ==
  /\ CommitChunk
  /\ promote_flush' = FALSE
  /\ ClearsDirty
  /\ cmdbuf_state' = "Idle"
  /\ UNCHANGED last_op

FlushIfNeeded == IF NeedsFlush THEN Commit ELSE UNCHANGED recorded

Flush ==
  /\ pc = "idle"
  /\ NeedsFlush
  /\ Commit
  /\ UNCHANGED <<executed, completed, signaled, query, staging, uses, covers,
                 call, ops>>

(* GetData on an event query. *)
GetData(q, do_not_flush) ==
  /\ pc = "idle"
  /\ query[q].state = "Issued"
  /\ query' = [query EXCEPT
       ![q].state = IF EventState(q) = "Signaled" THEN "Signaled" ELSE @,
       ![q].stall = IF EventState(q) = "Pending" THEN @ + 1
                    ELSE IF EventState(q) = "Signaled" THEN 0 ELSE @]
  /\ IF EventState(q) = "Stall" \/ (EventState(q) = "Pending" /\ ~do_not_flush)
       THEN FlushIfNeeded
       ELSE UNCHANGED recorded
  /\ UNCHANGED <<executed, completed, signaled, staging, uses, covers, call, ops>>

(* Present1 commits unconditionally. *)
PresentCommit ==
  /\ Call
  /\ Commit
  /\ UNCHANGED <<executed, completed, signaled, query, staging, uses, covers, call>>

(* WaitUntilGPUIdle waits for the chunk it finds current. *)
WaitUntilGPUIdle ==
  /\ Call
  /\ Commit
  /\ fence_target' = CurrentSeqId
  /\ pc' = "wait"
  /\ UNCHANGED <<executed, completed, signaled, query, staging, uses, covers, map_call>>

(* Signal of an ID3D11Fence, AcquireSync and ReleaseSync of a keyed mutex: *)
(* an operation outside any pass, then Flush. Only Signal lets the end of  *)
(* the pass commit.                                                        *)
EmitThenFlush(defer_commit) ==
  /\ Call
  /\ LET commits == Commits(defer_commit) IN
       /\ CommitIf(commits)
       /\ promote_flush' = (promote_flush /\ ~commits)
  /\ has_dirty_op_since_last_event' = TRUE
  /\ last_op' = committed' + 1
  /\ cmdbuf_state' = "Idle"
  /\ pc' = "flush"
  /\ UNCHANGED <<executed, completed, signaled, query, staging, uses, covers,
                 map_call, fence_target>>

ThenFlush ==
  /\ pc = "flush"
  /\ FlushIfNeeded
  /\ pc' = "idle"
  /\ UNCHANGED <<executed, completed, signaled, query, staging, uses, covers,
                 map_call, fence_target, ops>>

(* Wait on an ID3D11Fence: Flush, then an operation in whatever pass.      *)
FenceWait ==
  /\ Call
  /\ CommitIf(NeedsFlush)
  /\ promote_flush' = FALSE
  /\ has_dirty_op_since_last_event' = TRUE
  /\ last_op' = committed' + 1
  /\ cmdbuf_state' = IF NeedsFlush THEN "Idle" ELSE cmdbuf_state
  /\ UNCHANGED <<executed, completed, signaled, query, staging, uses, covers, call>>

(* ExecuteCommandList: the list's promote_flush replaces the context's, its *)
(* event queries are ended, its staging resources belong to this chunk, and *)
(* its commands are an operation.                                          *)
FaultListIsNoOp(dirty) == dirty
DirtyAfterList(dirty) == TRUE

ExecuteCommandList(promote, events, read, written) ==
  /\ Call
  /\ LET ends == events # {} /\ has_dirty_op_since_last_event IN
       /\ current_event_seq_id' = current_event_seq_id + (IF ends THEN 1 ELSE 0)
       /\ promote_flush' = (promote \/ ends)
       /\ has_dirty_op_since_last_event' =
            DirtyAfterList(has_dirty_op_since_last_event /\ ~ends)
       /\ query' = [q \in Queries |->
            IF q \in events
              THEN [state |-> "Issued", at |-> current_event_seq_id', stall |-> 0]
              ELSE query[q]]
       /\ covers' = [q \in Queries |-> IF q \in events THEN last_op ELSE covers[q]]
  /\ staging' = [r \in Staging |->
       LET s == IF r \in read THEN UseCopySource(staging[r], CurrentSeqId)
                              ELSE staging[r] IN
         IF r \in written THEN UseCopyDestination(s, CurrentSeqId) ELSE s]
  /\ uses' = uses \union {Use(r, CurrentSeqId, FALSE) : r \in read}
                  \union {Use(r, CurrentSeqId, TRUE) : r \in written}
  /\ last_op' = CurrentSeqId
  /\ cmdbuf_state' = "Idle"
  /\ UNCHANGED <<queue, chunk_event, signaled, call>>

-----------------------------------------------------------------------------
(* Map and Unmap of a staging resource.                                    *)

CallMap(r, read, write) ==
  /\ Call
  /\ pc' = "map"
  /\ map_call' = [res |-> r, read |-> read, write |-> write]
  /\ UNCHANGED <<recorded, executed, completed, signaled, query, staging, uses,
                 covers, fence_target>>

(* tryMap: the chunk the caller has to wait for, or none; a resource the   *)
(* GPU only reads may be renamed for writing instead.                      *)
MustWaitForRead(s)  == map_call.read /\ CoherentSeqId < s.coherent_after
IsOccupied(s)       == map_call.write /\ CoherentSeqId < s.occupied_until
IsRenamable(s)      == IsOccupied(s) /\ CoherentSeqId >= s.coherent_after
WaitTarget(s)       == IF MustWaitForRead(s) THEN s.coherent_after ELSE s.occupied_until

(* StagingResource::allocate: the oldest name given up, once its chunk is  *)
(* coherent, or a new one.                                                 *)
FaultReusesEarly(s) == s.fifo # <<>>
HasFreeName(s) == s.fifo # <<>> /\ Head(s.fifo).will_free_at <= CoherentSeqId
NextName(s) == IF HasFreeName(s) THEN Head(s.fifo).id ELSE s.pool

(* updateImmediateName *)
Rename(s) ==
  [s EXCEPT !.name = NextName(s),
            !.pool = IF HasFreeName(s) THEN @ ELSE @ + 1,
            !.fifo = Append(IF HasFreeName(s) THEN Tail(@) ELSE @,
                            [id |-> s.name, will_free_at |-> CurrentSeqId]),
            !.coherent_after = 0, !.occupied_until = 0]

MapSucceeds ==
  LET s == staging[map_call.res] IN
  /\ pc = "map" /\ pc' = "mapped"
  /\ ~MustWaitForRead(s)
  /\ \/ ~IsOccupied(s) /\ UNCHANGED staging
     \/ IsRenamable(s) /\ staging' = [staging EXCEPT ![map_call.res] = Rename(s)]
  /\ UNCHANGED <<recorded, executed, completed, signaled, query, uses, covers,
                 map_call, fence_target, ops>>

(* Flush, then wait until the chunk in question is coherent, and try again.*)
MapWaits ==
  LET s == staging[map_call.res] IN
  /\ pc = "map" /\ pc' = "mapwait"
  /\ MustWaitForRead(s) \/ (IsOccupied(s) /\ ~IsRenamable(s))
  /\ fence_target' = WaitTarget(s)
  /\ FlushIfNeeded
  /\ UNCHANGED <<executed, completed, signaled, query, staging, uses, covers,
                 map_call, ops>>

(* D3D11_MAP_FLAG_DO_NOT_WAIT: DXGI_ERROR_WAS_STILL_DRAWING. *)
MapGivesUp ==
  LET s == staging[map_call.res] IN
  /\ pc = "map" /\ pc' = "idle"
  /\ MustWaitForRead(s) \/ (IsOccupied(s) /\ ~IsRenamable(s))
  /\ UNCHANGED <<recorded, executed, completed, signaled, query, staging, uses,
                 covers, map_call, fence_target, ops>>

FenceReturns ==
  /\ pc \in {"wait", "mapwait"}
  /\ completed >= fence_target
  /\ pc' = IF pc = "wait" THEN "idle" ELSE "map"
  /\ UNCHANGED <<recorded, executed, completed, signaled, query, staging, uses,
                 covers, map_call, fence_target, ops>>

Unmap ==
  /\ pc = "mapped" /\ pc' = "idle"
  /\ UNCHANGED <<recorded, executed, completed, signaled, query, staging, uses,
                 covers, map_call, fence_target, ops>>

-----------------------------------------------------------------------------
(* The GPU executes a chunk and signals its events; the queue retires it.  *)
Execute ==
  /\ executed < committed
  /\ executed' = executed + 1
  /\ signaled' = Larger(signaled, chunk_event[executed + 1])
  /\ UNCHANGED <<recorded, completed, query, staging, uses, covers, call, ops>>

Complete ==
  /\ completed < executed
  /\ completed' = completed + 1
  /\ uses' = {u \in uses : u.seq > completed + 1}
  /\ UNCHANGED <<recorded, executed, signaled, query, staging, covers, call, ops>>

Record ==
  \/ \E pass \in {"Render", "Compute", "Blit"} : Operation(pass)
  \/ \E defer_commit \in BOOLEAN :
       OperationOutsidePass(defer_commit) \/ EmitThenFlush(defer_commit)
  \/ \E r \in Staging, promote \in BOOLEAN : CopyToStaging(r, "ReadbackBlit", promote)
  \/ \E r \in Staging : CopyToStaging(r, "Idle", TRUE)
  \/ \E r \in Staging, pass \in {"UpdateBlit", "Idle"} : CopyFromStaging(r, pass)
  \/ \E dst, src \in Staging : CopyBetweenStaging(dst, src)
  \/ \E q \in Queries : EndEvent(q)
  \/ EndOcclusion \/ EndTimestamp
  \/ PresentCommit \/ WaitUntilGPUIdle \/ FenceWait
  \/ \E promote \in BOOLEAN, events \in SUBSET Queries,
        read, written \in SUBSET Staging :
       /\ events # {} => promote
       /\ ExecuteCommandList(promote, events, read, written)

(* A call in progress goes on. *)
Proceed == ThenFlush \/ MapSucceeds \/ MapWaits \/ FenceReturns \/ Unmap

(* The application has made its calls and every chunk is retired. *)
Finished ==
  /\ ops = MaxOps /\ pc = "idle" /\ completed = committed
  /\ UNCHANGED vars

Next ==
  \/ Record
  \/ \E r \in Staging, read, write \in BOOLEAN : (read \/ write) /\ CallMap(r, read, write)
  \/ Flush
  \/ \E q \in Queries, do_not_flush \in BOOLEAN : GetData(q, do_not_flush)
  \/ Proceed \/ MapGivesUp
  \/ Execute \/ Complete
  \/ Finished

Spec == Init /\ [][Next]_vars

(* The GPU and the queue make progress, a call that was made goes on, and  *)
(* an application polls its queries, though never allowing a flush.        *)
Fairness ==
  /\ WF_vars(Execute) /\ WF_vars(Complete) /\ WF_vars(Proceed)
  /\ \A q \in Queries : WF_vars(GetData(q, TRUE))

FairSpec == Spec /\ Fairness

-----------------------------------------------------------------------------
(* Properties.                                                             *)

(* The context waits, under the device lock, for a chunk that has been     *)
(* committed: "only the first flush will have effect", but that one must,  *)
(* or nobody could ever commit what it waits for.                          *)
WaitIsOnCommitted == pc \in {"wait", "mapwait"} => fence_target <= committed

(* What Map returned is the application's: no copy that is recorded or in  *)
(* flight writes to the mapped name, or reads it if it is mapped for       *)
(* writing. Holds across renames, reuse of old names and command lists.    *)
MapIsExclusive ==
  pc = "mapped" =>
    \A u \in uses :
      (u.res = map_call.res /\ u.name = staging[u.res].name) =>
        (~u.write /\ ~map_call.write)

(* An event query that was ended waits for an event that a chunk in flight *)
(* signals, or that a Flush would commit: GetData can always make progress.*)
EventWillBeSignaled ==
  \A q \in Queries :
    query[q].state = "Issued" =>
      \/ query[q].at <= signaled
      \/ \E c \in DOMAIN chunk_event : chunk_event[c] >= query[q].at
      \/ NeedsFlush

(* End without new operations reuses the last event: when the query is     *)
(* signalled, all that was recorded before its End has been executed.      *)
EventCoversItsCommands ==
  \A q \in Queries :
    (query[q].state # "Undefined" /\ query[q].at <= signaled) => executed >= covers[q]

(* Map of a staging resource returns. *)
MapReturns == pc \in {"map", "mapwait"} ~> pc \in {"mapped", "idle"}

(* An application that polls a query with D3D11_ASYNC_GETDATA_DONOTFLUSH,  *)
(* and does nothing else, sees it signalled: after enough polls GetData    *)
(* flushes anyway.                                                         *)
PollingTerminates ==
  \A q \in Queries : query[q].state = "Issued" ~> query[q].state = "Signaled"

=============================================================================
