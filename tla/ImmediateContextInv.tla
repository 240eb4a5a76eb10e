------------------------ MODULE ImmediateContextInv ------------------------
(***************************************************************************)
(* The inductive invariant behind the safety properties of the immediate   *)
(* context.                                                                *)
(***************************************************************************)
EXTENDS ImmediateContext

StagingResource ==
  [name : Nat, pool : Nat, fifo : Seq([id : Nat, will_free_at : Nat]),
   coherent_after : Nat, occupied_until : Nat]

(* Every variable has its type. *)
TypeOK ==
  /\ committed \in Nat /\ executed \in Nat /\ completed \in Nat
  /\ cmdbuf_state \in {"Idle", "Render", "Compute", "Blit", "ReadbackBlit", "UpdateBlit"}
  /\ promote_flush \in BOOLEAN /\ has_dirty_op_since_last_event \in BOOLEAN
  /\ current_event_seq_id \in Nat /\ signaled \in Nat /\ chunk_event \in Seq(Nat)
  /\ query \in [Queries -> [state : {"Undefined", "Issued", "Signaled"}, at : Nat, stall : Nat]]
  /\ staging \in [Staging -> StagingResource]
  /\ uses \subseteq [res : Staging, name : Nat, seq : Nat, write : BOOLEAN]
  /\ last_op \in Nat /\ covers \in [Queries -> Nat]
  /\ pc \in {"idle", "flush", "map", "mapwait", "mapped", "wait"}
  /\ map_call \in [res : Staging \union {NoStaging}, read : BOOLEAN, write : BOOLEAN]
  /\ fence_target \in Nat
  /\ ops \in Nat

(* Nothing is ahead of what it follows: the GPU of the context, the wait   *)
(* of the context of what it has committed, operations of the chunk that   *)
(* is recorded.                                                            *)
Order ==
  /\ completed <= executed /\ executed <= committed
  /\ Len(chunk_event) = committed
  /\ fence_target <= committed
  /\ last_op <= CurrentSeqId
  /\ \A q \in Queries : covers[q] <= CurrentSeqId

(* The events of chunks and queries are ones that were numbered, and the   *)
(* value of the shared event is that of a chunk that has been executed.    *)
EventsAreNumbered ==
  /\ \A c \in 1 .. committed : chunk_event[c] <= current_event_seq_id
  /\ \A q \in Queries : query[q].at <= current_event_seq_id
  /\ signaled = 0 \/ \E c \in 1 .. executed : chunk_event[c] >= signaled

(* The last event is signalled by a chunk, or the next Flush commits one.  *)
LastEventIsDue ==
  \/ NeedsFlush
  \/ current_event_seq_id <= signaled
  \/ \E c \in 1 .. committed : chunk_event[c] >= current_event_seq_id

(* No chunk before the one of the operation signals the event.             *)
Covers(event, op) ==
  /\ event = 0 => op = 0
  /\ \A c \in 1 .. committed : chunk_event[c] >= event => c >= op

(* The last event covers the last operation, unless the context is dirty.  *)
EventsCover ==
  /\ ~has_dirty_op_since_last_event => Covers(current_event_seq_id, last_op)
  /\ \A q \in Queries : query[q].state # "Undefined" => Covers(query[q].at, covers[q])

(* A chunk that a staging resource belongs to can be waited for after a    *)
(* Flush, and the resource's memory has one name at a time.                *)
StagingIsFlushed ==
  \A r \in Staging :
    /\ staging[r].coherent_after <= staging[r].occupied_until
    /\ staging[r].occupied_until <= CurrentSeqId
    /\ staging[r].occupied_until = CurrentSeqId => NeedsFlush

NamesDiffer ==
  \A r \in Staging :
    /\ staging[r].name < staging[r].pool
    /\ \A i \in 1 .. Len(staging[r].fifo) :
         /\ staging[r].fifo[i].id < staging[r].pool
         /\ staging[r].fifo[i].id # staging[r].name
         /\ \A j \in 1 .. Len(staging[r].fifo) :
              staging[r].fifo[i].id = staging[r].fifo[j].id => i = j

(* A copy that is not completed is known to the resource that it uses, or  *)
(* keeps the name it uses from being taken again.                          *)
UsesAreKnown ==
  \A u \in uses :
    /\ completed < u.seq /\ u.seq <= CurrentSeqId
    /\ u.name < staging[u.res].pool
    /\ u.name = staging[u.res].name =>
         /\ u.seq <= staging[u.res].occupied_until
         /\ u.write => u.seq <= staging[u.res].coherent_after
    /\ \A i \in 1 .. Len(staging[u.res].fifo) :
         u.name = staging[u.res].fifo[i].id => u.seq <= staging[u.res].fifo[i].will_free_at

MapHasResource ==
  pc \in {"map", "mapwait", "mapped"} =>
    map_call.res \in Staging /\ (map_call.read \/ map_call.write)

IInv ==
  /\ TypeOK
  /\ Order
  /\ EventsAreNumbered /\ LastEventIsDue /\ EventsCover
  /\ StagingIsFlushed /\ NamesDiffer /\ UsesAreKnown
  /\ MapHasResource /\ MapIsExclusive

=============================================================================
