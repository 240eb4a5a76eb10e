----------------------- MODULE ImmediateContextProofs -----------------------
(***************************************************************************)
(* The safety properties of the immediate context, for any staging         *)
(* resources and queries, and any number of calls.                         *)
(*                                                                         *)
(* The calls fall into three groups: those that record an operation, those *)
(* that flush, and those that only wait or map. A lemma for each says what *)
(* the group has in common, and the lemmas about the calls appeal to it.   *)
(***************************************************************************)
EXTENDS ImmediateContextInv, TLAPS

Passes == {"Idle", "Render", "Compute", "Blit", "ReadbackBlit", "UpdateBlit"}
PCs == {"idle", "flush", "map", "mapwait", "mapped", "wait"}
QueryRecord == [state : {"Undefined", "Issued", "Signaled"}, at : Nat, stall : Nat]
UseRecord == [res : Staging, name : Nat, seq : Nat, write : BOOLEAN]
MapCall == [res : Staging \union {NoStaging}, read : BOOLEAN, write : BOOLEAN]

EventParts == EventsAreNumbered /\ LastEventIsDue /\ EventsCover
StagingParts == StagingIsFlushed /\ NamesDiffer /\ UsesAreKnown

-----------------------------------------------------------------------------
(* Nothing is recorded, numbered, waited for or used at the start.         *)
LEMMA Initial == Init => IInv
<1> SUFFICES ASSUME Init PROVE IInv
  OBVIOUS
<1> USE DEF Init
<1>1. TypeOK
  <2>1. staging \in [Staging -> StagingResource]
    BY DEF StagingResource
  <2>2. map_call \in [res : Staging \union {NoStaging}, read : BOOLEAN, write : BOOLEAN]
    BY DEF NoCall
  <2>3. query \in [Queries -> [state : {"Undefined", "Issued", "Signaled"}, at : Nat, stall : Nat]]
    OBVIOUS
  <2>4. covers \in [Queries -> Nat] /\ chunk_event \in Seq(Nat)
    OBVIOUS
  <2>5. cmdbuf_state \in Passes /\ pc \in PCs
    BY DEF Passes, PCs
  <2> QED
    BY <2>1, <2>2, <2>3, <2>4, <2>5 DEF TypeOK, Passes, PCs
<1>2. Order
  BY DEF Order, CurrentSeqId
<1>3. EventsAreNumbered /\ LastEventIsDue
  BY DEF EventsAreNumbered, LastEventIsDue
<1>4. EventsCover
  BY DEF EventsCover, Covers
<1>5. StagingIsFlushed
  BY DEF StagingIsFlushed, CurrentSeqId
<1>6. NamesDiffer /\ UsesAreKnown
  BY DEF NamesDiffer, UsesAreKnown
<1>7. MapHasResource /\ MapIsExclusive
  BY DEF MapHasResource, MapIsExclusive
<1> QED
  BY <1>1, <1>2, <1>3, <1>4, <1>5, <1>6, <1>7 DEF IInv

-----------------------------------------------------------------------------
(* The context commits a chunk, which gets the next event number, or not.  *)
Advances ==
  CommitChunk \/ UNCHANGED <<committed, current_event_seq_id, chunk_event>>

(* The events of the chunks after that.                                    *)
LEMMA ChunkEvents ==
  ASSUME TypeOK, Order, Advances
  PROVE  /\ committed' \in Nat /\ current_event_seq_id' \in Nat
         /\ chunk_event' \in Seq(Nat) /\ Len(chunk_event') = committed'
         /\ committed <= committed' /\ current_event_seq_id <= current_event_seq_id'
         /\ committed' <= committed + 1
         /\ \A c \in 1 .. committed : c \in 1 .. committed' /\ chunk_event'[c] = chunk_event[c]
         /\ \A c \in 1 .. committed' :
              \/ c \in 1 .. committed
              \/ /\ c = committed + 1 /\ CommitChunk
                 /\ chunk_event'[c] = current_event_seq_id + 1
                 /\ current_event_seq_id' = current_event_seq_id + 1
<1>1. committed \in Nat /\ current_event_seq_id \in Nat /\ chunk_event \in Seq(Nat)
      /\ Len(chunk_event) = committed
  BY DEF TypeOK, Order
<1>2. CASE CommitChunk
  <2>1. /\ committed' = committed + 1 /\ current_event_seq_id' = current_event_seq_id + 1
        /\ chunk_event' = Append(chunk_event, current_event_seq_id + 1)
    BY <1>2 DEF CommitChunk
  <2>2. /\ chunk_event' \in Seq(Nat) /\ Len(chunk_event') = committed'
        /\ \A c \in 1 .. committed : chunk_event'[c] = chunk_event[c]
        /\ chunk_event'[committed + 1] = current_event_seq_id + 1
    BY <1>1, <2>1
  <2> QED
    BY <1>1, <1>2, <2>1, <2>2
<1>3. CASE UNCHANGED <<committed, current_event_seq_id, chunk_event>>
  BY <1>1, <1>3
<1> QED
  BY <1>2, <1>3 DEF Advances

(* An operation makes the context dirty, and no event covers it yet.       *)
LEMMA OperationKeepsEvents ==
  ASSUME IInv, Advances, has_dirty_op_since_last_event' = TRUE,
         UNCHANGED <<executed, signaled, query, covers>>
  PROVE  EventParts'
<1>1. /\ TypeOK /\ Order
      /\ committed \in Nat /\ executed \in Nat /\ current_event_seq_id \in Nat
      /\ executed <= committed
      /\ \A q \in Queries : query[q].at \in Nat /\ covers[q] \in Nat /\ covers[q] <= committed + 1
  BY DEF IInv, TypeOK, Order, CurrentSeqId
<1>2. EventsAreNumbered'
  <2>1. \A c \in 1 .. committed' : chunk_event'[c] <= current_event_seq_id'
    <3>1. \A c \in 1 .. committed : chunk_event[c] \in Nat /\ chunk_event[c] <= current_event_seq_id
      BY <1>1 DEF IInv, TypeOK, Order, EventsAreNumbered
    <3> QED
      BY <1>1, <3>1, ChunkEvents
  <2>2. signaled' = 0 \/ \E c \in 1 .. executed' : chunk_event'[c] >= signaled'
    BY <1>1, ChunkEvents DEF IInv, EventsAreNumbered
  <2>3. \A q \in Queries : query'[q].at <= current_event_seq_id'
    BY <1>1, ChunkEvents DEF IInv, EventsAreNumbered
  <2> QED
    BY <2>1, <2>2, <2>3 DEF EventsAreNumbered
<1>3. LastEventIsDue'
  BY DEF LastEventIsDue, NeedsFlush
<1>4. EventsCover'
  <2>1. ASSUME NEW q \in Queries, query[q].state # "Undefined"
        PROVE  Covers(query[q].at, covers[q])'
    <3>1. Covers(query[q].at, covers[q])
      BY <2>1 DEF IInv, EventsCover
    <3> QED
      BY <1>1, <3>1, ChunkEvents DEF Covers
  <2> QED
    BY <2>1 DEF EventsCover
<1> QED
  BY <1>2, <1>3, <1>4 DEF EventParts

(* A flush commits a chunk whose event covers all that was recorded.       *)
LEMMA FlushKeepsEvents ==
  ASSUME IInv, FlushIfNeeded \/ Commit,
         UNCHANGED <<executed, signaled, covers>>,
         \A q \in Queries : /\ query'[q].at = query[q].at
                            /\ query'[q].state # "Undefined" => query[q].state # "Undefined"
  PROVE  EventParts' /\ Advances /\ last_op' = last_op
<1>1. /\ TypeOK /\ Order
      /\ committed \in Nat /\ executed \in Nat /\ current_event_seq_id \in Nat
      /\ executed <= committed /\ last_op <= committed + 1 /\ last_op \in Nat
      /\ \A q \in Queries : query[q].at \in Nat /\ covers[q] \in Nat /\ covers[q] <= committed + 1
  BY DEF IInv, TypeOK, Order, CurrentSeqId
<1>2. Commit \/ UNCHANGED recorded
  BY DEF FlushIfNeeded
<1>3. Advances /\ last_op' = last_op
  BY <1>2 DEF Commit, Advances, recorded
<1>4. \A c \in 1 .. committed : chunk_event[c] \in Nat /\ chunk_event[c] <= current_event_seq_id
  BY <1>1 DEF IInv, TypeOK, Order, EventsAreNumbered
<1>5. EventsAreNumbered'
  <2>1. \A c \in 1 .. committed' : chunk_event'[c] <= current_event_seq_id'
    BY <1>1, <1>3, <1>4, ChunkEvents
  <2>2. signaled' = 0 \/ \E c \in 1 .. executed' : chunk_event'[c] >= signaled'
    BY <1>1, <1>3, ChunkEvents DEF IInv, EventsAreNumbered
  <2>3. \A q \in Queries : query'[q].at <= current_event_seq_id'
    BY <1>1, <1>3, ChunkEvents DEF IInv, EventsAreNumbered
  <2> QED
    BY <2>1, <2>2, <2>3 DEF EventsAreNumbered
<1>6. ASSUME NEW q \in Queries, query'[q].state # "Undefined"
      PROVE  Covers(query[q].at, covers[q])'
  <2>1. Covers(query[q].at, covers[q]) /\ query'[q].at = query[q].at
    BY <1>6 DEF IInv, EventsCover
  <2> QED
    BY <1>1, <1>3, <2>1, ChunkEvents DEF Covers
<1>7. CASE Commit
  <2>1. CommitChunk /\ current_event_seq_id' = current_event_seq_id + 1
        /\ committed' = committed + 1
    BY <1>7 DEF Commit, CommitChunk
  <2>2. committed + 1 \in 1 .. committed'
        /\ chunk_event'[committed + 1] = current_event_seq_id + 1
    BY <1>1, <1>3, <2>1, ChunkEvents
  <2>3. LastEventIsDue'
    BY <1>1, <2>1, <2>2 DEF LastEventIsDue
  <2>4. Covers(current_event_seq_id, last_op)'
    <3>1. \A c \in 1 .. committed' : chunk_event'[c] >= current_event_seq_id' => c >= last_op'
      BY <1>1, <1>3, <1>4, <2>1, ChunkEvents
    <3> QED
      BY <1>1, <2>1, <3>1 DEF Covers
  <2> QED
    BY <1>3, <1>5, <1>6, <2>3, <2>4 DEF EventParts, EventsCover
<1>8. CASE UNCHANGED recorded
  <2>1. UNCHANGED <<committed, promote_flush, has_dirty_op_since_last_event,
                    current_event_seq_id, chunk_event, last_op, signaled>>
    BY <1>8 DEF recorded
  <2>2. LastEventIsDue'
    BY <2>1 DEF IInv, LastEventIsDue, NeedsFlush
  <2>3. (~has_dirty_op_since_last_event => Covers(current_event_seq_id, last_op))'
    BY <2>1 DEF IInv, EventsCover, Covers
  <2> QED
    BY <1>3, <1>5, <1>6, <2>2, <2>3 DEF EventParts, EventsCover
<1> QED
  BY <1>2, <1>7, <1>8

-----------------------------------------------------------------------------
(* Staging resources that no call uses: copies complete, chunks commit.    *)
LEMMA StagingKept ==
  ASSUME IInv, UNCHANGED staging, uses' \subseteq uses,
         committed' \in Nat, committed <= committed',
         committed' = committed /\ NeedsFlush => NeedsFlush',
         \A u \in uses' : completed' < u.seq
  PROVE  StagingParts'
<1>1. committed \in Nat /\ staging \in [Staging -> StagingResource] /\ uses \subseteq UseRecord
  BY DEF IInv, TypeOK, UseRecord
<1>2. StagingIsFlushed'
  <2>1. ASSUME NEW r \in Staging
        PROVE  /\ staging[r].coherent_after <= staging[r].occupied_until
               /\ staging[r].occupied_until <= CurrentSeqId'
               /\ staging[r].occupied_until = CurrentSeqId' => NeedsFlush'
    <3>1. staging[r].occupied_until \in Nat
      BY <1>1 DEF StagingResource
    <3>2. /\ staging[r].coherent_after <= staging[r].occupied_until
          /\ staging[r].occupied_until <= committed + 1
          /\ staging[r].occupied_until = committed + 1 => NeedsFlush
      BY DEF IInv, StagingIsFlushed, CurrentSeqId
    <3>3. CASE committed' = committed
      BY <3>2, <3>3 DEF CurrentSeqId
    <3>4. CASE committed' >= committed + 1
      BY <1>1, <3>1, <3>2, <3>4 DEF CurrentSeqId
    <3> QED
      BY <1>1, <3>3, <3>4
  <2> QED
    BY <2>1 DEF StagingIsFlushed
<1>3. NamesDiffer'
  BY DEF IInv, NamesDiffer
<1>4. UsesAreKnown'
  <2>1. ASSUME NEW u \in uses'
        PROVE  u.seq <= CurrentSeqId' /\ u \in uses
    <3>1. u.seq \in Nat /\ u.seq <= committed + 1
      BY <1>1 DEF IInv, UsesAreKnown, CurrentSeqId, UseRecord
    <3> QED
      BY <1>1, <3>1 DEF CurrentSeqId
  <2> QED
    BY <2>1 DEF IInv, UsesAreKnown
<1> QED
  BY <1>2, <1>3, <1>4 DEF StagingParts

(* Resources belong to chunks that have been numbered.                     *)
LEMMA NextSeqId ==
  ASSUME committed' \in Nat
  PROVE  CurrentSeqId' \in Nat
<1>1. PICK n \in Nat : n = committed'
  OBVIOUS
<1>2. n + 1 \in Nat
  OBVIOUS
<1>3. CurrentSeqId' = n + 1
  BY <1>1 DEF CurrentSeqId
<1> QED
  BY <1>2, <1>3, Zenon

(* A resource belongs to no chunk after the one that is recorded now.      *)
LEMMA StagingBelongs ==
  ASSUME IInv, committed' \in Nat, committed <= committed', NEW r \in Staging
  PROVE  /\ staging[r] \in StagingResource
         /\ staging[r].coherent_after <= CurrentSeqId'
         /\ staging[r].occupied_until <= CurrentSeqId'
<1>1. staging[r] \in StagingResource
  BY DEF IInv, TypeOK
<1>2. staging[r].coherent_after \in Nat /\ staging[r].occupied_until \in Nat
  BY <1>1 DEF StagingResource
<1>3. staging[r].coherent_after <= staging[r].occupied_until
      /\ staging[r].occupied_until <= committed + 1
  BY DEF IInv, StagingIsFlushed, CurrentSeqId
<1>4. committed \in Nat
  BY DEF IInv, TypeOK
<1> QED
  BY <1>1, <1>2, <1>3, <1>4 DEF CurrentSeqId

(* What a call does that copies from the resources of one set, and to      *)
(* those of another: they belong to the chunk that is recorded.            *)
Copies(read, written) ==
  /\ staging' \in [Staging -> StagingResource]
  /\ \A r \in Staging :
       /\ staging'[r].name = staging[r].name
       /\ staging'[r].pool = staging[r].pool
       /\ staging'[r].fifo = staging[r].fifo
       /\ staging'[r].coherent_after =
            IF r \in written THEN CurrentSeqId' ELSE staging[r].coherent_after
       /\ staging'[r].occupied_until =
            IF r \in read \union written THEN CurrentSeqId' ELSE staging[r].occupied_until
  /\ uses' \subseteq UseRecord
  /\ \A u \in uses' \ uses :
       /\ u.res \in read \union written /\ u.name = staging[u.res].name
       /\ u.seq = CurrentSeqId'
       /\ u.write => u.res \in written

(* A call that copies keeps what is known of resources, names and uses.    *)
LEMMA StagingUsed ==
  ASSUME IInv, NEW read \in SUBSET Staging, NEW written \in SUBSET Staging,
         Copies(read, written), committed' \in Nat, committed <= committed',
         NeedsFlush', UNCHANGED completed
  PROVE  StagingParts'
<1>1. /\ TypeOK /\ Order
      /\ committed \in Nat /\ committed' \in Nat /\ committed <= committed' /\ completed \in Nat
      /\ completed <= committed
      /\ uses \subseteq UseRecord /\ uses' \subseteq UseRecord
      /\ CurrentSeqId = committed + 1 /\ CurrentSeqId' = committed' + 1
  BY DEF IInv, TypeOK, Order, CurrentSeqId, UseRecord, Copies
<1>2. \A r \in Staging :
        /\ staging[r].name \in Nat /\ staging[r].pool \in Nat
        /\ staging[r].fifo \in Seq([id : Nat, will_free_at : Nat])
        /\ staging[r].coherent_after \in Nat /\ staging[r].occupied_until \in Nat
        /\ staging[r].coherent_after <= staging[r].occupied_until
        /\ staging[r].occupied_until <= committed + 1
  BY <1>1 DEF IInv, TypeOK, StagingResource, StagingIsFlushed
<1>3. \A r \in Staging :
        /\ staging'[r].name = staging[r].name
        /\ staging'[r].pool = staging[r].pool
        /\ staging'[r].fifo = staging[r].fifo
        /\ staging'[r].coherent_after =
             IF r \in written THEN committed' + 1 ELSE staging[r].coherent_after
        /\ staging'[r].occupied_until =
             IF r \in read \union written THEN committed' + 1 ELSE staging[r].occupied_until
  BY <1>1 DEF Copies
<1>4. StagingIsFlushed'
  <2>1. \A r \in Staging :
          /\ staging'[r].coherent_after <= staging'[r].occupied_until
          /\ staging'[r].occupied_until <= committed' + 1
    BY <1>1, <1>2, <1>3
  <2> QED
    BY <1>1, <2>1 DEF StagingIsFlushed
<1>5. NamesDiffer'
  BY <1>3 DEF IInv, NamesDiffer
<1>6. ASSUME NEW u \in uses', u \in uses
      PROVE  /\ completed' < u.seq /\ u.seq <= CurrentSeqId'
             /\ u.name < staging'[u.res].pool
             /\ u.name = staging'[u.res].name =>
                  /\ u.seq <= staging'[u.res].occupied_until
                  /\ u.write => u.seq <= staging'[u.res].coherent_after
             /\ \A i \in 1 .. Len(staging'[u.res].fifo) :
                  u.name = staging'[u.res].fifo[i].id => u.seq <= staging'[u.res].fifo[i].will_free_at
  <2>1. u.res \in Staging /\ u.seq \in Nat
    BY <1>1 DEF UseRecord
  <2>2. /\ completed < u.seq /\ u.seq <= committed + 1
        /\ u.name < staging[u.res].pool
        /\ u.name = staging[u.res].name =>
             /\ u.seq <= staging[u.res].occupied_until
             /\ u.write => u.seq <= staging[u.res].coherent_after
        /\ \A i \in 1 .. Len(staging[u.res].fifo) :
             u.name = staging[u.res].fifo[i].id => u.seq <= staging[u.res].fifo[i].will_free_at
    BY <1>1, <1>6 DEF IInv, UsesAreKnown
  <2>3. /\ staging'[u.res].name = staging[u.res].name
        /\ staging'[u.res].pool = staging[u.res].pool
        /\ staging'[u.res].fifo = staging[u.res].fifo
        /\ staging[u.res].occupied_until <= staging'[u.res].occupied_until
        /\ staging[u.res].coherent_after <= staging'[u.res].coherent_after
        /\ staging'[u.res].occupied_until \in Nat /\ staging'[u.res].coherent_after \in Nat
        /\ staging[u.res].occupied_until \in Nat /\ staging[u.res].coherent_after \in Nat
    <3>1. /\ staging[u.res].coherent_after \in Nat /\ staging[u.res].occupied_until \in Nat
          /\ staging[u.res].occupied_until <= committed + 1
          /\ staging[u.res].coherent_after <= staging[u.res].occupied_until
      BY <1>2, <2>1
    <3>2. PICK seq \in Nat : seq = CurrentSeqId'
      BY NextSeqId
    <3>3. staging[u.res].occupied_until <= seq /\ staging[u.res].coherent_after <= seq
      BY StagingBelongs, <2>1, <3>2
    <3> QED
      BY <1>1, <1>3, <2>1, <3>1, <3>2, <3>3
  <2>4. completed' < u.seq /\ u.seq <= CurrentSeqId'
    BY <1>1, <2>1, <2>2
  <2>5. ASSUME u.name = staging'[u.res].name
        PROVE  /\ u.seq <= staging'[u.res].occupied_until
               /\ u.write => u.seq <= staging'[u.res].coherent_after
    BY <2>1, <2>2, <2>3, <2>5
  <2> QED
    BY <2>2, <2>3, <2>4, <2>5
<1>7. ASSUME NEW u \in uses', u \notin uses
      PROVE  /\ completed' < u.seq /\ u.seq <= CurrentSeqId'
             /\ u.name < staging'[u.res].pool
             /\ u.name = staging'[u.res].name =>
                  /\ u.seq <= staging'[u.res].occupied_until
                  /\ u.write => u.seq <= staging'[u.res].coherent_after
             /\ \A i \in 1 .. Len(staging'[u.res].fifo) :
                  u.name = staging'[u.res].fifo[i].id => u.seq <= staging'[u.res].fifo[i].will_free_at
  <2>1. /\ u.res \in read \union written /\ u.name = staging[u.res].name
        /\ u.seq = committed' + 1
        /\ u.write => u.res \in written
    BY <1>1, <1>7 DEF Copies
  <2>2. u.name < staging[u.res].pool
        /\ \A i \in 1 .. Len(staging[u.res].fifo) : staging[u.res].fifo[i].id # u.name
    BY <2>1 DEF IInv, NamesDiffer
  <2>3. /\ staging'[u.res].pool = staging[u.res].pool
        /\ staging'[u.res].fifo = staging[u.res].fifo
        /\ staging'[u.res].occupied_until = committed' + 1
        /\ u.write => staging'[u.res].coherent_after = committed' + 1
    BY <1>3, <2>1
  <2>4. /\ completed' < u.seq /\ u.seq <= CurrentSeqId'
        /\ u.seq <= staging'[u.res].occupied_until
        /\ u.write => u.seq <= staging'[u.res].coherent_after
    BY <1>1, <2>1, <2>3
  <2> QED
    BY <2>2, <2>3, <2>4
<1>8. UsesAreKnown'
  BY <1>6, <1>7 DEF UsesAreKnown
<1> QED
  BY <1>4, <1>5, <1>8 DEF StagingParts

-----------------------------------------------------------------------------
(* The calls that record an operation.                                     *)
LEMMA OperationKeeps ==
  ASSUME IInv, NEW read \in SUBSET Staging, NEW written \in SUBSET Staging,
         Advances, Copies(read, written),
         has_dirty_op_since_last_event' = TRUE, last_op' = CurrentSeqId',
         promote_flush' \in BOOLEAN, cmdbuf_state' \in Passes, ops' \in Nat,
         UNCHANGED <<executed, completed, signaled, query, covers, map_call, fence_target>>,
         pc' \in {"idle", "flush"}
  PROVE  IInv'
<1>1. TypeOK /\ Order
  BY DEF IInv
<1>2. TypeOK'
  <2>1. CurrentSeqId' \in Nat
    BY <1>1, ChunkEvents, NextSeqId
  <2>2. /\ committed' \in Nat /\ current_event_seq_id' \in Nat /\ chunk_event' \in Seq(Nat)
    BY <1>1, ChunkEvents
  <2> QED
    BY <1>1, <2>1, <2>2 DEF TypeOK, Passes, Copies, UseRecord
<1>3. Order'
  BY <1>1, ChunkEvents DEF Order, CurrentSeqId, TypeOK
<1>4. StagingParts'
  BY <1>1, ChunkEvents, StagingUsed DEF NeedsFlush
<1>5. MapHasResource' /\ MapIsExclusive'
  BY DEF MapHasResource, MapIsExclusive
<1> QED
  BY <1>2, <1>3, <1>4, <1>5, OperationKeepsEvents DEF IInv, EventParts, StagingParts

(* The calls that flush, and then may wait.                                *)
LEMMA FlushKeeps ==
  ASSUME IInv, FlushIfNeeded \/ Commit,
         UNCHANGED <<executed, completed, signaled, staging, uses, covers, map_call>>,
         query' \in [Queries -> QueryRecord],
         \A q \in Queries : /\ query'[q].at = query[q].at
                            /\ query'[q].state # "Undefined" => query[q].state # "Undefined",
         pc' \in PCs, pc' # "mapped",
         pc' \in {"map", "mapwait"} => pc \in {"map", "mapwait"},
         fence_target' \in Nat, fence_target' <= committed', ops' \in Nat
  PROVE  IInv'
<1>1. TypeOK /\ Order
  BY DEF IInv
<1>2. Advances /\ last_op' = last_op /\ EventParts'
  BY FlushKeepsEvents
<1>3. /\ promote_flush' \in BOOLEAN /\ has_dirty_op_since_last_event' \in BOOLEAN
      /\ cmdbuf_state' \in Passes
      /\ committed' = committed => UNCHANGED <<promote_flush, has_dirty_op_since_last_event>>
  <2>1. CASE Commit
    <3>1. committed \in Nat /\ committed' = committed + 1
      BY <1>1, <2>1 DEF TypeOK, Commit, CommitChunk
    <3>2. committed' # committed
      BY <3>1
    <3> QED
      BY <2>1, <3>2 DEF Commit, ClearsDirty, Passes
  <2>2. CASE UNCHANGED recorded
    BY <1>1, <2>2 DEF recorded, TypeOK, Passes
  <2> QED
    BY <2>1, <2>2 DEF FlushIfNeeded
<1>4. TypeOK'
  BY <1>1, <1>2, <1>3, ChunkEvents DEF TypeOK, Passes, QueryRecord, PCs
<1>5. Order'
  BY <1>1, <1>2, ChunkEvents DEF Order, CurrentSeqId, TypeOK
<1>6. StagingParts'
  <2>1. \A u \in uses : completed < u.seq
    BY DEF IInv, UsesAreKnown
  <2> QED
    BY <1>1, <1>2, <1>3, <2>1, StagingKept, ChunkEvents DEF NeedsFlush
<1>7. MapHasResource' /\ MapIsExclusive'
  BY DEF IInv, MapHasResource, MapIsExclusive
<1> QED
  BY <1>2, <1>4, <1>5, <1>6, <1>7 DEF IInv, EventParts, StagingParts

-----------------------------------------------------------------------------
(* What EmitOP, and a step that commits under a condition, do.             *)
LEMMA EmitOPDoes ==
  ASSUME IInv, NEW pass \in Passes, NEW promote \in BOOLEAN, EmitOP(pass, promote)
  PROVE  /\ Advances
         /\ has_dirty_op_since_last_event' = TRUE /\ last_op' = CurrentSeqId'
         /\ promote_flush' \in BOOLEAN /\ cmdbuf_state' \in Passes
<1>1. promote_flush \in BOOLEAN
  BY DEF IInv, TypeOK
<1>2. Advances
  BY DEF EmitOP, CommitIf, Advances
<1> QED
  BY <1>1, <1>2 DEF EmitOP, CurrentSeqId

(* A call without a copy copies from and to no resources.                  *)
LEMMA NoCopies ==
  ASSUME IInv, UNCHANGED <<staging, uses>>
  PROVE  Copies({}, {})
BY DEF Copies, IInv, TypeOK, UseRecord

(* A resource that a copy reads or writes belongs to the current chunk.    *)
LEMMA UsedResource ==
  ASSUME committed' \in Nat, NEW s \in StagingResource,
         s.coherent_after <= CurrentSeqId', s.occupied_until <= CurrentSeqId'
  PROVE  /\ UseCopySource(s, CurrentSeqId') \in StagingResource
         /\ UseCopySource(s, CurrentSeqId') = [s EXCEPT !.occupied_until = CurrentSeqId']
         /\ UseCopyDestination(s, CurrentSeqId') \in StagingResource
         /\ UseCopyDestination(s, CurrentSeqId') =
              [s EXCEPT !.coherent_after = CurrentSeqId', !.occupied_until = CurrentSeqId']
<1>1. CurrentSeqId' \in Nat
  BY NextSeqId
<1>2. s.coherent_after \in Nat /\ s.occupied_until \in Nat
  BY DEF StagingResource
<1>3. Larger(CurrentSeqId', s.coherent_after) = CurrentSeqId'
      /\ Larger(CurrentSeqId', s.occupied_until) = CurrentSeqId'
  BY <1>1, <1>2 DEF Larger
<1> HIDE DEF CurrentSeqId
<1> QED
  BY <1>1, <1>3 DEF UseCopySource, UseCopyDestination, StagingResource

-----------------------------------------------------------------------------
(* Draw, Dispatch, copies of device resources, clears.                     *)
LEMMA OperationsKeep ==
  ASSUME IInv,
         \/ \E pass \in {"Render", "Compute", "Blit"} : Operation(pass)
         \/ \E defer_commit \in BOOLEAN :
              OperationOutsidePass(defer_commit) \/ EmitThenFlush(defer_commit)
         \/ EndTimestamp \/ FenceWait
  PROVE  IInv'
<1>1. /\ UNCHANGED <<executed, completed, signaled, query, staging, uses, covers,
                     map_call, fence_target>>
      /\ ops' = ops + 1 /\ pc = "idle" /\ pc' \in {"idle", "flush"}
  BY DEF Operation, OperationOutsidePass, EmitThenFlush, EndTimestamp, FenceWait, Call, call, queue
<1>2. /\ Advances /\ has_dirty_op_since_last_event' = TRUE /\ last_op' = CurrentSeqId'
      /\ promote_flush' \in BOOLEAN /\ cmdbuf_state' \in Passes
  <2>0. promote_flush \in BOOLEAN /\ cmdbuf_state \in Passes
    BY DEF IInv, TypeOK, Passes
  <2>1. CASE \E pass \in {"Render", "Compute", "Blit"} : Operation(pass)
    BY <2>1, EmitOPDoes DEF Operation, Passes
  <2>2. CASE \E defer_commit \in BOOLEAN :
               OperationOutsidePass(defer_commit) \/ EmitThenFlush(defer_commit)
    BY <2>0, <2>2 DEF OperationOutsidePass, EmitThenFlush, CommitIf, Advances, Passes, CurrentSeqId
  <2>3. CASE EndTimestamp
    BY <2>0, <2>3 DEF EndTimestamp, Advances, Passes, CurrentSeqId, queue
  <2>4. CASE FenceWait
    BY <2>0, <2>4 DEF FenceWait, CommitIf, Advances, Passes, CurrentSeqId
  <2> QED
    BY <2>1, <2>2, <2>3, <2>4
<1>3. ops' \in Nat
  BY <1>1 DEF IInv, TypeOK
<1>4. Copies({}, {})
  BY <1>1, NoCopies
<1> QED
  BY <1>1, <1>2, <1>3, <1>4, OperationKeeps

(* The staging resources and their uses after copies between them.         *)
LEMMA CopiesAre ==
  ASSUME IInv, committed' \in Nat, committed <= committed',
         NEW read \in SUBSET Staging, NEW written \in SUBSET Staging,
         staging' = [r \in Staging |->
           LET s == IF r \in read THEN UseCopySource(staging[r], CurrentSeqId')
                                  ELSE staging[r] IN
             IF r \in written THEN UseCopyDestination(s, CurrentSeqId') ELSE s],
         uses' = uses \union {Use(r, CurrentSeqId', FALSE) : r \in read}
                      \union {Use(r, CurrentSeqId', TRUE) : r \in written}
  PROVE  Copies(read, written)
<1> DEFINE src(r) == IF r \in read THEN UseCopySource(staging[r], CurrentSeqId') ELSE staging[r]
           dst(r) == IF r \in written THEN UseCopyDestination(src(r), CurrentSeqId') ELSE src(r)
<1>1. CurrentSeqId' \in Nat
  BY NextSeqId
<1>2. staging' = [r \in Staging |-> dst(r)]
  OBVIOUS
<1> HIDE DEF CurrentSeqId
<1>3. ASSUME NEW r \in Staging
      PROVE  /\ src(r) \in StagingResource
             /\ src(r).coherent_after <= CurrentSeqId' /\ src(r).occupied_until <= CurrentSeqId'
             /\ src(r).name = staging[r].name /\ src(r).pool = staging[r].pool
             /\ src(r).fifo = staging[r].fifo
             /\ src(r).coherent_after = staging[r].coherent_after
             /\ src(r).occupied_until = IF r \in read THEN CurrentSeqId' ELSE staging[r].occupied_until
  <2>1. /\ staging[r] \in StagingResource
        /\ staging[r].coherent_after <= CurrentSeqId' /\ staging[r].occupied_until <= CurrentSeqId'
    BY StagingBelongs
  <2>2. UseCopySource(staging[r], CurrentSeqId') = [staging[r] EXCEPT !.occupied_until = CurrentSeqId']
    BY <2>1, UsedResource
  <2>3. UseCopySource(staging[r], CurrentSeqId') \in StagingResource
    BY <2>1, UsedResource
  <2>4. CurrentSeqId' <= CurrentSeqId'
    BY <1>1
  <2>5. CASE r \in read
    <3>1. src(r) = [staging[r] EXCEPT !.occupied_until = CurrentSeqId']
      BY <2>2, <2>5
    <3>2. src(r) \in StagingResource
      BY <2>3, <2>5
    <3> QED
      BY <2>1, <2>4, <2>5, <3>1, <3>2 DEF StagingResource
  <2>6. CASE r \notin read
    <3>1. src(r) = staging[r]
      BY <2>6
    <3> QED
      BY <2>1, <2>6, <3>1
  <2> QED
    BY <2>5, <2>6
<1>4. ASSUME NEW r \in Staging
      PROVE  /\ dst(r) \in StagingResource
             /\ dst(r).name = staging[r].name /\ dst(r).pool = staging[r].pool
             /\ dst(r).fifo = staging[r].fifo
             /\ dst(r).coherent_after = IF r \in written THEN CurrentSeqId' ELSE staging[r].coherent_after
             /\ dst(r).occupied_until =
                  IF r \in read \union written THEN CurrentSeqId' ELSE staging[r].occupied_until
  <2> HIDE DEF src
  <2>1. /\ UseCopyDestination(src(r), CurrentSeqId') \in StagingResource
        /\ UseCopyDestination(src(r), CurrentSeqId') =
             [src(r) EXCEPT !.coherent_after = CurrentSeqId', !.occupied_until = CurrentSeqId']
    BY <1>3, UsedResource
  <2>2. src(r) \in StagingResource
    BY <1>3
  <2>3. CASE r \in written
    <3>1. dst(r) = [src(r) EXCEPT !.coherent_after = CurrentSeqId', !.occupied_until = CurrentSeqId']
      BY <2>1, <2>3
    <3>2. dst(r) \in StagingResource
      BY <2>1, <2>3
    <3> QED
      BY <1>3, <2>2, <2>3, <3>1, <3>2 DEF StagingResource
  <2>4. CASE r \notin written
    <3>1. dst(r) = src(r)
      BY <2>4
    <3> QED
      BY <1>3, <2>2, <2>4, <3>1
  <2> QED
    BY <2>3, <2>4
<1> HIDE DEF dst
<1>5. /\ staging' \in [Staging -> StagingResource]
      /\ \A r \in Staging :
           /\ staging'[r].name = staging[r].name
           /\ staging'[r].pool = staging[r].pool
           /\ staging'[r].fifo = staging[r].fifo
           /\ staging'[r].coherent_after =
                IF r \in written THEN CurrentSeqId' ELSE staging[r].coherent_after
           /\ staging'[r].occupied_until =
                IF r \in read \union written THEN CurrentSeqId' ELSE staging[r].occupied_until
  BY <1>2, <1>4
<1>6. \A r \in Staging, write \in BOOLEAN : Use(r, CurrentSeqId', write) \in UseRecord
  <2>1. \A r \in Staging : staging[r].name \in Nat
    BY DEF IInv, TypeOK, StagingResource
  <2> QED
    BY <1>1, <2>1 DEF Use, UseRecord
<1>7. uses' \subseteq UseRecord
  <2>1. uses \subseteq UseRecord
    BY DEF IInv, TypeOK, UseRecord
  <2> QED
    BY <1>6, <2>1
<1>8. \A u \in uses' \ uses :
        \/ \E r \in read : u = Use(r, CurrentSeqId', FALSE)
        \/ \E r \in written : u = Use(r, CurrentSeqId', TRUE)
  OBVIOUS
<1>9. \A u \in uses' \ uses :
        /\ u.res \in read \union written /\ u.name = staging[u.res].name
        /\ u.seq = CurrentSeqId'
        /\ u.write => u.res \in written
  BY <1>8 DEF Use
<1> QED
  BY <1>5, <1>7, <1>9 DEF Copies

(* Copies to and from staging resources.                                   *)
LEMMA CopiesKeep ==
  ASSUME IInv,
         \/ \E r \in Staging, pass \in Passes, promote \in BOOLEAN : CopyToStaging(r, pass, promote)
         \/ \E r \in Staging, pass \in Passes : CopyFromStaging(r, pass)
         \/ \E dst, src \in Staging : CopyBetweenStaging(dst, src)
  PROVE  IInv'
<1>1. /\ UNCHANGED <<executed, completed, signaled, query, covers, map_call, fence_target>>
      /\ ops' = ops + 1 /\ pc' = "idle"
      /\ \E pass \in Passes, promote \in BOOLEAN : EmitOP(pass, promote)
  BY DEF CopyToStaging, CopyFromStaging, CopyBetweenStaging, Call, call, Passes
<1>2. /\ Advances /\ has_dirty_op_since_last_event' = TRUE /\ last_op' = CurrentSeqId'
      /\ promote_flush' \in BOOLEAN /\ cmdbuf_state' \in Passes
  BY <1>1, EmitOPDoes
<1> DEFINE seq == CurrentSeqId'
           After(read, written) ==
             [r \in Staging |->
                LET s == IF r \in read THEN UseCopySource(staging[r], seq) ELSE staging[r] IN
                  IF r \in written THEN UseCopyDestination(s, seq) ELSE s]
<1>3. staging \in [Staging -> StagingResource]
  BY DEF IInv, TypeOK
<1>4. \E read, written \in SUBSET Staging :
        /\ staging' = After(read, written)
        /\ uses' = uses \union {Use(r, seq, FALSE) : r \in read}
                        \union {Use(r, seq, TRUE) : r \in written}
  <2>1. ASSUME NEW r \in Staging, NEW pass \in Passes, NEW promote \in BOOLEAN,
               CopyToStaging(r, pass, promote)
        PROVE  staging' = After({}, {r}) /\ uses' = uses \union {Use(r, seq, TRUE)}
    <3>1. staging' = [staging EXCEPT ![r] = UseCopyDestination(@, seq)]
          /\ uses' = uses \union {Use(r, seq, TRUE)}
      BY <2>1 DEF CopyToStaging, CurrentSeqId
    <3> HIDE DEF seq
    <3> QED
      BY <1>3, <3>1
  <2>2. ASSUME NEW r \in Staging, NEW pass \in Passes, CopyFromStaging(r, pass)
        PROVE  staging' = After({r}, {}) /\ uses' = uses \union {Use(r, seq, FALSE)}
    <3>1. staging' = [staging EXCEPT ![r] = UseCopySource(@, seq)]
          /\ uses' = uses \union {Use(r, seq, FALSE)}
      BY <2>2 DEF CopyFromStaging, CurrentSeqId
    <3> HIDE DEF seq
    <3> QED
      BY <1>3, <3>1
  <2>3. ASSUME NEW dst \in Staging, NEW src \in Staging, CopyBetweenStaging(dst, src)
        PROVE  /\ staging' = After({src}, {dst})
               /\ uses' = uses \union {Use(dst, seq, TRUE), Use(src, seq, FALSE)}
    <3>1. staging' = [[staging EXCEPT ![dst] = UseCopyDestination(@, seq)]
                        EXCEPT ![src] = UseCopySource(@, seq)]
          /\ uses' = uses \union {Use(dst, seq, TRUE), Use(src, seq, FALSE)}
      BY <2>3 DEF CopyBetweenStaging, CurrentSeqId
    <3>2. dst = src => UseCopySource(UseCopyDestination(staging[src], seq), seq)
                        = UseCopyDestination(UseCopySource(staging[src], seq), seq)
      BY DEF UseCopySource, UseCopyDestination, Larger
    <3> HIDE DEF seq
    <3> QED
      BY <1>3, <3>1, <3>2
  <2> HIDE DEF seq, After
  <2> QED
    <3>1. CASE \E r \in Staging, pass \in Passes, promote \in BOOLEAN : CopyToStaging(r, pass, promote)
      <4>1. PICK r \in Staging : staging' = After({}, {r}) /\ uses' = uses \union {Use(r, seq, TRUE)}
        BY <2>1, <3>1
      <4>2. uses' = uses \union {Use(x, seq, FALSE) : x \in {}} \union {Use(x, seq, TRUE) : x \in {r}}
        BY <4>1
      <4> QED
        BY <4>1, <4>2
    <3>2. CASE \E r \in Staging, pass \in Passes : CopyFromStaging(r, pass)
      <4>1. PICK r \in Staging : staging' = After({r}, {}) /\ uses' = uses \union {Use(r, seq, FALSE)}
        BY <2>2, <3>2
      <4>2. uses' = uses \union {Use(x, seq, FALSE) : x \in {r}} \union {Use(x, seq, TRUE) : x \in {}}
        BY <4>1
      <4> QED
        BY <4>1, <4>2
    <3>3. CASE \E dst, src \in Staging : CopyBetweenStaging(dst, src)
      <4>1. PICK dst \in Staging, src \in Staging :
              /\ staging' = After({src}, {dst})
              /\ uses' = uses \union {Use(dst, seq, TRUE), Use(src, seq, FALSE)}
        BY <2>3, <3>3
      <4>2. uses' = uses \union {Use(x, seq, FALSE) : x \in {src}} \union {Use(x, seq, TRUE) : x \in {dst}}
        BY <4>1
      <4> QED
        BY <4>1, <4>2
    <3> QED
      BY <3>1, <3>2, <3>3
<1>5. PICK read \in SUBSET Staging, written \in SUBSET Staging : Copies(read, written)
  <2>1. committed' \in Nat /\ committed <= committed'
    BY <1>2, ChunkEvents DEF IInv
  <2> QED
    BY <1>4, <2>1, CopiesAre
<1>6. ops' \in Nat
  BY <1>1 DEF IInv, TypeOK
<1> QED
  BY <1>1, <1>2, <1>5, <1>6, OperationKeeps

-----------------------------------------------------------------------------
(* The queries of a set are ended: a dirty context gets a new event, which *)
(* no chunk signals yet, and a clean one has an event for its last         *)
(* operation.                                                              *)
Ends(events, ends) ==
  /\ ends => has_dirty_op_since_last_event
  /\ events # {} /\ ~ends => ~has_dirty_op_since_last_event
  /\ current_event_seq_id' = current_event_seq_id + (IF ends THEN 1 ELSE 0)
  /\ query' \in [Queries -> QueryRecord] /\ covers' \in [Queries -> Nat]
  /\ \A q \in Queries :
       IF q \in events
         THEN query'[q].at = current_event_seq_id' /\ covers'[q] = last_op
         ELSE query'[q] = query[q] /\ covers'[q] = covers[q]
  /\ NeedsFlush \/ ends => NeedsFlush'
  /\ ~has_dirty_op_since_last_event' => ~has_dirty_op_since_last_event \/ ends
  /\ promote_flush' \in BOOLEAN /\ has_dirty_op_since_last_event' \in BOOLEAN
  /\ cmdbuf_state' \in Passes

(* A call that ends queries numbers an event for them, or reuses the last. *)
LEMMA EndingKeepsEvents ==
  ASSUME IInv, NEW events \in SUBSET Queries, NEW ends \in BOOLEAN, Ends(events, ends),
         ~has_dirty_op_since_last_event' => last_op' = last_op,
         UNCHANGED <<committed, chunk_event, signaled, executed>>
  PROVE  EventParts'
<1> USE DEF Ends
<1>1. /\ TypeOK /\ Order
      /\ committed \in Nat /\ executed \in Nat /\ current_event_seq_id \in Nat
      /\ executed <= committed /\ signaled \in Nat /\ last_op \in Nat
      /\ current_event_seq_id' \in Nat /\ current_event_seq_id <= current_event_seq_id'
      /\ ends => current_event_seq_id' = current_event_seq_id + 1
      /\ ~ends => current_event_seq_id' = current_event_seq_id
  BY DEF IInv, TypeOK, Order
<1>2. \A c \in 1 .. committed : chunk_event[c] \in Nat /\ chunk_event[c] <= current_event_seq_id
  BY <1>1 DEF IInv, TypeOK, Order, EventsAreNumbered
<1>3. EventsAreNumbered'
  <2>1. \A c \in 1 .. committed : chunk_event[c] <= current_event_seq_id'
    BY <1>1, <1>2
  <2>2. \A q \in Queries : query'[q].at <= current_event_seq_id'
    <3>1. \A q \in Queries : query[q].at \in Nat /\ query[q].at <= current_event_seq_id
      BY <1>1 DEF IInv, TypeOK, EventsAreNumbered
    <3> QED
      BY <1>1, <3>1
  <2> QED
    BY <2>1, <2>2 DEF IInv, EventsAreNumbered
<1>4. LastEventIsDue'
  <2>1. CASE NeedsFlush \/ ends
    BY <2>1 DEF LastEventIsDue
  <2>2. CASE ~NeedsFlush /\ ~ends
    BY <1>1, <2>2 DEF IInv, LastEventIsDue
  <2> QED
    BY <2>1, <2>2
<1>5. ends \/ ~has_dirty_op_since_last_event => Covers(current_event_seq_id', last_op)
  <2>1. CASE ends
    <3>1. \A c \in 1 .. committed : ~(chunk_event[c] >= current_event_seq_id')
      BY <1>1, <1>2, <2>1
    <3> QED
      BY <1>1, <2>1, <3>1 DEF Covers
  <2>2. CASE ~ends
    BY <1>1, <2>2 DEF IInv, EventsCover
  <2> QED
    BY <2>1, <2>2
<1>6. ~has_dirty_op_since_last_event' => Covers(current_event_seq_id, last_op)'
  BY <1>5 DEF Covers
<1>7. ASSUME NEW q \in Queries, query'[q].state # "Undefined"
      PROVE  Covers(query[q].at, covers[q])'
  <2>1. CASE q \in events
    <3>1. Covers(query'[q].at, covers'[q])
      BY <1>5, <2>1
    <3> QED
      BY <3>1 DEF Covers
  <2>2. CASE q \notin events
    <3>1. Covers(query[q].at, covers[q])
      BY <1>7, <2>2 DEF IInv, EventsCover
    <3> QED
      BY <2>2, <3>1 DEF Covers
  <2> QED
    BY <2>1, <2>2
<1> QED
  BY <1>3, <1>4, <1>6, <1>7 DEF EventParts, EventsCover

(* End of an event or of an occlusion query.                               *)
LEMMA EndKeeps ==
  ASSUME IInv, EndOcclusion \/ \E q \in Queries : EndEvent(q)
  PROVE  IInv'
<1>1. /\ UNCHANGED <<queue, chunk_event, last_op, signaled, staging, uses, call>>
      /\ pc = "idle" /\ ops' = ops + 1
  BY DEF EndOcclusion, EndEvent, Call
<1>2. \E events \in SUBSET Queries, ends \in BOOLEAN : Ends(events, ends)
  <2>1. /\ query \in [Queries -> QueryRecord] /\ covers \in [Queries -> Nat] /\ last_op \in Nat
        /\ current_event_seq_id \in Nat /\ cmdbuf_state \in Passes
        /\ promote_flush \in BOOLEAN /\ has_dirty_op_since_last_event \in BOOLEAN
    BY DEF IInv, TypeOK, QueryRecord, Passes
  <2>2. CASE EndOcclusion
    <3>1. /\ UNCHANGED <<current_event_seq_id, query, covers, has_dirty_op_since_last_event, cmdbuf_state>>
          /\ promote_flush' = TRUE
      BY <2>2 DEF EndOcclusion
    <3>2. Ends({}, FALSE)
      BY <2>1, <3>1 DEF Ends, NeedsFlush
    <3> QED
      BY <3>2
  <2>3. ASSUME NEW q \in Queries, EndEvent(q)
        PROVE  \E ends \in BOOLEAN : Ends({q}, ends)
    <3>1. ASSUME NEW n \in Nat, Issue(q, n)
          PROVE  /\ query' \in [Queries -> QueryRecord] /\ covers' \in [Queries -> Nat]
                 /\ query'[q].at = n /\ covers'[q] = last_op
                 /\ \A x \in Queries : x # q => query'[x] = query[x] /\ covers'[x] = covers[x]
      <4> DEFINE issued == [state |-> "Issued", at |-> n, stall |-> 0]
      <4>1. issued \in QueryRecord
        BY DEF QueryRecord
      <4>2. query' = [query EXCEPT ![q] = issued] /\ covers' = [covers EXCEPT ![q] = last_op]
        BY <3>1 DEF Issue
      <4>3. issued.at = n
        OBVIOUS
      <4> HIDE DEF issued
      <4> QED
        BY <2>1, <4>1, <4>2, <4>3
    <3>2. CASE has_dirty_op_since_last_event
      <4>1. /\ current_event_seq_id' = current_event_seq_id + 1
            /\ Issue(q, current_event_seq_id + 1)
            /\ cmdbuf_state' = "Idle" /\ promote_flush' = TRUE
            /\ has_dirty_op_since_last_event' = FALSE
        BY <2>3, <3>2 DEF EndEvent
      <4>2. \A x \in Queries :
              IF x \in {q}
                THEN query'[x].at = current_event_seq_id' /\ covers'[x] = last_op
                ELSE query'[x] = query[x] /\ covers'[x] = covers[x]
        BY <2>1, <3>1, <4>1
      <4>3. query' \in [Queries -> QueryRecord] /\ covers' \in [Queries -> Nat]
        BY <2>1, <3>1, <4>1
      <4>4. Ends({q}, TRUE)
        BY <3>2, <4>1, <4>2, <4>3 DEF Ends, NeedsFlush, Passes
      <4> QED
        BY <4>4
    <3>3. CASE ~has_dirty_op_since_last_event
      <4>1. /\ Issue(q, current_event_seq_id)
            /\ UNCHANGED <<current_event_seq_id, cmdbuf_state, promote_flush,
                           has_dirty_op_since_last_event>>
        BY <2>3, <3>3 DEF EndEvent
      <4>2. Ends({q}, FALSE)
        BY <2>1, <3>1, <3>3, <4>1 DEF Ends, NeedsFlush
      <4> QED
        BY <4>2
    <3> QED
      BY <3>2, <3>3
  <2> QED
    BY <2>2, <2>3
<1>3. PICK events \in SUBSET Queries, ends \in BOOLEAN : Ends(events, ends)
  BY <1>2
<1>4. EventParts'
  BY <1>1, <1>3, EndingKeepsEvents DEF queue
<1>5. TypeOK'
  BY <1>1, <1>3 DEF IInv, TypeOK, Ends, queue, call, Passes, QueryRecord
<1>6. Order'
  <2>1. \A q \in Queries : covers'[q] = covers[q] \/ covers'[q] = last_op
    BY <1>3 DEF Ends
  <2> QED
    BY <1>1, <2>1 DEF IInv, Order, queue, call, CurrentSeqId
<1>7. StagingParts'
  <2>1. committed \in Nat /\ \A u \in uses : completed < u.seq
    BY DEF IInv, TypeOK, UsesAreKnown
  <2>2. NeedsFlush => NeedsFlush'
    BY <1>3 DEF Ends
  <2> QED
    BY <1>1, <2>1, <2>2, StagingKept DEF queue
<1>8. MapHasResource' /\ MapIsExclusive'
  BY <1>1 DEF MapHasResource, MapIsExclusive, call
<1> QED
  BY <1>4, <1>5, <1>6, <1>7, <1>8 DEF IInv, EventParts, StagingParts

(* A command list is executed: it ends queries and is an operation.        *)
LEMMA ExecuteCommandListKeeps ==
  ASSUME IInv, NEW promote \in BOOLEAN, NEW events \in SUBSET Queries,
         NEW read \in SUBSET Staging, NEW written \in SUBSET Staging,
         ExecuteCommandList(promote, events, read, written)
  PROVE  IInv'
<1> DEFINE ends == events # {} /\ has_dirty_op_since_last_event
<1>1. /\ UNCHANGED <<queue, chunk_event, signaled, call>>
      /\ pc = "idle" /\ ops' = ops + 1
      /\ cmdbuf_state' = "Idle" /\ last_op' = CurrentSeqId /\ has_dirty_op_since_last_event' = TRUE
      /\ promote_flush' = (promote \/ ends)
      /\ current_event_seq_id' = current_event_seq_id + (IF ends THEN 1 ELSE 0)
  BY DEF ExecuteCommandList, Call, DirtyAfterList
<1>2. CurrentSeqId' = CurrentSeqId
  BY <1>1 DEF CurrentSeqId, queue
<1>3. /\ query \in [Queries -> QueryRecord] /\ covers \in [Queries -> Nat] /\ last_op \in Nat
      /\ current_event_seq_id \in Nat /\ has_dirty_op_since_last_event \in BOOLEAN
      /\ promote_flush \in BOOLEAN /\ TypeOK /\ Order
  BY DEF IInv, TypeOK, QueryRecord
<1>4. Ends(events, ends)
  <2> DEFINE issued == [state |-> "Issued", at |-> current_event_seq_id', stall |-> 0]
  <2>1. /\ query' = [q \in Queries |-> IF q \in events THEN issued ELSE query[q]]
        /\ covers' = [q \in Queries |-> IF q \in events THEN last_op ELSE covers[q]]
    BY DEF ExecuteCommandList
  <2>2. current_event_seq_id' \in Nat
    BY <1>1, <1>3
  <2>3. issued \in QueryRecord /\ issued.at = current_event_seq_id'
    BY <2>2 DEF QueryRecord
  <2> HIDE DEF issued
  <2>4. /\ query' \in [Queries -> QueryRecord] /\ covers' \in [Queries -> Nat]
        /\ \A q \in Queries :
             IF q \in events
               THEN query'[q].at = current_event_seq_id' /\ covers'[q] = last_op
               ELSE query'[q] = query[q] /\ covers'[q] = covers[q]
    BY <1>3, <2>1, <2>3
  <2> QED
    BY <1>1, <1>3, <2>4 DEF Ends, NeedsFlush, Passes
<1>5. /\ committed \in Nat /\ committed' \in Nat /\ committed <= committed'
      /\ UNCHANGED <<committed, executed, completed>>
  BY <1>1, <1>3 DEF queue, TypeOK
<1>6. Copies(read, written)
  <2>1. staging' = [r \in Staging |->
          LET s == IF r \in read THEN UseCopySource(staging[r], CurrentSeqId')
                                 ELSE staging[r] IN
            IF r \in written THEN UseCopyDestination(s, CurrentSeqId') ELSE s]
    BY <1>2 DEF ExecuteCommandList
  <2>2. uses' = uses \union {Use(r, CurrentSeqId', FALSE) : r \in read}
                     \union {Use(r, CurrentSeqId', TRUE) : r \in written}
    BY <1>2 DEF ExecuteCommandList
  <2> QED
    BY <1>5, <2>1, <2>2, CopiesAre
<1>7. StagingParts'
  BY <1>1, <1>5, <1>6, StagingUsed DEF NeedsFlush
<1>8. EventParts'
  BY <1>1, <1>4, <1>5, EndingKeepsEvents
<1>9. TypeOK'
  <2>1. current_event_seq_id' \in Nat /\ CurrentSeqId' \in Nat /\ CurrentSeqId \in Nat
    BY <1>1, <1>3, <1>5 DEF CurrentSeqId
  <2> QED
    BY <1>1, <1>3, <1>4, <1>5, <1>6, <2>1
       DEF TypeOK, Ends, call, Passes, QueryRecord, Copies, UseRecord
<1>10. Order'
  <2>1. \A q \in Queries : covers'[q] = covers[q] \/ covers'[q] = last_op
    BY <1>4 DEF Ends
  <2> QED
    BY <1>1, <1>3, <1>5, <2>1 DEF Order, call, CurrentSeqId
<1>11. MapHasResource' /\ MapIsExclusive'
  BY <1>1 DEF MapHasResource, MapIsExclusive, call
<1> QED
  BY <1>7, <1>8, <1>9, <1>10, <1>11 DEF IInv, EventParts, StagingParts

-----------------------------------------------------------------------------
(* The calls that flush.                                                   *)
LEMMA FlushesKeep ==
  ASSUME IInv, Flush \/ PresentCommit \/ WaitUntilGPUIdle \/ ThenFlush
  PROVE  IInv'
<1>1. /\ FlushIfNeeded \/ Commit
      /\ UNCHANGED <<executed, completed, signaled, query, staging, uses, covers, map_call>>
      /\ pc' \in {"idle", "wait"}
      /\ fence_target' = fence_target \/ (Commit /\ fence_target' = CurrentSeqId)
      /\ ops' = ops \/ ops' = ops + 1
  BY DEF Flush, PresentCommit, WaitUntilGPUIdle, ThenFlush, Call, call
<1>2. /\ committed \in Nat /\ fence_target \in Nat /\ ops \in Nat /\ fence_target <= committed
      /\ query \in [Queries -> QueryRecord] /\ TypeOK /\ Order
  BY DEF IInv, TypeOK, Order, QueryRecord
<1>3. committed' \in Nat /\ committed <= committed'
  BY <1>1, <1>2, FlushKeepsEvents, ChunkEvents
<1>4. Commit => committed' = committed + 1
  BY DEF Commit, CommitChunk
<1>5. fence_target' \in Nat /\ fence_target' <= committed' /\ ops' \in Nat
  BY <1>1, <1>2, <1>3, <1>4 DEF CurrentSeqId
<1> QED
  BY <1>1, <1>2, <1>5, FlushKeeps DEF PCs

(* A poll of an event query, which may flush.                              *)
LEMMA GetDataKeeps ==
  ASSUME IInv, NEW q \in Queries, NEW do_not_flush \in BOOLEAN, GetData(q, do_not_flush)
  PROVE  IInv'
<1>1. /\ UNCHANGED <<executed, completed, signaled, staging, uses, covers, call, ops>>
      /\ pc = "idle" /\ query[q].state = "Issued"
      /\ FlushIfNeeded \/ UNCHANGED recorded
  BY DEF GetData
<1>2. /\ committed \in Nat /\ fence_target \in Nat /\ ops \in Nat /\ fence_target <= committed
      /\ query \in [Queries -> QueryRecord] /\ TypeOK /\ Order /\ pc \in PCs
  BY DEF IInv, TypeOK, Order, QueryRecord, PCs
<1>3. /\ query' \in [Queries -> QueryRecord]
      /\ \A x \in Queries : /\ query'[x].at = query[x].at
                            /\ query'[x].state # "Undefined" => query[x].state # "Undefined"
  <2> DEFINE state == IF EventState(q) = "Signaled" THEN "Signaled" ELSE query[q].state
             stall == IF EventState(q) = "Pending" THEN query[q].stall + 1
                      ELSE IF EventState(q) = "Signaled" THEN 0 ELSE query[q].stall
             polled == [query[q] EXCEPT !.state = state, !.stall = stall]
  <2>1. query' = [query EXCEPT ![q] = polled]
    BY <1>2 DEF GetData
  <2>2. query[q] \in QueryRecord /\ query[q].stall \in Nat /\ query[q].state = "Issued"
    BY <1>1, <1>2 DEF QueryRecord
  <2>3. stall \in Nat /\ state \in {"Issued", "Signaled"}
    BY <2>2
  <2> HIDE DEF state, stall
  <2>4. polled \in QueryRecord /\ polled.at = query[q].at
    BY <2>2, <2>3 DEF QueryRecord
  <2> HIDE DEF polled
  <2> QED
    BY <1>1, <1>2, <2>1, <2>4
<1>4. CASE FlushIfNeeded
  <2>1. PICK n \in Nat : n = committed' /\ committed <= n
    BY <1>1, <1>2, <1>3, <1>4, FlushKeepsEvents, ChunkEvents
  <2>2. fence_target <= n
    BY <1>2, <2>1
  <2> QED
    BY <1>1, <1>2, <1>3, <1>4, <2>1, <2>2, FlushKeeps DEF call
<1>5. CASE UNCHANGED recorded
  <2>1. UNCHANGED <<committed, executed, completed, signaled, staging, uses, covers, pc, map_call,
                    fence_target, ops, promote_flush, has_dirty_op_since_last_event, chunk_event,
                    current_event_seq_id, last_op, cmdbuf_state>>
    BY <1>1, <1>5 DEF recorded, call
  <2>2. TypeOK' /\ Order'
    BY <1>2, <1>3, <2>1 DEF TypeOK, Order, CurrentSeqId, QueryRecord
  <2>3. EventsAreNumbered' /\ LastEventIsDue' /\ EventsCover'
    BY <1>3, <2>1 DEF IInv, EventsAreNumbered, LastEventIsDue, EventsCover, Covers, NeedsFlush
  <2>4. StagingIsFlushed' /\ NamesDiffer' /\ UsesAreKnown'
    BY <2>1 DEF IInv, StagingIsFlushed, NamesDiffer, UsesAreKnown, CurrentSeqId, NeedsFlush
  <2>5. MapHasResource' /\ MapIsExclusive'
    BY <2>1 DEF IInv, MapHasResource, MapIsExclusive
  <2> QED
    BY <2>2, <2>3, <2>4, <2>5 DEF IInv
<1> QED
  BY <1>1, <1>4, <1>5

(* Map flushes and waits for the chunk that the resource belongs to, which *)
(* is committed then.                                                      *)
LEMMA MapWaitsKeeps ==
  ASSUME IInv, MapWaits
  PROVE  IInv'
<1> DEFINE r == map_call.res
<1>1. /\ FlushIfNeeded /\ pc = "map" /\ pc' = "mapwait"
      /\ fence_target' = WaitTarget(staging[r])
      /\ UNCHANGED <<executed, completed, signaled, query, staging, uses, covers, map_call, ops>>
  BY DEF MapWaits
<1>2. /\ r \in Staging /\ committed \in Nat /\ TypeOK /\ Order /\ ops \in Nat
      /\ query \in [Queries -> QueryRecord]
  BY <1>1 DEF IInv, TypeOK, MapHasResource, QueryRecord
<1>3. /\ staging[r].coherent_after \in Nat /\ staging[r].occupied_until \in Nat
      /\ staging[r].coherent_after <= staging[r].occupied_until
      /\ staging[r].occupied_until <= committed + 1
      /\ staging[r].occupied_until = committed + 1 => NeedsFlush
  BY <1>2 DEF IInv, TypeOK, StagingIsFlushed, StagingResource, CurrentSeqId
<1>4. WaitTarget(staging[r]) \in Nat /\ WaitTarget(staging[r]) <= staging[r].occupied_until
  BY <1>3 DEF WaitTarget
<1>5. WaitTarget(staging[r]) <= committed'
  <2>1. CASE NeedsFlush
    <3>1. committed' = committed + 1
      BY <1>1, <2>1 DEF FlushIfNeeded, Commit, CommitChunk
    <3> QED
      BY <1>2, <1>3, <1>4, <3>1
  <2>2. CASE ~NeedsFlush
    <3>1. committed' = committed
      BY <1>1, <2>2 DEF FlushIfNeeded, recorded
    <3> QED
      BY <1>2, <1>3, <1>4, <2>2, <3>1
  <2> QED
    BY <2>1, <2>2
<1> QED
  BY <1>1, <1>2, <1>4, <1>5, FlushKeeps DEF PCs

-----------------------------------------------------------------------------
(* Steps that leave what is recorded, the GPU and the queries alone.       *)
Rests == UNCHANGED <<recorded, executed, completed, signaled, query, uses, covers, fence_target>>

LEMMA RestKeeps ==
  ASSUME IInv, Rests, UNCHANGED staging, ops' \in Nat,
         pc' \in PCs, map_call' \in MapCall, MapHasResource', MapIsExclusive'
  PROVE  IInv'
<1>1. UNCHANGED <<committed, executed, completed, signaled, query, uses, covers, fence_target,
                  promote_flush, has_dirty_op_since_last_event, chunk_event,
                  current_event_seq_id, last_op, cmdbuf_state>>
  BY DEF Rests, recorded
<1>2. TypeOK' /\ Order'
  BY <1>1 DEF IInv, TypeOK, Order, CurrentSeqId, PCs, MapCall
<1>3. EventsAreNumbered' /\ LastEventIsDue' /\ EventsCover'
  BY <1>1 DEF IInv, EventsAreNumbered, LastEventIsDue, EventsCover, Covers, NeedsFlush
<1>4. StagingIsFlushed' /\ NamesDiffer' /\ UsesAreKnown'
  BY <1>1 DEF IInv, StagingIsFlushed, NamesDiffer, UsesAreKnown, CurrentSeqId, NeedsFlush
<1> QED
  BY <1>2, <1>3, <1>4 DEF IInv

(* Map is called, gives up, or goes on after its wait; a wait or a mapping *)
(* ends; nothing happens.                                                  *)
LEMMA WaitsKeep ==
  ASSUME IInv,
         \/ \E r \in Staging, read, write \in BOOLEAN : (read \/ write) /\ CallMap(r, read, write)
         \/ MapGivesUp \/ FenceReturns \/ Unmap \/ UNCHANGED vars
  PROVE  IInv'
<1>1. /\ pc \in PCs /\ map_call \in MapCall /\ ops \in Nat
      /\ MapHasResource /\ MapIsExclusive
  BY DEF IInv, TypeOK, PCs, MapCall
<1>2. CASE \E r \in Staging, read, write \in BOOLEAN : (read \/ write) /\ CallMap(r, read, write)
  <2>1. /\ Rests /\ UNCHANGED staging /\ ops' = ops + 1 /\ pc' = "map"
        /\ map_call' \in MapCall /\ map_call'.res \in Staging
        /\ map_call'.read \/ map_call'.write
    BY <1>2 DEF CallMap, Call, Rests, MapCall
  <2>2. MapHasResource' /\ MapIsExclusive'
    BY <2>1 DEF MapHasResource, MapIsExclusive
  <2> QED
    BY <1>1, <2>1, <2>2, RestKeeps DEF PCs
<1>3. CASE MapGivesUp \/ FenceReturns \/ Unmap
  <2>1. /\ Rests /\ UNCHANGED <<staging, ops, map_call>>
        /\ pc' \in {"idle", "map"}
        /\ pc' = "map" => pc = "mapwait"
    BY <1>3 DEF MapGivesUp, FenceReturns, Unmap, Rests
  <2>2. MapHasResource' /\ MapIsExclusive'
    BY <1>1, <2>1 DEF MapHasResource, MapIsExclusive
  <2> QED
    BY <1>1, <2>1, <2>2, RestKeeps DEF PCs
<1>4. CASE UNCHANGED vars
  <2>1. Rests /\ UNCHANGED <<staging, ops, map_call, pc>>
    BY <1>4 DEF vars, Rests, call
  <2>2. MapHasResource' /\ MapIsExclusive'
    BY <1>1, <2>1 DEF MapHasResource, MapIsExclusive, Rests
  <2> QED
    BY <1>1, <2>1, <2>2, RestKeeps
<1> QED
  BY <1>2, <1>3, <1>4

(* The head of a sequence that is not empty.                               *)
LEMMA FirstElement ==
  ASSUME NEW S, NEW f \in Seq(S), f # <<>>
  PROVE  1 \in 1 .. Len(f) /\ Head(f) = f[1] /\ f[1] \in S
OBVIOUS

(* An order between three numbers.                                         *)
LEMMA Between ==
  ASSUME NEW a \in Nat, NEW b \in Nat, NEW c \in Nat, a < b, b <= c
  PROVE  a < c
OBVIOUS

(* The names of a resource after it has been renamed: a new one, or one    *)
(* that was given up and whose chunk is coherent.                          *)
LEMMA Renamed ==
  ASSUME committed \in Nat, NEW s \in StagingResource, s.name < s.pool,
         \A i \in 1 .. Len(s.fifo) :
           /\ s.fifo[i].id < s.pool
           /\ s.fifo[i].id # s.name
           /\ \A j \in 1 .. Len(s.fifo) : s.fifo[i].id = s.fifo[j].id => i = j,
         NEW n, n = Rename(s)
  PROVE  /\ n \in StagingResource /\ s.pool <= n.pool
         /\ n.coherent_after = 0 /\ n.occupied_until = 0
         /\ n.name < n.pool
         /\ \A i \in 1 .. Len(n.fifo) :
              /\ n.fifo[i].id < n.pool
              /\ n.fifo[i].id # n.name
              /\ \A j \in 1 .. Len(n.fifo) : n.fifo[i].id = n.fifo[j].id => i = j
              /\ \/ n.fifo[i] = [id |-> s.name, will_free_at |-> CurrentSeqId]
                 \/ \E j \in 1 .. Len(s.fifo) : n.fifo[i] = s.fifo[j]
         /\ \/ n.name = s.pool
            \/ \E j \in 1 .. Len(s.fifo) :
                 n.name = s.fifo[j].id /\ s.fifo[j].will_free_at <= CoherentSeqId
<1> DEFINE Entry == [id : Nat, will_free_at : Nat]
           rest == IF HasFreeName(s) THEN Tail(s.fifo) ELSE s.fifo
           old == [id |-> s.name, will_free_at |-> committed + 1]
           name == NextName(s)
           pool == IF HasFreeName(s) THEN s.pool ELSE s.pool + 1
<1>1. /\ s.name \in Nat /\ s.pool \in Nat /\ s.fifo \in Seq(Entry)
      /\ s.coherent_after \in Nat /\ s.occupied_until \in Nat
  BY DEF StagingResource
<1>2. /\ n.name = name /\ n.pool = pool /\ n.fifo = Append(rest, old)
      /\ n.coherent_after = 0 /\ n.occupied_until = 0
      /\ n = [name |-> name, pool |-> pool, fifo |-> Append(rest, old),
              coherent_after |-> 0, occupied_until |-> 0]
  BY DEF Rename, StagingResource, CurrentSeqId
<1>3. old \in Entry /\ old.id = s.name
  BY <1>1
<1>4. CASE HasFreeName(s)
  <2>1. /\ 1 \in 1 .. Len(s.fifo) /\ Head(s.fifo) = s.fifo[1] /\ s.fifo[1] \in Entry
        /\ s.fifo[1].will_free_at <= CoherentSeqId
        /\ name = s.fifo[1].id /\ pool = s.pool /\ rest = Tail(s.fifo)
    <3>1. s.fifo # <<>> /\ Head(s.fifo).will_free_at <= CoherentSeqId
      BY <1>4 DEF HasFreeName
    <3>2. 1 \in 1 .. Len(s.fifo) /\ Head(s.fifo) = s.fifo[1] /\ s.fifo[1] \in Entry
      <4> HIDE DEF Entry
      <4> QED
        BY <1>1, <3>1, FirstElement
    <3>3. name = Head(s.fifo).id /\ pool = s.pool /\ rest = Tail(s.fifo)
      BY <1>4 DEF NextName
    <3> QED
      BY <3>1, <3>2, <3>3
  <2>2. /\ rest \in Seq(Entry) /\ Len(rest) = Len(s.fifo) - 1 /\ Len(s.fifo) \in Nat
        /\ \A i \in 1 .. Len(rest) : i + 1 \in 1 .. Len(s.fifo) /\ rest[i] = s.fifo[i + 1]
    BY <1>1, <2>1
  <2> HIDE DEF rest, name, pool, old
  <2>3. /\ n.fifo \in Seq(Entry) /\ Len(n.fifo) = Len(rest) + 1
        /\ \A i \in 1 .. Len(rest) : n.fifo[i] = rest[i]
        /\ n.fifo[Len(rest) + 1] = old
    BY <1>2, <1>3, <2>2
  <2>4. \A i \in 1 .. Len(n.fifo) :
          \/ i + 1 \in 1 .. Len(s.fifo) /\ n.fifo[i] = s.fifo[i + 1]
          \/ i = Len(s.fifo) /\ n.fifo[i] = old
    <3>1. Len(rest) + 1 = Len(s.fifo)
      BY <2>2
    <3>2. ASSUME NEW i \in 1 .. Len(n.fifo)
          PROVE  i \in 1 .. Len(rest) \/ i = Len(rest) + 1
      BY <2>2, <2>3
    <3> QED
      BY <2>2, <2>3, <3>1, <3>2
  <2>5. n \in StagingResource
    BY <1>1, <1>2, <2>1, <2>3 DEF StagingResource, Entry
  <2>6. ASSUME NEW i \in 1 .. Len(n.fifo)
        PROVE  n.fifo[i].id < pool /\ n.fifo[i].id # name
    <3>1. CASE i + 1 \in 1 .. Len(s.fifo) /\ n.fifo[i] = s.fifo[i + 1]
      <4>1. i + 1 # 1
        OBVIOUS
      <4> QED
        BY <2>1, <3>1, <4>1
    <3>2. CASE n.fifo[i] = old
      BY <1>3, <2>1, <3>2
    <3> QED
      BY <2>4, <3>1, <3>2
  <2>7. ASSUME NEW i \in 1 .. Len(n.fifo), NEW j \in 1 .. Len(n.fifo), n.fifo[i].id = n.fifo[j].id
        PROVE  i = j
    <3>1. CASE /\ i + 1 \in 1 .. Len(s.fifo) /\ n.fifo[i] = s.fifo[i + 1]
               /\ j + 1 \in 1 .. Len(s.fifo) /\ n.fifo[j] = s.fifo[j + 1]
      <4>1. i + 1 = j + 1
        BY <2>7, <3>1
      <4> QED
        BY <4>1
    <3>2. CASE n.fifo[i] = old /\ j + 1 \in 1 .. Len(s.fifo) /\ n.fifo[j] = s.fifo[j + 1]
      BY <1>3, <2>7, <3>2
    <3>3. CASE n.fifo[j] = old /\ i + 1 \in 1 .. Len(s.fifo) /\ n.fifo[i] = s.fifo[i + 1]
      BY <1>3, <2>7, <3>3
    <3> QED
      BY <2>4, <3>1, <3>2, <3>3
  <2>8. \A i \in 1 .. Len(n.fifo) : n.fifo[i] = old \/ \E j \in 1 .. Len(s.fifo) : n.fifo[i] = s.fifo[j]
    BY <2>4
  <2>9. s.pool <= pool /\ name < pool /\ old = [id |-> s.name, will_free_at |-> CurrentSeqId]
    BY <1>1, <2>1 DEF old, CurrentSeqId
  <2>10. \E j \in 1 .. Len(s.fifo) : n.name = s.fifo[j].id /\ s.fifo[j].will_free_at <= CoherentSeqId
    BY <1>2, <2>1
  <2>11. /\ s.pool <= n.pool /\ n.coherent_after = 0 /\ n.occupied_until = 0
         /\ n.name < n.pool
    BY ONLY <1>2, <2>9
  <2>12. \A i \in 1 .. Len(n.fifo) :
           /\ n.fifo[i].id < n.pool
           /\ n.fifo[i].id # n.name
           /\ \A j \in 1 .. Len(n.fifo) : n.fifo[i].id = n.fifo[j].id => i = j
           /\ \/ n.fifo[i] = [id |-> s.name, will_free_at |-> CurrentSeqId]
              \/ \E j \in 1 .. Len(s.fifo) : n.fifo[i] = s.fifo[j]
    BY ONLY <1>2, <2>6, <2>7, <2>8, <2>9
  <2> QED
    BY ONLY <2>5, <2>10, <2>11, <2>12
<1>5. CASE ~HasFreeName(s)
  <2>1. name = s.pool /\ pool = s.pool + 1 /\ rest = s.fifo
    BY <1>5 DEF NextName
  <2> HIDE DEF rest, name, pool, old
  <2>2. /\ n.fifo \in Seq(Entry) /\ Len(n.fifo) = Len(s.fifo) + 1 /\ Len(s.fifo) \in Nat
        /\ \A i \in 1 .. Len(s.fifo) : n.fifo[i] = s.fifo[i] /\ s.fifo[i] \in Entry
        /\ n.fifo[Len(s.fifo) + 1] = old
    <3> HIDE DEF Entry
    <3>1. n.fifo = Append(s.fifo, old)
      BY <1>2, <2>1
    <3> QED
      BY <1>1, <1>3, <3>1
  <2>3. \A i \in 1 .. Len(n.fifo) :
          \/ i \in 1 .. Len(s.fifo) /\ n.fifo[i] = s.fifo[i]
          \/ i = Len(s.fifo) + 1 /\ n.fifo[i] = old
    <3>1. ASSUME NEW i \in 1 .. Len(n.fifo)
          PROVE  i \in 1 .. Len(s.fifo) \/ i = Len(s.fifo) + 1
      BY <2>2
    <3> QED
      BY <2>2, <3>1, Zenon
  <2>4. n \in StagingResource
    BY <1>1, <1>2, <2>1, <2>2 DEF StagingResource, Entry
  <2>5. ASSUME NEW i \in 1 .. Len(n.fifo)
        PROVE  n.fifo[i].id < pool /\ n.fifo[i].id # name
    <3>1. CASE i \in 1 .. Len(s.fifo) /\ n.fifo[i] = s.fifo[i]
      <4>1. s.fifo[i].id \in Nat /\ s.fifo[i].id < s.pool
        BY <2>2, <3>1
      <4>2. s.fifo[i].id < s.pool + 1 /\ s.fifo[i].id # s.pool
        BY <1>1, <4>1
      <4> QED
        BY <2>1, <3>1, <4>2
    <3>2. CASE n.fifo[i] = old
      BY <1>1, <1>3, <2>1, <3>2
    <3> QED
      BY <2>3, <3>1, <3>2
  <2>6. ASSUME NEW i \in 1 .. Len(n.fifo), NEW j \in 1 .. Len(n.fifo), n.fifo[i].id = n.fifo[j].id
        PROVE  i = j
    <3>1. CASE /\ i \in 1 .. Len(s.fifo) /\ n.fifo[i] = s.fifo[i]
               /\ j \in 1 .. Len(s.fifo) /\ n.fifo[j] = s.fifo[j]
      BY <2>6, <3>1
    <3>2. CASE n.fifo[i] = old /\ j \in 1 .. Len(s.fifo) /\ n.fifo[j] = s.fifo[j]
      BY <1>3, <2>6, <3>2
    <3>3. CASE n.fifo[j] = old /\ i \in 1 .. Len(s.fifo) /\ n.fifo[i] = s.fifo[i]
      BY <1>3, <2>6, <3>3
    <3> QED
      BY <2>3, <3>1, <3>2, <3>3
  <2>7. \A i \in 1 .. Len(n.fifo) : n.fifo[i] = old \/ \E j \in 1 .. Len(s.fifo) : n.fifo[i] = s.fifo[j]
    BY <2>3
  <2>8. s.pool <= pool /\ name < pool /\ old = [id |-> s.name, will_free_at |-> CurrentSeqId]
    BY <1>1, <2>1 DEF old, CurrentSeqId
  <2> QED
    BY <1>2, <2>1, <2>4, <2>5, <2>6, <2>7, <2>8
<1> QED
  BY <1>4, <1>5

(* No copy that is not completed conflicts with what Map returns.          *)
LEMMA MapSucceedsKeeps ==
  ASSUME IInv, MapSucceeds
  PROVE  IInv'
<1> DEFINE r == map_call.res
           s == staging[r]
<1>1. /\ pc = "map" /\ pc' = "mapped" /\ UNCHANGED <<map_call, ops>> /\ Rests
      /\ ~MustWaitForRead(s)
      /\ \/ ~IsOccupied(s) /\ UNCHANGED staging
         \/ IsRenamable(s) /\ staging' = [staging EXCEPT ![r] = Rename(s)]
  BY DEF MapSucceeds, Rests
<1>2. /\ r \in Staging /\ (map_call.read \/ map_call.write)
      /\ map_call \in MapCall /\ ops \in Nat
      /\ committed \in Nat /\ completed \in Nat /\ completed <= committed
  BY <1>1 DEF IInv, TypeOK, Order, MapHasResource, MapCall
<1>3. staging \in [Staging -> StagingResource] /\ uses \subseteq UseRecord
  BY DEF IInv, TypeOK, UseRecord
<1>4. /\ s.name \in Nat /\ s.pool \in Nat /\ s.fifo \in Seq([id : Nat, will_free_at : Nat])
      /\ s.coherent_after \in Nat /\ s.occupied_until \in Nat
  BY <1>2, <1>3 DEF StagingResource
<1>5. MapHasResource'
  BY <1>1, <1>2 DEF MapHasResource
<1>6. UNCHANGED uses
  BY <1>1 DEF Rests
<1>7. CASE ~IsOccupied(s) /\ UNCHANGED staging
  <2>1. MapIsExclusive'
    <3> SUFFICES ASSUME NEW u \in uses, u.res = r, u.name = s.name
                 PROVE  ~u.write /\ ~map_call.write
      BY <1>1, <1>6, <1>7 DEF MapIsExclusive
    <3>1. /\ u.seq \in Nat /\ completed < u.seq /\ u.seq <= s.occupied_until
          /\ u.write => u.seq <= s.coherent_after
      BY <1>3 DEF IInv, UsesAreKnown, UseRecord
    <3>0. completed < s.occupied_until /\ (u.write => completed < s.coherent_after)
      <4> HIDE DEF s
      <4>1. completed < s.occupied_until
        BY <1>2, <1>4, <3>1, Between, Zenon
      <4>2. u.write => completed < s.coherent_after
        BY <1>2, <1>4, <3>1, Between, Zenon
      <4> QED
        BY <4>1, <4>2
    <3>2. ~map_call.write
      BY <1>7, <3>0, Zenon DEF IsOccupied, CoherentSeqId
    <3>3. map_call.read
      BY <1>2, <3>2
    <3>4. ~(completed < s.coherent_after)
      BY <1>1, <3>3 DEF MustWaitForRead, CoherentSeqId
    <3>5. ~u.write
      BY <3>0, <3>4, Zenon
    <3> QED
      BY <3>2, <3>5
  <2> QED
    BY <1>1, <1>2, <1>5, <1>7, <2>1, RestKeeps DEF PCs
<1>8. CASE IsRenamable(s) /\ staging' = [staging EXCEPT ![r] = Rename(s)]
  <2> DEFINE n == Rename(s)
  <2>1. /\ s \in StagingResource /\ s.name < s.pool
        /\ \A i \in 1 .. Len(s.fifo) :
             /\ s.fifo[i].id < s.pool
             /\ s.fifo[i].id # s.name
             /\ \A j \in 1 .. Len(s.fifo) : s.fifo[i].id = s.fifo[j].id => i = j
    BY <1>2, <1>3 DEF IInv, NamesDiffer
  <2>2. /\ n \in StagingResource /\ s.pool <= n.pool
        /\ n.coherent_after = 0 /\ n.occupied_until = 0
        /\ n.name < n.pool
        /\ \A i \in 1 .. Len(n.fifo) :
             /\ n.fifo[i].id < n.pool
             /\ n.fifo[i].id # n.name
             /\ \A j \in 1 .. Len(n.fifo) : n.fifo[i].id = n.fifo[j].id => i = j
             /\ \/ n.fifo[i] = [id |-> s.name, will_free_at |-> CurrentSeqId]
                \/ \E j \in 1 .. Len(s.fifo) : n.fifo[i] = s.fifo[j]
        /\ \/ n.name = s.pool
           \/ \E j \in 1 .. Len(s.fifo) :
                n.name = s.fifo[j].id /\ s.fifo[j].will_free_at <= CoherentSeqId
    <3> HIDE DEF s
    <3> QED
      BY <1>2, <2>1, Renamed
  <2> HIDE DEF n
  <2>3. /\ staging' \in [Staging -> StagingResource] /\ staging'[r] = n
        /\ \A x \in Staging : x # r => staging'[x] = staging[x]
    BY <1>2, <1>3, <1>8, <2>2 DEF n
  <2>4. UNCHANGED <<committed, executed, completed, signaled, query, uses, covers, fence_target,
                    promote_flush, has_dirty_op_since_last_event, chunk_event,
                    current_event_seq_id, last_op, cmdbuf_state>>
    BY <1>1 DEF Rests, recorded
  <2>5. TypeOK' /\ Order'
    BY <1>1, <1>2, <2>3, <2>4 DEF IInv, TypeOK, Order, CurrentSeqId, MapCall
  <2>6. EventsAreNumbered' /\ LastEventIsDue' /\ EventsCover'
    BY <2>4 DEF IInv, EventsAreNumbered, LastEventIsDue, EventsCover, Covers, NeedsFlush
  <2>7. StagingIsFlushed'
    <3> SUFFICES ASSUME NEW x \in Staging
                 PROVE  /\ staging'[x].coherent_after <= staging'[x].occupied_until
                        /\ staging'[x].occupied_until <= CurrentSeqId
                        /\ staging'[x].occupied_until = CurrentSeqId => NeedsFlush
      BY <2>4 DEF StagingIsFlushed, CurrentSeqId, NeedsFlush
    <3>1. CASE x # r
      BY <2>3, <3>1 DEF IInv, StagingIsFlushed
    <3>2. CASE x = r
      <4>1. staging'[x].coherent_after = 0 /\ staging'[x].occupied_until = 0
        BY <2>2, <2>3, <3>2
      <4> QED
        BY <1>2, <4>1 DEF CurrentSeqId
    <3> QED
      BY <3>1, <3>2
  <2>8. NamesDiffer'
    <3> SUFFICES ASSUME NEW x \in Staging
                 PROVE  /\ staging'[x].name < staging'[x].pool
                        /\ \A i \in 1 .. Len(staging'[x].fifo) :
                             /\ staging'[x].fifo[i].id < staging'[x].pool
                             /\ staging'[x].fifo[i].id # staging'[x].name
                             /\ \A j \in 1 .. Len(staging'[x].fifo) :
                                  staging'[x].fifo[i].id = staging'[x].fifo[j].id => i = j
      BY DEF NamesDiffer
    <3>1. CASE x # r
      BY <2>3, <3>1 DEF IInv, NamesDiffer
    <3>2. CASE x = r
      BY <2>2, <2>3, <3>2
    <3> QED
      BY <3>1, <3>2
  <2>9. ASSUME NEW u \in uses, u.res = r
        PROVE  /\ u.name < n.pool /\ u.name # n.name
               /\ \A i \in 1 .. Len(n.fifo) :
                    u.name = n.fifo[i].id => u.seq <= n.fifo[i].will_free_at
    <3>1. /\ u.seq \in Nat /\ u.name \in Nat /\ completed < u.seq /\ u.seq <= CurrentSeqId
          /\ u.name < s.pool
          /\ \A i \in 1 .. Len(s.fifo) :
               u.name = s.fifo[i].id => u.seq <= s.fifo[i].will_free_at
      BY <1>3, <2>9 DEF IInv, UsesAreKnown, UseRecord
    <3>2. n.pool \in Nat
      BY <2>2 DEF StagingResource
    <3>3. \A j \in 1 .. Len(s.fifo) : s.fifo[j].will_free_at \in Nat
      <4> DEFINE Entry == [id : Nat, will_free_at : Nat]
      <4>1. s.fifo \in Seq(Entry)
        BY <1>4
      <4>2. ASSUME NEW j \in 1 .. Len(s.fifo)
            PROVE  s.fifo[j] \in Entry
        <5> HIDE DEF s, Entry
        <5> QED
          BY <4>1
      <4> QED
        BY <4>2
    <3> HIDE DEF s
    <3>4. u.name < n.pool
      BY <1>4, <2>2, <3>1, <3>2
    <3>5. u.name # n.name
      <4>1. CASE n.name = s.pool
        BY <1>4, <3>1, <4>1
      <4>2. ASSUME NEW j \in 1 .. Len(s.fifo), n.name = s.fifo[j].id,
                   s.fifo[j].will_free_at <= CoherentSeqId
            PROVE  u.name # n.name
        <5>1. ~(u.seq <= s.fifo[j].will_free_at)
          BY <1>2, <3>1, <3>3, <4>2 DEF CoherentSeqId
        <5> QED
          BY <3>1, <4>2, <5>1
      <4> QED
        BY <2>2, <4>1, <4>2
    <3>6. ASSUME NEW i \in 1 .. Len(n.fifo), u.name = n.fifo[i].id
          PROVE  u.seq <= n.fifo[i].will_free_at
      <4>1. CASE n.fifo[i] = [id |-> s.name, will_free_at |-> CurrentSeqId]
        BY <3>1, <4>1
      <4>2. ASSUME NEW j \in 1 .. Len(s.fifo), n.fifo[i] = s.fifo[j]
            PROVE  u.seq <= n.fifo[i].will_free_at
        BY <3>1, <3>6, <4>2
      <4> QED
        BY <2>2, <4>1, <4>2
    <3> QED
      BY <3>4, <3>5, <3>6
  <2>10. UsesAreKnown'
    <3> SUFFICES ASSUME NEW u \in uses
                 PROVE  /\ completed < u.seq /\ u.seq <= CurrentSeqId
                        /\ u.name < staging'[u.res].pool
                        /\ u.name = staging'[u.res].name =>
                             /\ u.seq <= staging'[u.res].occupied_until
                             /\ u.write => u.seq <= staging'[u.res].coherent_after
                        /\ \A i \in 1 .. Len(staging'[u.res].fifo) :
                             u.name = staging'[u.res].fifo[i].id =>
                               u.seq <= staging'[u.res].fifo[i].will_free_at
      BY <2>4 DEF UsesAreKnown, CurrentSeqId
    <3>1. u.res \in Staging /\ completed < u.seq /\ u.seq <= CurrentSeqId
      BY <1>3 DEF IInv, UsesAreKnown, UseRecord
    <3>2. CASE u.res # r
      <4>1. staging'[u.res] = staging[u.res]
        BY <2>3, <3>1, <3>2
      <4> QED
        BY <3>1, <4>1 DEF IInv, UsesAreKnown
    <3>3. CASE u.res = r
      BY <2>3, <2>9, <3>1, <3>3
    <3> QED
      BY <3>2, <3>3
  <2>11. MapIsExclusive'
    <3> SUFFICES ASSUME NEW u \in uses, u.res = r, u.name = n.name
                 PROVE  FALSE
      BY <1>1, <1>6, <2>3 DEF MapIsExclusive
    <3> QED
      BY <2>9
  <2> QED
    BY <1>5, <2>5, <2>6, <2>7, <2>8, <2>10, <2>11 DEF IInv
<1> QED
  BY <1>1, <1>7, <1>8

-----------------------------------------------------------------------------
(* The GPU executes a chunk: the shared event is one that it has executed. *)
LEMMA ExecuteKeeps ==
  ASSUME IInv, Execute
  PROVE  IInv'
<1>1. /\ executed < committed /\ executed' = executed + 1
      /\ signaled' = Larger(signaled, chunk_event[executed + 1])
      /\ UNCHANGED <<committed, completed, query, staging, uses, covers, pc, map_call,
                     fence_target, ops, promote_flush, has_dirty_op_since_last_event, chunk_event,
                     current_event_seq_id, last_op, cmdbuf_state>>
  BY DEF Execute, recorded, call
<1>2. /\ TypeOK /\ Order
      /\ committed \in Nat /\ executed \in Nat /\ completed \in Nat /\ completed <= executed
      /\ chunk_event \in Seq(Nat) /\ Len(chunk_event) = committed /\ signaled \in Nat
      /\ current_event_seq_id \in Nat
  BY DEF IInv, TypeOK, Order
<1>3. /\ executed + 1 \in 1 .. committed /\ chunk_event[executed + 1] \in Nat
      /\ 1 .. executed \subseteq 1 .. executed + 1
  BY <1>1, <1>2
<1> DEFINE event == chunk_event[executed + 1]
<1>4. /\ signaled' \in Nat /\ signaled <= signaled' /\ event <= signaled'
      /\ signaled' = signaled \/ signaled' = event
  <2> HIDE DEF event
  <2> QED
    BY <1>1, <1>2, <1>3 DEF Larger, event
<1>5. TypeOK' /\ Order'
  <2>1. executed' \in Nat /\ completed <= executed' /\ executed' <= committed
    BY <1>1, <1>2
  <2> QED
    BY <1>1, <1>2, <1>4, <2>1 DEF TypeOK, Order, CurrentSeqId
<1>6. EventsAreNumbered'
  <2>1. /\ \A c \in 1 .. committed : chunk_event[c] <= current_event_seq_id
        /\ \A q \in Queries : query[q].at <= current_event_seq_id
        /\ signaled = 0 \/ \E c \in 1 .. executed : chunk_event[c] >= signaled
    BY DEF IInv, EventsAreNumbered
  <2>2. signaled' = 0 \/ \E c \in 1 .. executed + 1 : chunk_event[c] >= signaled'
    <3>1. CASE signaled' = signaled
      BY <1>3, <2>1, <3>1
    <3>2. CASE signaled' = event
      <4>1. executed + 1 \in 1 .. executed + 1 /\ event >= event
        BY <1>2, <1>3
      <4> QED
        BY <3>2, <4>1
    <3> QED
      BY <1>4, <3>1, <3>2
  <2> QED
    BY <1>1, <2>1, <2>2 DEF EventsAreNumbered
<1>7. LastEventIsDue'
  BY <1>1, <1>2, <1>4 DEF IInv, LastEventIsDue, NeedsFlush
<1>8. EventsCover'
  BY <1>1 DEF IInv, EventsCover, Covers
<1>9. StagingIsFlushed' /\ NamesDiffer' /\ UsesAreKnown'
  BY <1>1 DEF IInv, StagingIsFlushed, NamesDiffer, UsesAreKnown, CurrentSeqId, NeedsFlush
<1>10. MapHasResource' /\ MapIsExclusive'
  BY <1>1 DEF IInv, MapHasResource, MapIsExclusive
<1> QED
  BY <1>5, <1>6, <1>7, <1>8, <1>9, <1>10 DEF IInv

(* The queue retires a chunk, and with it the copies that it contains.     *)
LEMMA CompleteKeeps ==
  ASSUME IInv, Complete
  PROVE  IInv'
<1>1. /\ completed < executed /\ completed' = completed + 1
      /\ uses' = {u \in uses : u.seq > completed + 1}
      /\ UNCHANGED <<committed, executed, signaled, query, staging, covers, pc, map_call,
                     fence_target, ops, promote_flush, has_dirty_op_since_last_event, chunk_event,
                     current_event_seq_id, last_op, cmdbuf_state>>
  BY DEF Complete, recorded, call
<1>2. /\ TypeOK /\ Order /\ uses \subseteq UseRecord
      /\ committed \in Nat /\ executed \in Nat /\ completed \in Nat
  BY DEF IInv, TypeOK, Order, UseRecord
<1>3. uses' \subseteq uses
  BY <1>1
<1>4. completed' \in Nat /\ completed' <= executed
  BY <1>1, <1>2
<1>5. TypeOK' /\ Order'
  BY <1>1, <1>2, <1>3, <1>4 DEF TypeOK, Order, CurrentSeqId
<1>6. EventsAreNumbered' /\ LastEventIsDue' /\ EventsCover'
  BY <1>1 DEF IInv, EventsAreNumbered, LastEventIsDue, EventsCover, Covers, NeedsFlush
<1>7. StagingParts'
  <2>1. \A u \in uses' : completed' < u.seq
    <3> SUFFICES ASSUME NEW u \in uses'
                 PROVE  completed' < u.seq
      OBVIOUS
    <3>1. u.seq \in Nat /\ u.seq > completed + 1
      BY <1>1, <1>2 DEF UseRecord
    <3> QED
      BY <1>1, <1>2, <3>1
  <2>2. committed' \in Nat /\ committed <= committed'
    BY <1>1, <1>2
  <2> QED
    BY <1>1, <1>3, <2>1, <2>2, StagingKept DEF NeedsFlush
<1>8. MapHasResource' /\ MapIsExclusive'
  BY <1>1, <1>3 DEF IInv, MapHasResource, MapIsExclusive
<1> QED
  BY <1>5, <1>6, <1>7, <1>8 DEF IInv, StagingParts

-----------------------------------------------------------------------------
(* Every step of the context, the GPU and the queue keeps the invariant.   *)
LEMMA Preservation == IInv /\ [Next]_vars => IInv'
<1> SUFFICES ASSUME IInv, [Next]_vars
             PROVE  IInv'
  OBVIOUS
<1>1. CASE Record
  <2>1. CASE \/ \E pass \in {"Render", "Compute", "Blit"} : Operation(pass)
             \/ \E defer_commit \in BOOLEAN :
                  OperationOutsidePass(defer_commit) \/ EmitThenFlush(defer_commit)
             \/ EndTimestamp \/ FenceWait
    BY <2>1, OperationsKeep
  <2>2. CASE \/ \E r \in Staging, promote \in BOOLEAN : CopyToStaging(r, "ReadbackBlit", promote)
             \/ \E r \in Staging : CopyToStaging(r, "Idle", TRUE)
             \/ \E r \in Staging, pass \in {"UpdateBlit", "Idle"} : CopyFromStaging(r, pass)
             \/ \E dst, src \in Staging : CopyBetweenStaging(dst, src)
    BY <2>2, CopiesKeep DEF Passes
  <2>3. CASE EndOcclusion \/ \E q \in Queries : EndEvent(q)
    BY <2>3, EndKeeps
  <2>4. CASE PresentCommit \/ WaitUntilGPUIdle
    BY <2>4, FlushesKeep
  <2>5. CASE \E promote \in BOOLEAN, events \in SUBSET Queries, read, written \in SUBSET Staging :
               /\ events # {} => promote
               /\ ExecuteCommandList(promote, events, read, written)
    BY <2>5, ExecuteCommandListKeeps
  <2> QED
    BY <1>1, <2>1, <2>2, <2>3, <2>4, <2>5 DEF Record
<1>2. CASE \E q \in Queries, do_not_flush \in BOOLEAN : GetData(q, do_not_flush)
  BY <1>2, GetDataKeeps
<1>3. CASE Flush \/ ThenFlush
  BY <1>3, FlushesKeep
<1>4. CASE \/ \E r \in Staging, read, write \in BOOLEAN : (read \/ write) /\ CallMap(r, read, write)
           \/ MapGivesUp \/ FenceReturns \/ Unmap \/ UNCHANGED vars
  BY <1>4, WaitsKeep
<1>5. CASE MapWaits
  BY <1>5, MapWaitsKeeps
<1>6. CASE MapSucceeds
  BY <1>6, MapSucceedsKeeps
<1>7. CASE Execute
  BY <1>7, ExecuteKeeps
<1>8. CASE Complete
  BY <1>8, CompleteKeeps
<1>9. CASE Finished
  BY <1>9, WaitsKeep DEF Finished
<1> QED
  BY <1>1, <1>2, <1>3, <1>4, <1>5, <1>6, <1>7, <1>8, <1>9 DEF Next, Proceed

(* The invariant holds in every state that the context can reach.          *)
THEOREM Invariance == Spec => []IInv
<1>1. Init => IInv
  BY Initial
<1>2. IInv /\ [Next]_vars => IInv'
  BY Preservation
<1> QED
  BY <1>1, <1>2, PTL DEF Spec

(* The context only ever waits, in Map and in WaitUntilGPUIdle, for a      *)
(* chunk that it has committed.                                            *)
THEOREM WaitsForCommitted == Spec => []WaitIsOnCommitted
<1>1. IInv => WaitIsOnCommitted
  BY DEF IInv, Order, WaitIsOnCommitted
<1> QED
  BY <1>1, Invariance, PTL

(* What Map returned is not written to by a copy in flight, and not read   *)
(* by one if it is mapped for writing.                                     *)
THEOREM MapExcludesCopies == Spec => []MapIsExclusive
<1>1. IInv => MapIsExclusive
  BY DEF IInv
<1> QED
  BY <1>1, Invariance, PTL

(* The event that a query waits for is signalled by a chunk that has been  *)
(* committed, or the next Flush commits one.                               *)
THEOREM EventsAreSignaled == Spec => []EventWillBeSignaled
<1>1. IInv => EventWillBeSignaled
  <2> SUFFICES ASSUME IInv, NEW q \in Queries, ~NeedsFlush, ~(query[q].at <= signaled)
               PROVE  \E c \in DOMAIN chunk_event : chunk_event[c] >= query[q].at
    BY DEF EventWillBeSignaled
  <2>1. /\ query[q].at \in Nat /\ query[q].at <= current_event_seq_id
        /\ current_event_seq_id \in Nat /\ signaled \in Nat
        /\ chunk_event \in Seq(Nat) /\ Len(chunk_event) = committed
    BY DEF IInv, TypeOK, Order, EventsAreNumbered
  <2>2. ~(current_event_seq_id <= signaled)
    BY <2>1
  <2>3. PICK c \in 1 .. committed : chunk_event[c] >= current_event_seq_id
    BY <2>2 DEF IInv, LastEventIsDue
  <2>4. c \in DOMAIN chunk_event /\ chunk_event[c] \in Nat
    BY <2>1
  <2>5. chunk_event[c] >= query[q].at
    BY <2>1, <2>3, <2>4
  <2> QED
    BY <2>4, <2>5
<1> QED
  BY <1>1, Invariance, PTL

(* A query that is signalled has all that was recorded before its End      *)
(* executed, also when it shares the event of an earlier query.            *)
THEOREM EventsFollowCommands == Spec => []EventCoversItsCommands
<1>1. IInv => EventCoversItsCommands
  <2> SUFFICES ASSUME IInv, NEW q \in Queries, query[q].state # "Undefined",
                      query[q].at <= signaled
               PROVE  executed >= covers[q]
    BY DEF EventCoversItsCommands
  <2>1. /\ query[q].at \in Nat /\ signaled \in Nat /\ covers[q] \in Nat
        /\ executed \in Nat /\ committed \in Nat /\ executed <= committed
        /\ chunk_event \in Seq(Nat) /\ Len(chunk_event) = committed
    BY DEF IInv, TypeOK, Order
  <2>2. /\ query[q].at = 0 => covers[q] = 0
        /\ \A c \in 1 .. committed : chunk_event[c] >= query[q].at => c >= covers[q]
    BY DEF IInv, EventsCover, Covers
  <2>3. CASE signaled = 0
    BY <2>1, <2>2, <2>3
  <2>4. CASE \E c \in 1 .. executed : chunk_event[c] >= signaled
    <3>1. PICK c \in 1 .. executed : chunk_event[c] >= signaled
      BY <2>4
    <3>2. c \in 1 .. committed /\ chunk_event[c] \in Nat
      BY <2>1
    <3>3. chunk_event[c] >= query[q].at
      BY <2>1, <3>1, <3>2
    <3> QED
      BY <2>1, <2>2, <3>2, <3>3
  <2> QED
    BY <2>3, <2>4 DEF IInv, EventsAreNumbered
<1> QED
  BY <1>1, Invariance, PTL

=============================================================================
