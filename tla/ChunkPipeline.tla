--------------------------- MODULE ChunkPipeline ---------------------------
(***************************************************************************)
(* What dxmt::CommandQueue promises to the D3D11 context above it,         *)
(* whatever its threads do: chunks of commands are numbered 1, 2, 3, ...,  *)
(* go to the GPU in that order, are retired in that order and only after   *)
(* the GPU is done with them, and at most Depth chunks exist at a time,    *)
(* the one that is being recorded included.                                *)
(***************************************************************************)
EXTENDS Integers

CONSTANT Depth  \* kCommandChunkCount: how many chunks exist

VARIABLES
  open,       \* may the context record into the chunk committed + 1?
  committed,  \* last chunk the context closed
  submitted,  \* last chunk handed to the GPU
  completed   \* last chunk retired: what CoherentSeqId() returns

vars == <<open, committed, submitted, completed>>

Init ==
  /\ open = TRUE
  /\ committed = 0
  /\ submitted = 0
  /\ completed = 0

(* The context closes the chunk it records. *)
Commit ==
  /\ open
  /\ open' = FALSE
  /\ committed' = committed + 1
  /\ UNCHANGED <<submitted, completed>>

(* The next chunk becomes available: fewer than Depth are in flight. *)
Reopen ==
  /\ ~open
  /\ committed - completed < Depth
  /\ open' = TRUE
  /\ UNCHANGED <<committed, submitted, completed>>

(* The next committed chunk is handed to the GPU. *)
Submit ==
  /\ submitted < committed
  /\ submitted' = submitted + 1
  /\ UNCHANGED <<open, committed, completed>>

(* The next submitted chunk is retired. *)
Complete ==
  /\ completed < submitted
  /\ completed' = completed + 1
  /\ UNCHANGED <<open, committed, submitted>>

Next == Commit \/ Reopen \/ Submit \/ Complete

Spec == Init /\ [][Next]_vars

=============================================================================
