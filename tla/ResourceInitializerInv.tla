----------------------- MODULE ResourceInitializerInv -----------------------
(***************************************************************************)
(* The inductive invariant of ResourceInitializer. The commands that are   *)
(* recorded have the number current_seq_id, those of an upload its number. *)
(***************************************************************************)
EXTENDS ResourceInitializer

InFlight == (signaled + 1) .. current_seq_id

CommandsOf(i) == IF i = current_seq_id THEN pending ELSE uploads[i]

Fills(commands, r) == \E command \in commands : command.resource = r

(* What was created is initialized, or an upload that is to come does it. *)
CreatedIsRecorded ==
  \A r \in Resources : resource[r] = "created" =>
    r \in initialized \/ \E i \in InFlight : Fills(CommandsOf(i), r)

(* A chunk waits for the last upload of what it may use, or for a later one. *)
ChunksWait ==
  \A r \in Resources, c \in DOMAIN wait :
    (resource[r] = "created" /\ created_in[r] <= c) =>
      r \in initialized \/ \E i \in (signaled + 1) .. wait[c] : Fills(uploads[i], r)

(* Nothing of a completed upload is left. *)
CompletedIsEmpty == \A i \in 1 .. signaled : uploads[i] = {}

(* The blocks of the ring are different ones. *)
BlocksDiffer ==
  /\ \A j \in DOMAIN ring : ring[j].id \in 1 .. blocks
  /\ \A j, k \in DOMAIN ring : ring[j].id = ring[k].id => j = k

(* A unit that a command reads is in a block that has been left, or below  *)
(* what is allocated of a block whose number is not lower than its own.    *)
Leased(unit, i, fifo) ==
  \A j \in DOMAIN fifo : fifo[j].id = unit[1] =>
    i <= fifo[j].last_used_seq_id /\ unit[2] < fifo[j].allocated_size

MemoryIsLeased ==
  \A i \in InFlight : \A command \in CommandsOf(i) : \A unit \in command.memory :
    unit[1] \in 1 .. blocks /\ Leased(unit, i, ring)

(* The numbers, the waits, the contents and the memory of uploads agree. *)
IInv ==
  /\ TypeOK
  /\ WaitsForSentUpload
  /\ UploadedBeforeUse
  /\ CreatedIsRecorded
  /\ ChunksWait
  /\ CompletedIsEmpty
  /\ BlocksDiffer
  /\ MemoryIsLeased

=============================================================================
