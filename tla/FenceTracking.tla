--------------------------- MODULE FenceTracking ---------------------------
(***************************************************************************)
(* FenceTracking: how dxmt orders the passes it encodes. Metal tracks no   *)
(* hazard of these resources: a tracker per resource says which earlier    *)
(* passes a pass must wait for, and which barrier a command needs against  *)
(* the earlier commands of its own pass.                                   *)
(*                                                                         *)
(* Encoder ids grow by one; an id stands for the fence Fence(id) of a pool *)
(* of Parity * Lane. A conflict less than Lane ids away is waited for      *)
(* (strong); everything older is waited for anyway (weak).                 *)
(* These are pure operators; EncodingContext is the state that uses them.  *)
(***************************************************************************)
EXTENDS Naturals, Sequences, FiniteSets, SequencesExt

CONSTANTS
  Lane,     \* kLane, 64 in the code
  Parity    \* kParity, 4 in the code

ASSUME LaneAssumption == Lane \in Nat /\ Lane > 1
ASSUME ParityAssumption == Parity \in Nat /\ Parity >= 3

FenceCount == Parity * Lane
Fence(id) == id % FenceCount

LaneMask(fences) == { f % Lane : f \in fences }
MergeWithLaneMaskOff(fences, others, mask) ==
  fences \union { f \in others : f % Lane \notin mask }

FaultOneGenerationShort(id) == { Fence(id - k) : k \in Lane .. 2 * Lane - 2 }

(* fillGenerationBefore: on every lane, the last id at least Lane older. *)
WeakFenceMask(id) == { Fence(id - k) : k \in Lane .. 2 * Lane - 1 }

(* collectAndSimplifyWaits: the strong fences, the weak ones of the other  *)
(* lanes, and of these only those not reached through a later one.         *)
(* "summary" holds what each of the last FenceCount passes waited for.     *)
FullFences(strong, id) ==
  MergeWithLaneMaskOff(strong, WeakFenceMask(id), LaneMask(strong))

VisitFence(s, full, summary, f) ==
  LET needed == f \in full /\ f \notin s.accessible
      accessible == s.accessible \union (IF needed THEN {f} ELSE {})
  IN  [minimal |-> s.minimal \union (IF needed THEN {f} ELSE {}),
       accessible |-> accessible
                      \union (IF f \in accessible THEN summary[f] ELSE {})]

MinimalFences(full, summary, id) ==
  LET visited[k \in 0 .. FenceCount - 1] ==
        IF k = 0 THEN [minimal |-> {}, accessible |-> {}]
        ELSE VisitFence(visited[k - 1], full, summary, Fence(id - k))
  IN  visited[FenceCount - 1].minimal

CollectAndSimplifyWaits(strong, summary, id) ==
  LET full == FullFences(strong, id)
  IN  [minimal |-> MinimalFences(full, summary, id),
       summary |-> [summary EXCEPT ![Fence(id)] = full]]

----------------------------------------------------------------------------
(* The tracker of a resource. "shared" is the ring of the last Lane ids    *)
(* that read it, the newest first; clear() marks its newest entry 0, past  *)
(* which no reader looks: here it is emptied.                              *)

NewTracker ==
  [shared |-> <<>>, exclusive |-> 0, isShared |-> FALSE,
   isSharedPreRaster |-> FALSE, lastWriteFromPreRaster |-> FALSE]

IsLastAccess(t, id) == t.shared /= <<>> /\ Head(t.shared) = id

AddShared(t, id) ==
  IF IsLastAccess(t, id) THEN t.shared
  ELSE SubSeq(<<id>> \o t.shared, 1,
              IF Len(t.shared) < Lane THEN Len(t.shared) + 1 ELSE Lane)

FaultLastReaderOnly(t, id) ==
  IF t.shared /= <<>> /\ Head(t.shared) < id THEN { Fence(Head(t.shared)) } ELSE {}

(* enumerate: the readers before id that are less than Lane away. *)
RecentReaders(t, id) ==
  { Fence(c) : c \in { c \in ToSet(t.shared) : c < id /\ c + Lane > id } }

(* An access answers with the tracker it leaves, the fences to wait for and *)
(* the barriers to emit before the command: which barrier, and for what.    *)
Answer(t, waits, barriers) == [tracker |-> t, waits |-> waits, barriers |-> barriers]
Nothing(t) == Answer(t, {}, {})

Hazard(uav) == IF uav THEN "WaW" ELSE "RW"

LastWriter(t, id) == IF id - t.exclusive < Lane THEN { Fence(t.exclusive) } ELSE {}

AccessShared(t, id) ==
  CASE t.exclusive = id /\ t.isShared -> Nothing(t)
    [] t.exclusive = id /\ ~ t.isShared ->
         Answer([t EXCEPT !.isShared = TRUE], {}, { <<"barrier", "RW">> })
    [] t.exclusive /= id /\ IsLastAccess(t, id) -> Nothing(t)
    [] OTHER -> Answer([t EXCEPT !.shared = AddShared(t, id)], LastWriter(t, id), {})

AccessExclusive(t, id, uav) ==
  IF t.exclusive = id
  THEN Answer([t EXCEPT !.isShared = FALSE], {}, { <<"barrier", Hazard(uav)>> })
  ELSE Answer([t EXCEPT !.isShared = FALSE, !.shared = <<>>, !.exclusive = id],
              RecentReaders(t, id) \union LastWriter(t, id),
              IF IsLastAccess(t, id) THEN { <<"barrier", "RW">> } ELSE {})

----------------------------------------------------------------------------
(* A render pass has two ids: id for its pre-raster stages, id + 1 for its *)
(* fragment stage. The barriers: fragment after fragment ("barrier"), and  *)
(* the three others by name.                                               *)

AccessSharedPreRaster(t, id) ==
  LET read == [t EXCEPT !.isSharedPreRaster = TRUE]
  IN  CASE t.exclusive \in {id, id + 1} /\ t.isSharedPreRaster -> Nothing(t)
        [] t.exclusive \in {id, id + 1} /\ ~ t.isSharedPreRaster ->
             Answer(read, {},
                    IF t.exclusive = id \/ t.lastWriteFromPreRaster
                    THEN { <<"pre_raster", "RW">> }
                    ELSE { <<"pre_raster_after_fragment", "RW">> })
        [] t.exclusive \notin {id, id + 1} /\ IsLastAccess(t, id + 1) ->
             IF t.isSharedPreRaster THEN Nothing(t)
             ELSE Answer(read, LastWriter(t, id), {})
        [] t.exclusive \notin {id, id + 1} /\ IsLastAccess(t, id) -> Nothing(t)
        [] OTHER ->
             Answer([read EXCEPT !.shared = AddShared(t, id), !.isShared = FALSE],
                    LastWriter(t, id), {})

(* Writes forget the readers of the pass; what they owed them is a barrier. *)
Unread(t) == [t EXCEPT !.isShared = FALSE, !.isSharedPreRaster = FALSE]
IsUnread(t) == ~ t.isShared /\ ~ t.isSharedPreRaster
BarriersAfterReads(t, vertex, fragment) ==
  (IF t.isSharedPreRaster THEN { <<vertex, "RW">> } ELSE {})
  \union (IF t.isShared THEN { <<fragment, "RW">> } ELSE {})

(* Whatever its age: LastWriter is not used by the render stages. *)
AnyLastWriter(t) == IF t.exclusive = 0 THEN {} ELSE { Fence(t.exclusive) }

(* A write in a pass that did not write yet. *)
FirstWrite(t, id, writer, afterReads) ==
  Answer([Unread(writer) EXCEPT !.shared = <<>>],
         RecentReaders(t, id) \union AnyLastWriter(t), afterReads)

AccessExclusivePreRaster(t, id, uav) ==
  LET written == [t EXCEPT !.exclusive = id]
      afterReads == BarriersAfterReads(t, "pre_raster", "pre_raster_after_fragment")
  IN  CASE t.exclusive = id + 1 ->
             Answer([Unread(written) EXCEPT !.lastWriteFromPreRaster = TRUE], {},
                    CASE ~ IsUnread(t) -> afterReads
                      [] IsUnread(t) /\ t.lastWriteFromPreRaster ->
                           { <<"pre_raster", Hazard(uav)>> }
                      [] OTHER -> { <<"pre_raster_after_fragment", Hazard(uav)>> })
        [] t.exclusive = id ->
             Answer(Unread(written), {},
                    IF IsUnread(t) THEN { <<"pre_raster", Hazard(uav)>> } ELSE afterReads)
        [] OTHER ->
             FirstWrite(t, id, written,
                        IF IsLastAccess(t, id + 1) \/ IsLastAccess(t, id)
                        THEN afterReads ELSE {})

(* "id" is the id of the fragment stage. *)
AccessSharedFragment(t, id) ==
  LET read == [t EXCEPT !.isShared = TRUE]
  IN  CASE t.exclusive \in {id, id - 1} /\ t.isShared -> Nothing(t)
        [] t.exclusive \in {id, id - 1} /\ ~ t.isShared ->
             Answer(read, {},
                    CASE t.isSharedPreRaster -> {}     \* implicit barrier
                      [] ~ t.isSharedPreRaster
                         /\ (t.exclusive = id - 1 \/ t.lastWriteFromPreRaster) ->
                           { <<"fragment_after_pre_raster", "RW">> }
                      [] OTHER -> { <<"barrier", "RW">> })
        [] t.exclusive \notin {id, id - 1} /\ IsLastAccess(t, id) -> Nothing(t)
        [] OTHER ->
             Answer([read EXCEPT !.shared = AddShared(t, id),
                                 !.isSharedPreRaster =
                                   IF IsLastAccess(t, id - 1) THEN @ ELSE FALSE],
                    LastWriter(t, id), {})

AccessExclusiveFragment(t, id, uav) ==
  LET written == [t EXCEPT !.exclusive = id, !.lastWriteFromPreRaster = FALSE]
      afterReads == BarriersAfterReads(t, "fragment_after_pre_raster", "barrier")
  IN  IF t.exclusive \in {id, id - 1}
      THEN Answer(Unread(written), {},
                  CASE ~ IsUnread(t) -> afterReads
                    [] IsUnread(t)
                       /\ (t.exclusive = id - 1 \/ t.lastWriteFromPreRaster) ->
                         { <<"fragment_after_pre_raster", Hazard(uav)>> }
                    [] OTHER -> { <<"barrier", Hazard(uav)>> })
      ELSE FirstWrite(t, id, written,
                      IF IsLastAccess(t, id) \/ IsLastAccess(t, id - 1)
                      THEN afterReads ELSE {})

=============================================================================
