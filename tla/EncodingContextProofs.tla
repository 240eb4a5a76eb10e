------------------------ MODULE EncodingContextProofs ------------------------
(***************************************************************************)
(* Theorems about EncodingContext: the barriers between the commands of a  *)
(* pass, from what the trackers remember of the accesses in it; the place  *)
(* of events in the list that the optimizer leaves; and the order of       *)
(* passes, from the fences they wait for. EncodingListProofs has what the  *)
(* optimizer does to the effect of the list.                               *)
(***************************************************************************)
EXTENDS EncodingContextInv, FiniteSetTheorems, WellFoundedInduction, TLAPS

-----------------------------------------------------------------------------
(* The ring of readers.                                                    *)

LEMMA AddSharedIs ==
  ASSUME NEW t \in Tracker, NEW id \in Nat
  PROVE  /\ AddShared(t, id) \in Seq(Nat) /\ AddShared(t, id) # <<>>
         /\ Head(AddShared(t, id)) = id
         /\ \A last \in Nat : id < last /\ IsBelow(t, last) =>
              \A i \in DOMAIN AddShared(t, id) : AddShared(t, id)[i] < last
<1>1. t.shared \in Seq(Nat) /\ Len(t.shared) \in Nat
  BY DEF Tracker
<1>2. CASE IsLastAccess(t, id)
  BY <1>1, <1>2 DEF AddShared, IsLastAccess, IsBelow
<1>3. CASE ~ IsLastAccess(t, id)
  <2> DEFINE all == <<id>> \o t.shared
             n == IF Len(t.shared) < Lane THEN Len(t.shared) + 1 ELSE Lane
  <2>1. /\ all \in Seq(Nat) /\ Len(all) = Len(t.shared) + 1 /\ all[1] = id
        /\ \A i \in 2 .. Len(all) : all[i] = t.shared[i - 1]
    BY <1>1
  <2>2. n \in 1 .. Len(all)
    BY <1>1, <2>1, LaneAssumption
  <2> DEFINE s == SubSeq(all, 1, n)
  <2>3. AddShared(t, id) = s
    BY <1>3 DEF AddShared
  <2> HIDE DEF all, n
  <2>4. /\ s \in Seq(Nat) /\ Len(s) = n /\ \A i \in 1 .. n : s[i] = all[i]
    BY <2>1, <2>2
  <2> HIDE DEF s
  <2>5. s # <<>> /\ Head(s) = id /\ DOMAIN s = 1 .. n
    BY <2>1, <2>2, <2>4
  <2>6. ASSUME NEW last \in Nat, id < last, IsBelow(t, last), NEW i \in 1 .. n
        PROVE  s[i] < last
    <3>1. CASE i = 1
      BY <2>1, <2>4, <2>6, <3>1
    <3>2. CASE i # 1
      <4>1. i \in 2 .. Len(all) /\ i - 1 \in DOMAIN t.shared
        <5>1. n \in 1 .. Len(all) /\ i \in 1 .. n /\ i # 1 /\ Len(all) = Len(t.shared) + 1
              /\ DOMAIN t.shared = 1 .. Len(t.shared) /\ Len(t.shared) \in Nat
          BY <1>1, <2>1, <2>2, <2>6, <3>2
        <5> QED
          BY ONLY <5>1
      <4>2. t.shared[i - 1] < last
        BY <2>6, <4>1 DEF IsBelow
      <4> QED
        BY <2>1, <2>4, <4>1, <4>2
    <3> QED
      BY <3>1, <3>2
  <2> QED
    BY <2>3, <2>4, <2>5, <2>6
<1> QED
  BY <1>2, <1>3

(* What an access with this id may do to a tracker: it stays one, and      *)
(* remembers no id after this one that it did not remember.                *)
Follows(t, u, id) ==
  /\ u \in Tracker /\ u.exclusive \in {t.exclusive, id}
  /\ \A last \in Nat : id < last /\ IsBelow(t, last) => IsBelow(u, last)

LEMMA FollowsIf ==
  ASSUME NEW t \in Tracker, NEW id \in Nat, NEW u \in Tracker,
         u.exclusive \in {t.exclusive, id}, u.shared \in {t.shared, AddShared(t, id), <<>>}
  PROVE  Follows(t, u, id)
<1>1. ASSUME NEW last \in Nat, id < last, IsBelow(t, last)
      PROVE  u.exclusive < last /\ \A i \in DOMAIN u.shared : u.shared[i] < last
  <2>1. u.exclusive < last
    BY <1>1 DEF IsBelow
  <2>2. CASE u.shared = t.shared
    BY <1>1, <2>1, <2>2 DEF IsBelow
  <2>3. CASE u.shared = AddShared(t, id)
    BY <1>1, <2>1, <2>3, AddSharedIs
  <2>4. CASE u.shared = <<>>
    BY <2>1, <2>4
  <2> QED
    BY <2>2, <2>3, <2>4
<1> QED
  BY <1>1 DEF Follows, IsBelow

(* Some barrier of these orders x.                                         *)
IsOrdered(barriers, x, e) == \E b \in barriers : Ordered(x, e, { b[1] })

LEMMA BarriersOrder ==
  ASSUME NEW barriers, NEW x, NEW e, e.type = "render", NEW h
  PROVE  /\ <<"pre_raster", h>> \in barriers /\ x.stage = "vertex" => IsOrdered(barriers, x, e)
         /\ <<"fragment_after_pre_raster", h>> \in barriers /\ x.stage = "vertex"
              /\ x.to = "pixel" => IsOrdered(barriers, x, e)
         /\ <<"barrier", h>> \in barriers /\ x.stage = "pixel" /\ x.to = "pixel" =>
              IsOrdered(barriers, x, e)
<1>1. \A name : <<name, h>>[1] = name
  OBVIOUS
<1>2. ASSUME NEW name, <<name, h>> \in barriers, Ordered(x, e, {name})
      PROVE  IsOrdered(barriers, x, e)
  BY <1>1, <1>2 DEF IsOrdered
<1> QED
  BY <1>2 DEF Ordered

(* What an access of a render pass, at "stage" and for "mode", does with   *)
(* what the tracker remembers of x: it goes on to, or answers a barrier,   *)
(* as it must for a conflict. "written" and "after" are whether a fragment *)
(* stage of the pass has written, before and after the access.             *)
RenderKeeps(t, a, v, written, after, e, stage, mode) ==
  /\ \A b \in a.barriers : b[1] /= "pre_raster_after_fragment"
  /\ \A x : /\ x.stage \in {"vertex", "pixel"} /\ x.to \in {"vertex", "pixel"}
            /\ RenderRemembers(t, v, written, x)
            => /\ RenderRemembers(a.tracker, v, after, x) \/ IsOrdered(a.barriers, x, e)
               /\ x.to = stage /\ (IsWrite(x.mode) \/ IsWrite(mode))
                    /\ (stage = "vertex" => x.stage = "vertex") =>
                  IsOrdered(a.barriers, x, e)
  /\ \A x : x.stage = stage /\ x.mode = mode => RenderRemembers(a.tracker, v, after, x)

LEMMA VertexRead ==
  ASSUME NEW t \in Tracker, NEW v \in Nat, NEW used \in BOOLEAN, NEW e, e.type = "render",
         FlagsFit(t, v, used, FALSE), NEW mode, ~ IsWrite(mode)
  PROVE  /\ FlagsFit(AccessSharedPreRaster(t, v).tracker, v, used, FALSE)
         /\ RenderKeeps(t, AccessSharedPreRaster(t, v), v, FALSE, FALSE, e, "vertex", mode)
<1> DEFINE a == AccessSharedPreRaster(t, v)
           u == a.tracker
<1>1. t.exclusive # v + 1 /\ v # v + 1
  BY DEF FlagsFit
<1>2. SUFFICES /\ FlagsFit(u, v, used, FALSE)
               /\ RenderKeeps(t, a, v, FALSE, FALSE, e, "vertex", mode)
  OBVIOUS
<1>3. CASE InPass(t, v) /\ ~ t.isSharedPreRaster
  <2>1. a = Answer([t EXCEPT !.isSharedPreRaster = TRUE], {}, { <<"pre_raster", "RW">> })
    BY <1>1, <1>3 DEF AccessSharedPreRaster, InPass
  <2>2. /\ u.exclusive = t.exclusive /\ u.shared = t.shared /\ u.isShared = t.isShared
        /\ u.isSharedPreRaster /\ u.lastWriteFromPreRaster = t.lastWriteFromPreRaster
        /\ a.barriers = { <<"pre_raster", "RW">> }
    BY <2>1 DEF Tracker, Answer
  <2> HIDE DEF a
  <2>3. \A x : x.stage = "vertex" => IsOrdered(a.barriers, x, e)
    <3>1. <<"pre_raster", "RW">> \in a.barriers
      BY <2>2
    <3> QED
      BY <3>1, BarriersOrder
  <2>4. \A b \in a.barriers : b[1] /= "pre_raster_after_fragment"
    BY <2>2
  <2>5. FlagsFit(u, v, used, FALSE)
    BY <1>1, <1>3, <2>2 DEF FlagsFit, InPass
  <2> QED
    BY <1>1, <1>3, <2>2, <2>3, <2>4, <2>5
       DEF RenderKeeps, RenderRemembers, InPass, IsSeen, IsLastAccess
<1>4. CASE (InPass(t, v) /\ t.isSharedPreRaster) \/
           (~ InPass(t, v) /\ IsLastAccess(t, v + 1) /\ t.isSharedPreRaster) \/
           (~ InPass(t, v) /\ ~ IsLastAccess(t, v + 1) /\ IsLastAccess(t, v))
  <2>1. a = Nothing(t)
    BY <1>1, <1>4 DEF AccessSharedPreRaster, InPass
  <2>2. u = t /\ a.barriers = {}
    BY <2>1 DEF Nothing, Answer
  <2>3. IsSeen(t, v) /\ t.isSharedPreRaster
    BY <1>4 DEF IsSeen, FlagsFit
  <2> HIDE DEF a
  <2> QED
    BY <2>2, <2>3 DEF RenderKeeps, RenderRemembers
<1>5. CASE ~ InPass(t, v) /\ IsLastAccess(t, v + 1) /\ ~ t.isSharedPreRaster
  <2>0. ~ IsLastAccess(t, v)
    BY <1>1, <1>5 DEF IsLastAccess
  <2>1. a = Answer([t EXCEPT !.isSharedPreRaster = TRUE], LastWriter(t, v), {})
    BY <1>1, <1>5, <2>0 DEF AccessSharedPreRaster, InPass
  <2>2. /\ u.exclusive = t.exclusive /\ u.shared = t.shared /\ u.isShared = t.isShared
        /\ u.isSharedPreRaster /\ u.lastWriteFromPreRaster = t.lastWriteFromPreRaster
        /\ a.barriers = {}
    BY <2>1 DEF Tracker, Answer
  <2> HIDE DEF a
  <2>3. IsSeen(u, v) /\ ~ InPass(u, v) /\ IsSeen(t, v) /\ ~ IsLastAccess(u, v)
    BY <1>5, <1>1, <2>2 DEF IsSeen, InPass, IsLastAccess
  <2>4. FlagsFit(u, v, used, FALSE)
    BY <1>1, <1>5, <2>2, <2>3 DEF FlagsFit, InPass, IsLastAccess
  <2> QED
    BY <1>1, <1>5, <2>2, <2>3, <2>4 DEF RenderKeeps, RenderRemembers
<1>6. CASE ~ InPass(t, v) /\ ~ IsLastAccess(t, v + 1) /\ ~ IsLastAccess(t, v)
  <2>1. a = Answer([[t EXCEPT !.isSharedPreRaster = TRUE] EXCEPT
                      !.shared = AddShared(t, v), !.isShared = FALSE], LastWriter(t, v), {})
    BY <1>1, <1>6 DEF AccessSharedPreRaster, InPass
  <2>2. /\ u.exclusive = t.exclusive /\ u.shared = AddShared(t, v) /\ ~ u.isShared
        /\ u.isSharedPreRaster /\ u.lastWriteFromPreRaster = t.lastWriteFromPreRaster
        /\ a.barriers = {}
    <3> DEFINE s == AddShared(t, v)
               read == [t EXCEPT !.isSharedPreRaster = TRUE]
               next == [read EXCEPT !.shared = s, !.isShared = FALSE]
    <3>1. read \in Tracker /\ read.exclusive = t.exclusive /\ read.isSharedPreRaster
          /\ read.lastWriteFromPreRaster = t.lastWriteFromPreRaster
      BY DEF Tracker
    <3>2. s \in Seq(Nat)
      BY AddSharedIs
    <3>3. u = next /\ a.barriers = {}
      BY <2>1 DEF Answer
    <3> HIDE DEF s, read, a
    <3>4. /\ next.shared = s /\ ~ next.isShared /\ next.exclusive = read.exclusive
          /\ next.isSharedPreRaster = read.isSharedPreRaster
          /\ next.lastWriteFromPreRaster = read.lastWriteFromPreRaster
      BY <3>1, <3>2 DEF Tracker
    <3> QED
      BY <3>1, <3>3, <3>4 DEF s
  <2> HIDE DEF a
  <2>3. IsLastAccess(u, v) /\ ~ IsLastAccess(u, v + 1) /\ ~ InPass(u, v) /\ ~ IsSeen(t, v)
    BY <1>6, <1>1, <2>2, AddSharedIs DEF IsSeen, InPass, IsLastAccess
  <2>4. FlagsFit(u, v, used, FALSE)
    BY <1>1, <1>6, <2>2, <2>3 DEF FlagsFit, InPass
  <2>5. \A x : x.stage \in {"vertex", "pixel"} /\ RenderRemembers(t, v, FALSE, x) =>
          x.stage = "pixel" /\ x.to # "pixel"
    BY <1>1, <1>6, <2>3 DEF RenderRemembers, InPass
  <2>6. IsSeen(u, v) /\ u.isSharedPreRaster
    BY <2>2, <2>3 DEF IsSeen
  <2> QED
    BY <2>2, <2>4, <2>5, <2>6 DEF RenderKeeps, RenderRemembers
<1> QED
  BY <1>3, <1>4, <1>5, <1>6

LEMMA UnreadIs ==
  ASSUME NEW t \in Tracker, NEW id \in Nat
  PROVE  LET w == [t EXCEPT !.exclusive = id]
             u == Unread(w)
             n == [u EXCEPT !.shared = <<>>]
         IN  /\ w \in Tracker /\ u \in Tracker /\ n \in Tracker
             /\ w.exclusive = id /\ u.exclusive = id /\ n.exclusive = id
             /\ ~ u.isShared /\ ~ u.isSharedPreRaster /\ ~ n.isShared /\ ~ n.isSharedPreRaster
             /\ u.shared = t.shared /\ n.shared = <<>>
             /\ u.lastWriteFromPreRaster = t.lastWriteFromPreRaster
             /\ n.lastWriteFromPreRaster = t.lastWriteFromPreRaster
<1> DEFINE w == [t EXCEPT !.exclusive = id]
           u == Unread(w)
           n == [u EXCEPT !.shared = <<>>]
<1>1. /\ w \in Tracker /\ w.exclusive = id /\ w.shared = t.shared
      /\ w.lastWriteFromPreRaster = t.lastWriteFromPreRaster
  BY DEF Tracker
<1> HIDE DEF w
<1>2. /\ u \in Tracker /\ u.exclusive = id /\ ~ u.isShared /\ ~ u.isSharedPreRaster
      /\ u.shared = t.shared /\ u.lastWriteFromPreRaster = t.lastWriteFromPreRaster
  BY <1>1 DEF Tracker, Unread
<1> HIDE DEF u
<1>3. /\ n \in Tracker /\ n.exclusive = id /\ ~ n.isShared /\ ~ n.isSharedPreRaster
      /\ n.shared = <<>> /\ n.lastWriteFromPreRaster = t.lastWriteFromPreRaster
  <2>1. <<>> \in Seq(Nat)
    OBVIOUS
  <2> QED
    BY <1>2, <2>1 DEF Tracker
<1> QED
  BY <1>1, <1>2, <1>3 DEF w, u

LEMMA VertexWrite ==
  ASSUME NEW t \in Tracker, NEW v \in Nat, NEW e, e.type = "render",
         FlagsFit(t, v, FALSE, FALSE), NEW mode, IsWrite(mode), NEW uav \in BOOLEAN
  PROVE  /\ FlagsFit(AccessExclusivePreRaster(t, v, uav).tracker, v, FALSE, FALSE)
         /\ RenderKeeps(t, AccessExclusivePreRaster(t, v, uav), v, FALSE, FALSE, e, "vertex", mode)
<1> DEFINE a == AccessExclusivePreRaster(t, v, uav)
           u == a.tracker
           w == [t EXCEPT !.exclusive = v]
           afterReads == BarriersAfterReads(t, "pre_raster", "pre_raster_after_fragment")
<1>1. t.exclusive # v + 1 /\ v # v + 1
  BY DEF FlagsFit
<1>2. ~ t.isShared \/ (~ InPass(t, v) /\ ~ IsSeen(t, v))
  BY DEF FlagsFit, IsSeen
<1>3. \A x : x.stage \in {"vertex", "pixel"} /\ RenderRemembers(t, v, FALSE, x) =>
        x.stage = "vertex" \/ x.to # "pixel"
  BY <1>1, <1>2 DEF RenderRemembers, InPass, IsSeen, FlagsFit
<1>4. ASSUME u.exclusive = v, ~ u.isShared, ~ u.isSharedPreRaster,
             \A b \in a.barriers : b[1] = "pre_raster",
             IsSeen(t, v) => a.barriers # {}
      PROVE  /\ FlagsFit(u, v, FALSE, FALSE)
             /\ RenderKeeps(t, a, v, FALSE, FALSE, e, "vertex", mode)
  <2> HIDE DEF a
  <2>1. FlagsFit(u, v, FALSE, FALSE) /\ InPass(u, v)
    BY <1>1, <1>4 DEF FlagsFit, InPass
  <2>2. \A x : IsSeen(t, v) /\ x.stage = "vertex" => IsOrdered(a.barriers, x, e)
    BY <1>4 DEF IsOrdered, Ordered
  <2>3. \A x : x.stage = "vertex" /\ RenderRemembers(t, v, FALSE, x) => IsSeen(t, v)
    BY DEF RenderRemembers, IsSeen
  <2>4. \A x : x.stage = "pixel" /\ x.to # "pixel" => RenderRemembers(u, v, FALSE, x)
    BY DEF RenderRemembers
  <2>5. \A x : x.stage = "vertex" /\ x.mode = mode => RenderRemembers(u, v, FALSE, x)
    BY <1>4, <2>1 DEF RenderRemembers
  <2> QED
    BY <1>3, <1>4, <2>1, <2>2, <2>3, <2>4, <2>5 DEF RenderKeeps
<1>5. CASE InPass(t, v)
  <2>1. a = Answer(Unread(w), {},
                   IF IsUnread(t) THEN { <<"pre_raster", Hazard(uav)>> } ELSE afterReads)
    BY <1>1, <1>5 DEF AccessExclusivePreRaster, InPass
  <2>2. afterReads = IF t.isSharedPreRaster THEN { <<"pre_raster", "RW">> } ELSE {}
    BY <1>2, <1>5 DEF BarriersAfterReads
  <2>3. /\ u = Unread(w)
        /\ a.barriers = IF IsUnread(t) THEN { <<"pre_raster", Hazard(uav)>> }
                        ELSE { <<"pre_raster", "RW">> }
    BY <1>2, <1>5, <2>1, <2>2 DEF Answer, IsUnread
  <2> HIDE DEF a
  <2>4. a.barriers # {} /\ \A b \in a.barriers : b[1] = "pre_raster"
    <3>1. \E h : a.barriers = { <<"pre_raster", h>> }
      BY <2>3
    <3> QED
      BY <3>1
  <2>5. u.exclusive = v /\ ~ u.isShared /\ ~ u.isSharedPreRaster
    <3>1. Unread(w).exclusive = v /\ ~ Unread(w).isShared /\ ~ Unread(w).isSharedPreRaster
      BY UnreadIs
    <3> HIDE DEF u, w
    <3> QED
      BY <2>3, <3>1
  <2> QED
    BY <1>4, <2>4, <2>5 DEF a
<1>6. CASE ~ InPass(t, v)
  <2>1. a = FirstWrite(t, v, w, IF IsLastAccess(t, v + 1) \/ IsLastAccess(t, v)
                                THEN afterReads ELSE {})
    BY <1>1, <1>6 DEF AccessExclusivePreRaster, InPass
  <2>2. u = [Unread(w) EXCEPT !.shared = <<>>]
        /\ a.barriers = IF IsSeen(t, v) THEN afterReads ELSE {}
    BY <1>6, <2>1 DEF FirstWrite, Answer, IsSeen
  <2>3. IsSeen(t, v) => t.isSharedPreRaster /\ ~ t.isShared
    BY <1>6, <1>1 DEF FlagsFit, IsSeen
  <2>4. IsSeen(t, v) => afterReads = { <<"pre_raster", "RW">> }
    BY <2>3 DEF BarriersAfterReads
  <2>5. u.exclusive = v /\ ~ u.isShared /\ ~ u.isSharedPreRaster
    BY <2>2, UnreadIs
  <2> HIDE DEF a, afterReads
  <2>6. \A b \in a.barriers : b[1] = "pre_raster"
    BY <2>2, <2>4
  <2>7. IsSeen(t, v) => a.barriers # {}
    BY <2>2, <2>4
  <2> QED
    BY <1>4, <2>5, <2>6, <2>7 DEF a
<1> QED
  BY <1>5, <1>6

LEMMA FirstSharedFragment ==
  ASSUME NEW t \in Tracker, NEW id \in Nat, NEW vertex \in Nat, id - 1 = vertex,
         t.exclusive \notin {id, vertex}, ~ IsLastAccess(t, id)
  PROVE  LET a == AccessSharedFragment(t, id)
             u == a.tracker
         IN  /\ a.barriers = {} /\ a.waits = LastWriter(t, id)
             /\ u \in Tracker /\ u.shared = AddShared(t, id) /\ u.isShared
             /\ u.exclusive = t.exclusive
             /\ u.isSharedPreRaster <=> IsLastAccess(t, vertex) /\ t.isSharedPreRaster
             /\ u.lastWriteFromPreRaster = t.lastWriteFromPreRaster
<1> DEFINE a == AccessSharedFragment(t, id)
           read == [t EXCEPT !.isShared = TRUE]
           s == AddShared(t, id)
           pre == IF IsLastAccess(t, vertex) THEN read.isSharedPreRaster ELSE FALSE
           u == [read EXCEPT !.shared = s, !.isSharedPreRaster = pre]
<1>1. a = Answer(u, LastWriter(t, id), {})
  BY DEF AccessSharedFragment
<1>2. /\ read \in Tracker /\ read.isShared /\ read.exclusive = t.exclusive
      /\ read.isSharedPreRaster = t.isSharedPreRaster
      /\ read.lastWriteFromPreRaster = t.lastWriteFromPreRaster
  BY DEF Tracker
<1> HIDE DEF a, read
<1>3. /\ pre \in BOOLEAN /\ s \in Seq(Nat)
      /\ pre <=> IsLastAccess(t, vertex) /\ t.isSharedPreRaster
  BY <1>2, AddSharedIs DEF Tracker
<1> HIDE DEF s, pre
<1>4. /\ u \in Tracker /\ u.shared = s /\ u.isShared /\ u.exclusive = t.exclusive
      /\ u.isSharedPreRaster = pre
      /\ u.lastWriteFromPreRaster = t.lastWriteFromPreRaster
  BY <1>2, <1>3 DEF Tracker
<1> HIDE DEF u
<1>5. a.tracker = u /\ a.barriers = {} /\ a.waits = LastWriter(t, id)
  BY <1>1 DEF Answer
<1> QED
  BY <1>3, <1>4, <1>5 DEF a, s

LEMMA PixelRead ==
  ASSUME NEW t \in Tracker, NEW v \in Nat, NEW used \in BOOLEAN, NEW written \in BOOLEAN,
         NEW e, e.type = "render",
         FlagsFit(t, v, used, written), NEW mode, ~ IsWrite(mode)
  PROVE  /\ FlagsFit(AccessSharedFragment(t, v + 1).tracker, v, TRUE, written)
         /\ RenderKeeps(t, AccessSharedFragment(t, v + 1), v, written, written, e, "pixel", mode)
<1> DEFINE a == AccessSharedFragment(t, v + 1)
           u == a.tracker
           read == [t EXCEPT !.isShared = TRUE]
<1>1. v # v + 1 /\ v + 1 - 1 = v /\ v + 1 \in Nat
  OBVIOUS
<1> SUFFICES /\ FlagsFit(u, v, TRUE, written)
             /\ RenderKeeps(t, a, v, written, written, e, "pixel", mode)
  OBVIOUS
<1>2. /\ read \in Tracker /\ read.exclusive = t.exclusive /\ read.shared = t.shared
      /\ read.isShared /\ read.isSharedPreRaster = t.isSharedPreRaster
      /\ read.lastWriteFromPreRaster = t.lastWriteFromPreRaster
  BY DEF Tracker
<1>3. CASE (InPass(t, v) /\ t.isShared) \/ (~ InPass(t, v) /\ IsLastAccess(t, v + 1))
  <2>1. a = Nothing(t)
    BY <1>1, <1>3 DEF AccessSharedFragment, InPass
  <2>2. u = t /\ a.barriers = {}
    BY <2>1 DEF Nothing, Answer
  <2>3. IsSeen(t, v) /\ t.isShared
    BY <1>3 DEF IsSeen, FlagsFit
  <2> HIDE DEF a
  <2>4. FlagsFit(u, v, TRUE, written)
    BY <2>2 DEF FlagsFit
  <2> QED
    BY <2>2, <2>3, <2>4 DEF RenderKeeps, RenderRemembers
<1>4. CASE InPass(t, v) /\ ~ t.isShared
  <2> DEFINE barriers ==
        CASE t.isSharedPreRaster -> {}
          [] ~t.isSharedPreRaster /\ (t.exclusive = v \/ t.lastWriteFromPreRaster) ->
               { <<"fragment_after_pre_raster", "RW">> }
          [] OTHER -> { <<"barrier", "RW">> }
  <2> HIDE DEF barriers
  <2>1. a = Answer(read, {}, barriers)
    BY <1>1, <1>4 DEF AccessSharedFragment, InPass, barriers
  <2>2. u = read /\ a.barriers = barriers
    <3> HIDE DEF a, read
    <3> QED
      BY <2>1 DEF Answer
  <2> HIDE DEF a, read
  <2>3. InPass(u, v) /\ IsSeen(u, v) /\ FlagsFit(u, v, TRUE, written)
    BY <1>2, <1>4, <2>2 DEF InPass, IsSeen, FlagsFit
  <2>4. \A b \in a.barriers : b[1] # "pre_raster_after_fragment"
    <3>1. \/ a.barriers = {} \/ a.barriers = { <<"fragment_after_pre_raster", "RW">> }
          \/ a.barriers = { <<"barrier", "RW">> }
      BY <2>2 DEF barriers
    <3> QED
      BY <3>1
  <2>5. ASSUME NEW x, x.stage \in {"vertex", "pixel"}, RenderRemembers(t, v, written, x),
               IsWrite(x.mode), x.to = "pixel"
        PROVE  IsOrdered(a.barriers, x, e)
    <3>1. CASE x.stage = "vertex"
      <4>1. ~ t.isSharedPreRaster /\ t.exclusive = v
        BY <2>5, <3>1 DEF RenderRemembers
      <4>2. a.barriers = { <<"fragment_after_pre_raster", "RW">> }
        BY <2>2, <4>1 DEF barriers
      <4>3. <<"fragment_after_pre_raster", "RW">> \in a.barriers
        BY <4>2
      <4> QED
        BY <2>5, <3>1, <4>3, BarriersOrder
    <3>2. CASE x.stage = "pixel"
      <4>1. ~ t.isSharedPreRaster /\ t.exclusive = v + 1
        BY <2>5, <3>2 DEF RenderRemembers
      <4>2. ~ t.lastWriteFromPreRaster /\ t.exclusive # v
        BY <1>1, <4>1 DEF FlagsFit
      <4>3. a.barriers = { <<"barrier", "RW">> }
        BY <2>2, <4>1, <4>2 DEF barriers
      <4>4. <<"barrier", "RW">> \in a.barriers
        BY <4>3
      <4> QED
        BY <2>5, <3>2, <4>4, BarriersOrder
    <3> QED
      BY <2>5, <3>1, <3>2
  <2>6. ASSUME NEW x, x.stage \in {"vertex", "pixel"}, RenderRemembers(t, v, written, x),
               ~ (IsWrite(x.mode) /\ x.to = "pixel")
        PROVE  RenderRemembers(u, v, written, x)
    BY <1>2, <1>4, <2>2, <2>3, <2>6 DEF RenderRemembers
  <2>7. \A x : x.stage = "pixel" /\ x.mode = mode => RenderRemembers(u, v, written, x)
    BY <1>2, <2>2, <2>3 DEF RenderRemembers
  <2> QED
    <3> HIDE DEF u
    <3>1. ~ IsWrite(mode)
      OBVIOUS
    <3>2. FlagsFit(u, v, TRUE, written)
      BY <2>3
    <3>3. ASSUME NEW x, x.stage \in {"vertex", "pixel"}, RenderRemembers(t, v, written, x)
          PROVE  /\ RenderRemembers(u, v, written, x) \/ IsOrdered(a.barriers, x, e)
                 /\ x.to = "pixel" /\ (IsWrite(x.mode) \/ IsWrite(mode)) =>
                      IsOrdered(a.barriers, x, e)
      BY ONLY <3>1, <3>3, <2>5, <2>6
    <3>4. RenderKeeps(t, a, v, written, written, e, "pixel", mode)
      <4>1. \A x : x.stage = "pixel" /\ x.mode = mode => RenderRemembers(a.tracker, v, written, x)
        BY ONLY <2>7 DEF u
      <4>2. ASSUME NEW x, x.stage \in {"vertex", "pixel"}, RenderRemembers(t, v, written, x)
            PROVE  RenderRemembers(a.tracker, v, written, x) \/ IsOrdered(a.barriers, x, e)
        BY ONLY <3>3, <4>2 DEF u
      <4>3. ASSUME NEW x, x.stage \in {"vertex", "pixel"}, RenderRemembers(t, v, written, x),
                   x.to = "pixel", IsWrite(x.mode) \/ IsWrite(mode)
            PROVE  IsOrdered(a.barriers, x, e)
        BY ONLY <3>3, <4>3 DEF u
      <4> QED
        BY ONLY <2>4, <4>1, <4>2, <4>3 DEF RenderKeeps
    <3> QED
      BY ONLY <3>2, <3>4
<1>5. CASE ~ InPass(t, v) /\ ~ IsLastAccess(t, v + 1)
  <2> DEFINE s == AddShared(t, v + 1)
  <2>1. v + 1 - 1 = v /\ t.exclusive \notin {v + 1, v} /\ ~ IsLastAccess(t, v + 1)
    BY <1>1, <1>5 DEF InPass
  <2> HIDE DEF a
  <2>2. /\ u.shared = s /\ u.exclusive = t.exclusive /\ u.isShared /\ a.barriers = {}
        /\ u.isSharedPreRaster <=> IsLastAccess(t, v) /\ t.isSharedPreRaster
        /\ u.lastWriteFromPreRaster = t.lastWriteFromPreRaster
    BY <1>1, <2>1, FirstSharedFragment DEF a
  <2>3. s \in Seq(Nat) /\ s # <<>> /\ Head(s) = v + 1
    BY <1>1, AddSharedIs
  <2> HIDE DEF s
  <2>5. ~ InPass(u, v) /\ IsLastAccess(u, v + 1) /\ ~ IsLastAccess(u, v) /\ IsSeen(u, v)
    BY <1>1, <1>5, <2>3, <2>2 DEF InPass, IsLastAccess, IsSeen
  <2>6. FlagsFit(u, v, TRUE, written)
    BY <1>5, <2>2, <2>5 DEF FlagsFit, InPass
  <2>7. ASSUME NEW x, x.stage \in {"vertex", "pixel"}, RenderRemembers(t, v, written, x)
        PROVE  RenderRemembers(u, v, written, x) /\ ~ (IsWrite(x.mode) /\ x.to = "pixel")
    BY <1>1, <1>5, <2>2, <2>5, <2>7 DEF RenderRemembers, InPass, IsSeen
  <2>8. \A x : x.stage = "pixel" /\ x.mode = mode => RenderRemembers(u, v, written, x)
    BY <2>2, <2>5 DEF RenderRemembers
  <2> QED
    <3> HIDE DEF u
    <3>1. ~ IsWrite(mode) /\ \A b \in a.barriers : b[1] /= "pre_raster_after_fragment"
      BY <2>2
    <3>2. ASSUME NEW x, x.stage \in {"vertex", "pixel"}, RenderRemembers(t, v, written, x)
          PROVE  /\ RenderRemembers(u, v, written, x) \/ IsOrdered(a.barriers, x, e)
                 /\ x.to = "pixel" /\ (IsWrite(x.mode) \/ IsWrite(mode)) =>
                      IsOrdered(a.barriers, x, e)
      BY ONLY <3>1, <3>2, <2>7
    <3>3. RenderKeeps(t, a, v, written, written, e, "pixel", mode)
      <4>1. \A x : x.stage = "pixel" /\ x.mode = mode => RenderRemembers(a.tracker, v, written, x)
        BY ONLY <2>8 DEF u
      <4>2. ASSUME NEW x, x.stage \in {"vertex", "pixel"}, RenderRemembers(t, v, written, x)
            PROVE  RenderRemembers(a.tracker, v, written, x) \/ IsOrdered(a.barriers, x, e)
        BY ONLY <3>2, <4>2 DEF u
      <4>3. ASSUME NEW x, x.stage \in {"vertex", "pixel"}, RenderRemembers(t, v, written, x),
                   x.to = "pixel", IsWrite(x.mode) \/ IsWrite(mode)
            PROVE  IsOrdered(a.barriers, x, e)
        BY ONLY <3>2, <4>3 DEF u
      <4> QED
        BY ONLY <3>1, <4>1, <4>2, <4>3 DEF RenderKeeps
    <3> QED
      BY ONLY <2>6, <3>3
<1> QED
  BY <1>3, <1>4, <1>5

LEMMA PixelWrite ==
  ASSUME NEW t \in Tracker, NEW v \in Nat, NEW used \in BOOLEAN, NEW written \in BOOLEAN,
         NEW e, e.type = "render",
         FlagsFit(t, v, used, written), NEW mode, IsWrite(mode), NEW uav \in BOOLEAN,
         NEW after \in BOOLEAN, after
  PROVE  /\ FlagsFit(AccessExclusiveFragment(t, v + 1, uav).tracker, v, after, after)
         /\ RenderKeeps(t, AccessExclusiveFragment(t, v + 1, uav), v, written, after, e, "pixel", mode)
<1> DEFINE a == AccessExclusiveFragment(t, v + 1, uav)
           u == a.tracker
           w == [t EXCEPT !.exclusive = v + 1, !.lastWriteFromPreRaster = FALSE]
           afterReads == BarriersAfterReads(t, "fragment_after_pre_raster", "barrier")
           onWrite == IF t.exclusive = v \/ t.lastWriteFromPreRaster
                      THEN { <<"fragment_after_pre_raster", Hazard(uav)>> }
                      ELSE { <<"barrier", Hazard(uav)>> }
<1>1. v # v + 1 /\ v + 1 - 1 = v /\ v + 1 \in Nat
  OBVIOUS
<1> SUFFICES /\ FlagsFit(u, v, after, after)
             /\ RenderKeeps(t, a, v, written, after, e, "pixel", mode)
  OBVIOUS
<1>2. /\ u.exclusive = v + 1 /\ ~ u.isShared /\ ~ u.isSharedPreRaster /\ ~ u.lastWriteFromPreRaster
      /\ a.barriers = IF InPass(t, v) THEN IF IsUnread(t) THEN onWrite ELSE afterReads
                      ELSE IF IsSeen(t, v) THEN afterReads ELSE {}
  <2>1. /\ w \in Tracker /\ w.exclusive = v + 1 /\ ~ w.lastWriteFromPreRaster
    <3> DEFINE f == [t EXCEPT !.exclusive = v + 1]
    <3>1. f \in Tracker /\ f.exclusive = v + 1
      BY <1>1 DEF Tracker
    <3> DEFINE g == [f EXCEPT !.lastWriteFromPreRaster = FALSE]
    <3>2. w = g
      OBVIOUS
    <3> HIDE DEF f, w
    <3>3. g \in Tracker /\ g.exclusive = v + 1 /\ ~ g.lastWriteFromPreRaster
      BY <3>1 DEF Tracker
    <3> QED
      BY <3>2, <3>3
  <2> DEFINE unread == Unread(w)
             none == [unread EXCEPT !.shared = <<>>]
  <2> HIDE DEF w, afterReads, onWrite
  <2>2. /\ unread \in Tracker /\ unread.exclusive = v + 1 /\ ~ unread.isShared
        /\ ~ unread.isSharedPreRaster /\ ~ unread.lastWriteFromPreRaster
    BY <2>1 DEF Tracker, Unread
  <2> HIDE DEF unread
  <2>3. /\ none.exclusive = v + 1 /\ ~ none.isShared
        /\ ~ none.isSharedPreRaster /\ ~ none.lastWriteFromPreRaster
    BY <2>2 DEF Tracker
  <2> HIDE DEF none
  <2>4. CASE InPass(t, v)
    <3>1. t.exclusive \in {v + 1, v + 1 - 1}
      BY <1>1, <2>4 DEF InPass
    <3>2. a = Answer(unread, {}, IF IsUnread(t) THEN onWrite ELSE afterReads)
      BY <1>1, <3>1 DEF AccessExclusiveFragment, unread, w, afterReads, onWrite
    <3> HIDE DEF a
    <3> QED
      BY <2>2, <2>4, <3>2 DEF Answer
  <2>5. CASE ~ InPass(t, v)
    <3>1. t.exclusive \notin {v + 1, v + 1 - 1}
      BY <1>1, <2>5 DEF InPass
    <3>2. a = FirstWrite(t, v + 1, w, IF IsLastAccess(t, v + 1) \/ IsLastAccess(t, v)
                                      THEN afterReads ELSE {})
      BY <1>1, <3>1 DEF AccessExclusiveFragment, w, afterReads
    <3> HIDE DEF a
    <3>3. u = none /\ a.barriers = IF IsLastAccess(t, v + 1) \/ IsLastAccess(t, v)
                                   THEN afterReads ELSE {}
      BY <3>2 DEF FirstWrite, Answer, none, unread
    <3> QED
      BY <2>3, <2>5, <3>3 DEF IsSeen
  <2> QED
    BY <2>4, <2>5
<1> HIDE DEF a, w
<1>3. FlagsFit(u, v, after, after) /\ InPass(u, v) /\ IsSeen(u, v)
  BY <1>1, <1>2 DEF FlagsFit, InPass, IsSeen
<1>4. \A b \in a.barriers : b[1] # "pre_raster_after_fragment"
  <2>1. \A b \in onWrite : b[1] # "pre_raster_after_fragment"
    <3>1. \/ onWrite = { <<"fragment_after_pre_raster", Hazard(uav)>> }
          \/ onWrite = { <<"barrier", Hazard(uav)>> }
      OBVIOUS
    <3> HIDE DEF onWrite
    <3> QED
      BY <3>1
  <2>2. \A b \in afterReads : b[1] # "pre_raster_after_fragment"
    BY DEF BarriersAfterReads
  <2> HIDE DEF onWrite, afterReads
  <2> QED
    BY <1>2, <2>1, <2>2
<1>5. ASSUME NEW x, x.stage \in {"vertex", "pixel"}, RenderRemembers(t, v, written, x),
             x.to = "pixel"
      PROVE  IsOrdered(a.barriers, x, e)
  <2>1. CASE IsWrite(x.mode)
    <3>1. InPass(t, v) /\ IsUnread(t)
      BY <1>5, <2>1 DEF RenderRemembers, InPass, IsUnread
    <3>2. a.barriers = onWrite
      BY <1>2, <3>1
    <3>3. CASE x.stage = "vertex"
      <4>1. t.exclusive = v
        BY <1>5, <2>1, <3>3 DEF RenderRemembers
      <4>2. <<"fragment_after_pre_raster", Hazard(uav)>> \in a.barriers
        BY <3>2, <4>1
      <4> HIDE DEF onWrite
      <4> QED
        BY <1>5, <3>3, <4>2, BarriersOrder
    <3>4. CASE x.stage = "pixel"
      <4>1. t.exclusive = v + 1
        BY <1>5, <2>1, <3>4 DEF RenderRemembers
      <4>2. t.exclusive # v /\ ~ t.lastWriteFromPreRaster
        BY <1>1, <4>1 DEF FlagsFit
      <4>3. <<"barrier", Hazard(uav)>> \in a.barriers
        BY <3>2, <4>2
      <4> HIDE DEF onWrite
      <4> QED
        BY <1>5, <3>4, <4>3, BarriersOrder
    <3> QED
      BY <1>5, <3>3, <3>4
  <2>2. CASE ~ IsWrite(x.mode)
    <3>1. /\ IsSeen(t, v)
          /\ x.stage = "vertex" => t.isSharedPreRaster
          /\ x.stage = "pixel" => t.isShared
      BY <1>5, <2>2 DEF RenderRemembers
    <3>2. a.barriers = afterReads
      <4>1. ~ IsUnread(t)
        BY <1>5, <3>1 DEF IsUnread
      <4> HIDE DEF afterReads, onWrite
      <4> QED
        BY <1>2, <3>1, <4>1
    <3>3. /\ x.stage = "vertex" => <<"fragment_after_pre_raster", "RW">> \in afterReads
          /\ x.stage = "pixel" => <<"barrier", "RW">> \in afterReads
      BY <1>5, <3>1 DEF BarriersAfterReads
    <3> HIDE DEF afterReads, onWrite
    <3> QED
      BY <1>5, <3>2, <3>3, BarriersOrder
  <2> QED
    BY <2>1, <2>2
<1>6. ASSUME NEW x, x.stage \in {"vertex", "pixel"}, RenderRemembers(t, v, written, x),
             x.to = "vertex"
      PROVE  RenderRemembers(u, v, after, x)
  BY <1>2, <1>3, <1>6 DEF RenderRemembers
<1>7. \A x : x.stage = "pixel" /\ x.mode = mode => RenderRemembers(u, v, after, x)
  BY <1>2, <1>3 DEF RenderRemembers
<1> HIDE DEF u
<1>8. RenderKeeps(t, a, v, written, after, e, "pixel", mode)
  <2>1. \A x : x.stage = "pixel" /\ x.mode = mode => RenderRemembers(a.tracker, v, after, x)
    BY ONLY <1>7 DEF u
  <2>2. ASSUME NEW x, x.stage \in {"vertex", "pixel"}, x.to \in {"vertex", "pixel"},
               RenderRemembers(t, v, written, x)
        PROVE  RenderRemembers(a.tracker, v, after, x) \/ IsOrdered(a.barriers, x, e)
    <3>1. x.stage \in {"vertex", "pixel"} /\ RenderRemembers(t, v, written, x)
      BY <2>2
    <3>2. CASE x.to = "pixel"
      <4>1. IsOrdered(a.barriers, x, e)
        BY <1>5, <3>1, <3>2
      <4> QED
        BY <4>1
    <3>3. CASE x.to = "vertex"
      <4>1. RenderRemembers(a.tracker, v, after, x)
        BY ONLY <1>6, <3>1, <3>3 DEF u
      <4> QED
        BY <4>1
    <3> QED
      BY <2>2, <3>2, <3>3
  <2>3. ASSUME NEW x, x.stage \in {"vertex", "pixel"}, RenderRemembers(t, v, written, x),
               x.to = "pixel"
        PROVE  IsOrdered(a.barriers, x, e)
    BY <1>5, <2>3
  <2> QED
    BY ONLY <1>4, <2>1, <2>2, <2>3 DEF RenderKeeps
<1> QED
  BY ONLY <1>3, <1>8

-----------------------------------------------------------------------------
(* Every access leaves a tracker.                                          *)

LEMMA AccessSharedFollows ==
  ASSUME NEW t \in Tracker, NEW id \in Nat
  PROVE  Follows(t, AccessShared(t, id).tracker, id)
<1> DEFINE u == AccessShared(t, id).tracker
<1>1. \/ u = t \/ u = [t EXCEPT !.isShared = TRUE] \/ u = [t EXCEPT !.shared = AddShared(t, id)]
  BY DEF AccessShared, Answer, Nothing
<1>2. AddShared(t, id) \in Seq(Nat)
  BY AddSharedIs
<1> HIDE DEF u
<1>3. u \in Tracker /\ u.exclusive = t.exclusive /\ u.shared \in {t.shared, AddShared(t, id)}
  BY <1>1, <1>2 DEF Tracker
<1> QED
  BY <1>3, FollowsIf DEF u

LEMMA AccessExclusiveFollows ==
  ASSUME NEW t \in Tracker, NEW id \in Nat, NEW uav
  PROVE  Follows(t, AccessExclusive(t, id, uav).tracker, id)
<1> DEFINE u == AccessExclusive(t, id, uav).tracker
           read == [t EXCEPT !.isShared = FALSE]
           none == [read EXCEPT !.shared = <<>>]
           writer == [none EXCEPT !.exclusive = id]
<1>1. u = read \/ u = writer
  BY DEF AccessExclusive, Answer
<1> HIDE DEF u, read
<1>2. read \in Tracker /\ read.exclusive = t.exclusive /\ read.shared = t.shared
  BY DEF Tracker, read
<1>3. <<>> \in Seq(Nat)
  OBVIOUS
<1>4. none \in Tracker /\ none.shared = <<>>
  BY <1>2, <1>3 DEF Tracker
<1> HIDE DEF none
<1>5. writer \in Tracker /\ writer.exclusive = id /\ writer.shared = <<>>
  BY <1>4 DEF Tracker
<1> HIDE DEF writer
<1>6. u \in Tracker /\ u.exclusive \in {t.exclusive, id} /\ u.shared \in {t.shared, <<>>}
  BY <1>1, <1>2, <1>5
<1> QED
  BY <1>6, FollowsIf DEF u

LEMMA AccessSharedPreRasterFollows ==
  ASSUME NEW t \in Tracker, NEW id \in Nat
  PROVE  Follows(t, AccessSharedPreRaster(t, id).tracker, id)
<1> DEFINE u == AccessSharedPreRaster(t, id).tracker
           read == [t EXCEPT !.isSharedPreRaster = TRUE]
           added == [read EXCEPT !.shared = AddShared(t, id)]
           vertex == [added EXCEPT !.isShared = FALSE]
<1>1. u = t \/ u = read \/ u = vertex
  BY DEF AccessSharedPreRaster, Answer, Nothing
<1>2. AddShared(t, id) \in Seq(Nat)
  BY AddSharedIs
<1> HIDE DEF u, read
<1>3. read \in Tracker /\ read.exclusive = t.exclusive /\ read.shared = t.shared
  BY DEF Tracker, read
<1>4. added \in Tracker /\ added.exclusive = t.exclusive /\ added.shared = AddShared(t, id)
  BY <1>2, <1>3 DEF Tracker
<1> HIDE DEF added
<1>5. vertex \in Tracker /\ vertex.exclusive = t.exclusive /\ vertex.shared = AddShared(t, id)
  BY <1>4 DEF Tracker
<1> HIDE DEF vertex
<1>6. u \in Tracker /\ u.exclusive = t.exclusive /\ u.shared \in {t.shared, AddShared(t, id)}
  BY <1>1, <1>3, <1>5
<1> QED
  BY <1>6, FollowsIf DEF u

LEMMA UnreadFollows ==
  ASSUME NEW t \in Tracker
  PROVE  Unread(t) \in Tracker /\ Unread(t).exclusive = t.exclusive /\ Unread(t).shared = t.shared
<1> DEFINE read == [t EXCEPT !.isShared = FALSE]
           u == [read EXCEPT !.isSharedPreRaster = FALSE]
<1>1. read \in Tracker /\ read.exclusive = t.exclusive /\ read.shared = t.shared
  BY DEF Tracker
<1> HIDE DEF read
<1>2. u \in Tracker /\ u.exclusive = t.exclusive /\ u.shared = t.shared
  BY <1>1 DEF Tracker
<1> QED
  BY <1>2 DEF Unread, read

(* "w" is the tracker with its new writer. *)
LEMMA WriteFollows ==
  ASSUME NEW t \in Tracker, NEW id \in Nat,
         NEW w \in Tracker, w.exclusive = id, w.shared = t.shared
  PROVE  /\ Follows(t, Unread(w), id)
         /\ Follows(t, [Unread(w) EXCEPT !.lastWriteFromPreRaster = TRUE], id)
         /\ Follows(t, [Unread(w) EXCEPT !.shared = <<>>], id)
<1> DEFINE u == Unread(w)
           last == [u EXCEPT !.lastWriteFromPreRaster = TRUE]
           none == [u EXCEPT !.shared = <<>>]
<1>1. u \in Tracker /\ u.exclusive = id /\ u.shared = t.shared
  BY UnreadFollows
<1> HIDE DEF u
<1>2. <<>> \in Seq(Nat)
  OBVIOUS
<1>3. last \in Tracker /\ last.exclusive = id /\ last.shared = t.shared
  BY <1>1 DEF Tracker
<1>4. none \in Tracker /\ none.exclusive = id /\ none.shared = <<>>
  BY <1>1, <1>2 DEF Tracker
<1> HIDE DEF last, none
<1>5. Follows(t, u, id) /\ Follows(t, last, id) /\ Follows(t, none, id)
  BY <1>1, <1>3, <1>4, FollowsIf
<1> QED
  BY <1>5 DEF u, last, none

LEMMA AccessExclusivePreRasterFollows ==
  ASSUME NEW t \in Tracker, NEW id \in Nat, NEW uav
  PROVE  Follows(t, AccessExclusivePreRaster(t, id, uav).tracker, id)
<1> DEFINE u == AccessExclusivePreRaster(t, id, uav).tracker
           w == [t EXCEPT !.exclusive = id]
<1>1. \/ u = [Unread(w) EXCEPT !.lastWriteFromPreRaster = TRUE] \/ u = Unread(w)
      \/ u = [Unread(w) EXCEPT !.shared = <<>>]
  BY DEF AccessExclusivePreRaster, Answer, FirstWrite
<1> HIDE DEF u
<1>2. w \in Tracker /\ w.exclusive = id /\ w.shared = t.shared
  BY DEF Tracker
<1> HIDE DEF w
<1> QED
  BY <1>1, <1>2, WriteFollows DEF u

LEMMA FragmentFollows ==
  ASSUME NEW t \in Tracker, NEW id \in Nat, NEW uav
  PROVE  /\ id # 0 => Follows(t, AccessSharedFragment(t, id).tracker, id)
         /\ Follows(t, AccessExclusiveFragment(t, id, uav).tracker, id)
<1>1. ASSUME id # 0 PROVE Follows(t, AccessSharedFragment(t, id).tracker, id)
  <2> DEFINE u == AccessSharedFragment(t, id).tracker
  <2>1. CASE t.exclusive \in {id, id - 1} \/ IsLastAccess(t, id)
    <3>1. u = t \/ u = [t EXCEPT !.isShared = TRUE]
      BY <2>1 DEF AccessSharedFragment, Answer, Nothing
    <3> HIDE DEF u
    <3>2. u \in Tracker /\ u.exclusive = t.exclusive /\ u.shared = t.shared
      BY <3>1 DEF Tracker
    <3> QED
      BY <3>2, FollowsIf DEF u
  <2>2. CASE t.exclusive \notin {id, id - 1} /\ ~ IsLastAccess(t, id)
    <3>1. id - 1 \in Nat
      BY <1>1
    <3> HIDE DEF u
    <3>2. u \in Tracker /\ u.exclusive = t.exclusive /\ u.shared = AddShared(t, id)
      BY <2>2, <3>1, FirstSharedFragment DEF u
    <3> QED
      BY <3>2, FollowsIf DEF u
  <2> QED
    BY <2>1, <2>2
<1>2. Follows(t, AccessExclusiveFragment(t, id, uav).tracker, id)
  <2> DEFINE u == AccessExclusiveFragment(t, id, uav).tracker
             x == [t EXCEPT !.exclusive = id]
             w == [x EXCEPT !.lastWriteFromPreRaster = FALSE]
  <2>1. u = Unread(w) \/ u = [Unread(w) EXCEPT !.shared = <<>>]
    BY DEF AccessExclusiveFragment, Answer, FirstWrite
  <2> HIDE DEF u, x
  <2>2. x \in Tracker /\ x.exclusive = id /\ x.shared = t.shared
    BY DEF Tracker, x
  <2>3. w \in Tracker /\ w.exclusive = id /\ w.shared = t.shared
    BY <2>2 DEF Tracker
  <2> HIDE DEF w
  <2>4. /\ Follows(t, Unread(w), id)
        /\ Follows(t, [Unread(w) EXCEPT !.shared = <<>>], id)
    BY <2>3, WriteFollows
  <2>5. Follows(t, u, id)
    BY ONLY <2>1, <2>4
  <2> QED
    BY <2>5 DEF u
<1> QED
  BY <1>1, <1>2

(* The id of the stage that accesses. *)
IdOf(e, stage) == IF stage = "vertex" THEN e.vertex ELSE e.id

LEMMA AnswerFollows ==
  ASSUME NEW t \in Tracker, NEW e, NEW stage \in {"compute", "vertex", "pixel"}, NEW mode,
         e.id \in Nat \ {0}, stage = "vertex" => e.vertex \in Nat
  PROVE  Follows(t, AnswerTo(e, t, stage, mode).tracker, IdOf(e, stage))
<1>1. CASE stage = "compute" /\ IsWrite(mode)
  BY <1>1, AccessExclusiveFollows DEF AnswerTo, IdOf
<1>2. CASE stage = "compute" /\ ~ IsWrite(mode)
  BY <1>2, AccessSharedFollows DEF AnswerTo, IdOf
<1>3. CASE stage = "vertex" /\ IsWrite(mode)
  BY <1>3, AccessExclusivePreRasterFollows DEF AnswerTo, IdOf
<1>4. CASE stage = "vertex" /\ ~ IsWrite(mode)
  BY <1>4, AccessSharedPreRasterFollows DEF AnswerTo, IdOf
<1>5. CASE stage = "pixel" /\ IsWrite(mode)
  BY <1>5, FragmentFollows DEF AnswerTo, IdOf
<1>6. CASE stage = "pixel" /\ ~ IsWrite(mode)
  BY <1>6, FragmentFollows DEF AnswerTo, IdOf
<1> QED
  BY <1>1, <1>2, <1>3, <1>4, <1>5, <1>6

LEMMA PixelsNeverOmit ==
  ASSUME NEW t, NEW e, NEW mode
  PROVE  \A b \in AnswerTo(e, t, "pixel", mode).barriers : b[1] # "pre_raster_after_fragment"
<1> DEFINE barriers == AnswerTo(e, t, "pixel", mode).barriers
           afterReads == BarriersAfterReads(t, "fragment_after_pre_raster", "barrier")
<1>1. \A b \in afterReads : b[1] # "pre_raster_after_fragment"
  BY DEF BarriersAfterReads
<1> HIDE DEF afterReads
<1>2. \/ barriers = {} \/ barriers = afterReads
      \/ \E h : barriers = { <<"fragment_after_pre_raster", h>> }
      \/ \E h : barriers = { <<"barrier", h>> }
  <2>1. CASE IsWrite(mode)
    BY <2>1 DEF AnswerTo, AccessExclusiveFragment, FirstWrite, Answer, afterReads
  <2>2. CASE ~ IsWrite(mode)
    BY <2>2 DEF AnswerTo, AccessSharedFragment, Nothing, Answer
  <2> QED
    BY <2>1, <2>2
<1> HIDE DEF barriers
<1>3. \A b \in barriers : b[1] # "pre_raster_after_fragment"
  BY <1>1, <1>2
<1> QED
  BY <1>3 DEF barriers

(* What an access of a compute pass does with what is remembered of x.     *)
ComputeKeeps(t, a, id, mode) ==
  /\ \A x : ComputeRemembers(t, id, x) =>
       /\ ComputeRemembers(a.tracker, id, x) \/ <<"barrier", "RW">> \in a.barriers
       /\ IsWrite(x.mode) \/ IsWrite(mode) =>
            /\ \E h : <<"barrier", h>> \in a.barriers
            /\ ~ IsWrite(mode) => <<"barrier", "RW">> \in a.barriers
  /\ \A x : x.mode = mode => ComputeRemembers(a.tracker, id, x)

LEMMA ComputeRead ==
  ASSUME NEW t \in Tracker, NEW id \in Nat, NEW mode, ~ IsWrite(mode)
  PROVE  ComputeKeeps(t, AccessShared(t, id), id, mode)
<1> DEFINE a == AccessShared(t, id)
           u == a.tracker
<1> SUFFICES ComputeKeeps(t, a, id, mode)
  OBVIOUS
<1>1. CASE t.exclusive = id /\ ~ t.isShared
  <2>1. u = [t EXCEPT !.isShared = TRUE] /\ a.barriers = { <<"barrier", "RW">> }
    BY <1>1 DEF AccessShared, Answer
  <2> HIDE DEF a
  <2>2. u.exclusive = id
    BY <1>1, <2>1 DEF Tracker
  <2> QED
    BY <1>1, <2>1, <2>2 DEF ComputeKeeps, ComputeRemembers
<1>2. CASE (t.exclusive = id /\ t.isShared) \/ (t.exclusive # id /\ IsLastAccess(t, id))
  <2>1. u = t /\ a.barriers = {}
    BY <1>2 DEF AccessShared, Nothing, Answer
  <2> HIDE DEF a
  <2> QED
    BY <1>2, <2>1 DEF ComputeKeeps, ComputeRemembers
<1>3. CASE t.exclusive # id /\ ~ IsLastAccess(t, id)
  <2>1. AddShared(t, id) \in Seq(Nat) /\ AddShared(t, id) # <<>> /\ Head(AddShared(t, id)) = id
    BY AddSharedIs
  <2>2. u = [t EXCEPT !.shared = AddShared(t, id)] /\ a.barriers = {}
    BY <1>3 DEF AccessShared, Answer
  <2> HIDE DEF a
  <2>3. u.shared = AddShared(t, id)
    BY <2>1, <2>2 DEF Tracker
  <2>4. IsLastAccess(u, id)
    BY <2>1, <2>3 DEF IsLastAccess
  <2>5. \A x : ~ ComputeRemembers(t, id, x)
    BY <1>3 DEF ComputeRemembers
  <2>6. \A x : ~ IsWrite(x.mode) => ComputeRemembers(u, id, x)
    BY <2>4 DEF ComputeRemembers
  <2> QED
    BY <2>5, <2>6 DEF ComputeKeeps
<1> QED
  BY <1>1, <1>2, <1>3

LEMMA ComputeWrite ==
  ASSUME NEW t \in Tracker, NEW id \in Nat, NEW mode, IsWrite(mode), NEW uav
  PROVE  ComputeKeeps(t, AccessExclusive(t, id, uav), id, mode)
<1> DEFINE a == AccessExclusive(t, id, uav)
           u == a.tracker
<1> SUFFICES ComputeKeeps(t, a, id, mode)
  OBVIOUS
<1>1. u.exclusive = id /\ ~ u.isShared
  <2>1. CASE t.exclusive = id
    <3>1. u = [t EXCEPT !.isShared = FALSE]
      BY <2>1 DEF AccessExclusive, Answer
    <3> HIDE DEF a
    <3> QED
      BY <2>1, <3>1 DEF Tracker
  <2>2. CASE t.exclusive # id
    <3> DEFINE read == [t EXCEPT !.isShared = FALSE]
               none == [read EXCEPT !.shared = <<>>]
    <3>1. u = [none EXCEPT !.exclusive = id]
      BY <2>2 DEF AccessExclusive, Answer
    <3> HIDE DEF a, read
    <3>2. read \in Tracker /\ ~ read.isShared
      BY DEF Tracker, read
    <3>3. <<>> \in Seq(Nat)
      OBVIOUS
    <3>4. none \in Tracker /\ ~ none.isShared
      BY <3>2, <3>3 DEF Tracker
    <3> HIDE DEF none
    <3> QED
      BY <3>1, <3>4 DEF Tracker
  <2> QED
    BY <2>1, <2>2
<1>2. \A x : ComputeRemembers(u, id, x)
  BY <1>1 DEF ComputeRemembers
<1>3. ASSUME NEW x, ComputeRemembers(t, id, x)
      PROVE  \E h : <<"barrier", h>> \in a.barriers
  <2>1. t.exclusive = id \/ IsLastAccess(t, id)
    BY <1>3 DEF ComputeRemembers
  <2>2. \E h : a.barriers = { <<"barrier", h>> }
    BY <2>1 DEF AccessExclusive, Answer
  <2> HIDE DEF a
  <2> QED
    BY <2>2
<1> HIDE DEF a
<1> QED
  BY <1>2, <1>3 DEF ComputeKeeps

-----------------------------------------------------------------------------
(* access<stage>, and the end of a pass.                                   *)

AllBelow(ts, id) == \A r \in Resources : IsBelow(ts[r], id)

LEMMA EncoderIs ==
  ASSUME NEW type, NEW vertex, NEW id
  PROVE  LET e == Encoder(type, vertex, id)
         IN  /\ IsEncoder(e) /\ e.type = type /\ e.vertex = vertex /\ e.id = id
             /\ e.barriers = {} /\ e.uses = {} /\ e.attachments = NoAttachments
  BY DEF Encoder, IsEncoder

LEMMA AccessedTrackers ==
  ASSUME NEW s, s.trackers \in [Resources -> Tracker], NEW resources,
         NEW stage \in {"compute", "vertex", "pixel"}, NEW mode,
         s.encoder.id \in Nat \ {0}, stage = "vertex" => s.encoder.vertex \in Nat
  PROVE  LET ts == Accessed(s, resources, stage, mode).trackers
         IN  /\ ts \in [Resources -> Tracker]
             /\ \A r \in Resources : r \notin resources => ts[r] = s.trackers[r]
             /\ \A r \in Resources : r \in resources =>
                  ts[r] = AnswerTo(s.encoder, s.trackers[r], stage, mode).tracker
             /\ \A last \in Nat : IdOf(s.encoder, stage) < last /\ AllBelow(s.trackers, last) =>
                  AllBelow(ts, last)
<1> DEFINE ts == Accessed(s, resources, stage, mode).trackers
           left(r) == AnswerTo(s.encoder, s.trackers[r], stage, mode).tracker
<1>1. ts = [r \in Resources |-> IF r \in resources THEN left(r) ELSE s.trackers[r]]
  BY DEF Accessed
<1> HIDE DEF ts
<1>2. IdOf(s.encoder, stage) \in Nat
  BY DEF IdOf
<1>3. \A r \in Resources : Follows(s.trackers[r], left(r), IdOf(s.encoder, stage))
  BY AnswerFollows
<1> HIDE DEF left
<1>4. ts \in [Resources -> Tracker]
  BY <1>1, <1>3 DEF Follows
<1>5. ASSUME NEW last \in Nat, IdOf(s.encoder, stage) < last, AllBelow(s.trackers, last)
      PROVE  AllBelow(ts, last)
  BY <1>1, <1>3, <1>5 DEF AllBelow, Follows
<1> QED
  BY <1>1, <1>4, <1>5 DEF ts, left

LEMMA AccessedEncoder ==
  ASSUME NEW s, IsEncoder(s.encoder), NEW resources, NEW stage, NEW mode
  PROVE  LET e == s.encoder
             n == Accessed(s, resources, stage, mode).encoder
         IN  /\ IsEncoder(n) /\ n.type = e.type /\ n.vertex = e.vertex /\ n.id = e.id
             /\ n.attachments = e.attachments /\ n.update_vertex = e.update_vertex
             /\ n.uses = e.uses \union { Use(e, stage, r, mode) : r \in resources }
             /\ n.barriers = e.barriers \union
                  UNION { AnswerTo(e, s.trackers[r], stage, mode).barriers : r \in resources }
<1> DEFINE e == s.encoder
           answer == [r \in resources |-> AnswerTo(e, s.trackers[r], stage, mode)]
           barriers == UNION { answer[r].barriers : r \in resources }
           uses == { Use(e, stage, r, mode) : r \in resources }
<1>1. barriers = UNION { AnswerTo(e, s.trackers[r], stage, mode).barriers : r \in resources }
  OBVIOUS
<1>2. \E wait, wait_vertex :
        Accessed(s, resources, stage, mode).encoder =
          [e EXCEPT !.wait = wait, !.wait_vertex = wait_vertex,
                    !.barriers = @ \union barriers, !.uses = @ \union uses]
  BY DEF Accessed
<1> HIDE DEF e, barriers, uses
<1>3. PICK wait, wait_vertex :
        Accessed(s, resources, stage, mode).encoder =
          [e EXCEPT !.wait = wait, !.wait_vertex = wait_vertex,
                    !.barriers = @ \union barriers, !.uses = @ \union uses]
  BY <1>2
<1> DEFINE n1 == [e EXCEPT !.wait = wait]
           n2 == [n1 EXCEPT !.wait_vertex = wait_vertex]
           n3 == [n2 EXCEPT !.barriers = e.barriers \union barriers]
           n4 == [n3 EXCEPT !.uses = e.uses \union uses]
<1>4. IsEncoder(e)
  BY DEF e
<1>5. /\ IsEncoder(n1) /\ n1.type = e.type /\ n1.vertex = e.vertex /\ n1.id = e.id
      /\ n1.update_vertex = e.update_vertex
      /\ n1.attachments = e.attachments /\ n1.uses = e.uses /\ n1.barriers = e.barriers
  BY <1>4 DEF IsEncoder
<1> HIDE DEF n1
<1>6. /\ IsEncoder(n2) /\ n2.type = e.type /\ n2.vertex = e.vertex /\ n2.id = e.id
      /\ n2.update_vertex = e.update_vertex
      /\ n2.attachments = e.attachments /\ n2.uses = e.uses /\ n2.barriers = e.barriers
  BY <1>5 DEF IsEncoder
<1> HIDE DEF n2
<1>7. /\ IsEncoder(n3) /\ n3.type = e.type /\ n3.vertex = e.vertex /\ n3.id = e.id
      /\ n3.update_vertex = e.update_vertex
      /\ n3.attachments = e.attachments /\ n3.uses = e.uses
      /\ n3.barriers = e.barriers \union barriers
  BY <1>6 DEF IsEncoder
<1> HIDE DEF n3
<1>8. /\ IsEncoder(n4) /\ n4.type = e.type /\ n4.vertex = e.vertex /\ n4.id = e.id
      /\ n4.update_vertex = e.update_vertex
      /\ n4.attachments = e.attachments /\ n4.uses = e.uses \union uses
      /\ n4.barriers = e.barriers \union barriers
  <2>1. IsEncoder(n4)
    BY <1>7 DEF IsEncoder
  <2>2. /\ n4.type = n3.type /\ n4.vertex = n3.vertex /\ n4.id = n3.id
        /\ n4.update_vertex = n3.update_vertex /\ n4.attachments = n3.attachments
        /\ n4.uses = e.uses \union uses /\ n4.barriers = n3.barriers
    BY <1>7 DEF IsEncoder
  <2> HIDE DEF n4
  <2> QED
    BY <1>7, <2>1, <2>2
<1>9. Accessed(s, resources, stage, mode).encoder = n4
  <2>1. [e EXCEPT !.wait = wait, !.wait_vertex = wait_vertex,
                  !.barriers = @ \union barriers, !.uses = @ \union uses]
        = [n2 EXCEPT !.barriers = n2.barriers \union barriers,
                     !.uses = n2.uses \union uses]
    BY <1>4 DEF n1, n2, IsEncoder
  <2> QED
    BY ONLY <1>3, <1>6, <2>1 DEF n3
<1> HIDE DEF n4
<1> QED
  BY <1>1, <1>8, <1>9 DEF e, uses

LEMMA EndedTrackers ==
  ASSUME NEW s, s.trackers \in [Resources -> Tracker], s.encoder.id \in Nat \ {0}
  PROVE  /\ Ended(s).trackers \in [Resources -> Tracker]
         /\ \A last \in Nat : s.encoder.id < last /\ AllBelow(s.trackers, last) =>
              AllBelow(Ended(s).trackers, last)
<1> DEFINE w == Accessed(s, ResourcesOf(DepthStencil(Written(s.encoder.attachments))),
                         "pixel", "write")
<1>1. Ended(s).trackers = w.trackers \/ Ended(s).trackers = s.trackers
  BY DEF Ended
<1>2. /\ w.trackers \in [Resources -> Tracker]
      /\ \A last \in Nat : IdOf(s.encoder, "pixel") < last /\ AllBelow(s.trackers, last) =>
           AllBelow(w.trackers, last)
  BY AccessedTrackers
<1> HIDE DEF w
<1> QED
  BY <1>1, <1>2 DEF IdOf

-----------------------------------------------------------------------------
(* The steps between passes, and the passes that are one command.          *)

LEMMA BelowGrows ==
  ASSUME NEW ts \in [Resources -> Tracker], NEW m \in Nat, NEW n \in Nat, m <= n, AllBelow(ts, m)
  PROVE  AllBelow(ts, n)
<1>1. ASSUME NEW r \in Resources PROVE IsBelow(ts[r], n)
  <2>1. /\ ts[r].exclusive \in Nat /\ ts[r].exclusive < m
        /\ \A i \in DOMAIN ts[r].shared : ts[r].shared[i] \in Nat /\ ts[r].shared[i] < m
    BY DEF AllBelow, IsBelow, Tracker
  <2> QED
    BY <2>1 DEF IsBelow
<1> QED
  BY <1>1 DEF AllBelow

LEMMA NoEncoderIs ==
  NoEncoder.type = "null" /\ IsEncoder(NoEncoder) /\ IsPass(NoPass)
  BY EncoderIs DEF NoEncoder, IsPass, NoPass

(* Without a pass only the trackers are of interest. *)
LEMMA BetweenPasses ==
  ASSUME encoder_id' \in Nat \ {0}, trackers' \in [Resources -> Tracker],
         AllBelow(trackers', encoder_id'), current' = NoEncoder, pass' = NoPass,
         ignore_waw' \in BOOLEAN
  PROVE  BarrierInv'
<1>1. TypeOK' /\ CurrentIs' /\ IdsAreBelow'
  BY NoEncoderIs DEF TypeOK, CurrentIs, IdsAreBelow, AllBelow
<1>2. current'.type \notin {"render", "compute"}
  BY NoEncoderIs
<1> QED
  BY <1>1, <1>2 DEF BarrierInv, IdsInv

LEMMA IdleIs ==
  IdsInv /\ current = NoEncoder =>
    /\ pass = NoPass /\ encoder_id \in Nat \ {0} /\ trackers \in [Resources -> Tracker]
    /\ AllBelow(trackers, encoder_id) /\ ignore_waw \in BOOLEAN
  BY NoEncoderIs DEF IdsInv, TypeOK, CurrentIs, IdsAreBelow, AllBelow

LEMMA InitBarriers == Init => BarrierInv
<1> SUFFICES ASSUME Init PROVE BarrierInv
  OBVIOUS
<1>1. FenceCount \in Nat \ {0} /\ FenceCount > 0
  BY LaneAssumption, ParityAssumption DEF FenceCount
<1>2. NewTracker \in Tracker /\ NewTracker.exclusive = 0 /\ NewTracker.shared = <<>>
  BY DEF NewTracker, Tracker
<1>3. encoder_id = FenceCount /\ trackers = [r \in Resources |-> NewTracker]
      /\ current = NoEncoder /\ pass = NoPass /\ ignore_waw = FALSE
  BY DEF Init
<1>4. \A r \in Resources : IsBelow(trackers[r], encoder_id)
  BY <1>1, <1>2, <1>3 DEF IsBelow
<1>5. TypeOK /\ CurrentIs /\ IdsAreBelow
  BY <1>1, <1>2, <1>3, <1>4, NoEncoderIs DEF TypeOK, CurrentIs, IdsAreBelow
<1>6. current.type \notin {"render", "compute"}
  BY <1>3, NoEncoderIs
<1> QED
  BY <1>5, <1>6 DEF BarrierInv, IdsInv

LEMMA OnePassBarriers ==
  ASSUME IdsInv, NEW type, NEW reads, NEW writes, NEW planes, NEW src, NEW dst,
         OnePass(type, reads, writes, planes, src, dst)
  PROVE  BarrierInv'
<1> DEFINE e == [Encoder(type, None, encoder_id) EXCEPT
                   !.planes = planes, !.src = src, !.dst = dst]
           read == Accessed(At(e), reads, "compute", "read")
           written == Accessed(read, writes, "compute", "write")
<1>1. /\ current = NoEncoder /\ encoder_id' = encoder_id + 1 /\ trackers' = Ended(written).trackers
      /\ current' = current /\ pass' = pass /\ ignore_waw' = ignore_waw
  BY DEF OnePass, CanStart, Finish
<1>2. /\ pass = NoPass /\ encoder_id \in Nat \ {0} /\ trackers \in [Resources -> Tracker]
      /\ AllBelow(trackers, encoder_id) /\ ignore_waw \in BOOLEAN
  BY <1>1, IdleIs
<1>3. IsEncoder(e) /\ e.id = encoder_id
  <2> DEFINE n1 == Encoder(type, None, encoder_id)
             n2 == [n1 EXCEPT !.planes = planes]
             n3 == [n2 EXCEPT !.src = src]
             n4 == [n3 EXCEPT !.dst = dst]
  <2>1. IsEncoder(n1) /\ n1.id = encoder_id
    BY EncoderIs
  <2> HIDE DEF n1
  <2>2. IsEncoder(n2) /\ n2.id = encoder_id
    BY <2>1 DEF IsEncoder
  <2> HIDE DEF n2
  <2>3. IsEncoder(n3) /\ n3.id = encoder_id
    BY <2>2 DEF IsEncoder
  <2> HIDE DEF n3
  <2>4. IsEncoder(n4) /\ n4.id = encoder_id
    BY <2>3 DEF IsEncoder
  <2> QED
    BY ONLY <2>4 DEF e, n1, n2, n3
<1> HIDE DEF e
<1>4. At(e).trackers = trackers /\ At(e).encoder = e
  BY DEF At
<1>5. encoder_id + 1 \in Nat \ {0} /\ encoder_id < encoder_id + 1
      /\ AllBelow(trackers, encoder_id + 1)
  BY <1>2, BelowGrows
<1>6. read.encoder.id = encoder_id /\ IsEncoder(read.encoder)
  BY <1>3, <1>4, AccessedEncoder
<1>7. read.trackers \in [Resources -> Tracker] /\ AllBelow(read.trackers, encoder_id + 1)
  <2>1. /\ At(e).trackers \in [Resources -> Tracker] /\ At(e).encoder.id \in Nat \ {0}
        /\ IdOf(At(e).encoder, "compute") = encoder_id
    BY <1>2, <1>3, <1>4 DEF IdOf
  <2> QED
    BY <1>4, <1>5, <2>1, AccessedTrackers
<1> HIDE DEF read
<1>8. written.encoder.id = encoder_id
  BY <1>6, AccessedEncoder
<1>9. written.trackers \in [Resources -> Tracker] /\ AllBelow(written.trackers, encoder_id + 1)
  <2>1. read.encoder.id \in Nat \ {0} /\ IdOf(read.encoder, "compute") = encoder_id
    BY <1>2, <1>6 DEF IdOf
  <2> QED
    BY <1>5, <1>7, <2>1, AccessedTrackers
<1> HIDE DEF written
<1>10. trackers' \in [Resources -> Tracker] /\ AllBelow(trackers', encoder_id')
  BY <1>1, <1>2, <1>5, <1>8, <1>9, EndedTrackers
<1> QED
  BY <1>1, <1>2, <1>5, <1>10, BetweenPasses

LEMMA EventBarriers == IdsInv /\ Event => BarrierInv'
<1> SUFFICES ASSUME IdsInv, Event PROVE BarrierInv'
  OBVIOUS
<1> DEFINE s == At(Encoder("event", None, None))
<1>1. /\ current = NoEncoder /\ encoder_id' = encoder_id /\ trackers' = Ended(s).trackers
      /\ current' = current /\ pass' = pass /\ ignore_waw' = ignore_waw
  BY DEF Event, CanStart, Finish
<1>2. s.trackers = trackers /\ s.encoder.type = "event"
  BY EncoderIs DEF At
<1> HIDE DEF s
<1>3. Ended(s).trackers = trackers
  BY <1>2 DEF Ended
<1> QED
  BY <1>1, <1>3, IdleIs, BetweenPasses

LEMMA FlushBarriers == IdsInv /\ FlushCommands => BarrierInv'
<1> SUFFICES ASSUME IdsInv, FlushCommands PROVE BarrierInv'
  OBVIOUS
<1>1. /\ current = NoEncoder /\ encoder_id' = encoder_id /\ trackers' = trackers
      /\ current' = current /\ pass' = pass /\ ignore_waw' = ignore_waw
  BY DEF FlushCommands
<1> QED
  BY <1>1, IdleIs, BetweenPasses

LEMMA EndPassBarriers == IdsInv /\ EndPass => BarrierInv'
<1> SUFFICES ASSUME IdsInv, EndPass PROVE BarrierInv'
  OBVIOUS
<1>1. /\ current /= NoEncoder /\ encoder_id' = encoder_id
      /\ trackers' = Ended(At(current)).trackers
      /\ current' = NoEncoder /\ pass' = NoPass /\ ignore_waw' = ignore_waw
  BY DEF EndPass, Finish
<1>2. /\ encoder_id \in Nat \ {0} /\ trackers \in [Resources -> Tracker]
      /\ AllBelow(trackers, encoder_id) /\ ignore_waw \in BOOLEAN
  BY DEF IdsInv, TypeOK, IdsAreBelow, AllBelow
<1>3. current.id \in Nat \ {0} /\ current.id < encoder_id
  BY <1>1 DEF IdsInv, CurrentIs
<1>4. At(current).trackers = trackers /\ At(current).encoder = current
  BY DEF At
<1>5. trackers' \in [Resources -> Tracker] /\ AllBelow(trackers', encoder_id')
  BY <1>1, <1>2, <1>3, <1>4, EndedTrackers
<1> QED
  BY <1>1, <1>2, <1>5, BetweenPasses

-----------------------------------------------------------------------------
(* A pass and its commands.                                                *)

LEMMA SetIntrapassControlBarriers == BarrierInv /\ SetIntrapassControl => BarrierInv'
<1> SUFFICES ASSUME BarrierInv, SetIntrapassControl PROVE BarrierInv'
  OBVIOUS
<1>1. /\ encoder_id' = encoder_id /\ trackers' = trackers /\ current' = current
      /\ pass' = pass /\ ignore_waw' = ~ ignore_waw
  BY DEF SetIntrapassControl
<1>2. TypeOK'
  BY <1>1 DEF BarrierInv, IdsInv, TypeOK
<1>3. /\ CurrentIs' = CurrentIs /\ IdsAreBelow' = IdsAreBelow
      /\ UsesAre' = UsesAre /\ BarriersAreDue' = BarriersAreDue /\ NoneOmitted' = NoneOmitted
      /\ Bindable' = Bindable /\ \A r \in Resources :
           RenderFits(r)' = RenderFits(r) /\ ComputeFits(r)' = ComputeFits(r)
  BY <1>1 DEF CurrentIs, IdsAreBelow, UsesAre, Stages, BarriersAreDue, NoneOmitted, Bindable,
              RenderFits, ComputeFits, PixelUsed, PixelWritten
<1>4. Bindable \subseteq Resources
  BY DEF Bindable
<1> QED
  BY <1>1, <1>2, <1>3, <1>4 DEF BarrierInv, IdsInv

LEMMA UnchangedBarriers == BarrierInv /\ UNCHANGED vars => BarrierInv'
<1> SUFFICES ASSUME BarrierInv, UNCHANGED vars PROVE BarrierInv'
  OBVIOUS
<1>1. /\ encoder_id' = encoder_id /\ trackers' = trackers /\ current' = current
      /\ pass' = pass /\ ignore_waw' = ignore_waw
  BY DEF vars
<1>2. TypeOK'
  BY <1>1 DEF BarrierInv, IdsInv, TypeOK
<1>3. /\ CurrentIs' = CurrentIs /\ IdsAreBelow' = IdsAreBelow
      /\ UsesAre' = UsesAre /\ BarriersAreDue' = BarriersAreDue /\ NoneOmitted' = NoneOmitted
      /\ Bindable' = Bindable /\ \A r \in Resources :
           RenderFits(r)' = RenderFits(r) /\ ComputeFits(r)' = ComputeFits(r)
  BY <1>1 DEF CurrentIs, IdsAreBelow, UsesAre, Stages, BarriersAreDue, NoneOmitted, Bindable,
              RenderFits, ComputeFits, PixelUsed, PixelWritten
<1>4. Bindable \subseteq Resources
  BY DEF Bindable
<1> QED
  BY <1>1, <1>2, <1>3, <1>4 DEF BarrierInv, IdsInv

LEMMA StartPassBarriers ==
  ASSUME IdsInv, NEW type \in PassTypes, StartPass(type)
  PROVE  BarrierInv'
<1>1. /\ current = NoEncoder /\ encoder_id' = encoder_id + 1 /\ trackers' = trackers
      /\ current' = Encoder(type, None, encoder_id) /\ pass' = pass /\ ignore_waw' = ignore_waw
  BY DEF StartPass, CanStart
<1>2. /\ pass = NoPass /\ encoder_id \in Nat \ {0} /\ trackers \in [Resources -> Tracker]
      /\ AllBelow(trackers, encoder_id) /\ ignore_waw \in BOOLEAN
  BY <1>1, IdleIs
<1>3. encoder_id' \in Nat \ {0} /\ AllBelow(trackers', encoder_id')
  BY <1>1, <1>2, BelowGrows
<1>4. /\ type \in {"compute", "blit"} /\ IsEncoder(current') /\ current'.type = type
      /\ current'.id = encoder_id /\ current'.barriers = {} /\ current'.uses = {}
  BY <1>1, EncoderIs, PassTypesAssumption
<1>5. pass'.open = {} /\ pass'.pending = {} /\ IsPass(pass')
  BY <1>1, <1>2 DEF NoPass, IsPass
<1>6. TypeOK' /\ CurrentIs' /\ IdsAreBelow'
  BY <1>1, <1>2, <1>3, <1>4, <1>5 DEF TypeOK, CurrentIs, IdsAreBelow, AllBelow
<1>7. UsesAre' /\ BarriersAreDue' /\ \A r \in Resources : ComputeFits(r)'
  BY <1>5 DEF UsesAre, BarriersAreDue, ComputeFits
<1> QED
  BY <1>4, <1>6, <1>7 DEF BarrierInv, IdsInv

LEMMA StartRenderPassBarriers ==
  ASSUME IdsInv, NEW planes, NEW readonly, StartRenderPass(planes, readonly)
  PROVE  BarrierInv'
<1> DEFINE n == Encoder("render", encoder_id, encoder_id + 1)
           e == [n EXCEPT !.attachments = [p \in planes |-> Attachment(p \in readonly)]]
           colors == ResourcesOf(planes \ DepthStencil(planes))
           others == ResourcesOf(DepthStencil(planes))
           start == At(e)
           color == Accessed(start, colors, "pixel", "write")
           all == Accessed(color, others, "pixel", "read")
           id == encoder_id + 1
           end == encoder_id + 2
<1>1. /\ current = NoEncoder /\ encoder_id' = end /\ trackers' = all.trackers
      /\ current' = all.encoder /\ pass' = pass /\ ignore_waw' = ignore_waw
  BY DEF StartRenderPass, CanStart
<1>2. /\ pass = NoPass /\ encoder_id \in Nat \ {0} /\ trackers \in [Resources -> Tracker]
      /\ AllBelow(trackers, encoder_id) /\ ignore_waw \in BOOLEAN
  BY <1>1, IdleIs
<1>3. /\ IsEncoder(e) /\ e.type = "render" /\ e.vertex = encoder_id /\ e.id = id
      /\ e.barriers = {} /\ e.uses = {} /\ DOMAIN e.attachments = planes
  <2> DEFINE attachments == [p \in planes |-> Attachment(p \in readonly)]
  <2>1. /\ IsEncoder(n) /\ n.type = "render" /\ n.vertex = encoder_id /\ n.id = id
        /\ n.barriers = {} /\ n.uses = {}
    BY EncoderIs
  <2>2. DOMAIN attachments = planes
    OBVIOUS
  <2> HIDE DEF attachments, n
  <2>3. [n EXCEPT !.attachments = attachments].attachments = attachments
    BY <2>1 DEF IsEncoder
  <2>4. IsEncoder([n EXCEPT !.attachments = attachments])
    BY <2>1 DEF IsEncoder
  <2> QED
    BY <2>1, <2>2, <2>3, <2>4 DEF IsEncoder, attachments
<1> HIDE DEF e, colors, others
<1>4. start.trackers = trackers /\ start.encoder = e /\ IsEncoder(start.encoder)
  BY <1>3 DEF At
<1> HIDE DEF start
<1>5. /\ IsEncoder(color.encoder) /\ color.encoder.type = "render"
      /\ color.encoder.vertex = encoder_id /\ color.encoder.id = id
      /\ color.encoder.attachments = e.attachments
      /\ \A u \in color.encoder.uses : u.res \in colors
      /\ \A b \in color.encoder.barriers : b[1] # "pre_raster_after_fragment"
  <2>1. /\ color.encoder.uses =
             start.encoder.uses \union { Use(start.encoder, "pixel", r, "write") : r \in colors }
        /\ color.encoder.barriers = start.encoder.barriers \union
             UNION { AnswerTo(start.encoder, start.trackers[r], "pixel", "write").barriers :
                       r \in colors }
    BY <1>4, AccessedEncoder
  <2> QED
    BY <1>3, <1>4, <2>1, AccessedEncoder, PixelsNeverOmit DEF Use
<1>6. /\ color.trackers \in [Resources -> Tracker] /\ AllBelow(color.trackers, end)
      /\ \A r \in Resources : r \notin colors => color.trackers[r] = trackers[r]
  <2>1. /\ start.trackers \in [Resources -> Tracker] /\ start.encoder.id \in Nat \ {0}
        /\ IdOf(start.encoder, "pixel") < end /\ end \in Nat
        /\ AllBelow(start.trackers, end)
    BY <1>2, <1>3, <1>4, BelowGrows DEF IdOf
  <2>2. "pixel" \in {"compute", "vertex", "pixel"} /\ "pixel" # "vertex"
    OBVIOUS
  <2> HIDE DEF end
  <2> HIDE DEF color
  <2>3. color.trackers \in [Resources -> Tracker]
    BY ONLY <2>1, <2>2, AccessedTrackers DEF color
  <2>4. \A r \in Resources : r \notin colors => color.trackers[r] = start.trackers[r]
    BY ONLY <2>1, <2>2, AccessedTrackers, SMTT(60) DEF color
  <2>5. \A last \in Nat : IdOf(start.encoder, "pixel") < last /\ AllBelow(start.trackers, last) =>
           AllBelow(color.trackers, last)
    BY ONLY <2>1, <2>2, AccessedTrackers DEF color
  <2>6. AllBelow(color.trackers, end)
    BY ONLY <2>1, <2>5
  <2> QED
    BY ONLY <1>4, <2>3, <2>4, <2>6
<1> HIDE DEF color
<1>7. /\ IsEncoder(current') /\ current'.type = "render"
      /\ current'.vertex = encoder_id /\ current'.id = id
      /\ DOMAIN current'.attachments = planes
      /\ \A u \in current'.uses : u.res \in colors \union others
      /\ \A b \in current'.barriers : b[1] # "pre_raster_after_fragment"
  <2>1. /\ current'.uses = color.encoder.uses
                           \union { Use(color.encoder, "pixel", r, "read") : r \in others }
        /\ current'.barriers = color.encoder.barriers \union
             UNION { AnswerTo(color.encoder, color.trackers[r], "pixel", "read").barriers :
                       r \in others }
    BY <1>1, <1>5, AccessedEncoder
  <2> QED
    BY <1>1, <1>3, <1>5, <2>1, AccessedEncoder, PixelsNeverOmit DEF Use
<1>8. /\ trackers' \in [Resources -> Tracker] /\ AllBelow(trackers', end)
      /\ \A r \in Resources : r \notin colors \union others => trackers'[r] = trackers[r]
  <2>1. /\ color.encoder.id \in Nat \ {0} /\ end \in Nat
        /\ IdOf(color.encoder, "pixel") < end
    BY <1>2, <1>5 DEF IdOf
  <2> QED
    <3>1. "pixel" \in {"compute", "vertex", "pixel"} /\ "pixel" # "vertex"
      OBVIOUS
    <3> HIDE DEF end
    <3> DEFINE ts == Accessed(color, others, "pixel", "read").trackers
    <3>2. ts \in [Resources -> Tracker]
      BY ONLY <1>6, <2>1, <3>1, AccessedTrackers
    <3>3. \A r \in Resources : r \notin others => ts[r] = color.trackers[r]
      BY DEF Accessed
    <3>4. AllBelow(ts, end)
      BY ONLY <1>6, <2>1, <3>1, AccessedTrackers
    <3> HIDE DEF ts
    <3>5. trackers' = ts
      BY <1>1 DEF ts
    <3> QED
      BY ONLY <1>6, <3>2, <3>3, <3>4, <3>5
<1>9. pass'.open = {} /\ pass'.pending = {} /\ IsPass(pass')
  BY <1>1, <1>2 DEF NoPass, IsPass
<1>10. TypeOK' /\ CurrentIs' /\ IdsAreBelow'
  BY <1>1, <1>2, <1>7, <1>8, <1>9 DEF TypeOK, CurrentIs, IdsAreBelow, AllBelow
<1>11. UsesAre' /\ BarriersAreDue' /\ NoneOmitted'
  BY <1>7, <1>9 DEF UsesAre, BarriersAreDue, NoneOmitted
<1>12. ASSUME NEW r \in Bindable' PROVE RenderFits(r)'
  <2>1. r \in Resources /\ r \notin colors \union others
    <3>1. r \in Resources /\ \A p \in planes : r # ResourceOf(p)
      BY <1>7 DEF Bindable, ResourcesOf
    <3>2. r \notin colors /\ r \notin others
      BY <3>1 DEF colors, others, ResourcesOf, DepthStencil
    <3> QED
      BY <3>1, <3>2
  <2>2. trackers'[r] = trackers[r] /\ trackers[r] \in Tracker /\ IsBelow(trackers[r], encoder_id)
    BY <1>2, <1>8, <2>1 DEF AllBelow
  <2> DEFINE t == trackers[r]
  <2>3. ~ IsLastAccess(t, encoder_id) /\ ~ IsLastAccess(t, id)
    BY <1>2, <2>2 DEF IsLastAccess, IsBelow, Tracker
  <2>4. t.exclusive # encoder_id /\ t.exclusive # id
    BY <1>2, <2>2 DEF IsBelow, Tracker
  <2>5. FlagsFit(t, encoder_id, PixelUsed(r)', PixelWritten(r)')
    BY <2>3, <2>4 DEF FlagsFit, InPass
  <2> QED
    BY <1>7, <1>9, <2>2, <2>5 DEF RenderFits
<1> QED
  BY <1>7, <1>10, <1>11, <1>12 DEF BarrierInv, IdsInv

LEMMA CommandIs ==
  ASSUME IdsInv, Command
  PROVE  /\ IsEncoder(current') /\ current'.type = current.type /\ current'.id = current.id
         /\ current'.vertex = current.vertex /\ current'.attachments = current.attachments
         /\ current'.uses = current.uses /\ current'.barriers = BarriersLeft
         /\ encoder_id' = encoder_id /\ trackers' = trackers /\ ignore_waw' = ignore_waw
         /\ IsPass(pass') /\ pass'.pending = {}
         /\ pass'.open = StillOpen \union UNION { Opened(u) : u \in pass.pending }
         /\ current # NoEncoder
<1> DEFINE cmds == IF current.type = "render" THEN Append(current.cmds, current.id)
                   ELSE current.cmds
           left == BarriersLeft
           n1 == [current EXCEPT !.barriers = left]
           n2 == [n1 EXCEPT !.cmds = cmds]
<1>1. IsEncoder(current)
  BY DEF IdsInv, TypeOK
<1>2. current' = [current EXCEPT !.barriers = left,
                    !.cmds = IF current.type = "render" THEN Append(@, current.id) ELSE @]
  BY DEF Command
<1>3. pass' = [open |-> StillOpen \union UNION { Opened(u) : u \in pass.pending },
               pending |-> {}, commands |-> pass.commands + 1]
  BY DEF Command
<1> HIDE DEF left
<1>4. current' = n2
  BY <1>1, <1>2 DEF IsEncoder
<1>5. /\ IsEncoder(n1) /\ n1.type = current.type /\ n1.id = current.id
      /\ n1.vertex = current.vertex /\ n1.attachments = current.attachments
      /\ n1.uses = current.uses /\ n1.barriers = left
  BY <1>1 DEF IsEncoder
<1> HIDE DEF n1, cmds
<1>6. /\ IsEncoder(n2) /\ n2.type = current.type /\ n2.id = current.id
      /\ n2.vertex = current.vertex /\ n2.attachments = current.attachments
      /\ n2.uses = current.uses /\ n2.barriers = left
  BY <1>5 DEF IsEncoder
<1> HIDE DEF n2
<1>7. /\ IsPass(pass') /\ pass'.pending = {}
      /\ pass'.open = StillOpen \union UNION { Opened(u) : u \in pass.pending }
  BY <1>3 DEF IsPass
<1>8. encoder_id' = encoder_id /\ trackers' = trackers /\ ignore_waw' = ignore_waw
      /\ current # NoEncoder
  BY DEF Command
<1> QED
  BY <1>4, <1>6, <1>7, <1>8 DEF left

LEMMA OpenedIs ==
  ASSUME NEW u, NEW x \in Opened(u)
  PROVE  /\ x.stage = u.stage /\ x.res = u.res /\ x.mode = u.mode
         /\ x.to \in IF u.stage = "compute" THEN {"compute"} ELSE {"vertex", "pixel"}
  BY DEF Opened

(* A barrier for a read is never masked, and one that is not emitted is    *)
(* still due.                                                              *)
LEMMA EmittedIs ==
  ASSUME NEW barriers, NEW ignore, NEW b \in barriers
  PROVE  b[2] # "WaW" => b[1] \in Emitted(barriers, ignore)
  BY DEF Emitted

LEMMA CommandBarriers == BarrierInv /\ Command => BarrierInv'
<1> SUFFICES ASSUME BarrierInv, Command PROVE BarrierInv'
  OBVIOUS
<1> DEFINE names == EmittedBy(current, ignore_waw)
<1>1. /\ IsEncoder(current') /\ current'.type = current.type /\ current'.id = current.id
      /\ current'.vertex = current.vertex /\ current'.attachments = current.attachments
      /\ current'.uses = current.uses /\ current'.barriers = BarriersLeft
      /\ encoder_id' = encoder_id /\ trackers' = trackers /\ ignore_waw' = ignore_waw
      /\ IsPass(pass') /\ pass'.pending = {}
      /\ pass'.open = StillOpen \union UNION { Opened(u) : u \in pass.pending }
      /\ current # NoEncoder
  BY CommandIs DEF BarrierInv
<1>2. TypeOK' /\ IdsAreBelow'
  BY <1>1 DEF BarrierInv, IdsInv, TypeOK, IdsAreBelow
<1>3. CurrentIs' /\ current.type \in {"render", "compute", "blit"}
  BY <1>1 DEF BarrierInv, IdsInv, CurrentIs
<1>4. Bindable' = Bindable /\ Stages' = Stages
  BY <1>1 DEF Bindable, Stages
<1>5. ASSUME NEW x \in pass'.open
      PROVE  \/ x \in pass.open /\ ~ Ordered(x, current, names)
             \/ \E u \in pass.pending : x \in Opened(u)
  BY <1>1, <1>5 DEF StillOpen
<1>6. current.type \in {"render", "compute"} => UsesAre'
  <2> SUFFICES ASSUME current.type \in {"render", "compute"} PROVE UsesAre'
    OBVIOUS
  <2>1. UsesAre
    BY DEF BarrierInv, IdsInv
  <2>2. ASSUME NEW x \in pass'.open
        PROVE  /\ x.stage \in Stages /\ x.to \in Stages /\ x.res \in Bindable
               /\ \E u \in current.uses : u.stage = x.stage /\ u.res = x.res /\ u.mode = x.mode
    <3>1. CASE x \in pass.open
      BY <2>1, <3>1 DEF UsesAre
    <3>2. ASSUME NEW u \in pass.pending, x \in Opened(u)
          PROVE  /\ x.stage \in Stages /\ x.to \in Stages /\ x.res \in Bindable
                 /\ \E w \in current.uses : w.stage = x.stage /\ w.res = x.res /\ w.mode = x.mode
      <4>1. u \in current.uses /\ u.stage \in Stages /\ u.res \in Bindable
        BY <2>1 DEF UsesAre
      <4>2. /\ x.stage = u.stage /\ x.res = u.res /\ x.mode = u.mode
            /\ x.to \in IF u.stage = "compute" THEN {"compute"} ELSE {"vertex", "pixel"}
        BY <3>2, OpenedIs
      <4>3. x.to \in Stages
        BY <4>1, <4>2 DEF Stages
      <4> QED
        BY <4>1, <4>2, <4>3
    <3> QED
      BY <1>5, <3>1, <3>2
  <2> QED
    BY <1>1, <1>4, <2>2 DEF UsesAre
<1>7. BarriersAreDue'
  BY <1>1 DEF BarriersAreDue
<1>8. current.type = "render" => NoneOmitted' /\ \A r \in Bindable' : RenderFits(r)'
  <2> SUFFICES ASSUME current.type = "render"
               PROVE  NoneOmitted' /\ \A r \in Bindable' : RenderFits(r)'
    OBVIOUS
  <2>1. NoneOmitted /\ \A r \in Bindable : RenderFits(r)
    BY DEF BarrierInv, IdsInv
  <2>2. ~ Omitted(current, ignore_waw)
    BY <2>1 DEF NoneOmitted, Omitted, Emitted
  <2>3. BarriersLeft = { b \in current.barriers : b[1] \notin names }
    BY <2>2 DEF BarriersLeft
  <2> HIDE DEF names
  <2>4. NoneOmitted'
    BY <1>1, <2>1, <2>3 DEF NoneOmitted
  <2>5. ASSUME NEW x, IsDue(current, x), ~ Ordered(x, current, names)
        PROVE  IsDue(current', x)
    <3>1. PICK b \in current.barriers : Ordered(x, current, { b[1] })
      BY <2>5 DEF IsDue
    <3>2. b[1] \notin names
      BY <2>5, <3>1 DEF Ordered
    <3>3. b \in current'.barriers
      BY <1>1, <2>3, <3>2
    <3>4. Ordered(x, current', { b[1] })
      BY <1>1, <3>1 DEF Ordered
    <3> QED
      BY <3>3, <3>4 DEF IsDue
  <2>6. ASSUME NEW r \in Bindable PROVE RenderFits(r)'
    <3> DEFINE t == trackers[r]
               v == current.vertex
               Remembers(x) == RenderRemembers(t, v, PixelWritten(r), x)
    <3>1. /\ FlagsFit(t, v, PixelUsed(r), PixelWritten(r))
          /\ \A x \in pass.open : x.res = r => IsDue(current, x) \/ Remembers(x)
          /\ \A p \in pass.pending : p.res = r => \A x \in Opened(p) : Remembers(x)
      BY <2>1 DEF RenderFits
    <3>2. ASSUME NEW x \in pass'.open, x.res = r
          PROVE  IsDue(current', x) \/ Remembers(x)
      <4>1. CASE x \in pass.open /\ ~ Ordered(x, current, names)
        BY <2>5, <3>1, <3>2, <4>1
      <4>2. ASSUME NEW u \in pass.pending, x \in Opened(u) PROVE Remembers(x)
        BY <3>1, <3>2, <4>2, OpenedIs
      <4> QED
        BY <1>5, <4>1, <4>2
    <3>3. /\ trackers'[r] = t /\ current'.vertex = v
          /\ PixelUsed(r)' = PixelUsed(r) /\ PixelWritten(r)' = PixelWritten(r)
      BY <1>1 DEF PixelUsed, PixelWritten
    <3> HIDE DEF t, v
    <3> QED
      BY <1>1, <3>1, <3>2, <3>3 DEF RenderFits
  <2> QED
    BY <1>4, <2>4, <2>6
<1>9. current.type = "compute" => \A r \in Resources : ComputeFits(r)'
  <2> SUFFICES ASSUME current.type = "compute", NEW r \in Resources PROVE ComputeFits(r)'
    OBVIOUS
  <2>1. ComputeFits(r)
    BY DEF BarrierInv, IdsInv
  <2>2. ASSUME NEW x, ReadIsDue(current) PROVE Ordered(x, current, names)
    <3>1. <<"barrier", "RW">>[1] = "barrier" /\ <<"barrier", "RW">>[2] = "RW"
      OBVIOUS
    <3>2. "barrier" \in Emitted(current.barriers, ignore_waw)
      BY <2>2, <3>1, EmittedIs DEF ReadIsDue
    <3>3. names = Emitted(current.barriers, ignore_waw)
      BY DEF EmittedBy, Omitted
    <3> QED
      BY <3>2, <3>3 DEF Ordered
  <2> HIDE DEF names
  <2>3. ASSUME NEW x \in pass'.open, x.res = r
        PROVE  ComputeRemembers(trackers[r], current.id, x)
    <3>1. CASE x \in pass.open /\ ~ Ordered(x, current, names)
      BY <2>1, <2>2, <2>3, <3>1 DEF ComputeFits
    <3>2. ASSUME NEW u \in pass.pending, x \in Opened(u)
          PROVE  ComputeRemembers(trackers[r], current.id, x)
      BY <2>1, <2>3, <3>2, OpenedIs DEF ComputeFits, ComputeRemembers
    <3> QED
      BY <1>5, <3>1, <3>2
  <2> QED
    BY <1>1, <2>3 DEF ComputeFits
<1> QED
  BY <1>1, <1>2, <1>3, <1>6, <1>7, <1>8, <1>9 DEF BarrierInv, IdsInv

(* What an access leaves as it is, and what it changes.                    *)
LEMMA AccessIs ==
  ASSUME IdsInv, NEW stage \in {"compute", "vertex", "pixel"}, NEW r \in Resources, NEW mode,
         Access(stage, r, mode)
  PROVE  LET a == AnswerTo(current, trackers[r], stage, mode)
             use == Use(current, stage, r, mode)
         IN  /\ IsEncoder(current') /\ current'.type = current.type /\ current'.id = current.id
             /\ current'.vertex = current.vertex /\ current'.attachments = current.attachments
             /\ current'.uses = current.uses \union {use}
             /\ current'.barriers = current.barriers \union a.barriers
             /\ encoder_id' = encoder_id /\ ignore_waw' = ignore_waw
             /\ IsPass(pass') /\ pass'.pending = pass.pending \union {use}
             /\ pass'.open = pass.open
             /\ trackers' \in [Resources -> Tracker] /\ AllBelow(trackers', encoder_id')
             /\ \A q \in Resources : q # r => trackers'[q] = trackers[q]
             /\ trackers'[r] = a.tracker
<1> DEFINE a == AnswerTo(current, trackers[r], stage, mode)
           use == Use(current, stage, r, mode)
           s == At(current)
           one == {r}
           after == Accessed(s, one, stage, mode)
<1>1. /\ trackers' = after.trackers /\ current' = after.encoder
      /\ pass' = [pass EXCEPT !.pending = @ \union {use}]
      /\ encoder_id' = encoder_id /\ ignore_waw' = ignore_waw /\ current # NoEncoder
      /\ stage \in IF current.type = "render" THEN ShaderStages ELSE {"compute"}
  BY DEF Access
<1>2. /\ IsEncoder(current) /\ IsPass(pass) /\ encoder_id \in Nat \ {0}
      /\ trackers \in [Resources -> Tracker] /\ AllBelow(trackers, encoder_id)
  BY DEF IdsInv, TypeOK, IdsAreBelow, AllBelow
<1>3. s.trackers = trackers /\ s.encoder = current
  BY DEF At
<1>4. /\ s.encoder.id \in Nat \ {0} /\ encoder_id \in Nat
      /\ stage = "vertex" => s.encoder.vertex \in Nat
      /\ IdOf(s.encoder, stage) < encoder_id
  BY <1>1, <1>2, <1>3 DEF IdsInv, CurrentIs, IdOf
<1>5. IsPass(pass') /\ pass'.pending = pass.pending \union {use} /\ pass'.open = pass.open
  <2> HIDE DEF use
  <2> QED
    BY <1>1, <1>2 DEF IsPass
<1> HIDE DEF s, one, use
<1>6. /\ IsEncoder(after.encoder) /\ after.encoder.type = s.encoder.type
      /\ after.encoder.id = s.encoder.id /\ after.encoder.vertex = s.encoder.vertex
      /\ after.encoder.attachments = s.encoder.attachments
      /\ after.encoder.uses =
           s.encoder.uses \union { Use(s.encoder, stage, q, mode) : q \in one }
      /\ after.encoder.barriers = s.encoder.barriers \union
           UNION { AnswerTo(s.encoder, s.trackers[q], stage, mode).barriers : q \in one }
  BY <1>2, <1>3, AccessedEncoder
<1>7. /\ { Use(s.encoder, stage, q, mode) : q \in one } = {use}
      /\ UNION { AnswerTo(s.encoder, s.trackers[q], stage, mode).barriers : q \in one }
         = a.barriers
  BY <1>3 DEF one, use
<1>8. s.trackers \in [Resources -> Tracker] /\ AllBelow(s.trackers, encoder_id)
  BY <1>2, <1>3
<1>9. after.trackers \in [Resources -> Tracker]
  BY ONLY <1>4, <1>8, AccessedTrackers
<1>10. AllBelow(after.trackers, encoder_id)
  BY ONLY <1>4, <1>8, AccessedTrackers
<1>11. \A q \in Resources : q # r => after.trackers[q] = trackers[q]
  BY <1>3 DEF Accessed, one
<1>12. after.trackers[r] = a.tracker
  BY <1>3 DEF Accessed, one
<1> HIDE DEF after, a
<1> QED
  BY <1>1, <1>3, <1>5, <1>6, <1>7, <1>9, <1>10, <1>11, <1>12 DEF a, use

LEMMA AccessCompute ==
  ASSUME BarrierInv, current.type = "compute", NEW stage \in {"compute", "vertex", "pixel"},
         NEW r \in Resources, NEW mode, Access(stage, r, mode)
  PROVE  UsesAre' /\ BarriersAreDue' /\ \A q \in Resources : ComputeFits(q)'
<1> DEFINE t == trackers[r]
           a == AnswerTo(current, t, stage, mode)
           use == Use(current, stage, r, mode)
           id == current.id
<1>1. /\ stage = "compute" /\ mode \in {"read", "uav"} /\ r \notin ResourcesOf(DOMAIN current.attachments)
      /\ \A p \in pass.pending : p.res # r
  BY DEF Access
<1>2. /\ current'.type = current.type /\ current'.id = id
      /\ current'.attachments = current.attachments
      /\ current'.uses = current.uses \union {use}
      /\ current'.barriers = current.barriers \union a.barriers
      /\ pass'.pending = pass.pending \union {use} /\ pass'.open = pass.open
      /\ \A q \in Resources : q # r => trackers'[q] = trackers[q]
      /\ trackers'[r] = a.tracker
  BY AccessIs DEF BarrierInv
<1>3. use.stage = "compute" /\ use.res = r /\ use.mode = mode
  BY <1>1 DEF Use
<1>4. UsesAre /\ BarriersAreDue /\ ComputeFits(r) /\ t \in Tracker /\ id \in Nat
  BY DEF BarrierInv, IdsInv, TypeOK, CurrentIs, NoEncoder, Encoder
<1>5. ComputeKeeps(t, a, id, mode)
  <2>1. CASE IsWrite(mode)
    <3>1. a = AccessExclusive(t, id, mode = "uav")
      BY <1>1, <2>1 DEF AnswerTo
    <3> HIDE DEF a
    <3> QED
      BY <1>4, <2>1, <3>1, ComputeWrite
  <2>2. CASE ~ IsWrite(mode)
    <3>1. a = AccessShared(t, id)
      BY <1>1, <2>2 DEF AnswerTo
    <3> HIDE DEF a
    <3> QED
      BY <1>4, <2>2, <3>1, ComputeRead
  <2> QED
    BY <2>1, <2>2
<1> HIDE DEF a, use
<1>6. UsesAre'
  <2>1. Bindable' = Bindable /\ Stages' = Stages /\ Stages = {"compute"} /\ r \in Bindable
    BY <1>1, <1>2 DEF Bindable, Stages
  <2>2. ASSUME NEW p \in pass'.pending
        PROVE  /\ p \in current'.uses /\ p.stage \in Stages /\ p.res \in Bindable
               /\ p.mode \in {"read", "uav"}
    BY <1>1, <1>2, <1>3, <1>4, <2>1 DEF UsesAre
  <2>3. ASSUME NEW x \in pass'.open
        PROVE  /\ x.stage \in Stages /\ x.to \in Stages /\ x.res \in Bindable
               /\ \E u \in current'.uses : u.stage = x.stage /\ u.res = x.res /\ u.mode = x.mode
    BY <1>2, <1>4 DEF UsesAre
  <2> QED
    BY <2>1, <2>2, <2>3 DEF UsesAre
<1>7. ASSUME NEW x, IsDue(current, x) PROVE IsDue(current', x)
  BY <1>2, <1>7 DEF IsDue, Ordered
<1>8. ReadIsDue(current) => ReadIsDue(current')
  BY <1>2 DEF ReadIsDue
<1>9. ASSUME NEW x \in pass.open, x.res = r, IsWrite(x.mode) \/ IsWrite(mode)
      PROVE  IsDue(current', x) /\ (~ IsWrite(mode) => ReadIsDue(current'))
  <2>1. \A h : <<"barrier", h>>[1] = "barrier"
    OBVIOUS
  <2>2. ASSUME NEW h, <<"barrier", h>> \in current'.barriers PROVE IsDue(current', x)
    <3>1. Ordered(x, current', {"barrier"})
      BY <1>2 DEF Ordered
    <3> QED
      BY <2>1, <2>2, <3>1 DEF IsDue
  <2>3. CASE ReadIsDue(current)
    BY <1>8, <2>2, <2>3 DEF ReadIsDue
  <2>4. CASE ComputeRemembers(t, id, x)
    <3>1. /\ \E h : <<"barrier", h>> \in a.barriers
          /\ ~ IsWrite(mode) => <<"barrier", "RW">> \in a.barriers
      BY <1>5, <1>9, <2>4 DEF ComputeKeeps
    <3> QED
      BY <1>2, <2>2, <3>1 DEF ReadIsDue
  <2> QED
    BY <1>4, <1>9, <2>3, <2>4 DEF ComputeFits
<1>10. BarriersAreDue'
  <2> SUFFICES ASSUME NEW x \in pass'.open, NEW p \in pass'.pending, x.to = p.stage, Conflict(x, p)
               PROVE  IsDue(current', x) /\ (~ IsWrite(p.mode) => ReadIsDue(current'))
    BY DEF BarriersAreDue
  <2>1. CASE p \in pass.pending
    BY <1>2, <1>4, <1>7, <1>8, <2>1 DEF BarriersAreDue
  <2>2. CASE p = use
    <3>1. x \in pass.open /\ x.res = r /\ (IsWrite(x.mode) \/ IsWrite(mode)) /\ p.mode = mode
      BY <1>2, <1>3, <2>2 DEF Conflict
    <3> QED
      BY <1>9, <3>1
  <2> QED
    BY <1>2, <2>1, <2>2
<1>11. ASSUME NEW q \in Resources PROVE ComputeFits(q)'
  <2>1. CASE q = r
    <3>1. ASSUME NEW x \in pass'.open, x.res = r
          PROVE  ReadIsDue(current') \/ ComputeRemembers(a.tracker, id, x)
      BY <1>2, <1>4, <1>5, <1>8, <3>1 DEF ComputeFits, ComputeKeeps, ReadIsDue
    <3>2. ASSUME NEW p \in pass'.pending, p.res = r
          PROVE  ComputeRemembers(a.tracker, id, p)
      <4>1. p = use
        BY <1>1, <1>2, <3>2
      <4> QED
        BY <1>3, <1>5, <4>1 DEF ComputeKeeps
    <3> QED
      BY <1>2, <2>1, <3>1, <3>2 DEF ComputeFits
  <2>2. CASE q # r
    <3>1. ComputeFits(q) /\ trackers'[q] = trackers[q]
      BY <1>2, <2>2 DEF BarrierInv, IdsInv
    <3> QED
      BY <1>2, <1>3, <1>8, <2>2, <3>1 DEF ComputeFits
  <2> QED
    BY <2>1, <2>2
<1> QED
  BY <1>6, <1>10, <1>11

(* Nothing but the use of r by this stage is new. *)
LEMMA PixelUsesAre ==
  ASSUME NEW stage, NEW r, NEW mode, current'.uses = current.uses \union {Use(current, stage, r, mode)}
  PROVE  /\ \A q : q # r \/ stage # "pixel" =>
              (PixelUsed(q)' <=> PixelUsed(q)) /\ (PixelWritten(q)' <=> PixelWritten(q))
         /\ stage = "pixel" => PixelUsed(r)'
         /\ stage = "pixel" /\ IsWrite(mode) => PixelWritten(r)'
         /\ ~ IsWrite(mode) => (PixelWritten(r)' <=> PixelWritten(r))
<1> DEFINE use == Use(current, stage, r, mode)
<1>1. use.stage = stage /\ use.res = r /\ use.mode = mode
  BY DEF Use
<1>2. current'.uses = current.uses \union {use}
  OBVIOUS
<1> HIDE DEF use
<1> QED
  BY ONLY <1>1, <1>2 DEF PixelUsed, PixelWritten

LEMMA RemembersOf ==
  ASSUME NEW t, NEW v, NEW written, NEW written2, written <=> written2, NEW x
  PROVE  RenderRemembers(t, v, written, x) <=> RenderRemembers(t, v, written2, x)
  BY DEF RenderRemembers

(* What every access of a render pass does to the tracker.                 *)
LEMMA RenderAnswers ==
  ASSUME FragmentToVertex = FALSE, BarrierInv, current.type = "render",
         NEW stage \in {"compute", "vertex", "pixel"}, NEW r \in Resources, NEW mode,
         Access(stage, r, mode), NEW used \in BOOLEAN, NEW written \in BOOLEAN,
         NEW used2 \in BOOLEAN, NEW written2 \in BOOLEAN,
         used <=> PixelUsed(r), written <=> PixelWritten(r),
         used2 <=> PixelUsed(r)', written2 <=> PixelWritten(r)'
  PROVE  LET a == AnswerTo(current, trackers[r], stage, mode)
         IN  /\ FlagsFit(a.tracker, current.vertex, used2, written2)
             /\ RenderKeeps(trackers[r], a, current.vertex, written, written2,
                            current, stage, mode)
<1> DEFINE t == trackers[r]
           v == current.vertex
           a == AnswerTo(current, t, stage, mode)
<1>1. /\ stage \in {"vertex", "pixel"} /\ r \in Bindable
      /\ stage = "vertex" => \A u \in current.uses :
           ~ (u.stage = "pixel" /\ Conflict(u, Use(current, stage, r, mode)))
  BY ShaderStagesAssumption DEF Access, Bindable
<1>2. t \in Tracker /\ v \in Nat /\ current.id = v + 1
  BY DEF BarrierInv, IdsInv, TypeOK, CurrentIs, NoEncoder, Encoder
<1>3. FlagsFit(t, v, used, written)
  <2>1. FlagsFit(t, v, PixelUsed(r), PixelWritten(r))
    BY <1>1 DEF BarrierInv, RenderFits
  <2> HIDE DEF t, v
  <2> QED
    BY <2>1 DEF FlagsFit
<1>4. current'.uses = current.uses \union { Use(current, stage, r, mode) }
  BY AccessIs DEF BarrierInv
<1>5. /\ stage # "pixel" => (used2 <=> used) /\ (written2 <=> written)
      /\ stage = "pixel" => used2
      /\ stage = "pixel" /\ IsWrite(mode) => written2
      /\ ~ IsWrite(mode) => (written2 <=> written)
  BY <1>4, PixelUsesAre
<1>6. stage = "vertex" => ~ written /\ (IsWrite(mode) => ~ used)
  <2> SUFFICES ASSUME stage = "vertex" PROVE ~ written /\ (IsWrite(mode) => ~ used)
    OBVIOUS
  <2>1. ASSUME NEW u \in current.uses, u.stage = "pixel", u.res = r
        PROVE  ~ IsWrite(u.mode) /\ ~ IsWrite(mode)
    BY <1>1, <2>1 DEF Conflict, Use
  <2> QED
    BY <2>1 DEF PixelUsed, PixelWritten
<1> HIDE DEF t, v
<1>7. CASE stage = "vertex" /\ IsWrite(mode)
  <2>1. a = AccessExclusivePreRaster(t, v, mode = "uav")
    BY <1>7 DEF AnswerTo, v
  <2>2. used = FALSE /\ used2 = FALSE /\ written = FALSE /\ written2 = FALSE
    BY <1>5, <1>6, <1>7
  <2>3. FlagsFit(t, v, FALSE, FALSE)
    BY <1>3, <2>2
  <2> HIDE DEF a
  <2>4. FlagsFit(a.tracker, v, FALSE, FALSE) /\ RenderKeeps(t, a, v, FALSE, FALSE, current, "vertex", mode)
    BY <1>2, <1>7, <2>1, <2>3, VertexWrite
  <2> QED
    BY <1>7, <2>2, <2>4 DEF a, t, v
<1>8. CASE stage = "vertex" /\ ~ IsWrite(mode)
  <2>1. a = AccessSharedPreRaster(t, v)
    BY <1>8 DEF AnswerTo, v
  <2>2. used2 = used /\ written = FALSE /\ written2 = FALSE
    BY <1>5, <1>6, <1>8
  <2>3. FlagsFit(t, v, used, FALSE)
    BY <1>3, <2>2
  <2> HIDE DEF a
  <2>4. FlagsFit(a.tracker, v, used, FALSE) /\ RenderKeeps(t, a, v, FALSE, FALSE, current, "vertex", mode)
    BY <1>2, <1>8, <2>1, <2>3, VertexRead
  <2> QED
    BY <1>8, <2>2, <2>4 DEF a, t, v
<1>9. CASE stage = "pixel" /\ IsWrite(mode)
  <2>1. PICK uav \in BOOLEAN : a = AccessExclusiveFragment(t, v + 1, uav)
    BY <1>2, <1>9 DEF AnswerTo
  <2>2. used2 = written2 /\ written2
    BY <1>5, <1>9
  <2> HIDE DEF a
  <2>3. current.type = "render" /\ IsWrite(mode)
    BY <1>9
  <2>4. FlagsFit(a.tracker, v, written2, written2)
    BY ONLY <1>2, <1>3, <2>1, <2>2, <2>3, PixelWrite
  <2>5. RenderKeeps(t, a, v, written, written2, current, "pixel", mode)
    BY ONLY <1>2, <1>3, <2>1, <2>2, <2>3, PixelWrite
  <2> QED
    BY <1>9, <2>2, <2>4, <2>5 DEF a, t, v
<1>10. CASE stage = "pixel" /\ ~ IsWrite(mode)
  <2>1. a = AccessSharedFragment(t, v + 1)
    BY <1>2, <1>10 DEF AnswerTo
  <2>2. used2 = TRUE /\ written2 = written
    BY <1>5, <1>10
  <2> HIDE DEF a
  <2>4. /\ FlagsFit(a.tracker, v, TRUE, written)
        /\ RenderKeeps(t, a, v, written, written, current, "pixel", mode)
    BY <1>2, <1>3, <1>10, <2>1, PixelRead
  <2> QED
    BY <1>10, <2>2, <2>4 DEF a, t, v
<1> QED
  BY <1>1, <1>7, <1>8, <1>9, <1>10

LEMMA AccessRender ==
  ASSUME FragmentToVertex = FALSE, BarrierInv, current.type = "render",
         NEW stage \in {"compute", "vertex", "pixel"}, NEW r \in Resources, NEW mode,
         Access(stage, r, mode)
  PROVE  UsesAre' /\ BarriersAreDue' /\ NoneOmitted' /\ \A q \in Bindable' : RenderFits(q)'
<1> DEFINE t == trackers[r]
           v == current.vertex
           a == AnswerTo(current, t, stage, mode)
           use == Use(current, stage, r, mode)
<1>1. /\ stage \in {"vertex", "pixel"} /\ r \in Bindable
      /\ \A p \in pass.pending : p.res # r
      /\ stage = "vertex" => \A u \in current.uses : ~ (u.stage = "pixel" /\ Conflict(u, use))
  BY ShaderStagesAssumption DEF Access, Bindable
<1>2. /\ current'.type = current.type /\ current'.vertex = v
      /\ current'.attachments = current.attachments
      /\ current'.uses = current.uses \union {use}
      /\ current'.barriers = current.barriers \union a.barriers
      /\ pass'.pending = pass.pending \union {use} /\ pass'.open = pass.open
      /\ \A q \in Resources : q # r => trackers'[q] = trackers[q]
      /\ trackers'[r] = a.tracker
  BY AccessIs DEF BarrierInv
<1>3. use.stage = stage /\ use.res = r /\ use.mode = mode
  BY DEF Use
<1>4. UsesAre /\ BarriersAreDue /\ NoneOmitted /\ \A q \in Bindable : RenderFits(q)
  BY DEF BarrierInv, IdsInv
<1>5. Bindable' = Bindable /\ Stages' = Stages /\ Stages = {"vertex", "pixel"}
  BY <1>2 DEF Bindable, Stages
<1>6. PICK used \in BOOLEAN, written \in BOOLEAN, used2 \in BOOLEAN, written2 \in BOOLEAN :
        /\ used <=> PixelUsed(r)
        /\ written <=> PixelWritten(r)
        /\ used2 <=> PixelUsed(r)'
        /\ written2 <=> PixelWritten(r)'
  <2>1. \A F \in BOOLEAN : F = TRUE \/ F = FALSE
    OBVIOUS
  <2>2. \E b \in BOOLEAN : b <=> PixelUsed(r)
    BY <2>1
  <2>3. \E b \in BOOLEAN : b <=> PixelWritten(r)
    BY <2>1
  <2>4. \E b \in BOOLEAN : b <=> PixelUsed(r)'
    BY <2>1
  <2>5. \E b \in BOOLEAN : b <=> PixelWritten(r)'
    BY <2>1
  <2> QED
    BY <2>2, <2>3, <2>4, <2>5
<1>7. FlagsFit(a.tracker, v, used2, written2) /\ RenderKeeps(t, a, v, written, written2, current, stage, mode)
  <2>1. /\ FragmentToVertex = FALSE /\ BarrierInv /\ current.type = "render"
        /\ stage \in {"compute", "vertex", "pixel"} /\ r \in Resources
        /\ Access(stage, r, mode)
        /\ used \in BOOLEAN /\ written \in BOOLEAN
        /\ used2 \in BOOLEAN /\ written2 \in BOOLEAN
        /\ used <=> PixelUsed(r)
        /\ written <=> PixelWritten(r)
        /\ used2 <=> PixelUsed(r)'
        /\ written2 <=> PixelWritten(r)'
    BY <1>6
  <2>2. FlagsFit(a.tracker, v, used2, written2)
    BY ONLY <2>1, RenderAnswers, ZenonT(60)
  <2>3. RenderKeeps(t, a, v, written, written2, current, stage, mode)
    BY ONLY <2>1, RenderAnswers, ZenonT(60)
  <2> QED
    BY <2>2, <2>3
<1>8. \A q : q # r => (PixelUsed(q)' <=> PixelUsed(q)) /\ (PixelWritten(q)' <=> PixelWritten(q))
  BY <1>2, PixelUsesAre DEF use
<1> HIDE DEF a, use, v, t
<1>9. UsesAre'
  <2>1. ASSUME NEW p \in pass'.pending
        PROVE  p \in current'.uses /\ p.stage \in Stages /\ p.res \in Bindable
    BY <1>1, <1>2, <1>3, <1>4, <1>5 DEF UsesAre
  <2>2. ASSUME NEW x \in pass'.open
        PROVE  /\ x.stage \in Stages /\ x.to \in Stages /\ x.res \in Bindable
               /\ \E u \in current'.uses : u.stage = x.stage /\ u.res = x.res /\ u.mode = x.mode
    BY <1>2, <1>4 DEF UsesAre
  <2> QED
    BY <1>2, <1>5, <2>1, <2>2 DEF UsesAre
<1>10. NoneOmitted'
  BY <1>2, <1>4, <1>7 DEF NoneOmitted, RenderKeeps
<1>11. ASSUME NEW x, IsDue(current, x) \/ IsOrdered(a.barriers, x, current) PROVE IsDue(current', x)
  BY <1>2, <1>11 DEF IsDue, IsOrdered, Ordered
<1>12. ASSUME NEW x \in pass.open, x.res = r
       PROVE  /\ IsDue(current, x) \/ RenderRemembers(t, v, written, x)
              /\ x.stage \in {"vertex", "pixel"} /\ x.to \in {"vertex", "pixel"}
  <2>1. RenderFits(r)
    BY <1>1, <1>4
  <2>2. IsDue(current, x) \/ RenderRemembers(t, v, PixelWritten(r), x)
    BY <1>12, <2>1 DEF RenderFits, t, v
  <2>3. RenderRemembers(t, v, PixelWritten(r), x) => RenderRemembers(t, v, written, x)
    BY <1>6, RemembersOf
  <2> QED
    BY <1>4, <1>5, <2>2, <2>3 DEF UsesAre
<1>13. ASSUME NEW x \in pass.open, x.to = stage, Conflict(x, use) PROVE IsDue(current', x)
  <2>1. x.res = r /\ (IsWrite(x.mode) \/ IsWrite(mode))
    BY <1>3, <1>13 DEF Conflict
  <2>2. stage = "vertex" => x.stage = "vertex"
    <3> SUFFICES ASSUME stage = "vertex", x.stage # "vertex" PROVE FALSE
      OBVIOUS
    <3>1. PICK u \in current.uses : u.stage = x.stage /\ u.res = x.res /\ u.mode = x.mode
      BY <1>4 DEF UsesAre
    <3>2. u.stage = "pixel" /\ Conflict(u, use)
      BY <1>12, <1>13, <2>1, <3>1 DEF Conflict
    <3> QED
      BY <1>1, <3>2
  <2>3. CASE IsDue(current, x)
    BY <1>11, <2>3
  <2>4. CASE RenderRemembers(t, v, written, x)
    <3>1. x.stage \in {"vertex", "pixel"} /\ x.to \in {"vertex", "pixel"}
      BY <1>12, <2>1
    <3>2. IsOrdered(a.barriers, x, current)
      BY <1>7, <1>13, <2>1, <2>2, <2>4, <3>1 DEF RenderKeeps
    <3> QED
      BY <1>11, <3>2
  <2> QED
    BY <1>12, <2>1, <2>3, <2>4
<1>14. BarriersAreDue'
  <2> SUFFICES ASSUME NEW x \in pass'.open, NEW p \in pass'.pending, x.to = p.stage, Conflict(x, p)
               PROVE  IsDue(current', x)
    BY <1>2 DEF BarriersAreDue
  <2>1. CASE p \in pass.pending
    BY <1>2, <1>4, <1>11, <2>1 DEF BarriersAreDue
  <2>2. CASE p = use
    BY <1>2, <1>3, <1>13, <2>2
  <2> QED
    BY <1>2, <2>1, <2>2
<1>15. RenderFits(r)'
  <2>1. ASSUME NEW x \in pass'.open, x.res = r
        PROVE  IsDue(current', x) \/ RenderRemembers(a.tracker, v, written2, x)
    <3>1. x \in pass.open
      BY <1>2
    <3>2. CASE IsDue(current, x)
      BY <1>11, <3>2
    <3>3. CASE RenderRemembers(t, v, written, x)
      <4>1. x.stage \in {"vertex", "pixel"} /\ x.to \in {"vertex", "pixel"}
        BY <1>12, <2>1, <3>1
      <4>2. RenderRemembers(a.tracker, v, written2, x) \/ IsOrdered(a.barriers, x, current)
        BY <1>7, <3>3, <4>1 DEF RenderKeeps
      <4> QED
        BY <1>11, <4>2
    <3> QED
      BY <1>12, <2>1, <3>1, <3>2, <3>3
  <2>2. ASSUME NEW p \in pass'.pending, p.res = r, NEW x \in Opened(p)
        PROVE  RenderRemembers(a.tracker, v, written2, x)
    <3>1. p = use
      BY <1>1, <1>2, <2>2
    <3>2. x.stage = stage /\ x.mode = mode
      BY <1>3, <3>1, OpenedIs
    <3> QED
      BY <1>7, <3>2 DEF RenderKeeps
  <2>3. \A x : RenderRemembers(a.tracker, v, written2, x)
                 => RenderRemembers(a.tracker, v, PixelWritten(r)', x)
    BY <1>6, RemembersOf
  <2>4. FlagsFit(a.tracker, v, PixelUsed(r)', PixelWritten(r)')
    BY <1>6, <1>7 DEF FlagsFit
  <2> QED
    BY <1>2, <2>1, <2>2, <2>3, <2>4 DEF RenderFits
<1>16. ASSUME NEW q \in Bindable, q # r PROVE RenderFits(q)'
  <2> DEFINE k == trackers[q]
             Remembers(x) == RenderRemembers(k, v, PixelWritten(q), x)
  <2>1. /\ FlagsFit(k, v, PixelUsed(q), PixelWritten(q))
        /\ \A x \in pass.open : x.res = q => IsDue(current, x) \/ Remembers(x)
        /\ \A p \in pass.pending : p.res = q => \A x \in Opened(p) : Remembers(x)
    BY <1>4 DEF RenderFits, v
  <2>2. trackers'[q] = k
    BY <1>2, <1>16 DEF Bindable
  <2>3. \A x : Remembers(x) => RenderRemembers(k, v, PixelWritten(q)', x)
    BY <1>8, <1>16, RemembersOf
  <2>4. FlagsFit(k, v, PixelUsed(q)', PixelWritten(q)')
    BY <1>8, <1>16, <2>1 DEF FlagsFit
  <2> HIDE DEF k, Remembers
  <2>5. ASSUME NEW x \in pass'.open, x.res = q
        PROVE  IsDue(current', x) \/ RenderRemembers(k, v, PixelWritten(q)', x)
    BY <1>2, <1>11, <2>1, <2>3, <2>5
  <2>6. ASSUME NEW p \in pass'.pending, p.res = q, NEW x \in Opened(p)
        PROVE  RenderRemembers(k, v, PixelWritten(q)', x)
    BY <1>2, <1>3, <1>16, <2>1, <2>3, <2>6
  <2> QED
    BY <1>2, <2>2, <2>4, <2>5, <2>6 DEF RenderFits
<1> QED
  BY <1>5, <1>9, <1>10, <1>14, <1>15, <1>16

LEMMA AccessBarriers ==
  ASSUME FragmentToVertex = FALSE, BarrierInv, NEW stage \in {"compute", "vertex", "pixel"},
         NEW r \in Resources, NEW mode, Access(stage, r, mode)
  PROVE  BarrierInv'
<1>1. /\ IsEncoder(current') /\ current'.type = current.type /\ current'.id = current.id
      /\ current'.vertex = current.vertex
      /\ encoder_id' = encoder_id /\ ignore_waw' = ignore_waw /\ IsPass(pass')
      /\ trackers' \in [Resources -> Tracker] /\ AllBelow(trackers', encoder_id')
  BY AccessIs DEF BarrierInv
<1>2. TypeOK' /\ IdsAreBelow'
  BY <1>1 DEF BarrierInv, IdsInv, TypeOK, IdsAreBelow, AllBelow
<1>3. current # NoEncoder
  BY DEF Access
<1>4. CurrentIs'
  BY <1>1, <1>3 DEF BarrierInv, IdsInv, CurrentIs
<1> QED
  BY <1>1, <1>2, <1>4, AccessCompute, AccessRender DEF BarrierInv, IdsInv

-----------------------------------------------------------------------------
(* Every step, the last to the first: the trackers remember what the       *)
(* commands of a pass owe each other, if no vertex stage uses what a       *)
(* fragment stage of its own pass used.                                    *)
THEOREM BarrierInvariance == FragmentToVertex = FALSE => (Spec => []BarrierInv)
<1> SUFFICES ASSUME FragmentToVertex = FALSE PROVE Spec => []BarrierInv
  OBVIOUS
<1>1. Init => BarrierInv
  BY InitBarriers
<1>2. BarrierInv /\ [Next]_vars => BarrierInv'
  <2> SUFFICES ASSUME BarrierInv, [Next]_vars PROVE BarrierInv'
    OBVIOUS
  <2>0. IdsInv
    BY DEF BarrierInv
  <2>1. ASSUME NEW planes \in ClearSets, Clear(planes) PROVE BarrierInv'
    BY <2>1, <2>0, OnePassBarriers DEF Clear
  <2>2. ASSUME NEW p \in Resolves, ResolveTexture(p[1], p[2]) PROVE BarrierInv'
    BY <2>2, <2>0, OnePassBarriers DEF ResolveTexture
  <2>3. ASSUME NEW p \in Presents, Present(p[1], p[2]) PROVE BarrierInv'
    BY <2>3, <2>0, OnePassBarriers DEF Present
  <2>4. CASE Event
    BY <2>4, <2>0, EventBarriers
  <2>5. ASSUME NEW planes \in AttachmentSets, NEW readonly \in ReadonlySets,
               StartRenderPass(planes, readonly)
        PROVE  BarrierInv'
    BY <2>5, <2>0, StartRenderPassBarriers
  <2>6. ASSUME NEW type \in PassTypes, StartPass(type) PROVE BarrierInv'
    BY <2>6, <2>0, StartPassBarriers
  <2>7. ASSUME NEW stage \in {"compute", "vertex", "pixel"}, NEW r \in Resources,
               NEW mode \in {"read", "write", "uav"}, Access(stage, r, mode)
        PROVE  BarrierInv'
    BY <2>7, AccessBarriers
  <2>8. CASE SetIntrapassControl
    BY <2>8, SetIntrapassControlBarriers
  <2>9. CASE Command
    BY <2>9, CommandBarriers
  <2>10. CASE EndPass
    BY <2>10, <2>0, EndPassBarriers
  <2>11. CASE FlushCommands
    BY <2>11, <2>0, FlushBarriers
  <2>12. CASE UNCHANGED vars
    BY <2>12, UnchangedBarriers
  <2> QED
    BY <2>1, <2>2, <2>3, <2>4, <2>5, <2>6, <2>7, <2>8, <2>9, <2>10, <2>11, <2>12 DEF Next
<1> QED
  BY <1>1, <1>2, PTL DEF Spec

(* Between two commands of a pass that conflict there is a barrier, if it  *)
(* is not masked (the flags of the trackers, resolve*PassBarrier).         *)
THEOREM CommandsHaveBarriers ==
  FragmentToVertex = FALSE => (Spec => []BarriersBetweenConflicts)
<1> SUFFICES ASSUME FragmentToVertex = FALSE PROVE Spec => []BarriersBetweenConflicts
  OBVIOUS
<1>1. BarrierInv => BarriersBetweenConflicts
  <2> SUFFICES ASSUME BarrierInv, current # NoEncoder, current.type # "blit",
                      NEW x \in StillOpen, NEW p \in pass.pending,
                      x.to = p.stage, Conflict(x, p)
               PROVE  ignore_waw /\ (current.type = "render" \/ p.mode = "uav")
    BY DEF BarriersBetweenConflicts
  <2> DEFINE names == Emitted(current.barriers, ignore_waw)
  <2>1. /\ x \in pass.open /\ ~ Ordered(x, current, EmittedBy(current, ignore_waw))
        /\ current.type \in {"render", "compute"}
    BY DEF StillOpen, BarrierInv, IdsInv, CurrentIs
  <2>2. /\ IsDue(current, x)
        /\ current.type = "compute" /\ ~ IsWrite(p.mode) => ReadIsDue(current)
    BY <2>1 DEF BarrierInv, BarriersAreDue
  <2>3. EmittedBy(current, ignore_waw) = names
    BY <2>1 DEF EmittedBy, Omitted, BarrierInv, NoneOmitted, Emitted
  <2>4. ignore_waw
    <3>1. PICK b \in current.barriers : Ordered(x, current, { b[1] })
      BY <2>2 DEF IsDue
    <3>2. ~ ignore_waw => b[1] \in names
      BY DEF Emitted
    <3>3. b[1] \notin names
      <4> HIDE DEF names
      <4> QED
        BY <2>1, <2>3, <3>1 DEF Ordered
    <3> QED
      BY <3>2, <3>3
  <2>5. current.type = "compute" => IsWrite(p.mode)
    <3> SUFFICES ASSUME current.type = "compute", ~ IsWrite(p.mode) PROVE FALSE
      OBVIOUS
    <3>1. <<"barrier", "RW">>[1] = "barrier" /\ <<"barrier", "RW">>[2] = "RW"
      OBVIOUS
    <3>2. "barrier" \in names
      BY <2>2, <3>1, EmittedIs DEF ReadIsDue
    <3> HIDE DEF names
    <3> QED
      BY <2>1, <2>3, <3>2 DEF Ordered
  <2>6. current.type = "compute" => p.mode = "uav"
    BY <2>1, <2>5 DEF BarrierInv, UsesAre, IsWrite
  <2> QED
    BY <2>1, <2>4, <2>6
<1> QED
  BY <1>1, BarrierInvariance, PTL

-----------------------------------------------------------------------------
(* The loops of the optimizer. Their definitions are recursive; what holds *)
(* of them is by induction on the steps of a loop.                         *)

LEMMA Induction ==
  ASSUME NEW n \in Nat, NEW T, 0 \in T, \A k \in 0 .. n - 1 : k \in T => k + 1 \in T
  PROVE  0 .. n \subseteq T
<1> DEFINE bad == (0 .. n) \ T
<1>1. bad \subseteq Nat /\ 0 \notin bad
  OBVIOUS
<1>2. SUFFICES ASSUME bad # {} PROVE FALSE
  OBVIOUS
<1>3. PICK x \in bad : \A y \in bad : ~(<<y, x>> \in OpToRel(<, Nat))
  BY <1>1, <1>2, NatLessThanWellFounded, WFMin
<1>4. x \in 0 .. n /\ x \notin T /\ x # 0
  BY <1>1, <1>3
<1>5. x - 1 \in 0 .. n - 1 /\ x - 1 + 1 = x /\ x - 1 \in 0 .. n /\ x - 1 \in Nat /\ x - 1 < x
  BY <1>4
<1>6. x - 1 \in bad
  BY <1>4, <1>5
<1>7. <<x - 1, x>> \in OpToRel(<, Nat)
  BY <1>4, <1>5 DEF OpToRel
<1> QED
  BY <1>3, <1>6, <1>7

(* One step of a loop: of MoveDown, of AllMoved (j is the length), of      *)
(* Remaining, of MinimalFences (j is the id), of Contents and Run.         *)
Step(loop, list, j, k, s) ==
  CASE loop = "down" -> Visit(s, j, j + k)
    [] loop = "all"  -> Moved(s, j + 1 - k)
    [] loop = "left" -> IF list[k].type = "null" THEN s ELSE Append(s, list[k])
    [] loop = "back" -> VisitFence(s, list.full, list.summary, Fence(j - k))
    [] loop = "contents" -> ContentsAfter(s, list[k])
    [] loop = "run"  -> Executed(s, list[k])

Iterates(f, loop, list, j, first, n) ==
  f = [k \in 0 .. n |-> IF k = 0 THEN first ELSE Step(loop, list, j, k, f[k - 1])]

LEMMA IteratesAt ==
  ASSUME NEW f, NEW loop, NEW list, NEW j, NEW first, NEW n \in Nat,
         Iterates(f, loop, list, j, first, n)
  PROVE  /\ f[0] = first
         /\ \A k \in 1 .. n : f[k] = Step(loop, list, j, k, f[k - 1])
<1>1. \A k \in 0 .. n : f[k] = IF k = 0 THEN first ELSE Step(loop, list, j, k, f[k - 1])
  BY DEF Iterates
<1> QED
  BY <1>1

LEMMA IteratesNext ==
  ASSUME NEW f, NEW loop, NEW list, NEW j, NEW first, NEW n \in Nat,
         Iterates(f, loop, list, j, first, n)
  PROVE  \E g : Iterates(g, loop, list, j, first, n + 1)
<1> DEFINE next == Step(loop, list, j, n + 1, f[n])
           g == [k \in 0 .. n + 1 |-> IF k = n + 1 THEN next ELSE f[k]]
<1>1. DOMAIN g = 0 .. n + 1 /\ g = [k \in 0 .. n + 1 |-> g[k]]
  OBVIOUS
<1> HIDE DEF next
<1>2. g[n + 1] = next /\ \A k \in 0 .. n : g[k] = f[k]
  <2>1. n + 1 \in 0 .. n + 1 /\ \A k \in 0 .. n : k \in 0 .. n + 1 /\ k # n + 1
    OBVIOUS
  <2> QED
    BY <2>1
<1> HIDE DEF g
<1>3. ASSUME NEW k \in 0 .. n + 1
      PROVE  g[k] = IF k = 0 THEN first ELSE Step(loop, list, j, k, g[k - 1])
  <2>1. CASE k = n + 1
    <3>1. k - 1 = n /\ n \in 0 .. n /\ k # 0
      BY <2>1
    <3>2. g[k - 1] = f[n]
      BY <1>2, <3>1
    <3> QED
      BY <1>2, <2>1, <3>1, <3>2 DEF next
  <2>2. CASE k = 0
    <3>1. k \in 0 .. n
      BY <2>2
    <3> QED
      BY <1>2, <2>2, <3>1, IteratesAt
  <2>3. CASE k # 0 /\ k # n + 1
    <3>1. k \in 1 .. n /\ k \in 0 .. n /\ k - 1 \in 0 .. n
      BY <2>3
    <3>2. g[k] = f[k] /\ g[k - 1] = f[k - 1] /\ f[k] = Step(loop, list, j, k, f[k - 1])
      BY <1>2, <3>1, IteratesAt
    <3> QED
      BY <2>3, <3>2
  <2> QED
    BY <2>1, <2>2, <2>3
<1>4. g = [k \in 0 .. n + 1 |-> IF k = 0 THEN first ELSE Step(loop, list, j, k, g[k - 1])]
  BY <1>1, <1>3
<1> QED
  BY <1>4 DEF Iterates

LEMMA IteratesExists ==
  ASSUME NEW loop, NEW list, NEW j, NEW first, NEW n \in Nat
  PROVE  \E f : Iterates(f, loop, list, j, first, n)
<1> DEFINE T == { k \in Nat : \E f : Iterates(f, loop, list, j, first, k) }
<1>1. 0 \in T
  <2> DEFINE f == [k \in 0 .. 0 |-> first]
  <2>1. \A k \in 0 .. 0 : k = 0
    OBVIOUS
  <2>2. f = [k \in 0 .. 0 |-> IF k = 0 THEN first ELSE Step(loop, list, j, k, f[k - 1])]
    BY <2>1
  <2>3. Iterates(f, loop, list, j, first, 0)
    BY ONLY <2>2 DEF Iterates
  <2> QED
    BY <2>3
<1>2. \A k \in 0 .. n - 1 : k \in T => k + 1 \in T
  BY IteratesNext
<1>3. n \in T <=> \E f : Iterates(f, loop, list, j, first, n)
  OBVIOUS
<1> HIDE DEF T
<1>4. n \in T
  BY <1>1, <1>2, Induction
<1> QED
  BY <1>3, <1>4

LEMMA StepIs ==
  ASSUME NEW list, NEW j, NEW k, NEW s
  PROVE  /\ Step("down", list, j, k, s) = Visit(s, j, j + k)
         /\ Step("all", list, j, k, s) = Moved(s, j + 1 - k)
         /\ Step("left", list, j, k, s) =
              IF list[k].type = "null" THEN s ELSE Append(s, list[k])
         /\ Step("back", list, j, k, s) =
              VisitFence(s, list.full, list.summary, Fence(j - k))
         /\ Step("contents", list, j, k, s) = ContentsAfter(s, list[k])
         /\ Step("run", list, j, k, s) = Executed(s, list[k])
  BY DEF Step

LEMMA MoveDownIs ==
  ASSUME NEW list, NEW j, Len(list) - j \in Nat
  PROVE  \E f : /\ f[0] = Continue(list)
                /\ \A k \in 1 .. Len(list) - j : f[k] = Visit(f[k - 1], j, j + k)
                /\ MoveDown(list, j) = f[Len(list) - j].list
<1> DEFINE n == Len(list) - j
           Is(f) == f = [k \in 0 .. n |-> IF k = 0 THEN Continue(list)
                                          ELSE Visit(f[k - 1], j, j + k)]
           f == CHOOSE f : Is(f)
<1>1. \E g : Is(g)
  <2>1. n \in Nat
    OBVIOUS
  <2>2. PICK g : Iterates(g, "down", list, j, Continue(list), n)
    BY <2>1, IteratesExists
  <2>3. \A k, t : Step("down", list, j, k, t) = Visit(t, j, j + k)
    BY StepIs
  <2> HIDE DEF n
  <2>4. g = [k \in 0 .. n |-> IF k = 0 THEN Continue(list) ELSE Visit(g[k - 1], j, j + k)]
    BY <2>2, <2>3 DEF Iterates
  <2> QED
    BY <2>4
<1>2. Is(f)
  BY <1>1
<1>3. MoveDown(list, j) = f[n].list
  BY DEF MoveDown
<1> HIDE DEF f
<1>4. \A k \in 0 .. n : f[k] = IF k = 0 THEN Continue(list) ELSE Visit(f[k - 1], j, j + k)
  BY <1>2
<1>5. 0 \in 0 .. n /\ \A k \in 1 .. n : k \in 0 .. n /\ k # 0
  OBVIOUS
<1> HIDE DEF n
<1> QED
  BY <1>3, <1>4, <1>5 DEF n

LEMMA AllMovedIs ==
  ASSUME NEW list, Len(list) \in Nat
  PROVE  \E f : /\ f[0] = list
                /\ \A k \in 1 .. Len(list) : f[k] = Moved(f[k - 1], Len(list) + 1 - k)
                /\ AllMoved(list) = f[Len(list)]
<1> DEFINE n == Len(list)
           Is(f) == f = [k \in 0 .. n |-> IF k = 0 THEN list ELSE Moved(f[k - 1], n + 1 - k)]
           f == CHOOSE f : Is(f)
<1>1. \E g : Is(g)
  <2>1. n \in Nat
    OBVIOUS
  <2>2. PICK g : Iterates(g, "all", list, n, list, n)
    BY <2>1, IteratesExists
  <2>3. \A k, t : Step("all", list, n, k, t) = Moved(t, n + 1 - k)
    BY StepIs
  <2> HIDE DEF n
  <2>4. g = [k \in 0 .. n |-> IF k = 0 THEN list ELSE Moved(g[k - 1], n + 1 - k)]
    BY <2>2, <2>3 DEF Iterates
  <2> QED
    BY <2>4
<1>2. Is(f)
  BY <1>1
<1>3. AllMoved(list) = f[n]
  BY DEF AllMoved
<1> HIDE DEF f
<1>4. \A k \in 0 .. n : f[k] = IF k = 0 THEN list ELSE Moved(f[k - 1], n + 1 - k)
  BY <1>2
<1>5. 0 \in 0 .. n /\ \A k \in 1 .. n : k \in 0 .. n /\ k # 0
  OBVIOUS
<1> HIDE DEF n
<1> QED
  BY <1>3, <1>4, <1>5 DEF n

LEMMA RemainingIs ==
  ASSUME NEW list, Len(list) \in Nat
  PROVE  \E f : /\ f[0] = <<>>
                /\ \A k \in 1 .. Len(list) :
                     f[k] = IF list[k].type = "null" THEN f[k - 1]
                            ELSE Append(f[k - 1], list[k])
                /\ Remaining(list) = f[Len(list)]
<1> DEFINE n == Len(list)
           next(k, s) == IF list[k].type = "null" THEN s ELSE Append(s, list[k])
           Is(f) == f = [k \in 0 .. n |-> IF k = 0 THEN <<>> ELSE next(k, f[k - 1])]
           f == CHOOSE f : Is(f)
<1>1. \E g : Is(g)
  <2>1. n \in Nat
    OBVIOUS
  <2>2. PICK g : Iterates(g, "left", list, n, <<>>, n)
    BY <2>1, IteratesExists
  <2>3. \A k, t : Step("left", list, n, k, t) = next(k, t)
    BY StepIs
  <2> HIDE DEF next
  <2>4. g = [k \in 0 .. n |-> IF k = 0 THEN <<>> ELSE next(k, g[k - 1])]
    BY <2>2, <2>3 DEF Iterates
  <2> QED
    BY <2>4
<1>2. Is(f)
  BY <1>1
<1>3. Remaining(list) = f[n]
  BY DEF Remaining
<1> HIDE DEF f
<1>4. \A k \in 0 .. n : f[k] = IF k = 0 THEN <<>> ELSE next(k, f[k - 1])
  BY <1>2
<1>5. 0 \in 0 .. n /\ \A k \in 1 .. n : k \in 0 .. n /\ k # 0
  OBVIOUS
<1> HIDE DEF n
<1> QED
  BY <1>3, <1>4, <1>5 DEF n

-----------------------------------------------------------------------------
(* The lists that the optimizer makes of a list.                           *)

LEMMA ListIs ==
  ASSUME NEW list, IsList(list)
  PROVE  Len(list) \in Nat /\ DOMAIN list = 1 .. Len(list)
  BY DEF IsList

LEMMA EventsAgree ==
  ASSUME NEW list, NEW after, NEW n \in Nat, NEW i \in 0 .. n,
         \A k \in 1 .. n : list[k].type = "event" <=> after[k].type = "event"
  PROVE  EventsUpTo(list, i) = EventsUpTo(after, i)
<1>1. \A k \in 1 .. i : k \in 1 .. n
  OBVIOUS
<1> QED
  BY <1>1 DEF EventsUpTo

LEMMA EventsNext ==
  ASSUME NEW list, NEW i \in Nat \ {0}
  PROVE  /\ list[i].type # "event" => EventsUpTo(list, i) = EventsUpTo(list, i - 1)
         /\ list[i].type = "event" =>
              EventsUpTo(list, i) = EventsUpTo(list, i - 1) \union {i}
         /\ i \notin EventsUpTo(list, i - 1)
<1>1. \A k : k \in 1 .. i <=> k = i \/ k \in 1 .. i - 1
  OBVIOUS
<1>2. i \notin 1 .. i - 1
  OBVIOUS
<1> QED
  BY <1>1, <1>2 DEF EventsUpTo

LEMMA KeptSelf == ASSUME NEW list, AreListed(list) PROVE Kept(list, list)
  BY DEF Kept, IdsStay

LEMMA KeptEvents ==
  ASSUME NEW list, NEW after, AreListed(list), Kept(list, after)
  PROVE  /\ AreListed(after) /\ Len(after) = Len(list) /\ Len(list) \in Nat
         /\ DOMAIN list = 1 .. Len(list) /\ DOMAIN after = 1 .. Len(list)
         /\ \A i \in 0 .. Len(list) : EventsUpTo(list, i) = EventsUpTo(after, i)
         /\ \A i \in DOMAIN list : EventsUpTo(list, i) = EventsUpTo(after, i)
<1>1. /\ AreListed(after) /\ Len(after) = Len(list) /\ Len(list) \in Nat
      /\ DOMAIN list = 1 .. Len(list) /\ DOMAIN after = 1 .. Len(list)
      /\ \A i \in 1 .. Len(list) : list[i].type = "event" <=> after[i].type = "event"
  BY ListIs DEF Kept, AreListed
<1>2. \A i \in 0 .. Len(list) : EventsUpTo(list, i) = EventsUpTo(after, i)
  BY <1>1, EventsAgree
<1>3. \A i \in DOMAIN list : i \in 0 .. Len(list)
  BY <1>1
<1> QED
  BY <1>1, <1>2, <1>3

LEMMA KeptThen ==
  ASSUME NEW list, NEW after, NEW last, AreListed(list),
         Kept(list, after), Kept(after, last)
  PROVE  Kept(list, last)
<1> DEFINE n == Len(list)
<1>1. /\ n \in Nat /\ DOMAIN list = 1 .. n /\ DOMAIN after = 1 .. n /\ DOMAIN last = 1 .. n
      /\ Len(after) = n /\ Len(last) = n
  BY ListIs DEF Kept, AreListed
<1>2. /\ \A i \in 1 .. n : list[i].type = "event" <=> after[i].type = "event"
      /\ \A i \in 1 .. n : after[i].type = "event" <=> last[i].type = "event"
  BY <1>1 DEF Kept
<1>3. \A i \in 1 .. n : list[i].type = "event" <=> last[i].type = "event"
  BY <1>2
<1>4. \A i \in 1 .. n : /\ EventsUpTo(list, i) = EventsUpTo(after, i)
                        /\ EventsUpTo(last, i) = EventsUpTo(after, i)
  <2>1. n \in Nat /\ \A i \in 1 .. n : i \in 0 .. n
    BY <1>1
  <2> HIDE DEF n
  <2>2. \A i \in 0 .. n : EventsUpTo(list, i) = EventsUpTo(after, i)
    BY ONLY <1>2, <2>1, EventsAgree
  <2>3. \A i \in 0 .. n : EventsUpTo(after, i) = EventsUpTo(last, i)
    BY ONLY <1>2, <2>1, EventsAgree
  <2> QED
    BY ONLY <2>1, <2>2, <2>3
<1> HIDE DEF n
<1>5. IdsStay(list, last)
  <2> SUFFICES ASSUME NEW i \in 1 .. n, NEW id \in IdsOf(list[i])
               PROVE  \E k \in 1 .. n :
                        id \in IdsOf(last[k]) /\ EventsUpTo(list, i) = EventsUpTo(list, k)
    BY <1>1 DEF IdsStay
  <2>1. PICK k \in 1 .. n : id \in IdsOf(after[k]) /\ EventsUpTo(list, i) = EventsUpTo(list, k)
    BY <1>1 DEF Kept, IdsStay
  <2>2. PICK m \in 1 .. n : id \in IdsOf(last[m]) /\ EventsUpTo(after, k) = EventsUpTo(after, m)
    BY <1>1, <2>1 DEF Kept, IdsStay
  <2> QED
    BY <1>4, <2>1, <2>2
<1>6. IdsStay(last, list)
  <2> SUFFICES ASSUME NEW i \in 1 .. n, NEW id \in IdsOf(last[i])
               PROVE  \E k \in 1 .. n :
                        id \in IdsOf(list[k]) /\ EventsUpTo(last, i) = EventsUpTo(last, k)
    BY <1>1 DEF IdsStay
  <2>1. PICK k \in 1 .. n : id \in IdsOf(after[k]) /\ EventsUpTo(last, i) = EventsUpTo(last, k)
    BY <1>1 DEF Kept, IdsStay
  <2>2. PICK m \in 1 .. n : id \in IdsOf(list[m]) /\ EventsUpTo(after, k) = EventsUpTo(after, m)
    BY <1>1, <2>1 DEF Kept, IdsStay
  <2> QED
    BY <1>4, <2>1, <2>2
<1> QED
  BY <1>1, <1>3, <1>5, <1>6 DEF Kept, n

(* Two passes with no event between them exchange ids.                     *)
LEMMA ExchangeKeeps ==
  ASSUME NEW list, AreListed(list), NEW a \in DOMAIN list, NEW b \in DOMAIN list, a # b,
         NEW x, NEW y, IsListed(x), IsListed(y),
         list[a].type # "event", list[b].type # "event", x.type # "event", y.type # "event",
         EventsUpTo(list, a) = EventsUpTo(list, b),
         IdsOf(x) \union IdsOf(y) = IdsOf(list[a]) \union IdsOf(list[b])
  PROVE  Kept(list, [list EXCEPT ![a] = x, ![b] = y])
<1> DEFINE after == [list EXCEPT ![a] = x, ![b] = y]
           n == Len(list)
<1>1. n \in Nat /\ DOMAIN list = 1 .. n
  BY ListIs DEF AreListed
<1>2. /\ DOMAIN after = 1 .. n /\ after[a] = x /\ after[b] = y
      /\ \A k \in 1 .. n : k # a /\ k # b => after[k] = list[k]
      /\ after = [k \in 1 .. n |-> after[k]]
  BY <1>1
<1> HIDE DEF after, n
<1>3. \A k \in 1 .. n : IsListed(after[k])
  BY <1>1, <1>2 DEF AreListed
<1>4. IsList(after) /\ Len(after) = n
  <2> DEFINE S == { after[i] : i \in DOMAIN after }
  <2>1. \A k \in 1 .. n : after[k] \in S
    BY <1>2
  <2> HIDE DEF S
  <2>2. after \in Seq(S) /\ Len(after) = n
    BY <1>1, <1>2, <2>1
  <2> QED
    BY <2>2 DEF S, IsList
<1>5. \A k \in 1 .. n : list[k].type = "event" <=> after[k].type = "event"
  BY <1>2
<1>6. \A k \in 1 .. n : EventsUpTo(list, k) = EventsUpTo(after, k)
  <2>1. \A k \in 1 .. n : k \in 0 .. n
    BY <1>1
  <2> QED
    BY <1>1, <1>5, <2>1, EventsAgree
<1>7. a \in 1 .. n /\ b \in 1 .. n
  BY <1>1
<1>8. IdsStay(list, after)
  <2> SUFFICES ASSUME NEW i \in 1 .. n, NEW id \in IdsOf(list[i])
               PROVE  \E k \in 1 .. n :
                        id \in IdsOf(after[k]) /\ EventsUpTo(list, i) = EventsUpTo(list, k)
    BY <1>1 DEF IdsStay
  <2>1. CASE i \in {a, b}
    BY <1>2, <1>7, <2>1
  <2>2. CASE i \notin {a, b}
    BY <1>2, <2>2
  <2> QED
    BY <2>1, <2>2
<1>9. IdsStay(after, list)
  <2> SUFFICES ASSUME NEW i \in 1 .. n, NEW id \in IdsOf(after[i])
               PROVE  \E k \in 1 .. n :
                        id \in IdsOf(list[k]) /\ EventsUpTo(after, i) = EventsUpTo(after, k)
    BY <1>2 DEF IdsStay
  <2>1. CASE i \in {a, b}
    BY <1>2, <1>6, <1>7, <2>1
  <2>2. CASE i \notin {a, b}
    BY <1>2, <2>2
  <2> QED
    BY <2>1, <2>2
<1> QED
  BY <1>1, <1>2, <1>3, <1>4, <1>5, <1>8, <1>9 DEF Kept, AreListed, after, n

(* One pass changes and keeps its ids.                                     *)
LEMMA ChangeKeeps ==
  ASSUME NEW list, AreListed(list), NEW a \in DOMAIN list, NEW b \in DOMAIN list, a # b,
         NEW x, IsListed(x), list[a].type # "event", list[b].type # "event",
         x.type # "event", EventsUpTo(list, a) = EventsUpTo(list, b),
         IdsOf(x) = IdsOf(list[a])
  PROVE  Kept(list, [list EXCEPT ![a] = x])
<1>1. Kept(list, [list EXCEPT ![a] = x, ![b] = list[b]])
  <2>1. IsListed(list[b])
    BY DEF AreListed
  <2> QED
    BY <2>1, ExchangeKeeps
<1>2. [list EXCEPT ![a] = x, ![b] = list[b]] = [list EXCEPT ![a] = x]
  OBVIOUS
<1> QED
  BY <1>1, <1>2

(* What the merges of passes make of a pass.                               *)
LEMMA NullIs ==
  ASSUME NEW e, IsEncoder(e)
  PROVE  IsListed(Null(e)) /\ Null(e).type = "null" /\ IdsOf(Null(e)) = {}
  BY DEF IsEncoder, IsListed, Null, IdsOf

LEMMA AbsorbedIs ==
  ASSUME NEW e, NEW from, IsEncoder(e)
  PROVE  LET u == Absorbed(e, from)
         IN  /\ IsEncoder(u) /\ u.type = e.type /\ u.update = e.update \union from.update
             /\ u.update_vertex = e.update_vertex
<1> DEFINE own == { Fence(id) : id \in from.update }
<1>1. Absorbed(e, from) =
        [e EXCEPT !.update = @ \union from.update, !.wait = (@ \union from.wait) \ own,
                  !.uses = @ \union from.uses]
  BY DEF Absorbed
<1> HIDE DEF own
<1> QED
  BY <1>1 DEF IsEncoder

LEMMA AttachmentsAre ==
  ASSUME NEW e, NEW attachments, IsEncoder(e)
  PROVE  LET u == [e EXCEPT !.attachments = attachments]
         IN  /\ IsEncoder(u) /\ u.type = e.type /\ u.update = e.update
             /\ u.update_vertex = e.update_vertex
  BY DEF IsEncoder

LEMMA UnmatchedIs ==
  ASSUME NEW e, NEW render, IsEncoder(e)
  PROVE  LET u == Unmatched(e, render)
         IN  /\ IsEncoder(u) /\ u.type = e.type /\ u.update = e.update
             /\ u.update_vertex = e.update_vertex
  BY DEF IsEncoder, Unmatched

LEMMA ResolvedIs ==
  ASSUME NEW e, NEW resolve, IsEncoder(e)
  PROVE  LET u == ResolvedBy(e, resolve)
         IN  /\ IsEncoder(u) /\ u.type = e.type /\ u.update = e.update
             /\ u.update_vertex = e.update_vertex
<1> DEFINE all == [e.attachments EXCEPT ![resolve.src] =
                     [@ EXCEPT !.store = "resolve", !.resolve = resolve.dst,
                               !.resolver = resolve.id]]
<1>1. ResolvedBy(e, resolve) = [e EXCEPT !.attachments = all]
  BY DEF ResolvedBy
<1> HIDE DEF all
<1> QED
  BY <1>1, AttachmentsAre

LEMMA MergedIs ==
  ASSUME NEW r0, NEW r1, IsEncoder(r1)
  PROVE  LET u == Merged(r0, r1)
         IN  /\ IsEncoder(u) /\ u.type = r1.type /\ u.update = r1.update \union r0.update
             /\ u.update_vertex = r1.update_vertex \union r0.update_vertex
<1> DEFINE all == Absorbed(r1, r0)
<1>1. /\ IsEncoder(all) /\ all.type = r1.type /\ all.update = r1.update \union r0.update
      /\ all.update_vertex = r1.update_vertex
  BY AbsorbedIs
<1> DEFINE loaded(p) == [r1.attachments[p] EXCEPT
                           !.load = r0.attachments[p].load,
                           !.clear = r0.attachments[p].clear,
                           !.store = IF p \in DepthStencil({p})
                                     THEN r0.attachments[p].store ELSE @]
           attachments == [p \in DOMAIN all.attachments |-> loaded(p)]
           vertex == { Fence(id) : id \in r0.update_vertex }
<1>2. Merged(r0, r1) =
        [all EXCEPT !.attachments = attachments, !.cmds = r0.cmds \o @,
                    !.update_vertex = @ \union r0.update_vertex,
                    !.wait_vertex = (@ \union r0.wait_vertex) \ vertex,
                    !.wait = @ \ vertex]
  BY DEF Merged
<1> HIDE DEF all, attachments, vertex
<1> QED
  BY <1>1, <1>2 DEF IsEncoder

(* A clear or a render, and the next pass that is left: until it stops,    *)
(* the loop has met no event.                                              *)
Goes(list, j, i) == list[j].type \in {"clear", "render"} /\ EventsUpTo(list, j) = EventsUpTo(list, i)

LEMMA CheckKeeps ==
  ASSUME NEW list, AreListed(list), NEW j \in DOMAIN list, NEW i \in DOMAIN list, j < i,
         Goes(list, j, i - 1), list[i].type # "null"
  PROVE  LET s == CheckEncoderRelation(list, j, i)
         IN  Kept(list, s.list) /\ (~ s.stop => Goes(s.list, j, i))
<1> DEFINE s == CheckEncoderRelation(list, j, i)
           former == list[j]
           latter == list[i]
           types == <<former.type, latter.type>>
           dependent == HasDataDependency(former, latter)
           clear == Unmatched(former, latter)
           cleared == ClearedBy(latter, former)
<1>1. /\ former.type \in {"clear", "render"} /\ former.type # "null" /\ former.type # "event"
      /\ i # j /\ i \in Nat \ {0} /\ DOMAIN list = 1 .. Len(list) /\ Len(list) \in Nat
      /\ IsListed(former) /\ IsListed(latter) /\ IsEncoder(former) /\ IsEncoder(latter)
  BY ListIs DEF Goes, AreListed, IsListed
<1>2. CASE latter.type = "event"
  <2>1. {former.type, latter.type} \intersect Fixed # {}
    BY <1>2 DEF Fixed
  <2>2. s = Stop(list)
    BY <1>1, <1>2, <2>1 DEF CheckEncoderRelation
  <2> QED
    BY <2>2, KeptSelf DEF Stop
<1>3. CASE latter.type # "event"
  <2>1. /\ {former.type, latter.type} \intersect Fixed = {}
        /\ EventsUpTo(list, j) = EventsUpTo(list, i)
    BY <1>1, <1>3, EventsNext DEF Fixed, Goes
  <2>2. CASE types = <<"clear", "render">> /\ clear.planes = {}
    <3>1. s = Stop([list EXCEPT ![j] = Null(@), ![i] = Absorbed(cleared, former)])
      BY <1>1, <2>1, <2>2 DEF CheckEncoderRelation
    <3>2. former.type = "clear" /\ latter.type = "render" /\ former.update_vertex = {}
      BY <1>1, <2>2 DEF IsListed
    <3>3. /\ IsEncoder(cleared) /\ cleared.type = "render" /\ cleared.update = latter.update
          /\ cleared.update_vertex = latter.update_vertex
      BY <1>1, <3>2, AttachmentsAre DEF ClearedBy
    <3> DEFINE x == Null(former)
               y == Absorbed(cleared, former)
    <3>4. IsListed(x) /\ x.type = "null" /\ IdsOf(x) = {}
      BY <1>1, NullIs
    <3> HIDE DEF cleared
    <3>5. /\ IsListed(y) /\ y.type = "render" /\ y.update = latter.update \union former.update
          /\ y.update_vertex = latter.update_vertex
      BY <3>3, AbsorbedIs DEF IsListed
    <3>6. s = Stop([list EXCEPT ![j] = x, ![i] = y])
      BY <1>1, <3>1
    <3> HIDE DEF x, y, s
    <3>7. IdsOf(x) \union IdsOf(y) = IdsOf(former) \union IdsOf(latter)
      BY <3>2, <3>4, <3>5 DEF IdsOf
    <3>8. Kept(list, [list EXCEPT ![j] = x, ![i] = y])
      BY <1>1, <1>3, <2>1, <3>4, <3>5, <3>7, ExchangeKeeps
    <3>9. Kept(list, s.list) /\ s.stop
      BY <3>6, <3>8 DEF Stop
    <3> QED
      BY <3>9 DEF s
  <2>3. CASE types = <<"clear", "render">> /\ clear.planes # {}
    <3>1. s = [list |-> [list EXCEPT ![j] = clear, ![i] = cleared], stop |-> dependent]
      BY <1>1, <2>1, <2>3 DEF CheckEncoderRelation
    <3>2. former.type = "clear" /\ latter.type = "render"
      BY <2>3
    <3>3. /\ IsEncoder(cleared) /\ cleared.type = "render" /\ cleared.update = latter.update
          /\ cleared.update_vertex = latter.update_vertex
      BY <1>1, <3>2, AttachmentsAre DEF ClearedBy
    <3>4. /\ IsEncoder(clear) /\ clear.type = "clear" /\ clear.update = former.update
          /\ clear.update_vertex = former.update_vertex
      BY <1>1, <3>2, UnmatchedIs
    <3> HIDE DEF cleared, clear, s, dependent
    <3>5. IsListed(clear) /\ IsListed(cleared)
      BY <1>1, <3>2, <3>3, <3>4 DEF IsListed
    <3>6. IdsOf(clear) \union IdsOf(cleared) = IdsOf(former) \union IdsOf(latter)
      BY <3>2, <3>3, <3>4 DEF IdsOf
    <3>7. Kept(list, [list EXCEPT ![j] = clear, ![i] = cleared])
      BY <1>1, <1>3, <2>1, <3>3, <3>4, <3>5, <3>6, ExchangeKeeps
    <3>8. Kept(list, s.list) /\ s.list[j].type = "clear"
      BY <1>1, <3>1, <3>4, <3>7
    <3>9. EventsUpTo(s.list, j) = EventsUpTo(s.list, i)
      BY <1>1, <2>1, <3>8, KeptEvents
    <3> QED
      BY <3>8, <3>9 DEF Goes, s
  <2>4. CASE types = <<"render", "clear">>
    <3> DEFINE x == NotStored(former, latter)
    <3>1. s = [list |-> [list EXCEPT ![j] = NotStored(former, latter)], stop |-> dependent]
      BY <1>1, <2>1, <2>4 DEF CheckEncoderRelation
    <3>2. former.type = "render" /\ latter.type = "clear"
      BY <2>4
    <3>3. /\ IsEncoder(x) /\ x.type = "render" /\ x.update = former.update
          /\ x.update_vertex = former.update_vertex
      BY <1>1, <3>2, AttachmentsAre DEF NotStored
    <3> HIDE DEF x, s, dependent
    <3>4. IsListed(x) /\ IdsOf(x) = IdsOf(former)
      BY <3>2, <3>3 DEF IsListed, IdsOf
    <3>5. Kept(list, [list EXCEPT ![j] = x])
      BY <1>1, <1>3, <2>1, <3>3, <3>4, ChangeKeeps
    <3>6. Kept(list, s.list) /\ s.list[j].type = "render"
      BY <1>1, <3>1, <3>3, <3>5 DEF x
    <3>7. EventsUpTo(s.list, j) = EventsUpTo(s.list, i)
      BY <1>1, <2>1, <3>6, KeptEvents
    <3> QED
      BY <3>6, <3>7 DEF Goes, s
  <2>5. CASE types = <<"render", "resolve">> /\ MayResolve(former, latter)
    <3> DEFINE resolved == ResolvedBy(former, latter)
               x == Absorbed(resolved, latter)
               y == Null(latter)
    <3>1. s = Continue([list EXCEPT ![j] = x, ![i] = Null(@)])
      BY <1>1, <2>1, <2>5 DEF CheckEncoderRelation
    <3>2. former.type = "render" /\ latter.type = "resolve" /\ latter.update_vertex = {}
      BY <1>1, <2>5 DEF IsListed
    <3>3. /\ IsEncoder(resolved) /\ resolved.type = "render"
          /\ resolved.update = former.update
          /\ resolved.update_vertex = former.update_vertex
      BY <1>1, <3>2, ResolvedIs
    <3> HIDE DEF resolved
    <3>4. IsListed(y) /\ y.type = "null" /\ IdsOf(y) = {}
      BY <1>1, NullIs
    <3>5. /\ IsListed(x) /\ x.type = "render" /\ x.update = former.update \union latter.update
          /\ x.update_vertex = former.update_vertex
      BY <3>3, AbsorbedIs DEF IsListed
    <3>6. s = Continue([list EXCEPT ![j] = x, ![i] = y])
      BY <1>1, <3>1
    <3> HIDE DEF x, y, s
    <3>7. IdsOf(x) \union IdsOf(y) = IdsOf(former) \union IdsOf(latter)
      BY <3>2, <3>4, <3>5 DEF IdsOf
    <3>8. Kept(list, [list EXCEPT ![j] = x, ![i] = y])
      BY <1>1, <1>3, <2>1, <3>4, <3>5, <3>7, ExchangeKeeps
    <3>9. Kept(list, s.list) /\ s.list[j].type = "render"
      BY <1>1, <3>5, <3>6, <3>8 DEF Continue
    <3>10. EventsUpTo(s.list, j) = EventsUpTo(s.list, i)
      BY <1>1, <2>1, <3>9, KeptEvents
    <3> QED
      BY <3>9, <3>10 DEF Goes, s
  <2>6. CASE types = <<"render", "render">> /\ MayMerge(former, latter)
    <3> DEFINE x == Null(former)
               y == Merged(former, latter)
    <3>1. s = Stop([list EXCEPT ![j] = Null(@), ![i] = y])
      BY <1>1, <2>1, <2>6 DEF CheckEncoderRelation
    <3>2. former.type = "render" /\ latter.type = "render"
      BY <2>6
    <3>3. IsListed(x) /\ x.type = "null" /\ IdsOf(x) = {}
      BY <1>1, NullIs
    <3>4. /\ IsListed(y) /\ y.type = "render" /\ y.update = latter.update \union former.update
          /\ y.update_vertex = latter.update_vertex \union former.update_vertex
      BY <1>1, <3>2, MergedIs DEF IsListed
    <3>5. s = Stop([list EXCEPT ![j] = x, ![i] = y])
      BY <1>1, <3>1
    <3> HIDE DEF x, y, s
    <3>6. IdsOf(x) \union IdsOf(y) = IdsOf(former) \union IdsOf(latter)
      BY <3>2, <3>3, <3>4 DEF IdsOf
    <3>7. Kept(list, [list EXCEPT ![j] = x, ![i] = y])
      BY <1>1, <1>3, <2>1, <3>3, <3>4, <3>6, ExchangeKeeps
    <3>8. Kept(list, s.list) /\ s.stop
      BY <3>5, <3>7 DEF Stop
    <3> QED
      BY <3>8 DEF s
  <2>7. CASE /\ types # <<"clear", "render">> /\ types # <<"render", "clear">>
             /\ ~ (types = <<"render", "resolve">> /\ MayResolve(former, latter))
             /\ ~ (types = <<"render", "render">> /\ MayMerge(former, latter))
    <3>1. s = [list |-> list, stop |-> dependent]
      BY <1>1, <2>1, <2>7 DEF CheckEncoderRelation
    <3>2. Kept(list, list)
      BY KeptSelf
    <3> QED
      BY <1>1, <2>1, <3>1, <3>2 DEF Goes
  <2> QED
    BY <2>2, <2>3, <2>4, <2>5, <2>6, <2>7
<1> QED
  BY <1>2, <1>3

(* The loops keep the list.                                                *)
LEMMA MoveDownKeeps ==
  ASSUME NEW list, AreListed(list), NEW j \in DOMAIN list,
         list[j].type \in {"clear", "render"}
  PROVE  Kept(list, MoveDown(list, j))
<1> DEFINE n == Len(list) - j
<1>1. /\ n \in Nat /\ Len(list) \in Nat /\ DOMAIN list = 1 .. Len(list) /\ j \in Nat \ {0}
      /\ n + j = Len(list)
  <2>1. Len(list) \in Nat /\ DOMAIN list = 1 .. Len(list)
    BY ListIs DEF AreListed
  <2> QED
    BY <2>1
<1>2. PICK f : /\ f[0] = Continue(list)
               /\ \A k \in 1 .. n : f[k] = Visit(f[k - 1], j, j + k)
               /\ MoveDown(list, j) = f[n].list
  BY <1>1, MoveDownIs
<1> HIDE DEF n
<1> DEFINE T == { k \in 0 .. n : Kept(list, f[k].list)
                                 /\ (~ f[k].stop => Goes(f[k].list, j, j + k)) }
<1>3. 0 \in T
  <2>1. f[0].list = list /\ j + 0 = j
    BY <1>1, <1>2 DEF Continue
  <2>2. Goes(list, j, j)
    BY DEF Goes
  <2> QED
    BY <1>1, <2>1, <2>2, KeptSelf
<1>4. ASSUME NEW k \in 0 .. n - 1, k \in T
      PROVE  k + 1 \in T
  <2> DEFINE s == f[k]
             i == j + (k + 1)
  <2>1. /\ k + 1 \in 1 .. n /\ k + 1 \in 0 .. n /\ (k + 1) - 1 = k /\ i \in 1 .. Len(list)
        /\ i - 1 = j + k /\ j < i /\ i \in Nat \ {0} /\ i - 1 \in 0 .. Len(list)
    BY <1>1
  <2>2. f[k + 1] = Visit(s, j, i)
    BY <1>2, <2>1
  <2>3. Kept(list, s.list) /\ (~ s.stop => Goes(s.list, j, i - 1))
    BY <1>4, <2>1
  <2> HIDE DEF s, i, T
  <2>4. AreListed(s.list) /\ DOMAIN s.list = 1 .. Len(list)
    BY <2>3, KeptEvents
  <2>5. CASE s.stop
    <3>1. f[k + 1] = s
      BY <2>2, <2>5 DEF Visit
    <3> QED
      BY <2>1, <2>3, <2>5, <3>1 DEF T
  <2>6. CASE ~ s.stop /\ s.list[i].type = "null"
    <3>1. f[k + 1] = s
      BY <2>2, <2>6 DEF Visit
    <3>2. EventsUpTo(s.list, i) = EventsUpTo(s.list, i - 1)
      BY <2>1, <2>6, EventsNext
    <3>3. Goes(s.list, j, i)
      BY <2>3, <2>6, <3>2 DEF Goes
    <3> QED
      BY <2>1, <2>3, <3>1, <3>3 DEF T, i
  <2>7. CASE ~ s.stop /\ s.list[i].type # "null"
    <3>1. f[k + 1] = CheckEncoderRelation(s.list, j, i)
      BY <2>2, <2>7 DEF Visit
    <3>2. Kept(s.list, f[k + 1].list) /\ (~ f[k + 1].stop => Goes(f[k + 1].list, j, i))
      <4>1. /\ AreListed(s.list) /\ j \in DOMAIN s.list /\ i \in DOMAIN s.list /\ j < i
            /\ Goes(s.list, j, i - 1) /\ s.list[i].type # "null"
        BY <1>1, <2>1, <2>3, <2>4, <2>7
      <4> QED
        BY ONLY <3>1, <4>1, CheckKeeps
    <3>3. Kept(list, f[k + 1].list)
      BY <2>3, <3>2, KeptThen
    <3> QED
      BY <2>1, <3>2, <3>3 DEF T, i
  <2> QED
    BY <2>5, <2>6, <2>7
<1>5. n \in T
  <2> HIDE DEF T
  <2>1. n \in Nat /\ 0 \in T /\ \A k \in 0 .. n - 1 : k \in T => k + 1 \in T
    BY <1>1, <1>3, <1>4
  <2>2. 0 .. n \subseteq T
    BY ONLY <2>1, Induction
  <2> QED
    BY <2>1, <2>2
<1> QED
  BY <1>2, <1>5

LEMMA AllMovedKeeps ==
  ASSUME NEW list, AreListed(list)
  PROVE  Kept(list, AllMoved(list))
<1> DEFINE n == Len(list)
<1>1. n \in Nat /\ DOMAIN list = 1 .. n
  BY ListIs DEF AreListed
<1>2. PICK f : /\ f[0] = list
               /\ \A k \in 1 .. n : f[k] = Moved(f[k - 1], n + 1 - k)
               /\ AllMoved(list) = f[n]
  BY <1>1, AllMovedIs
<1> HIDE DEF n
<1> DEFINE T == { k \in 0 .. n : Kept(list, f[k]) }
<1>3. 0 \in T
  BY <1>1, <1>2, KeptSelf
<1>4. ASSUME NEW k \in 0 .. n - 1, k \in T
      PROVE  k + 1 \in T
  <2> DEFINE s == f[k]
             j == n + 1 - (k + 1)
  <2>1. k + 1 \in 1 .. n /\ k + 1 \in 0 .. n /\ (k + 1) - 1 = k /\ j \in 1 .. n
    BY <1>1
  <2>2. f[k + 1] = Moved(s, j)
    BY <1>2, <2>1
  <2>3. Kept(list, s)
    BY <1>4
  <2> HIDE DEF s, j, T
  <2>4. AreListed(s) /\ j \in DOMAIN s
    BY <2>1, <2>3, KeptEvents DEF n
  <2>5. Kept(s, Moved(s, j))
    BY <2>4, MoveDownKeeps, KeptSelf DEF Moved
  <2>6. Kept(list, f[k + 1])
    BY <2>2, <2>3, <2>5, KeptThen
  <2> QED
    BY <2>1, <2>6 DEF T
<1>5. n \in T
  <2> HIDE DEF T
  <2>1. n \in Nat /\ 0 \in T /\ \A k \in 0 .. n - 1 : k \in T => k + 1 \in T
    BY <1>1, <1>3, <1>4
  <2>2. 0 .. n \subseteq T
    BY ONLY <2>1, Induction
  <2> QED
    BY <2>1, <2>2
<1> QED
  BY <1>2, <1>5

(* The ids before an event, of the passes that are left.                   *)
Count(list, i) == Cardinality(EventsUpTo(list, i))
LeftBefore(list, m, n) == UNION { IdsOf(list[i]) : i \in { i \in 1 .. m : Count(list, i) < n } }

LEMMA KeptLeft ==
  ASSUME NEW list, NEW after, AreListed(list), Kept(list, after), NEW n
  PROVE  LeftBefore(list, Len(list), n) = LeftBefore(after, Len(after), n)
<1> DEFINE m == Len(list)
<1>1. /\ m \in Nat /\ Len(after) = m /\ DOMAIN list = 1 .. m /\ DOMAIN after = 1 .. m
      /\ \A i \in 1 .. m : EventsUpTo(list, i) = EventsUpTo(after, i)
      /\ IdsStay(list, after) /\ IdsStay(after, list)
  BY KeptEvents DEF Kept
<1> HIDE DEF m
<1>2. ASSUME NEW i \in 1 .. m, Count(list, i) < n, NEW id \in IdsOf(list[i])
      PROVE  \E k \in 1 .. m : Count(after, k) < n /\ id \in IdsOf(after[k])
  <2>1. PICK k \in 1 .. m : id \in IdsOf(after[k]) /\ EventsUpTo(list, i) = EventsUpTo(list, k)
    BY <1>1 DEF IdsStay
  <2>2. Count(after, k) = Count(list, i)
    BY <1>1, <2>1 DEF Count
  <2> QED
    BY <1>2, <2>1, <2>2
<1>3. ASSUME NEW i \in 1 .. m, Count(after, i) < n, NEW id \in IdsOf(after[i])
      PROVE  \E k \in 1 .. m : Count(list, k) < n /\ id \in IdsOf(list[k])
  <2>1. PICK k \in 1 .. m : id \in IdsOf(list[k]) /\ EventsUpTo(after, i) = EventsUpTo(after, k)
    BY <1>1 DEF IdsStay
  <2>2. Count(list, k) = Count(after, i)
    BY <1>1, <2>1 DEF Count
  <2> QED
    BY <1>3, <2>1, <2>2
<1>4. \A id : id \in LeftBefore(list, m, n) <=> id \in LeftBefore(after, m, n)
  BY <1>2, <1>3 DEF LeftBefore
<1> QED
  BY <1>1, <1>4 DEF m

-----------------------------------------------------------------------------
(* The passes that are left, in a list of their own.                       *)

LEMMA CountNext ==
  ASSUME NEW list, NEW k \in Nat \ {0}
  PROVE  /\ Count(list, k - 1) \in Nat
         /\ Count(list, k) = Count(list, k - 1) + (IF list[k].type = "event" THEN 1 ELSE 0)
<1> DEFINE before == EventsUpTo(list, k - 1)
<1>1. IsFiniteSet(before)
  <2>1. k - 1 \in Int /\ 1 \in Int
    OBVIOUS
  <2>2. before \in SUBSET (1 .. k - 1)
    BY DEF EventsUpTo
  <2> QED
    BY <2>1, <2>2, FS_Interval, FS_Subset
<1>2. /\ list[k].type # "event" => EventsUpTo(list, k) = before
      /\ list[k].type = "event" => EventsUpTo(list, k) = before \union {k}
      /\ k \notin before
  BY EventsNext
<1> HIDE DEF before
<1>3. /\ Cardinality(before) \in Nat
      /\ Cardinality(before \union {k}) = Cardinality(before) + 1
  BY <1>1, <1>2, FS_CardinalityType, FS_AddElement
<1>4. Count(list, k - 1) = Cardinality(before) /\ Count(list, k) = Cardinality(EventsUpTo(list, k))
  BY DEF Count, before
<1> QED
  BY <1>2, <1>3, <1>4

LEMMA LeftNext ==
  ASSUME NEW list, NEW k \in Nat \ {0}, NEW n
  PROVE  LeftBefore(list, k, n) =
           LeftBefore(list, k - 1, n) \union (IF Count(list, k) < n THEN IdsOf(list[k]) ELSE {})
<1>1. \A i : i \in 1 .. k <=> i = k \/ i \in 1 .. k - 1
  OBVIOUS
<1> QED
  BY <1>1 DEF LeftBefore

LEMMA LeftAgrees ==
  ASSUME NEW s, NEW t, NEW m \in Nat, \A i \in 1 .. m : s[i] = t[i]
  PROVE  /\ Count(s, m) = Count(t, m)
         /\ \A n : LeftBefore(s, m, n) = LeftBefore(t, m, n)
<1>1. \A i \in 0 .. m : EventsUpTo(s, i) = EventsUpTo(t, i)
  BY EventsAgree
<1>2. m \in 0 .. m /\ \A i \in 1 .. m : i \in 0 .. m
  OBVIOUS
<1>3. \A i \in 1 .. m : Count(s, i) = Count(t, i)
  BY <1>1, <1>2 DEF Count
<1> QED
  BY <1>1, <1>2, <1>3 DEF Count, LeftBefore

LEMMA RemainingLeft ==
  ASSUME NEW list, AreListed(list), NEW n \in Nat
  PROVE  LET rest == Remaining(list)
         IN  /\ Len(rest) \in Nat /\ DOMAIN rest = 1 .. Len(rest)
             /\ \A i \in DOMAIN rest : rest[i].type # "null"
             /\ LeftBefore(rest, Len(rest), n) = LeftBefore(list, Len(list), n)
<1> DEFINE m == Len(list)
           S == { list[i] : i \in DOMAIN list }
<1>1. m \in Nat /\ DOMAIN list = 1 .. m
  BY ListIs DEF AreListed
<1>2. \A i \in 1 .. m : list[i] \in S
  BY <1>1
<1>3. PICK f : /\ f[0] = <<>>
               /\ \A k \in 1 .. m : f[k] = IF list[k].type = "null" THEN f[k - 1]
                                           ELSE Append(f[k - 1], list[k])
               /\ Remaining(list) = f[m]
  BY <1>1, RemainingIs
<1> HIDE DEF m, S
<1> DEFINE Fits(s, k) == /\ s \in Seq(S) /\ \A i \in DOMAIN s : s[i].type # "null"
                         /\ Count(s, Len(s)) = Count(list, k)
                         /\ LeftBefore(s, Len(s), n) = LeftBefore(list, k, n)
           T == { k \in 0 .. m : Fits(f[k], k) }
<1>4. 0 \in T
  <2>1. f[0] \in Seq(S) /\ Len(f[0]) = 0 /\ DOMAIN f[0] = {}
    BY <1>3
  <2>2. \A i \in 1 .. 0 : f[0][i] = list[i]
    OBVIOUS
  <2>3. /\ Count(f[0], 0) = Count(list, 0)
        /\ LeftBefore(f[0], 0, n) = LeftBefore(list, 0, n)
    BY <2>2, LeftAgrees
  <2> QED
    BY <1>1, <2>1, <2>3
<1>5. ASSUME NEW k \in 0 .. m - 1, k \in T
      PROVE  k + 1 \in T
  <2> DEFINE s == f[k]
             t == f[k + 1]
             e == list[k + 1]
             l == Len(s)
  <2>1. /\ k + 1 \in 1 .. m /\ k + 1 \in 0 .. m /\ (k + 1) - 1 = k /\ k + 1 \in Nat \ {0}
        /\ e \in S
    BY <1>1, <1>2
  <2>2. t = IF e.type = "null" THEN s ELSE Append(s, e)
    BY <1>3, <2>1
  <2>3. /\ s \in Seq(S) /\ \A i \in DOMAIN s : s[i].type # "null"
        /\ Count(s, l) = Count(list, k)
        /\ LeftBefore(s, l, n) = LeftBefore(list, k, n)
    BY <1>5
  <2>4. /\ Count(list, k) \in Nat
        /\ Count(list, k + 1) = Count(list, k) + (IF e.type = "event" THEN 1 ELSE 0)
        /\ LeftBefore(list, k + 1, n) =
             LeftBefore(list, k, n) \union (IF Count(list, k + 1) < n THEN IdsOf(e) ELSE {})
    BY <2>1, CountNext, LeftNext
  <2> HIDE DEF s, t, e
  <2>5. CASE e.type = "null"
    <3>1. IdsOf(e) = {} /\ e.type # "event" /\ t = s
      BY <2>2, <2>5 DEF IdsOf
    <3>2. /\ Count(s, l) = Count(list, k + 1)
          /\ LeftBefore(s, l, n) = LeftBefore(list, k + 1, n)
      BY <2>3, <2>4, <3>1
    <3>3. Fits(f[k + 1], k + 1)
      BY <2>3, <3>1, <3>2 DEF t
    <3> QED
      BY <2>1, <3>3
  <2>6. CASE e.type # "null"
    <3>1. t = Append(s, e)
      BY <2>2, <2>6
    <3>2. /\ l \in Nat /\ t \in Seq(S) /\ Len(t) = l + 1 /\ t[l + 1] = e
          /\ DOMAIN t = 1 .. l + 1 /\ DOMAIN s = 1 .. l /\ \A i \in 1 .. l : s[i] = t[i]
          /\ l + 1 \in Nat \ {0} /\ (l + 1) - 1 = l
      BY <2>1, <2>3, <3>1
    <3> HIDE DEF l
    <3>3. Count(s, l) = Count(t, l) /\ LeftBefore(s, l, n) = LeftBefore(t, l, n)
      <4>1. l \in Nat /\ \A i \in 1 .. l : s[i] = t[i]
        BY <3>2
      <4>2. Count(s, l) = Count(t, l) /\ \A c : LeftBefore(s, l, c) = LeftBefore(t, l, c)
        BY ONLY <4>1, LeftAgrees
      <4> QED
        BY <4>2
    <3>4. /\ Count(t, l + 1) = Count(t, l) + (IF e.type = "event" THEN 1 ELSE 0)
          /\ LeftBefore(t, l + 1, n) =
               LeftBefore(t, l, n) \union (IF Count(t, l + 1) < n THEN IdsOf(e) ELSE {})
      BY <3>2, CountNext, LeftNext
    <3>5. /\ Count(t, l + 1) = Count(list, k + 1)
          /\ LeftBefore(t, l + 1, n) = LeftBefore(list, k + 1, n)
      BY <2>3, <2>4, <3>3, <3>4
    <3>6. \A i \in DOMAIN t : t[i].type # "null"
      BY <2>3, <2>6, <3>2
    <3>7. Fits(f[k + 1], k + 1)
      BY <3>2, <3>5, <3>6 DEF t
    <3> QED
      BY <2>1, <3>7
  <2> QED
    BY <2>5, <2>6
<1>6. m \in T
  <2> HIDE DEF T
  <2>1. m \in Nat /\ 0 \in T /\ \A k \in 0 .. m - 1 : k \in T => k + 1 \in T
    BY <1>1, <1>4, <1>5
  <2>2. 0 .. m \subseteq T
    BY ONLY <2>1, Induction
  <2> QED
    BY <2>1, <2>2
<1>7. Fits(Remaining(list), m)
  BY <1>3, <1>6
<1> QED
  BY <1>7 DEF m

LEMMA BeforeIs ==
  ASSUME NEW list, Len(list) \in Nat, DOMAIN list = 1 .. Len(list),
         \A i \in DOMAIN list : list[i].type # "null", NEW n
  PROVE  IdsBefore(list, n) = LeftBefore(list, Len(list), n)
<1>1. \A i \in 1 .. Len(list) : IdsOf(list[i]) = list[i].update \union list[i].update_vertex
  BY DEF IdsOf
<1>2. \A i : Count(list, i) = Cardinality({ k \in 1 .. i : list[k].type = "event" })
  BY DEF Count, EventsUpTo
<1>3. ASSUME NEW i \in 1 .. Len(list)
      PROVE  (Cardinality({ k \in 1 .. i : list[k].type = "event" }) < n) <=> Count(list, i) < n
  BY <1>2
<1> DEFINE C == { i \in 1 .. Len(list) : Count(list, i) < n }
           D == { i \in DOMAIN list :
                   Cardinality({ k \in 1 .. i : list[k].type = "event" }) < n }
<1>4. C = D /\ \A i \in C : i \in 1 .. Len(list)
  BY <1>3
<1>5. /\ IdsBefore(list, n) = UNION { list[i].update \union list[i].update_vertex : i \in D }
      /\ LeftBefore(list, Len(list), n) = UNION { IdsOf(list[i]) : i \in C }
  BY DEF IdsBefore, LeftBefore
<1> HIDE DEF C, D
<1>6. { list[i].update \union list[i].update_vertex : i \in C } = { IdsOf(list[i]) : i \in C }
  BY <1>1, <1>4
<1> QED
  BY <1>4, <1>5, <1>6

(* The list that is encoded has before each event what was recorded there. *)
LEMMA OptimizedKeepsEvents ==
  ASSUME ListInv
  PROVE  EventsKeepTheirPlace
<1>1. /\ AreListed(encoders) /\ \A i \in DOMAIN encoders : encoders[i].type # "null"
      /\ Len(encoders) \in Nat /\ DOMAIN encoders = 1 .. Len(encoders)
  BY ListIs DEF ListInv, AreListed
<1> SUFFICES ASSUME NEW n \in 1 .. Len(encoders)
             PROVE  IdsBefore(Optimized(encoders), n) = IdsBefore(encoders, n)
  BY DEF EventsKeepTheirPlace
<1>2. n \in Nat
  BY <1>1
<1> DEFINE moved == AllMoved(encoders)
           rest == Remaining(moved)
<1>3. Kept(encoders, moved)
  BY <1>1, AllMovedKeeps
<1>4. AreListed(moved) /\ LeftBefore(encoders, Len(encoders), n) = LeftBefore(moved, Len(moved), n)
  BY <1>1, <1>3, KeptLeft, KeptEvents
<1> HIDE DEF moved
<1>5. /\ Len(rest) \in Nat /\ DOMAIN rest = 1 .. Len(rest)
      /\ \A i \in DOMAIN rest : rest[i].type # "null"
      /\ LeftBefore(rest, Len(rest), n) = LeftBefore(moved, Len(moved), n)
  BY <1>2, <1>4, RemainingLeft
<1> HIDE DEF rest
<1>6. /\ IdsBefore(rest, n) = LeftBefore(rest, Len(rest), n)
      /\ IdsBefore(encoders, n) = LeftBefore(encoders, Len(encoders), n)
  BY <1>1, <1>5, BeforeIs
<1> QED
  BY <1>4, <1>5, <1>6 DEF Optimized, rest, moved

-----------------------------------------------------------------------------
(* What a pass is when it starts and ends, and the list it is added to.    *)

LEMMA UpdatesVertex ==
  ASSUME NEW type, NEW vertex, NEW id
  PROVE  Encoder(type, vertex, id).update_vertex = IF type = "render" THEN {vertex} ELSE {}
  BY DEF Encoder

LEMMA EndedEncoder ==
  ASSUME NEW s, IsEncoder(s.encoder)
  PROVE  LET n == Ended(s).encoder
         IN  /\ IsEncoder(n) /\ n.type = s.encoder.type
             /\ n.update_vertex = s.encoder.update_vertex
<1> DEFINE e == s.encoder
           written == ResourcesOf(DepthStencil(Written(e.attachments)))
           w == Accessed(s, written, "pixel", "write").encoder
           n == Ended(s).encoder
<1>1. CASE e.type = "render"
  <2>1. \E wait, wait_vertex : n = [w EXCEPT !.wait = wait, !.wait_vertex = wait_vertex]
    BY <1>1 DEF Ended
  <2>2. IsEncoder(w) /\ w.type = e.type /\ w.update_vertex = e.update_vertex
    BY AccessedEncoder
  <2> HIDE DEF w, n, e
  <2>3. PICK wait, wait_vertex : n = [w EXCEPT !.wait = wait, !.wait_vertex = wait_vertex]
    BY <2>1
  <2>4. IsEncoder(n) /\ n.type = w.type /\ n.update_vertex = w.update_vertex
    BY <2>2, <2>3 DEF IsEncoder
  <2> QED
    BY <2>2, <2>4 DEF n, e
<1>2. CASE e.type = "event"
  <2>1. n = e
    BY <1>2 DEF Ended
  <2> QED
    BY <2>1
<1>3. CASE e.type \notin {"render", "event"}
  <2>1. \E wait : n = [e EXCEPT !.wait = wait]
    BY <1>3 DEF Ended
  <2> HIDE DEF n
  <2>2. PICK wait : n = [e EXCEPT !.wait = wait]
    BY <2>1
  <2>3. IsEncoder(n) /\ n.type = e.type /\ n.update_vertex = e.update_vertex
    BY <2>2 DEF IsEncoder
  <2> QED
    BY <2>3 DEF n
<1> QED
  BY <1>1, <1>2, <1>3

LEMMA AppendListed ==
  ASSUME NEW list, AreListed(list), \A i \in DOMAIN list : list[i].type # "null",
         NEW e, IsListed(e), e.type # "null"
  PROVE  LET after == Append(list, e)
         IN  AreListed(after) /\ \A i \in DOMAIN after : after[i].type # "null"
<1> DEFINE n == Len(list)
           S == { list[i] : i \in DOMAIN list }
           after == Append(list, e)
           R == { after[i] : i \in DOMAIN after }
<1>1. n \in Nat /\ DOMAIN list = 1 .. n /\ list \in Seq(S)
  BY ListIs DEF AreListed, IsList
<1>2. \A i \in 1 .. n : list[i] \in S
  BY <1>1
<1> HIDE DEF S, n
<1>3. list \in Seq(S \union {e}) /\ e \in S \union {e} /\ Len(list) = n
  <2>1. list \in [1 .. n -> S \union {e}]
    BY <1>1, <1>2 DEF n
  <2> QED
    BY <1>1, <2>1 DEF n
<1>4. /\ DOMAIN after = 1 .. n + 1 /\ after[n + 1] = e /\ Len(after) = n + 1
      /\ \A i \in 1 .. n : after[i] = list[i]
  BY <1>1, <1>3
<1>5. after \in Seq(R)
  <2>1. after \in Seq(S \union {e}) /\ n + 1 \in Nat
    BY <1>1, <1>3
  <2> HIDE DEF after
  <2>2. after \in [1 .. n + 1 -> R]
    BY <1>4, <2>1 DEF R
  <2> QED
    BY <2>1, <2>2
<1>6. \A i \in 1 .. n + 1 : i = n + 1 \/ i \in 1 .. n
  BY <1>1
<1> HIDE DEF after, R
<1>7. \A i \in 1 .. n + 1 : IsListed(after[i]) /\ after[i].type # "null"
  BY <1>1, <1>4, <1>6 DEF AreListed
<1> QED
  BY <1>4, <1>5, <1>7 DEF AreListed, IsList, R, after

LEMMA FinishListed ==
  ASSUME ListInv, NEW s, IsEncoder(s.encoder), s.encoder.type # "null",
         s.encoder.type \in {"clear", "resolve"} => s.encoder.update_vertex = {},
         Finish(s)
  PROVE  AreListed(encoders') /\ \A i \in DOMAIN encoders' : encoders'[i].type # "null"
<1> DEFINE e == Ended(s).encoder
<1>1. IsListed(e) /\ e.type # "null"
  BY EndedEncoder DEF IsListed
<1>2. encoders' = Append(encoders, e)
  BY DEF Finish
<1> HIDE DEF e
<1> QED
  BY <1>1, <1>2, AppendListed DEF ListInv

-----------------------------------------------------------------------------
(* The steps of ListInv.                                                   *)

LEMMA InitListed == Init => ListInv
<1> SUFFICES ASSUME Init PROVE ListInv
  OBVIOUS
<1>1. encoders = <<>> /\ current = NoEncoder
  BY DEF Init
<1>2. DOMAIN encoders = {} /\ encoders \in Seq({})
  BY <1>1
<1> QED
  BY <1>1, <1>2 DEF ListInv, AreListed, IsList

LEMMA OnePassListed ==
  ASSUME ListInv, NEW type \in {"clear", "resolve", "present"}, NEW reads, NEW writes,
         NEW planes, NEW src, NEW dst, OnePass(type, reads, writes, planes, src, dst)
  PROVE  ListInv'
<1> DEFINE n1 == Encoder(type, None, encoder_id)
           n2 == [n1 EXCEPT !.planes = planes]
           n3 == [n2 EXCEPT !.src = src]
           n4 == [n3 EXCEPT !.dst = dst]
           e == [Encoder(type, None, encoder_id) EXCEPT
                   !.planes = planes, !.src = src, !.dst = dst]
           read == Accessed(At(e), reads, "compute", "read")
           written == Accessed(read, writes, "compute", "write")
<1>1. current = NoEncoder /\ current' = current /\ Finish(written)
  BY DEF OnePass, CanStart
<1>2. IsEncoder(e) /\ e.type = type /\ e.update_vertex = {}
  <2>1. IsEncoder(n1) /\ n1.type = type /\ n1.update_vertex = {}
    <3>1. IsEncoder(n1) /\ n1.type = type
      BY EncoderIs
    <3>2. n1.update_vertex = IF type = "render" THEN {None} ELSE {}
      BY UpdatesVertex
    <3> HIDE DEF n1
    <3> QED
      BY <3>1, <3>2
  <2> HIDE DEF n1
  <2>2. IsEncoder(n2) /\ n2.type = type /\ n2.update_vertex = {}
    BY <2>1 DEF IsEncoder
  <2> HIDE DEF n2
  <2>3. IsEncoder(n3) /\ n3.type = type /\ n3.update_vertex = {}
    BY <2>2 DEF IsEncoder
  <2> HIDE DEF n3
  <2>4. IsEncoder(n4) /\ n4.type = type /\ n4.update_vertex = {}
    BY <2>3 DEF IsEncoder
  <2> QED
    BY ONLY <2>4 DEF e, n1, n2, n3, n4
<1> HIDE DEF e
<1>3. At(e).encoder = e
  BY DEF At
<1>4. IsEncoder(read.encoder) /\ read.encoder.type = type /\ read.encoder.update_vertex = {}
  BY <1>2, <1>3, AccessedEncoder
<1> HIDE DEF read
<1>5. /\ IsEncoder(written.encoder) /\ written.encoder.type = type
      /\ written.encoder.update_vertex = {}
  BY <1>4, AccessedEncoder
<1> HIDE DEF written
<1>6. AreListed(encoders') /\ \A i \in DOMAIN encoders' : encoders'[i].type # "null"
  BY <1>1, <1>5, FinishListed
<1> QED
  BY <1>1, <1>6 DEF ListInv

LEMMA EventListed == ListInv /\ Event => ListInv'
<1> SUFFICES ASSUME ListInv, Event PROVE ListInv'
  OBVIOUS
<1> DEFINE s == At(Encoder("event", None, None))
<1>1. current = NoEncoder /\ current' = current /\ Finish(s)
  BY DEF Event, CanStart
<1>2. IsEncoder(s.encoder) /\ s.encoder.type = "event"
  BY EncoderIs DEF At
<1> HIDE DEF s
<1>3. AreListed(encoders') /\ \A i \in DOMAIN encoders' : encoders'[i].type # "null"
  BY <1>1, <1>2, FinishListed
<1> QED
  BY <1>1, <1>3 DEF ListInv

LEMMA EndPassListed == ListInv /\ EndPass => ListInv'
<1> SUFFICES ASSUME ListInv, EndPass PROVE ListInv'
  OBVIOUS
<1>1. current # NoEncoder /\ current' = NoEncoder /\ Finish(At(current))
  BY DEF EndPass
<1>2. /\ IsEncoder(At(current).encoder)
      /\ At(current).encoder.type \in {"render", "compute", "blit"}
  BY <1>1 DEF ListInv, At
<1>3. AreListed(encoders') /\ \A i \in DOMAIN encoders' : encoders'[i].type # "null"
  BY <1>1, <1>2, FinishListed
<1> QED
  BY <1>1, <1>3 DEF ListInv

LEMMA StartRenderPassListed ==
  ASSUME ListInv, NEW planes, NEW readonly, StartRenderPass(planes, readonly)
  PROVE  ListInv'
<1> DEFINE n == Encoder("render", encoder_id, encoder_id + 1)
           attachments == [p \in planes |-> Attachment(p \in readonly)]
           e == [n EXCEPT !.attachments = attachments]
           colors == ResourcesOf(planes \ DepthStencil(planes))
           others == ResourcesOf(DepthStencil(planes))
           color == Accessed(At(e), colors, "pixel", "write")
           all == Accessed(color, others, "pixel", "read")
<1>1. encoders' = encoders /\ current' = all.encoder
  BY DEF StartRenderPass
<1>2. IsEncoder(n) /\ n.type = "render"
  BY EncoderIs
<1> HIDE DEF n, attachments, colors, others
<1>3. IsEncoder(e) /\ e.type = "render"
  BY <1>2 DEF IsEncoder
<1> HIDE DEF e
<1>4. At(e).encoder = e
  BY DEF At
<1>5. IsEncoder(color.encoder) /\ color.encoder.type = "render"
  BY <1>3, <1>4, AccessedEncoder
<1> HIDE DEF color
<1>6. IsEncoder(all.encoder) /\ all.encoder.type = "render"
  BY <1>5, AccessedEncoder
<1> HIDE DEF all
<1> QED
  BY <1>1, <1>6 DEF ListInv

LEMMA StartPassListed ==
  ASSUME ListInv, NEW type \in PassTypes, StartPass(type)
  PROVE  ListInv'
<1>1. encoders' = encoders /\ current' = Encoder(type, None, encoder_id)
  BY DEF StartPass
<1>2. type \in {"compute", "blit"}
  BY PassTypesAssumption
<1>3. IsEncoder(current') /\ current'.type = type
  BY <1>1, EncoderIs
<1> QED
  BY <1>1, <1>2, <1>3 DEF ListInv

LEMMA AccessListed ==
  ASSUME ListInv, NEW stage, NEW r, NEW mode, Access(stage, r, mode)
  PROVE  ListInv'
<1> DEFINE after == Accessed(At(current), {r}, stage, mode)
<1>1. current # NoEncoder /\ encoders' = encoders /\ current' = after.encoder
  BY DEF Access
<1>2. At(current).encoder = current /\ IsEncoder(current)
  BY <1>1 DEF At, ListInv
<1>3. IsEncoder(after.encoder) /\ after.encoder.type = current.type
  BY <1>2, AccessedEncoder
<1> HIDE DEF after
<1> QED
  BY <1>1, <1>3 DEF ListInv

LEMMA CommandListed == ListInv /\ Command => ListInv'
<1> SUFFICES ASSUME ListInv, Command PROVE ListInv'
  OBVIOUS
<1>1. /\ current # NoEncoder /\ encoders' = encoders
      /\ \E left, cmds : current' = [current EXCEPT !.barriers = left, !.cmds = cmds]
  <2>1. current' = [current EXCEPT
          !.barriers = BarriersLeft,
          !.cmds = IF current.type = "render" THEN Append(@, current.id) ELSE @]
    BY DEF Command
  <2> QED
    BY <2>1 DEF Command
<1>2. PICK left, cmds : current' = [current EXCEPT !.barriers = left, !.cmds = cmds]
  BY <1>1
<1>3. IsEncoder(current)
  BY <1>1 DEF ListInv
<1>4. IsEncoder(current') /\ current'.type = current.type
  BY <1>2, <1>3 DEF IsEncoder
<1> QED
  BY <1>1, <1>4 DEF ListInv

LEMMA FlushListed == ListInv /\ FlushCommands => ListInv'
<1> SUFFICES ASSUME ListInv, FlushCommands PROVE ListInv'
  OBVIOUS
<1>1. encoders' = <<>> /\ current' = NoEncoder
  BY DEF FlushCommands
<1>2. DOMAIN encoders' = {} /\ encoders' \in Seq({})
  BY <1>1
<1> QED
  BY <1>1, <1>2 DEF ListInv, AreListed, IsList

(* The list has ended passes, and only the current pass has not ended.     *)
THEOREM ListInvariance == Spec => []ListInv
<1>1. Init => ListInv
  BY InitListed
<1>2. ListInv /\ [Next]_vars => ListInv'
  <2> SUFFICES ASSUME ListInv, [Next]_vars PROVE ListInv'
    OBVIOUS
  <2>1. ASSUME NEW planes \in ClearSets, Clear(planes) PROVE ListInv'
    BY <2>1, OnePassListed DEF Clear
  <2>2. ASSUME NEW p \in Resolves, ResolveTexture(p[1], p[2]) PROVE ListInv'
    BY <2>2, OnePassListed DEF ResolveTexture
  <2>3. ASSUME NEW p \in Presents, Present(p[1], p[2]) PROVE ListInv'
    BY <2>3, OnePassListed DEF Present
  <2>4. CASE Event
    BY <2>4, EventListed
  <2>5. ASSUME NEW planes \in AttachmentSets, NEW readonly \in ReadonlySets,
               StartRenderPass(planes, readonly)
        PROVE  ListInv'
    BY <2>5, StartRenderPassListed
  <2>6. ASSUME NEW type \in PassTypes, StartPass(type) PROVE ListInv'
    BY <2>6, StartPassListed
  <2>7. ASSUME NEW stage \in {"compute", "vertex", "pixel"}, NEW r \in Resources,
               NEW mode \in {"read", "write", "uav"}, Access(stage, r, mode)
        PROVE  ListInv'
    BY <2>7, AccessListed
  <2>8. CASE SetIntrapassControl
    BY <2>8 DEF SetIntrapassControl, ListInv
  <2>9. CASE Command
    BY <2>9, CommandListed
  <2>10. CASE EndPass
    BY <2>10, EndPassListed
  <2>11. CASE FlushCommands
    BY <2>11, FlushListed
  <2>12. CASE UNCHANGED vars
    BY <2>12 DEF vars, ListInv
  <2> QED
    BY <2>1, <2>2, <2>3, <2>4, <2>5, <2>6, <2>7, <2>8, <2>9, <2>10, <2>11, <2>12 DEF Next
<1> QED
  BY <1>1, <1>2, PTL DEF Spec

(* Nothing moves past an event, whatever is merged or dropped: an event    *)
(* tells of all the passes recorded before it and of none after it.        *)
THEOREM EventsStay == Spec => []EventsKeepTheirPlace
<1>1. ListInv => EventsKeepTheirPlace
  BY OptimizedKeepsEvents
<1> QED
  BY <1>1, ListInvariance, PTL

-----------------------------------------------------------------------------
(* Fences and their lanes are remainders of ids.                           *)

LEMMA Mod ==
  ASSUME NEW n \in Nat \ {0}, NEW y \in Nat
  PROVE  y % n \in 0 .. n - 1 /\ \E q \in Int : y = n * q + (y % n)
<1> DEFINE q == y \div n
           r == y % n
<1>1. y = q * n + r /\ q \in Int /\ r \in 0 .. n - 1
  OBVIOUS
<1> HIDE DEF q
<1>2. y = n * q + r
  BY <1>1
<1> QED
  BY <1>1, <1>2

LEMMA ModApart ==
  ASSUME NEW n \in Nat \ {0}, NEW y \in Nat, NEW z \in Nat, y % n = z % n, y < z
  PROVE  y + n <= z
<1> DEFINE r == y % n
<1>1. PICK a \in Int : y = n * a + r
  BY Mod
<1>2. PICK b \in Int : z = n * b + r
  BY Mod
<1>3. r \in Int
  BY Mod
<1> HIDE DEF r
<1>4. n * (b - a) > 0
  BY <1>1, <1>2, <1>3
<1>5. b - a >= 1
  BY <1>4
<1>6. n * (b - a) >= n
  BY <1>5
<1> QED
  BY <1>1, <1>2, <1>3, <1>6

LEMMA SmallMultiple ==
  ASSUME NEW n \in Nat \ {0}, NEW d \in Int, -n < n * d, n * d < n
  PROVE  d = 0
<1>1. d >= 1 => n * d >= n
  OBVIOUS
<1>2. d <= -1 => n * d <= -n
  OBVIOUS
<1> QED
  BY <1>1, <1>2

LEMMA SameRest ==
  ASSUME NEW n \in Nat \ {0}, NEW r \in 0 .. n - 1, NEW y \in Nat, NEW q \in Int, y = n * q + r
  PROVE  y % n = r
<1> DEFINE t == y % n
<1>1. t \in 0 .. n - 1
  BY Mod
<1>2. PICK b \in Int : y = n * b + t
  BY Mod
<1> HIDE DEF t
<1>3. q - b \in Int /\ n * (q - b) = t - r /\ -n < n * (q - b) /\ n * (q - b) < n
  BY <1>1, <1>2
<1>4. q - b = 0
  BY ONLY <1>3, n \in Nat \ {0}, SmallMultiple
<1>5. t = r
  BY <1>1, <1>2, <1>4
<1> QED
  BY <1>5 DEF t

LEMMA ModNext ==
  ASSUME NEW n \in Nat \ {0}, NEW y \in Nat
  PROVE  (y + n) % n = y % n
<1> DEFINE r == y % n
<1>1. PICK a \in Int : y = n * a + r
  BY Mod
<1>2. r \in 0 .. n - 1
  BY Mod
<1> HIDE DEF r
<1>3. y + n = n * (a + 1) + r /\ a + 1 \in Int /\ y + n \in Nat
  BY <1>1, <1>2
<1>4. (y + n) % n = r
  BY <1>2, <1>3, SameRest
<1> QED
  BY <1>4 DEF r

LEMMA FenceCountIs ==
  FenceCount \in Nat \ {0} /\ Lane \in Nat \ {0} /\ FenceCount >= 3 * Lane /\ Lane > 1
  BY LaneAssumption, ParityAssumption DEF FenceCount

LEMMA LaneOfFence ==
  ASSUME NEW y \in Nat
  PROVE  Fence(y) \in 0 .. FenceCount - 1 /\ Fence(y) % Lane = y % Lane
<1> DEFINE f == Fence(y)
           r == f % Lane
<1>1. f \in 0 .. FenceCount - 1
  BY FenceCountIs, Mod DEF Fence
<1>2. PICK q \in Int : y = FenceCount * q + f
  BY FenceCountIs, Mod DEF Fence
<1> HIDE DEF f
<1>3. f \in Nat /\ Lane \in Nat \ {0}
  BY <1>1, FenceCountIs
<1>4. r \in 0 .. Lane - 1 /\ \E a \in Int : f = Lane * a + r
  BY ONLY <1>3, Mod
<1> HIDE DEF r
<1>10. PICK a \in Int : f = Lane * a + r
  BY <1>4
<1>5. FenceCount * q = Lane * (Parity * q) /\ Parity * q \in Int
  BY LaneAssumption, ParityAssumption DEF FenceCount
<1>6. y = Lane * (Parity * q + a) + r /\ Parity * q + a \in Int
  BY <1>1, <1>2, <1>4, <1>10, <1>5, FenceCountIs
<1>7. y % Lane = r
  BY <1>4, <1>6, FenceCountIs, SameRest
<1> QED
  BY <1>1, <1>7 DEF f, r

(* Ids of one fence are far apart, and of one lane.                        *)
LEMMA SameFence ==
  ASSUME NEW y \in Nat, NEW z \in Nat, Fence(y) = Fence(z), y < z + FenceCount,
         z < y + FenceCount
  PROVE  y = z
<1>1. FenceCount \in Nat \ {0} /\ y % FenceCount = z % FenceCount
  BY FenceCountIs DEF Fence
<1>2. y < z => y + FenceCount <= z
  BY ONLY <1>1, y \in Nat, z \in Nat, ModApart
<1>3. z < y => z + FenceCount <= y
  BY ONLY <1>1, y \in Nat, z \in Nat, ModApart
<1> QED
  BY <1>1, <1>2, <1>3

LEMMA SameLane ==
  ASSUME NEW y \in Nat, NEW z \in Nat, y % Lane = z % Lane, y < z + Lane, z < y + 2 * Lane
  PROVE  z = y \/ z = y + Lane
<1>1. Lane \in Nat \ {0} /\ y \in Nat /\ z \in Nat /\ y % Lane = z % Lane
  BY FenceCountIs
<1>2. z < y => z + Lane <= y
  BY ONLY <1>1, ModApart
<1>3. y < z => y + Lane <= z
  BY ONLY <1>1, ModApart
<1>4. (y + Lane) % Lane = y % Lane
  BY ONLY <1>1, ModNext
<1> DEFINE n == y + Lane
<1>5. n \in Nat /\ Lane \in Nat \ {0} /\ z \in Nat /\ n % Lane = z % Lane
  BY <1>1, <1>4
<1> HIDE DEF n
<1>6. n < z => n + Lane <= z
  BY ONLY <1>5, ModApart
<1> QED
  BY <1>1, <1>2, <1>3, <1>5, <1>6 DEF n

-----------------------------------------------------------------------------
(* The simplification of waits loses none.                                 *)

LEMMA MinimalFencesIs ==
  ASSUME NEW full, NEW summary, NEW id
  PROVE  \E v : /\ v[0] = [minimal |-> {}, accessible |-> {}]
                /\ \A k \in 1 .. FenceCount - 1 :
                     v[k] = VisitFence(v[k - 1], full, summary, Fence(id - k))
                /\ MinimalFences(full, summary, id) = v[FenceCount - 1].minimal
<1> DEFINE n == FenceCount - 1
           first == [minimal |-> {}, accessible |-> {}]
           Is(v) == v = [k \in 0 .. n |-> IF k = 0 THEN first
                           ELSE VisitFence(v[k - 1], full, summary, Fence(id - k))]
           v == CHOOSE v : Is(v)
<1>1. \E g : Is(g)
  <2>1. n \in Nat
    BY FenceCountIs
  <2> DEFINE list == [full |-> full, summary |-> summary]
  <2>2. PICK g : Iterates(g, "back", list, id, first, n)
    BY <2>1, IteratesExists
  <2>3. list.full = full /\ list.summary = summary
    OBVIOUS
  <2> HIDE DEF n, first, list
  <2>4. \A k, t : Step("back", list, id, k, t) = VisitFence(t, full, summary, Fence(id - k))
    BY <2>3, StepIs
  <2>5. g = [k \in 0 .. n |-> IF k = 0 THEN first
               ELSE VisitFence(g[k - 1], full, summary, Fence(id - k))]
    BY <2>2, <2>4 DEF Iterates
  <2> QED
    BY <2>5
<1>2. Is(v)
  BY <1>1
<1>3. MinimalFences(full, summary, id) = v[n].minimal
  BY DEF MinimalFences
<1> HIDE DEF v
<1>4. \A k \in 0 .. n : v[k] = IF k = 0 THEN first
                               ELSE VisitFence(v[k - 1], full, summary, Fence(id - k))
  BY <1>2
<1>5. 0 \in 0 .. n /\ \A k \in 1 .. n : k \in 0 .. n /\ k # 0
  BY FenceCountIs
<1> HIDE DEF n
<1> QED
  BY <1>3, <1>4, <1>5 DEF n

(* What is known after the loop has gone back to "from".                   *)
VisitedCovers(done, id, full, s, from) ==
  /\ \A y \in Nat : /\ FenceCount <= y /\ y < from /\ id < y + FenceCount
                    /\ Fence(y) \in s.accessible
                    => y \in done
  /\ \A y \in Nat : FenceCount <= y /\ from <= y /\ y < id /\ Fence(y) \in full => y \in done

LEMMA VisitCovers ==
  ASSUME NEW id \in Nat, NEW full, NEW summary, NEW done, NEW s,
         NEW x \in Nat, x < id, id < x + FenceCount,
         \A f \in full : Reaches(id, f),
         \A f \in summary[Fence(x)] : Reaches(x, f),
         x \in done => Covers(done, x, summary[Fence(x)]),
         Covers(done, id, VisitFence(s, full, summary, Fence(x)).minimal),
         VisitedCovers(done, id, full, s, x + 1)
  PROVE  VisitedCovers(done, id, full, VisitFence(s, full, summary, Fence(x)), x)
<1> DEFINE f == Fence(x)
           t == VisitFence(s, full, summary, f)
           needed == f \in full /\ f \notin s.accessible
           more == IF needed THEN {f} ELSE {}
<1>1. /\ t.minimal = s.minimal \union more
      /\ t.accessible = s.accessible \union more
           \union (IF f \in s.accessible \union more THEN summary[f] ELSE {})
  BY DEF VisitFence
<1>2. Covers(done, id, t.minimal)
  OBVIOUS
<1>3. 2 * Lane < FenceCount /\ FenceCount \in Nat /\ Lane \in Nat
  BY FenceCountIs
<1> HIDE DEF t
<1>4. ASSUME f \in s.accessible \union more, x >= FenceCount
      PROVE  x \in done
  <2>1. CASE needed
    <3>1. PICK y \in Nat : IsFenceOf(id, f, y)
      BY <2>1 DEF Reaches
    <3>2. y \in Nat /\ Fence(y) = Fence(x) /\ y < x + FenceCount /\ x < y + FenceCount
      BY <3>1, <1>3 DEF IsFenceOf
    <3>3. y = x
      BY <3>2, SameFence
    <3>4. f \in t.minimal
      BY <1>1, <2>1
    <3> QED
      BY <1>2, <1>4, <3>1, <3>3, <3>4 DEF Covers
  <2>2. CASE ~ needed
    <3>1. f \in s.accessible
      BY <1>4, <2>2
    <3> QED
      BY <1>4, <3>1 DEF VisitedCovers
  <2> QED
    BY <2>1, <2>2
<1>5. ASSUME NEW y \in Nat, FenceCount <= y, y < x, id < y + FenceCount,
             Fence(y) \in t.accessible
      PROVE  y \in done
  <2>1. Fence(y) # f
    <3>1. y < x + FenceCount /\ x < y + FenceCount /\ y # x
      BY <1>3, <1>5
    <3> QED
      BY <3>1, SameFence
  <2>2. CASE Fence(y) \in s.accessible
    BY <1>5, <2>2 DEF VisitedCovers
  <2>3. CASE f \in s.accessible \union more /\ Fence(y) \in summary[f]
    <3>1. x \in done /\ Covers(done, x, summary[f])
      BY <1>3, <1>4, <1>5, <2>3
    <3>2. PICK z \in Nat : IsFenceOf(x, Fence(y), z)
      BY <2>3 DEF Reaches
    <3>3. z \in Nat /\ Fence(z) = Fence(y) /\ z < y + FenceCount /\ y < z + FenceCount
      BY <1>3, <1>5, <3>2 DEF IsFenceOf
    <3>4. z = y
      BY <3>3, SameFence
    <3> QED
      BY <1>5, <2>3, <3>1, <3>2, <3>4 DEF Covers
  <2> QED
    BY <1>1, <1>5, <2>1, <2>2, <2>3
<1>6. ASSUME NEW y \in Nat, FenceCount <= y, x <= y, y < id, Fence(y) \in full
      PROVE  y \in done
  <2>1. CASE y = x
    <3>1. f \in s.accessible \union more
      BY <1>6, <2>1
    <3> QED
      BY <1>4, <1>6, <2>1, <3>1
  <2>2. CASE y # x
    BY <1>6, <2>2 DEF VisitedCovers
  <2> QED
    BY <2>1, <2>2
<1> QED
  BY <1>5, <1>6 DEF VisitedCovers, t

LEMMA MinimalCovers ==
  ASSUME NEW id \in Nat, id >= FenceCount, NEW full, NEW summary, NEW done,
         \A f \in full : Reaches(id, f),
         \A x \in Nat : x < id /\ id < x + FenceCount =>
           /\ \A f \in summary[Fence(x)] : Reaches(x, f)
           /\ x \in done => Covers(done, x, summary[Fence(x)]),
         Covers(done, id, MinimalFences(full, summary, id))
  PROVE  Covers(done, id, full)
<1> DEFINE n == FenceCount - 1
<1>1. PICK v : /\ v[0] = [minimal |-> {}, accessible |-> {}]
               /\ \A k \in 1 .. FenceCount - 1 :
                    v[k] = VisitFence(v[k - 1], full, summary, Fence(id - k))
               /\ MinimalFences(full, summary, id) = v[FenceCount - 1].minimal
  BY MinimalFencesIs
<1> DEFINE T == { k \in 0 .. n : Covers(done, id, v[k].minimal) =>
                                   VisitedCovers(done, id, full, v[k], id - k) }
<1>2. FenceCount \in Nat \ {0} /\ n \in Nat
  BY FenceCountIs
<1>3. 0 \in T
  <2>1. v[0].accessible = {} /\ id - 0 = id
    BY <1>1
  <2>2. VisitedCovers(done, id, full, v[0], id - 0)
    BY <1>2, <2>1 DEF VisitedCovers
  <2> QED
    BY <1>2, <2>2
<1>4. ASSUME NEW k \in 0 .. n - 1, k \in T
      PROVE  k + 1 \in T
  <2> DEFINE x == id - (k + 1)
             t == VisitFence(v[k], full, summary, Fence(x))
  <2>1. k + 1 \in 1 .. FenceCount - 1 /\ (k + 1) - 1 = k /\ k + 1 \in 0 .. n
    BY <1>2
  <2>2. v[k + 1] = t
    BY <1>1, <2>1
  <2>3. x \in Nat /\ x < id /\ id < x + FenceCount /\ x + 1 = id - k
    BY <1>2, <2>1
  <2>4. SUFFICES ASSUME Covers(done, id, v[k + 1].minimal)
                 PROVE  VisitedCovers(done, id, full, v[k + 1], x)
    BY <2>1
  <2>5. Covers(done, id, v[k].minimal)
    <3>1. v[k].minimal \subseteq t.minimal
      BY DEF VisitFence
    <3> HIDE DEF t
    <3> QED
      BY <2>2, <2>4, <3>1 DEF Covers
  <2>6. VisitedCovers(done, id, full, v[k], x + 1)
    BY <1>4, <2>3, <2>5
  <2>7. /\ \A f \in summary[Fence(x)] : Reaches(x, f)
        /\ x \in done => Covers(done, x, summary[Fence(x)])
    BY <2>3
  <2>8. Covers(done, id, t.minimal)
    BY <2>2, <2>4
  <2> HIDE DEF x
  <2>9. VisitedCovers(done, id, full, t, x)
    BY <2>3, <2>6, <2>7, <2>8, VisitCovers
  <2> QED
    BY <2>2, <2>9
<1>5. n \in T
  <2> HIDE DEF T
  <2>1. n \in Nat /\ 0 \in T /\ \A k \in 0 .. n - 1 : k \in T => k + 1 \in T
    BY <1>2, <1>3, <1>4
  <2>2. 0 .. n \subseteq T
    BY ONLY <2>1, Induction
  <2> QED
    BY <2>1, <2>2
<1>6. VisitedCovers(done, id, full, v[n], id - n)
  BY <1>1, <1>5
<1>7. ASSUME NEW f \in full, NEW y \in Nat, IsFenceOf(id, f, y), y >= FenceCount
      PROVE  y \in done
  <2>1. y \in Nat /\ y < id /\ id - n <= y /\ Fence(y) = f
    BY <1>2, <1>7, FenceCountIs DEF IsFenceOf
  <2> HIDE DEF n
  <2> QED
    BY <1>6, <1>7, <2>1 DEF VisitedCovers
<1> QED
  BY <1>7 DEF Covers

(* The weak fences reach everything old, or a strong fence of the lane does. *)
LEMMA FullReaches ==
  ASSUME NEW strong, NEW id \in Nat, id >= FenceCount, \A f \in strong : Reaches(id, f)
  PROVE  \A f \in FullFences(strong, id) : Reaches(id, f)
<1>1. FenceCount \in Nat /\ Lane \in Nat /\ FenceCount >= 3 * Lane /\ Lane > 1
  BY FenceCountIs
<1>2. ASSUME NEW f \in WeakFenceMask(id) PROVE Reaches(id, f)
  <2>1. PICK k \in Lane .. 2 * Lane - 1 : f = Fence(id - k)
    BY DEF WeakFenceMask
  <2>2. id - k \in Nat /\ IsFenceOf(id, f, id - k)
    BY <1>1, <2>1 DEF IsFenceOf
  <2> QED
    BY <2>2 DEF Reaches
<1> QED
  BY <1>2 DEF FullFences, MergeWithLaneMaskOff

LEMMA FullCoversOld ==
  ASSUME NEW strong, NEW id \in Nat, id >= FenceCount, \A f \in strong : Reaches(id, f),
         NEW done, Covers(done, id, FullFences(strong, id)),
         \A x \in done : CoversOld(done, x)
  PROVE  CoversOld(done, id)
<1>1. FenceCount \in Nat /\ Lane \in Nat /\ FenceCount >= 3 * Lane /\ Lane > 1
  BY FenceCountIs
<1>2. ASSUME NEW y \in Nat, FenceCount <= y, y + Lane <= id, id < y + 2 * Lane
      PROVE  y \in done
  <2> DEFINE f == Fence(y)
  <2>1. f \in WeakFenceMask(id)
    <3>1. id - y \in Lane .. 2 * Lane - 1 /\ id - (id - y) = y
      BY <1>1, <1>2
    <3> QED
      BY <3>1 DEF WeakFenceMask
  <2>2. CASE f % Lane \notin LaneMask(strong)
    <3>1. f \in FullFences(strong, id)
      BY <2>1, <2>2 DEF FullFences, MergeWithLaneMaskOff
    <3>2. IsFenceOf(id, f, y)
      BY <1>1, <1>2 DEF IsFenceOf
    <3> QED
      BY <1>2, <3>1, <3>2 DEF Covers
  <2>3. CASE f % Lane \in LaneMask(strong)
    <3>1. PICK g \in strong : g % Lane = f % Lane
      BY <2>3 DEF LaneMask
    <3>2. PICK z \in Nat : IsFenceOf(id, g, z)
      BY <3>1 DEF Reaches
    <3>3. z \in Nat /\ y % Lane = z % Lane /\ y < z + Lane /\ z < y + 2 * Lane
      BY <1>1, <1>2, <3>1, <3>2, LaneOfFence DEF IsFenceOf
    <3>4. z = y \/ z = y + Lane
      BY <3>3, SameLane
    <3>5. g \in FullFences(strong, id)
      BY <3>1 DEF FullFences, MergeWithLaneMaskOff
    <3>6. z \in done
      BY <1>1, <1>2, <3>2, <3>4, <3>5 DEF Covers
    <3> QED
      BY <1>1, <1>2, <3>4, <3>6 DEF CoversOld
  <2> QED
    BY <2>2, <2>3
<1>3. ASSUME NEW y \in Nat, FenceCount <= y, y + 2 * Lane <= id
      PROVE  y \in done
  <2> DEFINE x == id - Lane
  <2>1. x \in Nat /\ FenceCount <= x /\ x + Lane <= id /\ id < x + 2 * Lane /\ y + Lane <= x
    BY <1>1, <1>3
  <2>2. x \in done
    BY <1>2, <2>1
  <2> QED
    BY <1>3, <2>1, <2>2 DEF CoversOld
<1> QED
  BY <1>1, <1>2, <1>3 DEF CoversOld

-----------------------------------------------------------------------------
(* The waits of an access are for the last id of a fence.                  *)

LEMMA RecentReachable ==
  ASSUME NEW id \in Nat, NEW y \in Nat, y < id, id < y + 2 * Lane
  PROVE  Reaches(id, Fence(y))
  BY DEF Reaches, IsFenceOf

LEMMA LastWriterReaches ==
  ASSUME NEW t \in Tracker, NEW id \in Nat, t.exclusive < id
  PROVE  \A f \in LastWriter(t, id) : Reaches(id, f)
<1>1. t.exclusive \in Nat /\ Lane \in Nat
  BY FenceCountIs DEF Tracker
<1> SUFFICES ASSUME id - t.exclusive < Lane PROVE Reaches(id, Fence(t.exclusive))
  BY DEF LastWriter
<1>2. id < t.exclusive + 2 * Lane
  BY <1>1
<1> QED
  BY <1>1, <1>2, RecentReachable

LEMMA RecentReadersReach ==
  ASSUME NEW t \in Tracker, NEW id \in Nat
  PROVE  \A f \in RecentReaders(t, id) : Reaches(id, f)
<1> SUFFICES ASSUME NEW c \in ToSet(t.shared), c < id, c + Lane > id
             PROVE  Reaches(id, Fence(c))
  BY DEF RecentReaders
<1>1. c \in Nat
  BY DEF ToSet, Tracker
<1>2. id < c + 2 * Lane
  BY <1>1, FenceCountIs
<1> QED
  BY <1>1, <1>2, RecentReachable

LEMMA AnyLastWriterReaches ==
  ASSUME NEW t \in Tracker, NEW id \in Nat, t.exclusive < id, DistantWrites = FALSE,
         MayWrite(t, id)
  PROVE  \A f \in AnyLastWriter(t) : Reaches(id, f)
<1> SUFFICES ASSUME t.exclusive # 0 PROVE Reaches(id, Fence(t.exclusive))
  BY DEF AnyLastWriter
<1>1. t.exclusive \in Nat /\ Lane \in Nat
  BY FenceCountIs DEF Tracker
<1>2. id < t.exclusive + 2 * Lane
  BY <1>1 DEF MayWrite
<1> QED
  BY <1>1, <1>2, RecentReachable

(* What an access may wait for: a read for the last writer only.           *)
IsSomeOf(waits, t, id, stage, mode) ==
  /\ ~ IsWrite(mode) => waits \subseteq LastWriter(t, id)
  /\ IsWrite(mode) /\ stage = "compute" =>
       waits \subseteq LastWriter(t, id) \union RecentReaders(t, id)
  /\ IsWrite(mode) /\ stage # "compute" =>
       waits \subseteq AnyLastWriter(t) \union RecentReaders(t, id)

(* "vertex" is the first id of a render pass, and "id" the last.           *)
LEMMA AnswerWaits ==
  ASSUME NEW t \in Tracker, NEW e, NEW stage \in {"compute", "vertex", "pixel"}, NEW mode,
         e.id \in Nat, IsBelow(t, e.id + 1),
         stage # "compute" => e.vertex \in Nat /\ e.id = e.vertex + 1
  PROVE  LET id == IdOf(e, stage)
             waits == AnswerTo(e, t, stage, mode).waits
         IN  /\ waits # {} => t.exclusive < id
             /\ IsSomeOf(waits, t, id, stage, mode)
<1> DEFINE id == IdOf(e, stage)
           waits == AnswerTo(e, t, stage, mode).waits
<1>1. /\ t.exclusive \in Nat /\ t.exclusive < e.id + 1 /\ id \in Nat
      /\ stage = "compute" => id = e.id
      /\ stage = "vertex" => id = e.vertex
      /\ stage = "pixel" => id = e.id
  BY DEF Tracker, IsBelow, IdOf
<1>2. waits # {} => t.exclusive < id
  <2>1. CASE stage = "compute" /\ IsWrite(mode)
    <3>1. waits = AccessExclusive(t, id, mode = "uav").waits
      BY <1>1, <2>1 DEF AnswerTo
    <3>2. t.exclusive = id => waits = {}
      BY <3>1 DEF AccessExclusive, Answer
    <3> HIDE DEF waits
    <3> QED
      BY <1>1, <2>1, <3>2
  <2>2. CASE stage = "compute" /\ ~ IsWrite(mode)
    <3>1. waits = AccessShared(t, id).waits
      BY <1>1, <2>2 DEF AnswerTo
    <3>2. t.exclusive = id => waits = {}
      BY <3>1 DEF AccessShared, Answer, Nothing
    <3> HIDE DEF waits
    <3> QED
      BY <1>1, <2>2, <3>2
  <2>3. CASE stage = "vertex" /\ IsWrite(mode)
    <3>1. waits = AccessExclusivePreRaster(t, id, mode = "uav").waits
      BY <1>1, <2>3 DEF AnswerTo
    <3>2. t.exclusive \in {id, id + 1} => waits = {}
      BY <3>1 DEF AccessExclusivePreRaster, Answer
    <3> HIDE DEF waits
    <3> QED
      BY <1>1, <2>3, <3>2
  <2>4. CASE stage = "vertex" /\ ~ IsWrite(mode)
    <3>1. waits = AccessSharedPreRaster(t, id).waits
      BY <1>1, <2>4 DEF AnswerTo
    <3>2. t.exclusive \in {id, id + 1} => waits = {}
      BY <3>1 DEF AccessSharedPreRaster, Answer, Nothing
    <3> HIDE DEF waits
    <3> QED
      BY <1>1, <2>4, <3>2
  <2>5. CASE stage = "pixel" /\ IsWrite(mode)
    <3>1. waits = AccessExclusiveFragment(t, id, mode = "uav").waits
      BY <1>1, <2>5 DEF AnswerTo
    <3>2. t.exclusive \in {id, id - 1} => waits = {}
      BY <3>1 DEF AccessExclusiveFragment, Answer
    <3> HIDE DEF waits
    <3> QED
      BY <1>1, <2>5, <3>2
  <2>6. CASE stage = "pixel" /\ ~ IsWrite(mode)
    <3>1. waits = AccessSharedFragment(t, id).waits
      BY <1>1, <2>6 DEF AnswerTo
    <3>2. t.exclusive \in {id, id - 1} => waits = {}
      BY <3>1 DEF AccessSharedFragment, Answer, Nothing
    <3> HIDE DEF waits
    <3> QED
      BY <1>1, <2>6, <3>2
  <2> QED
    BY <2>1, <2>2, <2>3, <2>4, <2>5, <2>6
<1>3. IsSomeOf(waits, t, id, stage, mode)
  <2>1. CASE stage = "compute" /\ IsWrite(mode)
    <3>1. waits = AccessExclusive(t, id, mode = "uav").waits
      BY <1>1, <2>1 DEF AnswerTo
    <3>2. waits \in {{}, RecentReaders(t, id) \union LastWriter(t, id)}
      BY <3>1 DEF AccessExclusive, Answer
    <3> HIDE DEF waits, id
    <3> QED
      BY <2>1, <3>2 DEF IsSomeOf
  <2>2. CASE stage = "compute" /\ ~ IsWrite(mode)
    <3>1. waits = AccessShared(t, id).waits
      BY <1>1, <2>2 DEF AnswerTo
    <3>2. waits \in {{}, LastWriter(t, id)}
      BY <3>1 DEF AccessShared, Answer, Nothing
    <3> HIDE DEF waits, id
    <3> QED
      BY <2>2, <3>2 DEF IsSomeOf
  <2>3. CASE stage = "vertex" /\ IsWrite(mode)
    <3>1. waits = AccessExclusivePreRaster(t, id, mode = "uav").waits
      BY <1>1, <2>3 DEF AnswerTo
    <3>2. waits \in {{}, RecentReaders(t, id) \union AnyLastWriter(t)}
      BY <3>1 DEF AccessExclusivePreRaster, FirstWrite, Answer
    <3> HIDE DEF waits, id
    <3> QED
      BY <2>3, <3>2 DEF IsSomeOf
  <2>4. CASE stage = "vertex" /\ ~ IsWrite(mode)
    <3>1. waits = AccessSharedPreRaster(t, id).waits
      BY <1>1, <2>4 DEF AnswerTo
    <3>2. waits \in {{}, LastWriter(t, id)}
      BY <3>1 DEF AccessSharedPreRaster, Answer, Nothing
    <3> HIDE DEF waits, id
    <3> QED
      BY <2>4, <3>2 DEF IsSomeOf
  <2>5. CASE stage = "pixel" /\ IsWrite(mode)
    <3>1. waits = AccessExclusiveFragment(t, id, mode = "uav").waits
      BY <1>1, <2>5 DEF AnswerTo
    <3>2. waits \in {{}, RecentReaders(t, id) \union AnyLastWriter(t)}
      BY <3>1 DEF AccessExclusiveFragment, FirstWrite, Answer
    <3> HIDE DEF waits, id
    <3> QED
      BY <2>5, <3>2 DEF IsSomeOf
  <2>6. CASE stage = "pixel" /\ ~ IsWrite(mode)
    <3>1. waits = AccessSharedFragment(t, id).waits
      BY <1>1, <2>6 DEF AnswerTo
    <3>2. waits \in {{}, LastWriter(t, id)}
      BY <3>1 DEF AccessSharedFragment, Answer, Nothing
    <3> HIDE DEF waits, id
    <3> QED
      BY <2>6, <3>2 DEF IsSomeOf
  <2> QED
    BY <2>1, <2>2, <2>3, <2>4, <2>5, <2>6
<1> QED
  BY <1>2, <1>3 DEF waits, id

LEMMA AnswerReaches ==
  ASSUME NEW t \in Tracker, NEW e, NEW stage \in {"compute", "vertex", "pixel"}, NEW mode,
         e.id \in Nat, IsBelow(t, e.id + 1),
         stage # "compute" => e.vertex \in Nat /\ e.id = e.vertex + 1,
         DistantWrites = FALSE,
         stage # "compute" /\ IsWrite(mode) => MayWrite(t, IdOf(e, stage))
  PROVE  \A f \in AnswerTo(e, t, stage, mode).waits : Reaches(IdOf(e, stage), f)
<1> DEFINE id == IdOf(e, stage)
           waits == AnswerTo(e, t, stage, mode).waits
<1>1. id \in Nat
  BY DEF IdOf
<1>2. (waits # {} => t.exclusive < id) /\ IsSomeOf(waits, t, id, stage, mode)
  BY AnswerWaits
<1> HIDE DEF waits, id
<1>4. ASSUME NEW f \in waits PROVE Reaches(id, f)
  <2>1. t.exclusive < id
    BY <1>2, <1>4
  <2>2. CASE f \in LastWriter(t, id)
    BY <1>1, <2>1, <2>2, LastWriterReaches
  <2>3. CASE f \in RecentReaders(t, id)
    BY <1>1, <2>3, RecentReadersReach
  <2>4. CASE stage # "compute" /\ IsWrite(mode) /\ f \in AnyLastWriter(t)
    <3>1. MayWrite(t, id)
      BY <2>4 DEF id
    <3> QED
      BY <1>1, <2>1, <2>4, <3>1, AnyLastWriterReaches
  <2> QED
    BY <1>2, <1>4, <2>2, <2>3, <2>4 DEF IsSomeOf
<1> QED
  BY <1>4 DEF waits, id

WaitsOf(s, resources, stage, mode) ==
  UNION { AnswerTo(s.encoder, s.trackers[r], stage, mode).waits : r \in resources }

LEMMA AccessedWaits ==
  ASSUME NEW s, IsEncoder(s.encoder), NEW resources, NEW stage, NEW mode
  PROVE  LET e == s.encoder
             n == Accessed(s, resources, stage, mode).encoder
             waits == WaitsOf(s, resources, stage, mode)
         IN  /\ n.update = e.update
             /\ stage = "vertex" => n.wait = e.wait /\ n.wait_vertex = e.wait_vertex \union waits
             /\ stage # "vertex" => n.wait = e.wait \union waits /\ n.wait_vertex = e.wait_vertex
<1> DEFINE e == s.encoder
           answer == [r \in resources |-> AnswerTo(e, s.trackers[r], stage, mode)]
           waits == UNION { answer[r].waits : r \in resources }
           wait == IF stage = "vertex" THEN e.wait ELSE e.wait \union waits
           wait_vertex == IF stage = "vertex" THEN e.wait_vertex \union waits
                          ELSE e.wait_vertex
<1>1. waits = WaitsOf(s, resources, stage, mode)
  BY DEF WaitsOf
<1>2. \E barriers, uses :
        Accessed(s, resources, stage, mode).encoder =
          [e EXCEPT !.wait = wait, !.wait_vertex = wait_vertex,
                    !.barriers = barriers, !.uses = uses]
  BY DEF Accessed
<1> HIDE DEF wait, wait_vertex, e
<1>3. PICK barriers, uses :
        Accessed(s, resources, stage, mode).encoder =
          [e EXCEPT !.wait = wait, !.wait_vertex = wait_vertex,
                    !.barriers = barriers, !.uses = uses]
  BY <1>2
<1> DEFINE n == [e EXCEPT !.wait = wait, !.wait_vertex = wait_vertex,
                          !.barriers = barriers, !.uses = uses]
<1>4. n.update = e.update /\ n.wait = wait /\ n.wait_vertex = wait_vertex
  BY DEF e, IsEncoder
<1> HIDE DEF n
<1>5. Accessed(s, resources, stage, mode).encoder = n
  BY <1>3 DEF n
<1> HIDE DEF waits
<1> QED
  BY <1>1, <1>4, <1>5 DEF wait, wait_vertex, e

-----------------------------------------------------------------------------
(* The next id in the order of the passes.                                 *)

LEMMA DoneCovers ==
  ASSUME NEW before, NEW last, NEW summary, NEW id \in Nat, FenceCount <= id,
         OrderIs(before, last, summary, id),
         NEW fences, NEW done, \A f \in fences : f \in DOMAIN last => last[f] \subseteq done
  PROVE  Covers(done, id, fences)
<1> SUFFICES ASSUME NEW f \in fences, NEW y \in Nat, IsFenceOf(id, f, y), FenceCount <= y
             PROVE  y \in done
  BY DEF Covers
<1>1. FenceCount \in Nat /\ Lane \in Nat /\ FenceCount >= 3 * Lane /\ Lane > 1
  BY FenceCountIs
<1>2. y \in FenceCount .. id - 1 /\ id <= y + FenceCount /\ f = Fence(y)
  BY <1>1 DEF IsFenceOf
<1>3. y \in last[f]
  BY <1>2 DEF OrderIs
<1>4. f \in DOMAIN last
  BY <1>2, LaneOfFence DEF OrderIs
<1> QED
  BY <1>3, <1>4

IsNext(before, last, summary, id, strong, done, before2, last2) ==
  /\ id \in Nat /\ FenceCount <= id /\ OrderIs(before, last, summary, id)
  /\ \A f \in strong : Reaches(id, f)
  /\ done \subseteq FenceCount .. id - 1 /\ IsClosed(before, done)
  /\ Covers(done, id, MinimalFences(FullFences(strong, id), summary, id))
  /\ DOMAIN before2 = FenceCount .. id /\ before2[id] = done
  /\ \A b \in FenceCount .. id - 1 : before2[b] = before[b]
  /\ DOMAIN last2 = 0 .. FenceCount - 1
  /\ id \in last2[Fence(id)] /\ last2[Fence(id)] \subseteq FenceCount .. id
  /\ \A f \in 0 .. FenceCount - 1 : f # Fence(id) => last2[f] = last[f]

LEMMA NextId ==
  ASSUME NEW before, NEW last, NEW summary, NEW id, NEW strong, NEW done, NEW before2, NEW last2,
         IsNext(before, last, summary, id, strong, done, before2, last2)
  PROVE  LET full == FullFences(strong, id)
         IN  OrderIs(before2, last2, [summary EXCEPT ![Fence(id)] = full], id + 1)
<1> DEFINE full == FullFences(strong, id)
           summary2 == [summary EXCEPT ![Fence(id)] = full]
<1>0. /\ id \in Nat /\ FenceCount <= id /\ OrderIs(before, last, summary, id)
      /\ \A f \in strong : Reaches(id, f)
      /\ done \subseteq FenceCount .. id - 1 /\ IsClosed(before, done)
      /\ Covers(done, id, MinimalFences(FullFences(strong, id), summary, id))
      /\ DOMAIN before2 = FenceCount .. id /\ before2[id] = done
      /\ \A b \in FenceCount .. id - 1 : before2[b] = before[b]
      /\ DOMAIN last2 = 0 .. FenceCount - 1
      /\ id \in last2[Fence(id)] /\ last2[Fence(id)] \subseteq FenceCount .. id
      /\ \A f \in 0 .. FenceCount - 1 : f # Fence(id) => last2[f] = last[f]
  BY DEF IsNext
<1> USE <1>0
<1>1. FenceCount \in Nat /\ Lane \in Nat /\ FenceCount >= 3 * Lane /\ Lane > 1
  BY FenceCountIs
<1>2. \A f \in full : Reaches(id, f)
  BY FullReaches
<1>3. \A b \in FenceCount .. id - 1 :
        /\ before[b] \subseteq FenceCount .. b - 1 /\ IsClosed(before, before[b])
        /\ CoversOld(before[b], b)
        /\ id <= b + FenceCount =>
             b \in last[Fence(b)] /\ Covers(before[b], b, summary[Fence(b)])
  BY DEF OrderIs
<1>4. \A x \in Nat : x < id /\ id <= x + FenceCount => \A f \in summary[Fence(x)] : Reaches(x, f)
  BY DEF OrderIs
<1>5. DOMAIN last = 0 .. FenceCount - 1 /\ DOMAIN summary = 0 .. FenceCount - 1
      /\ \A f \in 0 .. FenceCount - 1 : last[f] \subseteq FenceCount .. id - 1
  BY DEF OrderIs
<1>6. /\ Fence(id) \in 0 .. FenceCount - 1 /\ summary2[Fence(id)] = full
      /\ DOMAIN summary2 = 0 .. FenceCount - 1
      /\ \A x \in Nat : x < id /\ id + 1 <= x + FenceCount =>
           Fence(x) # Fence(id) /\ Fence(x) \in 0 .. FenceCount - 1
           /\ summary2[Fence(x)] = summary[Fence(x)]
  <2>1. Fence(id) \in 0 .. FenceCount - 1
    BY LaneOfFence
  <2>2. ASSUME NEW x \in Nat, x < id, id + 1 <= x + FenceCount
        PROVE  Fence(x) # Fence(id) /\ Fence(x) \in 0 .. FenceCount - 1
    <3>1. x < id + FenceCount /\ id < x + FenceCount /\ x # id
      BY <1>1, <2>2
    <3> QED
      BY <3>1, SameFence, LaneOfFence
  <2> HIDE DEF full
  <2> QED
    BY <1>5, <2>1, <2>2
<1> HIDE DEF full, summary2
<1>7. Covers(done, id, full)
  <2>1. ASSUME NEW x \in Nat, x < id, id < x + FenceCount
        PROVE  /\ \A f \in summary[Fence(x)] : Reaches(x, f)
               /\ x \in done => Covers(done, x, summary[Fence(x)])
    <3>1. id <= x + FenceCount
      BY <1>1, <2>1
    <3>2. ASSUME x \in done PROVE Covers(done, x, summary[Fence(x)])
      <4>1. before[x] \subseteq done /\ x \in FenceCount .. id - 1
        BY <3>2 DEF IsClosed
      <4>2. Covers(before[x], x, summary[Fence(x)])
        BY <1>3, <3>1, <4>1
      <4> QED
        BY <4>1, <4>2 DEF Covers
    <3> QED
      BY <1>4, <2>1, <3>1, <3>2
  <2>2. Covers(done, id, MinimalFences(full, summary, id)) /\ id >= FenceCount
    BY <1>1 DEF full
  <2> QED
    BY <1>2, <2>1, <2>2, MinimalCovers
<1>8. CoversOld(done, id)
  <2>1. ASSUME NEW x \in done PROVE CoversOld(done, x)
    <3>1. before[x] \subseteq done /\ CoversOld(before[x], x)
      BY <1>3 DEF IsClosed
    <3> QED
      BY <3>1 DEF CoversOld
  <2>2. id >= FenceCount /\ Covers(done, id, FullFences(strong, id))
    BY <1>1, <1>7 DEF full
  <2> QED
    BY <2>1, <2>2, FullCoversOld
<1>9. \A b \in FenceCount .. id : b = id \/ b \in FenceCount .. id - 1
  BY <1>1
<1>10. ASSUME NEW b \in FenceCount .. id
       PROVE  /\ before2[b] \subseteq FenceCount .. b - 1 /\ IsClosed(before2, before2[b])
              /\ CoversOld(before2[b], b)
              /\ id + 1 <= b + FenceCount =>
                   b \in last2[Fence(b)] /\ Covers(before2[b], b, summary2[Fence(b)])
  <2>1. CASE b = id
    <3>1. IsClosed(before2, done)
      BY DEF IsClosed
    <3> QED
      BY <1>6, <1>7, <1>8, <2>1, <3>1
  <2>2. CASE b \in FenceCount .. id - 1
    <3>1. before2[b] = before[b] /\ b \in Nat /\ b < id /\ before[b] \subseteq FenceCount .. id - 1
      BY <1>1, <1>3, <2>2
    <3>2. IsClosed(before2, before[b])
      BY <1>3, <2>2, <3>1 DEF IsClosed
    <3>3. ASSUME id + 1 <= b + FenceCount
          PROVE  b \in last2[Fence(b)] /\ Covers(before2[b], b, summary2[Fence(b)])
      <4>1. Fence(b) # Fence(id) /\ Fence(b) \in 0 .. FenceCount - 1
            /\ summary2[Fence(b)] = summary[Fence(b)]
        BY <1>6, <3>1, <3>3
      <4>2. id <= b + FenceCount
        BY <1>1, <3>1, <3>3
      <4> QED
        BY <1>3, <2>2, <3>1, <4>1, <4>2
    <3> QED
      BY <1>3, <2>2, <3>1, <3>2, <3>3
  <2> QED
    BY <1>9, <2>1, <2>2
<1>11. ASSUME NEW f \in 0 .. FenceCount - 1 PROVE last2[f] \subseteq FenceCount .. id
  <2>1. f # Fence(id) => last2[f] \subseteq FenceCount .. id - 1
    BY <1>5
  <2> QED
    BY <1>1, <2>1
<1>12. ASSUME NEW x \in Nat, x < id + 1, id + 1 <= x + FenceCount,
              NEW f \in summary2[Fence(x)]
       PROVE  Reaches(x, f)
  <2>1. CASE x = id
    BY <1>2, <1>6, <1>12, <2>1
  <2>2. CASE x # id
    <3>1. x < id /\ id <= x + FenceCount
      BY <1>1, <1>12, <2>2
    <3> QED
      BY <1>4, <1>6, <1>12, <3>1
  <2> QED
    BY <2>1, <2>2
<1>13. FenceCount .. (id + 1) - 1 = FenceCount .. id
  BY <1>1
<1>14. OrderIs(before2, last2, summary2, id + 1)
  BY <1>6, <1>10, <1>11, <1>12, <1>13 DEF OrderIs
<1> QED
  BY <1>14 DEF summary2, full

-----------------------------------------------------------------------------
(* A pass that is encoded has the next ids.                                *)

LEMMA MinimalAreFences ==
  ASSUME NEW full, NEW summary, NEW id \in Nat, id >= FenceCount
  PROVE  MinimalFences(full, summary, id) \subseteq 0 .. FenceCount - 1
<1> DEFINE n == FenceCount - 1
<1>1. PICK v : /\ v[0] = [minimal |-> {}, accessible |-> {}]
               /\ \A k \in 1 .. FenceCount - 1 :
                    v[k] = VisitFence(v[k - 1], full, summary, Fence(id - k))
               /\ MinimalFences(full, summary, id) = v[FenceCount - 1].minimal
  BY MinimalFencesIs
<1> DEFINE T == { k \in 0 .. n : v[k].minimal \subseteq 0 .. n }
<1>2. FenceCount \in Nat \ {0} /\ n \in Nat
  BY FenceCountIs
<1>3. 0 \in T
  BY <1>1, <1>2
<1>4. ASSUME NEW k \in 0 .. n - 1, k \in T
      PROVE  k + 1 \in T
  <2> DEFINE x == id - (k + 1)
  <2>1. k + 1 \in 1 .. FenceCount - 1 /\ (k + 1) - 1 = k /\ k + 1 \in 0 .. n /\ x \in Nat
    BY <1>2
  <2>2. v[k + 1] = VisitFence(v[k], full, summary, Fence(x))
    BY <1>1, <2>1
  <2>3. Fence(x) \in 0 .. n
    BY <2>1, LaneOfFence
  <2> HIDE DEF x, n
  <2>4. v[k + 1].minimal \subseteq v[k].minimal \union {Fence(x)}
    BY <2>2 DEF VisitFence
  <2> QED
    BY <1>4, <2>1, <2>3, <2>4
<1>5. n \in T
  <2> HIDE DEF T
  <2>1. n \in Nat /\ 0 \in T /\ \A k \in 0 .. n - 1 : k \in T => k + 1 \in T
    BY <1>2, <1>3, <1>4
  <2>2. 0 .. n \subseteq T
    BY ONLY <2>1, Induction
  <2> QED
    BY <2>1, <2>2
<1> QED
  BY <1>1, <1>5

DoneOf(g, fences) ==
  LET ids == UNION { g.last[f] : f \in fences }
  IN  ids \union UNION { g.before[id] : id \in ids }

LEMMA DoneIs ==
  ASSUME NEW g, NEW summary, NEW id \in Nat, FenceCount <= id,
         OrderIs(g.before, g.last, summary, id), NEW fences, fences \subseteq 0 .. FenceCount - 1
  PROVE  LET done == DoneOf(g, fences)
         IN  /\ done \subseteq FenceCount .. id - 1 /\ IsClosed(g.before, done)
             /\ \A f \in fences : g.last[f] \subseteq done
<1> DEFINE ids == UNION { g.last[f] : f \in fences }
           more == UNION { g.before[x] : x \in ids }
           done == DoneOf(g, fences)
<1>1. done = ids \union more
  BY DEF DoneOf
<1> HIDE DEF done
<1>2. ids \subseteq FenceCount .. id - 1
  BY DEF OrderIs
<1>3. \A f \in fences : g.last[f] \subseteq ids
  OBVIOUS
<1>4. \A x \in ids : g.before[x] \subseteq more
  OBVIOUS
<1>5. \A y \in more : \E x \in ids : y \in g.before[x]
  OBVIOUS
<1> HIDE DEF ids, more
<1>6. FenceCount \in Nat
  BY FenceCountIs
<1>7. more \subseteq FenceCount .. id - 1
  BY <1>2, <1>5, <1>6 DEF OrderIs
<1>8. \A y \in more : g.before[y] \subseteq more
  <2> SUFFICES ASSUME NEW y \in more PROVE g.before[y] \subseteq more
    OBVIOUS
  <2>1. PICK x \in ids : y \in g.before[x]
    BY <1>5
  <2>2. g.before[y] \subseteq g.before[x]
    BY <1>2, <2>1 DEF OrderIs, IsClosed
  <2> QED
    BY <1>4, <2>2
<1> QED
  BY <1>1, <1>2, <1>3, <1>4, <1>7, <1>8 DEF IsClosed, done

LEMMA EncodedIs ==
  ASSUME NEW g, NEW e
  PROVE  LET n == Encoded(g, e)
             vertex == DoneOf(g, e.wait_vertex)
             fragment == vertex \union e.update_vertex \union DoneOf(g, e.wait)
             ids == e.update \union e.update_vertex
         IN  /\ IsGpu(n)
             /\ DOMAIN n.before = ids \union DOMAIN g.before /\ DOMAIN n.last = DOMAIN g.last
             /\ \A id \in e.update : n.before[id] = fragment
             /\ \A id \in e.update_vertex : id \notin e.update => n.before[id] = vertex
             /\ \A id \in DOMAIN g.before : id \notin ids => n.before[id] = g.before[id]
             /\ \A id \in e.update : Fence(id) \in DOMAIN g.last => n.last[Fence(id)] = ids
             /\ \A id \in e.update_vertex :
                  Fence(id) \in DOMAIN g.last /\ (\A x \in e.update : Fence(x) # Fence(id)) =>
                    n.last[Fence(id)] = e.update_vertex
             /\ \A f \in DOMAIN g.last : (\A x \in ids : Fence(x) # f) => n.last[f] = g.last[f]
<1> DEFINE vertex == DoneOf(g, e.wait_vertex)
           fragment == vertex \union e.update_vertex \union DoneOf(g, e.wait)
           ids == e.update \union e.update_vertex
           before == [id \in ids \union DOMAIN g.before |->
                        CASE id \in e.update -> fragment
                          [] id \in e.update_vertex \ e.update -> vertex
                          [] OTHER -> g.before[id]]
           host == [id \in ids \union DOMAIN g.host |-> IF id \in ids THEN e.id ELSE g.host[id]]
           uses == g.uses \union e.uses
           last == [f \in DOMAIN g.last |->
                      CASE \E id \in e.update : Fence(id) = f ->
                             e.update \union e.update_vertex
                        [] (\E id \in e.update_vertex : Fence(id) = f)
                           /\ ~ (\E id \in e.update : Fence(id) = f) ->
                             e.update_vertex
                        [] OTHER -> g.last[f]]
           n == Encoded(g, e)
<1>1. n = [before |-> before, host |-> host, uses |-> uses, last |-> last]
  BY DEF Encoded, DoneOf
<1> HIDE DEF n
<1>2. n.before = before /\ n.last = last /\ IsGpu(n)
  <2> HIDE DEF before, host, uses, last
  <2> QED
    BY <1>1 DEF IsGpu
<1>3. /\ DOMAIN before = ids \union DOMAIN g.before
      /\ \A id \in e.update : before[id] = fragment
      /\ \A id \in e.update_vertex : id \notin e.update => before[id] = vertex
      /\ \A id \in DOMAIN g.before : id \notin ids => before[id] = g.before[id]
  <2> HIDE DEF vertex, fragment
  <2> QED
    OBVIOUS
<1>4. /\ DOMAIN last = DOMAIN g.last
      /\ \A id \in e.update : Fence(id) \in DOMAIN g.last => last[Fence(id)] = ids
      /\ \A id \in e.update_vertex :
           Fence(id) \in DOMAIN g.last /\ (\A x \in e.update : Fence(x) # Fence(id)) =>
             last[Fence(id)] = e.update_vertex
      /\ \A f \in DOMAIN g.last : (\A x \in ids : Fence(x) # f) => last[f] = g.last[f]
  OBVIOUS
<1> HIDE DEF before, last
<1> QED
  BY <1>2, <1>3, <1>4 DEF n

(* Passes with one id: all but render passes.                              *)
LEMMA EncodedOne ==
  ASSUME NEW g, NEW summary, NEW id \in Nat, FenceCount <= id,
         OrderIs(g.before, g.last, summary, id),
         NEW strong, \A f \in strong : Reaches(id, f),
         NEW e, e.update = {id}, e.update_vertex = {}, e.wait_vertex = {},
         e.wait = MinimalFences(FullFences(strong, id), summary, id)
  PROVE  LET n == Encoded(g, e)
         IN  OrderIs(n.before, n.last, [summary EXCEPT ![Fence(id)] = FullFences(strong, id)], id + 1)
<1> DEFINE n == Encoded(g, e)
           done == DoneOf(g, e.wait)
<1>1. /\ FenceCount \in Nat /\ Fence(id) \in 0 .. FenceCount - 1
      /\ DOMAIN g.before = FenceCount .. id - 1 /\ DOMAIN g.last = 0 .. FenceCount - 1
  BY FenceCountIs, LaneOfFence DEF OrderIs
<1>2. e.wait \subseteq 0 .. FenceCount - 1
  BY <1>1, MinimalAreFences
<1>3. /\ done \subseteq FenceCount .. id - 1 /\ IsClosed(g.before, done)
      /\ \A f \in e.wait : g.last[f] \subseteq done
  BY <1>2, DoneIs
<1>4. Covers(done, id, MinimalFences(FullFences(strong, id), summary, id))
  BY <1>3, DoneCovers
<1>5. DoneOf(g, {}) = {}
  BY DEF DoneOf
<1> HIDE DEF done
<1>6. /\ DOMAIN n.before = {id} \union DOMAIN g.before /\ DOMAIN n.last = DOMAIN g.last
      /\ n.before[id] = done
      /\ \A b \in DOMAIN g.before : b # id => n.before[b] = g.before[b]
      /\ Fence(id) \in DOMAIN g.last => n.last[Fence(id)] = {id}
      /\ \A f \in DOMAIN g.last : Fence(id) # f => n.last[f] = g.last[f]
  <2>1. e.update \union e.update_vertex = {id} /\ {} \union {} \union done = done
    OBVIOUS
  <2>2. DOMAIN n.before = e.update \union e.update_vertex \union DOMAIN g.before
        /\ DOMAIN n.last = DOMAIN g.last
    BY ONLY EncodedIs
  <2>3. \A x \in e.update :
          n.before[x] = DoneOf(g, e.wait_vertex) \union e.update_vertex \union DoneOf(g, e.wait)
    BY ONLY EncodedIs
  <2>4. \A b \in DOMAIN g.before :
          b \notin e.update \union e.update_vertex => n.before[b] = g.before[b]
    BY ONLY EncodedIs
  <2>5. \A x \in e.update : Fence(x) \in DOMAIN g.last =>
          n.last[Fence(x)] = e.update \union e.update_vertex
    BY ONLY EncodedIs
  <2>6. \A f \in DOMAIN g.last :
          (\A x \in e.update \union e.update_vertex : Fence(x) # f) => n.last[f] = g.last[f]
    BY ONLY EncodedIs
  <2> HIDE DEF n
  <2>7. n.before[id] = done
    BY <1>5, <2>1, <2>3 DEF done
  <2> QED
    BY <2>1, <2>2, <2>4, <2>5, <2>6, <2>7
<1> HIDE DEF n
<1>7. DOMAIN n.before = FenceCount .. id /\ \A b \in FenceCount .. id - 1 : b # id
  BY <1>1, <1>6
<1>8. id \in n.last[Fence(id)] /\ n.last[Fence(id)] \subseteq FenceCount .. id
  BY <1>1, <1>6
<1>9. \A b \in FenceCount .. id - 1 : n.before[b] = g.before[b]
  BY <1>1, <1>6, <1>7
<1>10. \A f \in 0 .. FenceCount - 1 : f # Fence(id) => n.last[f] = g.last[f]
  BY <1>1, <1>6
<1>11. DOMAIN n.last = 0 .. FenceCount - 1 /\ n.before[id] = done
  BY <1>1, <1>6
<1>12. IsNext(g.before, g.last, summary, id, strong, done, n.before, n.last)
  BY <1>3, <1>4, <1>7, <1>8, <1>9, <1>10, <1>11 DEF IsNext
<1> QED
  BY <1>12, NextId DEF n

(* Render passes: first the vertex stage, then the fragment stage.         *)
LEMMA EncodedTwo ==
  ASSUME NEW g, NEW summary, NEW vertex \in Nat, FenceCount <= vertex,
         OrderIs(g.before, g.last, summary, vertex),
         NEW early, \A f \in early : Reaches(vertex, f),
         NEW late, \A f \in late : Reaches(vertex + 1, f),
         NEW first, first = [summary EXCEPT ![Fence(vertex)] = FullFences(early, vertex)],
         NEW e, e.update = {vertex + 1}, e.update_vertex = {vertex},
         e.wait_vertex = MinimalFences(FullFences(early, vertex), summary, vertex),
         e.wait = MinimalFences(FullFences(late \union {Fence(vertex)}, vertex + 1),
                                first, vertex + 1) \ {Fence(vertex)}
  PROVE  LET n == Encoded(g, e)
             full == FullFences(late \union {Fence(vertex)}, vertex + 1)
         IN  OrderIs(n.before, n.last, [first EXCEPT ![Fence(vertex + 1)] = full],
                     vertex + 1 + 1)
<1> DEFINE id == vertex + 1
           strong == late \union {Fence(vertex)}
           full == FullFences(strong, id)
           minimal == MinimalFences(full, first, id)
           n == Encoded(g, e)
           vdone == DoneOf(g, e.wait_vertex)
           more == DoneOf(g, e.wait)
           done == vdone \union {vertex} \union more
           before1 == [b \in FenceCount .. vertex |-> IF b = vertex THEN vdone ELSE g.before[b]]
           last1 == [f \in 0 .. FenceCount - 1 |->
                       IF f = Fence(vertex) THEN {vertex} ELSE g.last[f]]
<1>1. /\ FenceCount \in Nat /\ Lane \in Nat /\ FenceCount >= 3 * Lane /\ Lane > 1
      /\ id \in Nat /\ FenceCount <= id /\ id - 1 = vertex
  BY FenceCountIs
<1>2. /\ Fence(vertex) \in 0 .. FenceCount - 1 /\ Fence(id) \in 0 .. FenceCount - 1
      /\ Fence(vertex) # Fence(id)
  <2>1. vertex # id /\ vertex < id + FenceCount /\ id < vertex + FenceCount
    BY <1>1
  <2> HIDE DEF id
  <2> QED
    BY <1>1, <2>1, LaneOfFence, SameFence
<1>3. DOMAIN g.before = FenceCount .. vertex - 1 /\ DOMAIN g.last = 0 .. FenceCount - 1
      /\ \A f \in 0 .. FenceCount - 1 : g.last[f] \subseteq FenceCount .. vertex - 1
  BY DEF OrderIs
<1>4. e.wait_vertex \subseteq 0 .. FenceCount - 1
  BY <1>1, MinimalAreFences
<1>5. e.wait \subseteq 0 .. FenceCount - 1 /\ e.wait = minimal \ {Fence(vertex)}
  <2>1. minimal \subseteq 0 .. FenceCount - 1
    <3> HIDE DEF id, full
    <3> QED
      BY <1>1, MinimalAreFences
  <2> QED
    BY <2>1
<1>6. /\ vdone \subseteq FenceCount .. vertex - 1 /\ IsClosed(g.before, vdone)
      /\ \A f \in e.wait_vertex : g.last[f] \subseteq vdone
  BY <1>4, DoneIs
<1>7. /\ more \subseteq FenceCount .. vertex - 1 /\ IsClosed(g.before, more)
      /\ \A f \in e.wait : g.last[f] \subseteq more
  BY <1>5, DoneIs
<1> HIDE DEF id, full, minimal, n, vdone, more, strong
<1>8. Covers(vdone, vertex, MinimalFences(FullFences(early, vertex), summary, vertex))
  BY <1>6, DoneCovers
<1>9. /\ DOMAIN before1 = FenceCount .. vertex /\ before1[vertex] = vdone
      /\ \A b \in FenceCount .. vertex - 1 : before1[b] = g.before[b]
  BY <1>1
<1>10. /\ DOMAIN last1 = 0 .. FenceCount - 1 /\ last1[Fence(vertex)] = {vertex}
       /\ \A f \in 0 .. FenceCount - 1 : f # Fence(vertex) => last1[f] = g.last[f]
  BY <1>2
<1> HIDE DEF before1, last1
<1>11. vertex \in last1[Fence(vertex)] /\ last1[Fence(vertex)] \subseteq FenceCount .. vertex
  BY <1>1, <1>10
<1>12. OrderIs(before1, last1, first, id)
  <2>1. OrderIs(before1, last1,
                [summary EXCEPT ![Fence(vertex)] = FullFences(early, vertex)], vertex + 1)
    <3>1. IsNext(g.before, g.last, summary, vertex, early, vdone, before1, last1)
      BY <1>6, <1>8, <1>9, <1>10, <1>11 DEF IsNext
    <3> QED
      BY <3>1, NextId
  <2> QED
    BY <2>1 DEF id
<1>13. done \subseteq FenceCount .. id - 1 /\ IsClosed(before1, done)
  <2>1. FenceCount .. vertex - 1 \subseteq FenceCount .. vertex /\ vertex \in FenceCount .. vertex
    BY <1>1
  <2>2. done \subseteq FenceCount .. id - 1
    BY <1>1, <1>6, <1>7, <2>1
  <2>3. ASSUME NEW x \in done PROVE before1[x] \subseteq done
    <3>1. CASE x = vertex
      BY <1>9, <3>1
    <3>2. CASE x \in vdone
      <4>1. before1[x] = g.before[x] /\ g.before[x] \subseteq vdone
        BY <1>6, <1>9, <3>2 DEF IsClosed
      <4> QED
        BY <4>1
    <3>3. CASE x \in more
      <4>1. before1[x] = g.before[x] /\ g.before[x] \subseteq more
        BY <1>7, <1>9, <3>3 DEF IsClosed
      <4> QED
        BY <4>1
    <3> QED
      BY <3>1, <3>2, <3>3
  <2> HIDE DEF done
  <2> QED
    BY <2>2, <2>3 DEF IsClosed
<1>14. Covers(done, id, minimal)
  <2>1. ASSUME NEW f \in minimal, f \in DOMAIN last1 PROVE last1[f] \subseteq done
    <3>1. CASE f = Fence(vertex)
      BY <1>10, <3>1
    <3>2. CASE f # Fence(vertex)
      <4>1. f \in e.wait /\ last1[f] = g.last[f]
        BY <1>5, <1>10, <2>1, <3>2
      <4> QED
        BY <1>7, <4>1
    <3> QED
      BY <3>1, <3>2
  <2> HIDE DEF done
  <2> QED
    BY <1>1, <1>12, <2>1, DoneCovers
<1>15. /\ DOMAIN n.before = {id} \union {vertex} \union DOMAIN g.before
       /\ DOMAIN n.last = DOMAIN g.last
       /\ n.before[id] = done /\ n.before[vertex] = vdone
       /\ \A b \in DOMAIN g.before : b \notin {id, vertex} => n.before[b] = g.before[b]
       /\ n.last[Fence(id)] = {id, vertex} /\ n.last[Fence(vertex)] = {vertex}
       /\ \A f \in DOMAIN g.last : f \notin {Fence(id), Fence(vertex)} => n.last[f] = g.last[f]
  <2>1. e.update = {id} /\ e.update_vertex = {vertex} /\ id # vertex
    BY <1>1 DEF id
  <2>2. /\ DOMAIN n.before = e.update \union e.update_vertex \union DOMAIN g.before
        /\ DOMAIN n.last = DOMAIN g.last
    BY ONLY EncodedIs DEF n
  <2>3. \A x \in e.update :
          n.before[x] = DoneOf(g, e.wait_vertex) \union e.update_vertex \union DoneOf(g, e.wait)
    BY ONLY EncodedIs DEF n
  <2>4. \A x \in e.update_vertex : x \notin e.update =>
          n.before[x] = DoneOf(g, e.wait_vertex)
    BY ONLY EncodedIs DEF n
  <2>5. \A b \in DOMAIN g.before :
          b \notin e.update \union e.update_vertex => n.before[b] = g.before[b]
    BY ONLY EncodedIs DEF n
  <2>6. \A x \in e.update : Fence(x) \in DOMAIN g.last =>
          n.last[Fence(x)] = e.update \union e.update_vertex
    BY ONLY EncodedIs DEF n
  <2>7. \A x \in e.update_vertex :
          Fence(x) \in DOMAIN g.last /\ (\A y \in e.update : Fence(y) # Fence(x)) =>
            n.last[Fence(x)] = e.update_vertex
    BY ONLY EncodedIs DEF n
  <2>8. \A f \in DOMAIN g.last :
          (\A x \in e.update \union e.update_vertex : Fence(x) # f) => n.last[f] = g.last[f]
    BY ONLY EncodedIs DEF n
  <2>9. DOMAIN n.before = {id} \union {vertex} \union DOMAIN g.before
        /\ DOMAIN n.last = DOMAIN g.last
    BY <2>1, <2>2
  <2>10. n.before[id] = done /\ n.before[vertex] = vdone
    BY <2>1, <2>3, <2>4 DEF vdone, more
  <2>11. \A b \in DOMAIN g.before : b \notin {id, vertex} => n.before[b] = g.before[b]
    BY <2>1, <2>5
  <2>12. n.last[Fence(id)] = {id, vertex} /\ n.last[Fence(vertex)] = {vertex}
    BY <1>2, <1>3, <2>1, <2>6, <2>7
  <2>13. \A f \in DOMAIN g.last : f \notin {Fence(id), Fence(vertex)} => n.last[f] = g.last[f]
    BY <2>1, <2>8
  <2> QED
    BY <2>9, <2>10, <2>11, <2>12, <2>13
<1> HIDE DEF done
<1>16. DOMAIN n.before = FenceCount .. id /\ \A b \in FenceCount .. id - 1 : b # id
  <2>1. \A b : b \in FenceCount .. id <=> b = id \/ b = vertex \/ b \in FenceCount .. vertex - 1
    BY <1>1
  <2>2. \A b : b \in DOMAIN n.before <=> b = id \/ b = vertex \/ b \in FenceCount .. vertex - 1
    BY <1>3, <1>15
  <2>3. DOMAIN n.before = FenceCount .. id
    BY <2>1, <2>2
  <2> QED
    BY <1>1, <2>3
<1>17. \A b \in FenceCount .. id - 1 : n.before[b] = before1[b]
  <2>1. \A b \in FenceCount .. id - 1 : b # id /\ (b = vertex \/ b \in FenceCount .. vertex - 1)
    BY <1>1
  <2>2. \A b \in FenceCount .. vertex - 1 : b # vertex /\ b # id
    BY <1>1
  <2> QED
    BY <1>3, <1>9, <1>15, <2>1, <2>2
<1>18. id \in n.last[Fence(id)] /\ n.last[Fence(id)] \subseteq FenceCount .. id
  BY <1>1, <1>15
<1>19. \A f \in 0 .. FenceCount - 1 : f # Fence(id) => n.last[f] = last1[f]
  BY <1>3, <1>10, <1>15
<1>20. DOMAIN n.last = 0 .. FenceCount - 1 /\ n.before[id] = done
  BY <1>3, <1>15
<1>21. \A f \in strong : Reaches(id, f)
  <2>1. Reaches(id, Fence(vertex))
    BY <1>1, RecentReachable
  <2> QED
    BY <2>1 DEF strong, id
<1>22. Covers(done, id, MinimalFences(FullFences(strong, id), first, id))
  BY <1>14 DEF minimal, full
<1>23. OrderIs(n.before, n.last, [first EXCEPT ![Fence(id)] = FullFences(strong, id)], id + 1)
  <2>1. IsNext(before1, last1, first, id, strong, done, n.before, n.last)
    BY <1>1, <1>12, <1>13, <1>16, <1>17, <1>18, <1>19, <1>20, <1>21, <1>22 DEF IsNext
  <2> QED
    BY <2>1, NextId
<1> QED
  BY <1>23 DEF n, strong, id

-----------------------------------------------------------------------------
(* What an access adds to the waits of its pass.                           *)

IsPassOf(e) ==
  /\ IsEncoder(e) /\ e.id \in Nat \ {0} /\ e.type # "event"
  /\ e.type = "render" => e.vertex \in Nat \ {0} /\ e.id = e.vertex + 1

MayAccess(s, resources, stage, mode) ==
  /\ DistantWrites = FALSE
  /\ s.trackers \in [Resources -> Tracker] /\ AllBelow(s.trackers, s.encoder.id + 1)
  /\ IsPassOf(s.encoder) /\ WaitsReach(s.encoder) /\ UpdatesAre(s.encoder)
  /\ resources \subseteq Resources /\ stage \in {"compute", "vertex", "pixel"}
  /\ stage = "compute" <=> s.encoder.type # "render"
  /\ stage # "compute" /\ IsWrite(mode) =>
       \A r \in resources : MayWrite(s.trackers[r], IdOf(s.encoder, stage))

LEMMA AccessedReaches ==
  ASSUME NEW s, NEW resources, NEW stage, NEW mode, MayAccess(s, resources, stage, mode)
  PROVE  LET n == Accessed(s, resources, stage, mode)
         IN  /\ IsPassOf(n.encoder) /\ WaitsReach(n.encoder) /\ UpdatesAre(n.encoder)
             /\ n.encoder.id = s.encoder.id /\ n.encoder.type = s.encoder.type
             /\ n.encoder.vertex = s.encoder.vertex
             /\ n.encoder.attachments = s.encoder.attachments
             /\ n.trackers \in [Resources -> Tracker]
             /\ AllBelow(n.trackers, s.encoder.id + 1)
             /\ \A r \in Resources : MayWrite(s.trackers[r], s.encoder.id) =>
                  MayWrite(n.trackers[r], s.encoder.id)
<1> DEFINE n == Accessed(s, resources, stage, mode)
           e == s.encoder
           waits == WaitsOf(s, resources, stage, mode)
<1>0. /\ DistantWrites = FALSE
      /\ s.trackers \in [Resources -> Tracker] /\ AllBelow(s.trackers, s.encoder.id + 1)
      /\ IsPassOf(s.encoder) /\ WaitsReach(s.encoder) /\ UpdatesAre(s.encoder)
      /\ resources \subseteq Resources /\ stage \in {"compute", "vertex", "pixel"}
      /\ stage = "compute" <=> s.encoder.type # "render"
      /\ stage # "compute" /\ IsWrite(mode) =>
           \A r \in resources : MayWrite(s.trackers[r], IdOf(s.encoder, stage))
  BY DEF MayAccess
<1> USE <1>0
<1>1. /\ e.id \in Nat \ {0} /\ e.id + 1 \in Nat /\ e.id < e.id + 1
      /\ stage # "compute" => e.vertex \in Nat /\ e.id = e.vertex + 1
      /\ stage = "vertex" => e.vertex \in Nat
      /\ IdOf(e, stage) \in Nat /\ IdOf(e, stage) < e.id + 1
      /\ stage # "vertex" => IdOf(e, stage) = e.id
      /\ stage = "vertex" => IdOf(e, stage) = e.vertex
  BY DEF IsPassOf, IdOf
<1>2. \A f \in waits : Reaches(IdOf(e, stage), f)
  <2> SUFFICES ASSUME NEW r \in resources, NEW f \in AnswerTo(e, s.trackers[r], stage, mode).waits
               PROVE  Reaches(IdOf(e, stage), f)
    BY DEF WaitsOf
  <2>1. s.trackers[r] \in Tracker /\ IsBelow(s.trackers[r], e.id + 1)
    BY DEF AllBelow
  <2>2. stage # "compute" /\ IsWrite(mode) => MayWrite(s.trackers[r], IdOf(e, stage))
    OBVIOUS
  <2>3. e.id \in Nat
    BY <1>1
  <2> HIDE DEF e
  <2> QED
    BY <1>1, <2>1, <2>2, <2>3, AnswerReaches
<1>3. /\ n.encoder.update = e.update
      /\ stage = "vertex" =>
           n.encoder.wait = e.wait /\ n.encoder.wait_vertex = e.wait_vertex \union waits
      /\ stage # "vertex" =>
           n.encoder.wait = e.wait \union waits /\ n.encoder.wait_vertex = e.wait_vertex
  <2>1. IsEncoder(s.encoder)
    BY DEF IsPassOf
  <2> QED
    BY <2>1, AccessedWaits
<1>4. /\ IsEncoder(n.encoder) /\ n.encoder.type = e.type /\ n.encoder.vertex = e.vertex
      /\ n.encoder.id = e.id /\ n.encoder.attachments = e.attachments
      /\ n.encoder.update_vertex = e.update_vertex
  BY AccessedEncoder DEF IsPassOf
<1>5. n.trackers \in [Resources -> Tracker] /\ AllBelow(n.trackers, e.id + 1)
  <2>1. s.encoder.id \in Nat \ {0} /\ (stage = "vertex" => s.encoder.vertex \in Nat)
    BY <1>1
  <2>2. IdOf(s.encoder, stage) < s.encoder.id + 1 /\ s.encoder.id + 1 \in Nat
    BY <1>1
  <2> HIDE DEF n
  <2>3. n.trackers \in [Resources -> Tracker]
    BY <2>1, AccessedTrackers DEF n
  <2>4. \A last \in Nat : IdOf(s.encoder, stage) < last /\ AllBelow(s.trackers, last) =>
          AllBelow(n.trackers, last)
    BY <2>1, AccessedTrackers DEF n
  <2> QED
    BY <2>2, <2>3, <2>4
<1>6. ASSUME NEW r \in Resources, MayWrite(s.trackers[r], e.id)
      PROVE  MayWrite(n.trackers[r], e.id)
  <2>1. CASE r \in resources
    <3>1. n.trackers[r] = AnswerTo(e, s.trackers[r], stage, mode).tracker
      BY <2>1 DEF Accessed
    <3>2. s.trackers[r] \in Tracker
      OBVIOUS
    <3> HIDE DEF n, e
    <3>3. Follows(s.trackers[r], n.trackers[r], IdOf(e, stage))
      BY <1>1, <3>1, <3>2, AnswerFollows
    <3>4. n.trackers[r].exclusive \in {s.trackers[r].exclusive, IdOf(e, stage)}
      BY <3>3 DEF Follows
    <3>5. IdOf(e, stage) \in Nat /\ e.id - IdOf(e, stage) < 2 * Lane
      BY <1>1, FenceCountIs
    <3> QED
      BY <1>6, <3>4, <3>5 DEF MayWrite
  <2>2. CASE r \notin resources
    <3>1. n.trackers[r] = s.trackers[r]
      BY <2>2 DEF Accessed
    <3> QED
      BY <1>6, <3>1
  <2> QED
    BY <2>1, <2>2
<1> HIDE DEF n, waits
<1>7. WaitsReach(n.encoder)
  BY <1>1, <1>2, <1>3, <1>4 DEF WaitsReach
<1>8. UpdatesAre(n.encoder)
  BY <1>3, <1>4 DEF UpdatesAre
<1>9. IsPassOf(n.encoder)
  BY <1>4 DEF IsPassOf
<1> QED
  BY <1>4, <1>5, <1>6, <1>7, <1>8, <1>9 DEF n

-----------------------------------------------------------------------------
(* The end of a pass: its waits are simplified, and the order has it.      *)

LEMMA ResourcesOfIs ==
  ASSUME NEW planes, planes \subseteq Planes
  PROVE  ResourcesOf(planes) \subseteq Resources
<1> SUFFICES ASSUME NEW p \in planes PROVE ResourceOf(p) \in Resources
  BY DEF ResourcesOf
<1>1. \E r \in Resources : p \in PlanesOf[r]
  BY PlanesAssumption
<1> QED
  BY <1>1 DEF ResourceOf

LEMMA WithWaits ==
  ASSUME NEW e, IsEncoder(e), NEW wait, NEW wait_vertex
  PROVE  LET n == [e EXCEPT !.wait = wait, !.wait_vertex = wait_vertex]
         IN  /\ n.wait = wait /\ n.wait_vertex = wait_vertex
             /\ n.update = e.update /\ n.update_vertex = e.update_vertex
  BY DEF IsEncoder

LEMMA EndedRender ==
  ASSUME NEW s, s.encoder.type = "render"
  PROVE  LET e == s.encoder
             w == Accessed(s, ResourcesOf(DepthStencil(Written(e.attachments))), "pixel", "write")
             early == w.encoder.wait_vertex
             strong == w.encoder.wait \union { Fence(e.vertex) }
             first == [fence_locality EXCEPT ![Fence(e.vertex)] = FullFences(early, e.vertex)]
             n == Ended(s)
         IN  /\ n.summary = [first EXCEPT ![Fence(e.id)] = FullFences(strong, e.id)]
             /\ n.trackers = w.trackers
             /\ n.encoder = [w.encoder EXCEPT
                  !.wait = MinimalFences(FullFences(strong, e.id), first, e.id)
                           \ { Fence(e.vertex) },
                  !.wait_vertex = MinimalFences(FullFences(early, e.vertex), fence_locality,
                                                e.vertex)]
<1> DEFINE w == Accessed(s, ResourcesOf(DepthStencil(Written(s.encoder.attachments))),
                         "pixel", "write")
<1> HIDE DEF w
<1> QED
  BY DEF Ended, CollectAndSimplifyWaits, w

LEMMA EndedOther ==
  ASSUME NEW s, s.encoder.type \notin {"render", "event"}
  PROVE  LET e == s.encoder
             full == FullFences(e.wait, e.id)
             n == Ended(s)
         IN  /\ n.summary = [fence_locality EXCEPT ![Fence(e.id)] = full]
             /\ n.trackers = s.trackers
             /\ n.encoder = [e EXCEPT !.wait = MinimalFences(full, fence_locality, e.id)]
  BY DEF Ended, CollectAndSimplifyWaits

LEMMA EndedOrder ==
  ASSUME DistantWrites = FALSE, NEW s, s.trackers \in [Resources -> Tracker],
         IsPassOf(s.encoder), AllBelow(s.trackers, s.encoder.id + 1),
         WaitsReach(s.encoder), UpdatesAre(s.encoder),
         s.encoder.type = "render" =>
           /\ DOMAIN s.encoder.attachments \subseteq Planes
           /\ \A r \in ResourcesOf(DOMAIN s.encoder.attachments) :
                MayWrite(s.trackers[r], s.encoder.id),
         NEW first, first = IF s.encoder.type = "render" THEN s.encoder.vertex ELSE s.encoder.id,
         FenceCount <= first, NEW g, OrderIs(g.before, g.last, fence_locality, first)
  PROVE  LET n == Ended(s)
             flushed == Encoded(g, n.encoder)
         IN  OrderIs(flushed.before, flushed.last, n.summary, s.encoder.id + 1)
<1> DEFINE e == s.encoder
           n == Ended(s)
<1>1. CASE e.type = "render"
  <2> DEFINE planes == DepthStencil(Written(e.attachments))
             w == Accessed(s, ResourcesOf(planes), "pixel", "write")
             early == w.encoder.wait_vertex
             late == w.encoder.wait
             vertex == e.vertex
             summary == [fence_locality EXCEPT ![Fence(vertex)] = FullFences(early, vertex)]
             full == FullFences(late \union { Fence(vertex) }, vertex + 1)
             wait == MinimalFences(full, summary, vertex + 1) \ { Fence(vertex) }
             wait_vertex == MinimalFences(FullFences(early, vertex), fence_locality, vertex)
  <2>1. vertex \in Nat /\ e.id = vertex + 1 /\ first = vertex
    BY <1>1 DEF IsPassOf
  <2>2. planes \subseteq DOMAIN e.attachments
    BY DEF DepthStencil, Written
  <2>3. ResourcesOf(planes) \subseteq Resources
    BY <1>1, <2>2, ResourcesOfIs
  <2>4. \A r \in ResourcesOf(planes) : MayWrite(s.trackers[r], IdOf(e, "pixel"))
    <3>1. ResourcesOf(planes) \subseteq ResourcesOf(DOMAIN e.attachments)
      BY <2>2 DEF ResourcesOf
    <3>2. IdOf(e, "pixel") = e.id
      BY DEF IdOf
    <3> QED
      BY <1>1, <3>1, <3>2
  <2>5. n.summary = [summary EXCEPT ![Fence(vertex + 1)] = full]
        /\ n.encoder = [w.encoder EXCEPT !.wait = wait, !.wait_vertex = wait_vertex]
    BY <1>1, <2>1, EndedRender
  <2> HIDE DEF planes
  <2>6. WaitsReach(w.encoder) /\ UpdatesAre(w.encoder) /\ IsPassOf(w.encoder)
        /\ w.encoder.id = e.id /\ w.encoder.type = e.type /\ w.encoder.vertex = e.vertex
    <3>1. "pixel" \in {"compute", "vertex", "pixel"} /\ "pixel" # "compute"
      OBVIOUS
    <3> DEFINE resources == ResourcesOf(planes)
               m == Accessed(s, resources, "pixel", "write").encoder
    <3> HIDE DEF resources
    <3>2. MayAccess(s, resources, "pixel", "write")
      BY <1>1, <2>3, <2>4, <3>1 DEF MayAccess, resources
    <3>4. /\ WaitsReach(m) /\ UpdatesAre(m) /\ IsPassOf(m)
          /\ m.id = s.encoder.id /\ m.type = s.encoder.type /\ m.vertex = s.encoder.vertex
      BY ONLY <3>2, AccessedReaches
    <3> QED
      BY <3>4 DEF resources
  <2> HIDE DEF w
  <2>7. /\ \A f \in early : Reaches(vertex, f)
        /\ \A f \in late : Reaches(vertex + 1, f)
        /\ w.encoder.update = {vertex + 1} /\ w.encoder.update_vertex = {vertex}
        /\ IsEncoder(w.encoder)
    BY <1>1, <2>1, <2>6 DEF WaitsReach, UpdatesAre, IsPassOf
  <2> HIDE DEF summary, wait, wait_vertex, early, late, vertex, full, n
  <2>8. /\ n.encoder.wait = wait /\ n.encoder.wait_vertex = wait_vertex
        /\ n.encoder.update = {vertex + 1} /\ n.encoder.update_vertex = {vertex}
    BY <2>5, <2>7, WithWaits
  <2>9. OrderIs(g.before, g.last, fence_locality, vertex) /\ FenceCount <= vertex
    BY <2>1
  <2>10. OrderIs(Encoded(g, n.encoder).before, Encoded(g, n.encoder).last,
                 [summary EXCEPT ![Fence(vertex + 1)] = full], vertex + 1 + 1)
    <3> DEFINE m == n.encoder
               f == FullFences(late \union {Fence(vertex)}, vertex + 1)
    <3>1. /\ m.wait_vertex = MinimalFences(FullFences(early, vertex), fence_locality, vertex)
          /\ m.wait = MinimalFences(f, summary, vertex + 1) \ {Fence(vertex)}
          /\ m.update = {vertex + 1} /\ m.update_vertex = {vertex}
      BY <2>8 DEF wait, wait_vertex, full
    <3>2. summary = [fence_locality EXCEPT ![Fence(vertex)] = FullFences(early, vertex)]
      BY DEF summary
    <3>3. vertex \in Nat /\ (\A l \in early : Reaches(vertex, l))
          /\ (\A l \in late : Reaches(vertex + 1, l))
      BY <2>1, <2>7
    <3>4. full = f
      BY DEF full
    <3> HIDE DEF m
    <3>5. OrderIs(Encoded(g, m).before, Encoded(g, m).last,
                  [summary EXCEPT ![Fence(vertex + 1)] = f], vertex + 1 + 1)
      BY ONLY <2>9, <3>1, <3>2, <3>3, EncodedTwo
    <3> QED
      BY <3>4, <3>5 DEF m
  <2> QED
    BY <2>1, <2>5, <2>10 DEF n
<1>2. CASE e.type # "render"
  <2> DEFINE full == FullFences(e.wait, e.id)
             wait == MinimalFences(full, fence_locality, e.id)
  <2>1. e.id \in Nat /\ first = e.id /\ IsEncoder(e) /\ e.type \notin {"render", "event"}
    BY <1>2 DEF IsPassOf
  <2>2. /\ n.summary = [fence_locality EXCEPT ![Fence(e.id)] = full]
        /\ n.encoder = [e EXCEPT !.wait = wait]
    BY <2>1, EndedOther
  <2>3. /\ \A f \in e.wait : Reaches(e.id, f)
        /\ e.update = {e.id} /\ e.update_vertex = {} /\ e.wait_vertex = {}
    BY <1>2 DEF WaitsReach, UpdatesAre
  <2> HIDE DEF n, full, wait
  <2>4. /\ n.encoder.wait = wait /\ n.encoder.wait_vertex = {}
        /\ n.encoder.update = {e.id} /\ n.encoder.update_vertex = {}
    BY <2>1, <2>2, <2>3 DEF IsEncoder
  <2>5. OrderIs(g.before, g.last, fence_locality, e.id) /\ FenceCount <= e.id
    BY <2>1
  <2>6. OrderIs(Encoded(g, n.encoder).before, Encoded(g, n.encoder).last,
                [fence_locality EXCEPT ![Fence(e.id)] = full], e.id + 1)
    BY <2>1, <2>3, <2>4, <2>5, EncodedOne DEF full, wait
  <2> QED
    BY <2>2, <2>6 DEF n
<1> QED
  BY <1>1, <1>2

-----------------------------------------------------------------------------
(* The flush of a list of one pass encodes that pass.                      *)

LEMMA OptimizedOne ==
  ASSUME NEW e, e.type # "null"
  PROVE  Optimized(<<e>>) = <<e>>
<1> DEFINE list == <<e>>
<1>1. Len(list) = 1 /\ list[1] = e /\ Append(<<>>, e) = list
  OBVIOUS
<1> HIDE DEF list
<1>2. MoveDown(list, 1) = list
  <2>1. Len(list) - 1 = 0 /\ Len(list) - 1 \in Nat
    BY <1>1
  <2>2. PICK f : f[0] = Continue(list) /\ MoveDown(list, 1) = f[Len(list) - 1].list
    BY <2>1, MoveDownIs
  <2>3. MoveDown(list, 1) = Continue(list).list
    BY <2>1, <2>2
  <2>4. Continue(list).list = list
    BY DEF Continue
  <2> QED
    BY <2>3, <2>4
<1>3. AllMoved(list) = list
  <2>1. Len(list) \in Nat /\ 1 \in 1 .. Len(list) /\ 1 - 1 = 0 /\ Len(list) + 1 - 1 = 1
    BY <1>1
  <2>2. PICK f : /\ f[0] = list
                 /\ \A k \in 1 .. Len(list) : f[k] = Moved(f[k - 1], Len(list) + 1 - k)
                 /\ AllMoved(list) = f[Len(list)]
    BY <2>1, AllMovedIs
  <2>3. AllMoved(list) = Moved(list, 1)
    BY <1>1, <2>1, <2>2
  <2> QED
    BY <1>2, <2>3 DEF Moved
<1>4. Remaining(list) = list
  <2>1. Len(list) \in Nat /\ 1 \in 1 .. Len(list) /\ 1 - 1 = 0
    BY <1>1
  <2>2. PICK f : /\ f[0] = <<>>
                 /\ \A k \in 1 .. Len(list) :
                      f[k] = IF list[k].type = "null" THEN f[k - 1]
                             ELSE Append(f[k - 1], list[k])
                 /\ Remaining(list) = f[Len(list)]
    BY <2>1, RemainingIs
  <2>3. f[1] = Append(f[0], e)
    BY <1>1, <2>1, <2>2
  <2> QED
    BY <1>1, <2>2, <2>3
<1> QED
  BY <1>3, <1>4 DEF Optimized, list

LEMMA FoldOne ==
  ASSUME NEW g, NEW e
  PROVE  FoldLeft(Encoded, g, <<e>>) = Encoded(g, e)
<1> DEFINE choose(S) == Max(S)
           f(i) == <<e>>[i]
           next(iter, s) == IF s = {} THEN g
                            ELSE Encoded(iter[s \ {choose(s)}], f(choose(s)))
           Is(iter) == iter = [s \in SUBSET {1} |-> next(iter, s)]
           it == CHOOSE iter : Is(iter)
<1>1. Max({1}) = 1
  BY DEF Max
<1>2. DOMAIN <<e>> = {1}
  OBVIOUS
<1>3. FoldLeft(Encoded, g, <<e>>) = it[{1}]
  BY <1>2 DEF FoldLeft, MapThenFoldSet
<1>4. \E iter : Is(iter)
  <2> DEFINE iter == [s \in SUBSET {1} |-> IF s = {} THEN g ELSE Encoded(g, e)]
  <2>1. iter[{}] = g
    OBVIOUS
  <2>2. ASSUME NEW s \in SUBSET {1} PROVE iter[s] = next(iter, s)
    <3>1. s = {} \/ s = {1}
      OBVIOUS
    <3>2. CASE s = {1}
      <4>1. choose(s) = 1 /\ s \ {1} = {} /\ f(1) = e /\ s # {}
        BY <1>1, <3>2
      <4>2. iter[s] = Encoded(g, e)
        BY <3>2
      <4> HIDE DEF iter, choose, f
      <4> QED
        BY <2>1, <4>1, <4>2
    <3>3. CASE s = {}
      BY <2>1, <3>3
    <3> QED
      BY <3>1, <3>2, <3>3
  <2>3. iter = [s \in SUBSET {1} |-> iter[s]]
    OBVIOUS
  <2> HIDE DEF iter, next
  <2>4. Is(iter)
    BY <2>2, <2>3
  <2> QED
    BY <2>4
<1>5. Is(it)
  BY <1>4
<1> HIDE DEF it
<1>6. it[{}] = g /\ it[{1}] = Encoded(it[{1} \ {choose({1})}], f(choose({1})))
  BY <1>5
<1> QED
  BY <1>1, <1>3, <1>6

-----------------------------------------------------------------------------
(* The ids are in order in every instance.                                 *)
THEOREM IdsInvariance == Spec => []IdsInv
<1>1. Init => IdsInv
  BY InitBarriers DEF BarrierInv
<1>2. IdsInv /\ [Next]_vars => IdsInv'
  <2> SUFFICES ASSUME IdsInv, [Next]_vars PROVE IdsInv'
    OBVIOUS
  <2>1. ASSUME NEW planes \in ClearSets, Clear(planes) PROVE IdsInv'
    <3>1. BarrierInv'
      BY <2>1, OnePassBarriers DEF Clear
    <3> QED
      BY <3>1 DEF BarrierInv
  <2>2. ASSUME NEW p \in Resolves, ResolveTexture(p[1], p[2]) PROVE IdsInv'
    <3>1. BarrierInv'
      BY <2>2, OnePassBarriers DEF ResolveTexture
    <3> QED
      BY <3>1 DEF BarrierInv
  <2>3. ASSUME NEW p \in Presents, Present(p[1], p[2]) PROVE IdsInv'
    <3>1. BarrierInv'
      BY <2>3, OnePassBarriers DEF Present
    <3> QED
      BY <3>1 DEF BarrierInv
  <2>4. CASE Event
    BY <2>4, EventBarriers DEF BarrierInv
  <2>5. ASSUME NEW planes \in AttachmentSets, NEW readonly \in ReadonlySets,
               StartRenderPass(planes, readonly)
        PROVE  IdsInv'
    BY <2>5, StartRenderPassBarriers DEF BarrierInv
  <2>6. ASSUME NEW type \in PassTypes, StartPass(type) PROVE IdsInv'
    BY <2>6, StartPassBarriers DEF BarrierInv
  <2>7. ASSUME NEW stage \in {"compute", "vertex", "pixel"}, NEW r \in Resources,
               NEW mode \in {"read", "write", "uav"}, Access(stage, r, mode)
        PROVE  IdsInv'
    <3>1. /\ IsEncoder(current') /\ current'.type = current.type /\ current'.id = current.id
          /\ current'.vertex = current.vertex
          /\ encoder_id' = encoder_id /\ ignore_waw' = ignore_waw /\ IsPass(pass')
          /\ trackers' \in [Resources -> Tracker] /\ AllBelow(trackers', encoder_id')
      BY <2>7, AccessIs
    <3>2. current # NoEncoder
      BY <2>7 DEF Access
    <3>3. TypeOK' /\ IdsAreBelow'
      BY <3>1 DEF IdsInv, TypeOK, IdsAreBelow, AllBelow
    <3>4. CurrentIs'
      BY <3>1, <3>2 DEF IdsInv, CurrentIs
    <3> QED
      BY <3>3, <3>4 DEF IdsInv
  <2>8. CASE SetIntrapassControl
    BY <2>8 DEF SetIntrapassControl, IdsInv, TypeOK, CurrentIs, IdsAreBelow
  <2>9. CASE Command
    <3>1. /\ IsEncoder(current') /\ current'.type = current.type /\ current'.id = current.id
          /\ current'.vertex = current.vertex
          /\ encoder_id' = encoder_id /\ trackers' = trackers /\ ignore_waw' = ignore_waw
          /\ IsPass(pass') /\ current # NoEncoder
      BY <2>9, CommandIs
    <3>2. TypeOK' /\ IdsAreBelow'
      BY <3>1 DEF IdsInv, TypeOK, IdsAreBelow
    <3>3. CurrentIs'
      BY <3>1 DEF IdsInv, CurrentIs
    <3> QED
      BY <3>2, <3>3 DEF IdsInv
  <2>10. CASE EndPass
    BY <2>10, EndPassBarriers DEF BarrierInv
  <2>11. CASE FlushCommands
    BY <2>11, FlushBarriers DEF BarrierInv
  <2>12. CASE UNCHANGED vars
    BY <2>12 DEF vars, IdsInv, TypeOK, CurrentIs, IdsAreBelow
  <2> QED
    BY <2>1, <2>2, <2>3, <2>4, <2>5, <2>6, <2>7, <2>8, <2>9, <2>10, <2>11, <2>12 DEF Next
<1> QED
  BY <1>1, <1>2, PTL DEF Spec

-----------------------------------------------------------------------------
(* The steps of FenceInv, each pass flushed before the next starts.        *)

LEMMA OldAreOrdered ==
  ASSUME NEW before, NEW last, NEW summary, NEW end \in Nat, OrderIs(before, last, summary, end)
  PROVE  \A a, b \in DOMAIN before : a + Lane <= b => a \in before[b]
<1> SUFFICES ASSUME NEW a \in DOMAIN before, NEW b \in DOMAIN before, a + Lane <= b
             PROVE  a \in before[b]
  OBVIOUS
<1>1. FenceCount \in Nat
  BY FenceCountIs
<1>2. a \in Nat /\ FenceCount <= a /\ b \in FenceCount .. end - 1
  BY <1>1 DEF OrderIs
<1>3. CoversOld(before[b], b)
  BY <1>2 DEF OrderIs
<1> QED
  BY <1>2, <1>3 DEF CoversOld

LEMMA InitFences == Init => FenceInv
<1> SUFFICES ASSUME Init PROVE FenceInv
  OBVIOUS
<1>1. FenceCount \in Nat \ {0}
  BY FenceCountIs
<1>2. /\ encoder_id = FenceCount /\ current = NoEncoder /\ encoders = <<>>
      /\ gpu = NothingEncoded /\ fence_locality = [f \in 0 .. FenceCount - 1 |-> {}]
  BY DEF Init
<1>3. FirstId = FenceCount /\ Flushed = gpu
  BY <1>2 DEF FirstId, Flushed
<1> DEFINE last == [f \in 0 .. FenceCount - 1 |-> {}]
<1>4. /\ IsGpu(gpu) /\ DOMAIN gpu.before = {} /\ gpu.last = last
  <2>1. DOMAIN <<>> = {}
    OBVIOUS
  <2> HIDE DEF last
  <2>2. gpu = [before |-> <<>>, host |-> <<>>, uses |-> {}, last |-> last]
    BY <1>2 DEF NothingEncoded, last
  <2> QED
    BY <2>1, <2>2 DEF IsGpu
<1>5. OrderIs(gpu.before, last, fence_locality, FenceCount)
  <2>1. FenceCount .. FenceCount - 1 = {}
    BY <1>1
  <2>2. \A f \in 0 .. FenceCount - 1 : fence_locality[f] = {} /\ last[f] = {}
    BY <1>2
  <2>3. \A x \in Nat : Fence(x) \in 0 .. FenceCount - 1
    BY LaneOfFence
  <2>4. DOMAIN last = 0 .. FenceCount - 1 /\ DOMAIN fence_locality = 0 .. FenceCount - 1
    BY <1>2
  <2> HIDE DEF last
  <2> QED
    BY <1>4, <2>1, <2>2, <2>3, <2>4 DEF OrderIs
<1>6. DistantPassesAreOrdered
  BY <1>4 DEF DistantPassesAreOrdered
<1> QED
  BY <1>1, <1>2, <1>3, <1>4, <1>5, <1>6 DEF FenceInv

LEMMA FlushFences ==
  ASSUME FenceInv, IdsInv, ListInv, FlushCommands
  PROVE  FenceInv'
<1>1. /\ current = NoEncoder /\ encoders # <<>> /\ encoders' = <<>>
      /\ gpu' = FoldLeft(Encoded, gpu, Optimized(encoders))
      /\ current' = current /\ encoder_id' = encoder_id /\ fence_locality' = fence_locality
  BY DEF FlushCommands
<1>2. PICK e : encoders = <<e>>
  BY <1>1 DEF FenceInv
<1>3. encoders[1] = e /\ e.type # "null"
  BY <1>2 DEF ListInv
<1>4. gpu' = Encoded(gpu, e)
  BY <1>1, <1>2, <1>3, OptimizedOne, FoldOne
<1>5. IsGpu(gpu')
  BY <1>4, EncodedIs
<1>6. Flushed = gpu' /\ Flushed' = gpu' /\ FirstId' = encoder_id /\ FirstId = encoder_id
  BY <1>1, <1>3, <1>4 DEF Flushed, FirstId
<1>7. OrderIs(gpu'.before, gpu'.last, fence_locality, encoder_id) /\ encoder_id \in Nat
  BY <1>6 DEF FenceInv, IdsInv, TypeOK
<1>8. DistantPassesAreOrdered'
  BY <1>7, OldAreOrdered DEF DistantPassesAreOrdered
<1> QED
  BY <1>1, <1>5, <1>6, <1>7, <1>8 DEF FenceInv

(* A pass that ends is all of the list. *)
LEMMA FinishFences ==
  ASSUME DistantWrites = FALSE, FenceInv, encoders = <<>>, NEW s,
         s.trackers \in [Resources -> Tracker],
         IsPassOf(s.encoder), AllBelow(s.trackers, s.encoder.id + 1),
         WaitsReach(s.encoder), UpdatesAre(s.encoder),
         s.encoder.type = "render" =>
           /\ DOMAIN s.encoder.attachments \subseteq Planes
           /\ \A r \in ResourcesOf(DOMAIN s.encoder.attachments) :
                MayWrite(s.trackers[r], s.encoder.id),
         FirstId = IF s.encoder.type = "render" THEN s.encoder.vertex ELSE s.encoder.id,
         Finish(s), encoder_id' = s.encoder.id + 1, current' = NoEncoder, gpu' = gpu
  PROVE  FenceInv'
<1> DEFINE n == Ended(s)
           flushed == Encoded(gpu, n.encoder)
<1>1. fence_locality' = n.summary /\ encoders' = Append(encoders, n.encoder)
  BY DEF Finish
<1>2. /\ FenceCount <= FirstId /\ IsGpu(gpu)
      /\ OrderIs(gpu.before, gpu.last, fence_locality, FirstId) /\ DistantPassesAreOrdered
  BY DEF FenceInv, Flushed
<1>3. OrderIs(flushed.before, flushed.last, n.summary, s.encoder.id + 1)
  BY <1>2, EndedOrder
<1> HIDE DEF n
<1>4. encoders' = <<n.encoder>> /\ encoders' # <<>> /\ encoders'[1] = n.encoder
  BY <1>1
<1>5. FirstId' = encoder_id' /\ Flushed' = flushed
  BY <1>4 DEF FirstId, Flushed
<1>6. FenceCount <= FirstId'
  <2>1. FirstId <= s.encoder.id /\ FirstId \in Nat /\ s.encoder.id \in Nat
    BY DEF IsPassOf
  <2> QED
    BY <1>2, <1>5, <2>1, FenceCountIs
<1>7. DistantPassesAreOrdered'
  BY <1>2 DEF DistantPassesAreOrdered
<1> HIDE DEF flushed
<1>8. OrderIs(Flushed'.before, Flushed'.last, fence_locality', FirstId')
  BY <1>1, <1>3, <1>5
<1> QED
  BY <1>2, <1>4, <1>6, <1>7, <1>8 DEF FenceInv

(* A pass of one command. *)
Single(type, id, planes, src, dst) ==
  [Encoder(type, None, id) EXCEPT !.planes = planes, !.src = src, !.dst = dst]

LEMMA OnePassIs ==
  ASSUME NEW type \in {"clear", "resolve", "present"}, NEW id, NEW planes, NEW src, NEW dst
  PROVE  LET e == Single(type, id, planes, src, dst)
         IN  /\ IsEncoder(e) /\ e.type = type /\ e.id = id /\ WaitsReach(e) /\ UpdatesAre(e)
<1> DEFINE n == Encoder(type, None, id)
           e == [n EXCEPT !.planes = planes, !.src = src, !.dst = dst]
<1>1. /\ IsEncoder(n) /\ n.type = type /\ n.id = id /\ n.wait = {} /\ n.wait_vertex = {}
      /\ n.update = {id} /\ n.update_vertex = {}
  BY EncoderIs DEF Encoder
<1> HIDE DEF n
<1>2. /\ e.type = type /\ e.id = id /\ e.wait = {} /\ e.wait_vertex = {}
      /\ e.update = {id} /\ e.update_vertex = {}
  BY <1>1 DEF IsEncoder
<1>3. IsEncoder(e)
  <2> DEFINE n2 == [n EXCEPT !.planes = planes]
             n3 == [n2 EXCEPT !.src = src]
             n4 == [n3 EXCEPT !.dst = dst]
  <2>1. IsEncoder(n2)
    BY <1>1 DEF IsEncoder
  <2> HIDE DEF n2
  <2>2. IsEncoder(n3)
    BY <2>1 DEF IsEncoder
  <2> HIDE DEF n3
  <2>3. IsEncoder(n4)
    BY <2>2 DEF IsEncoder
  <2> QED
    BY ONLY <2>3 DEF n2, n3, n4
<1> HIDE DEF e
<1>4. WaitsReach(e)
  BY <1>2 DEF WaitsReach
<1>5. UpdatesAre(e)
  BY <1>2 DEF UpdatesAre
<1> QED
  BY <1>2, <1>3, <1>4, <1>5 DEF e, n, Single

LEMMA OnePassFences ==
  ASSUME MaxList = 1, DistantWrites = FALSE, FenceInv, IdsInv,
         NEW type \in {"clear", "resolve", "present"}, NEW reads, reads \subseteq Resources,
         NEW writes, writes \subseteq Resources, NEW planes, NEW src, NEW dst,
         OnePass(type, reads, writes, planes, src, dst)
  PROVE  FenceInv'
<1> DEFINE e == Single(type, encoder_id, planes, src, dst)
           start == At(e)
           read == Accessed(start, reads, "compute", "read")
           written == Accessed(read, writes, "compute", "write")
<1>1. /\ current = NoEncoder /\ Len(encoders) < 1 /\ encoder_id' = encoder_id + 1
      /\ Finish(written) /\ current' = current /\ gpu' = gpu
  BY DEF OnePass, CanStart, Single
<1>2. encoders = <<>>
  <2>1. \A x : Len(<<x>>) = 1
    OBVIOUS
  <2> QED
    BY <1>1, <2>1 DEF FenceInv
<1>3. /\ encoder_id \in Nat \ {0} /\ trackers \in [Resources -> Tracker]
      /\ AllBelow(trackers, encoder_id)
  BY <1>1, IdleIs
<1>4. AllBelow(trackers, encoder_id + 1)
  BY <1>3, BelowGrows
<1>5. /\ IsEncoder(e) /\ e.type = type /\ e.id = encoder_id /\ WaitsReach(e) /\ UpdatesAre(e)
  <2>1. type \in {"clear", "resolve", "present"}
    OBVIOUS
  <2> QED
    BY ONLY <2>1, OnePassIs
<1> HIDE DEF e
<1>6. start.encoder = e /\ start.trackers = trackers
  BY DEF At
<1> HIDE DEF start
<1>7. MayAccess(start, reads, "compute", "read")
  BY <1>3, <1>4, <1>5, <1>6 DEF MayAccess, IsPassOf
<1>8. /\ IsPassOf(read.encoder) /\ WaitsReach(read.encoder) /\ UpdatesAre(read.encoder)
      /\ read.encoder.id = start.encoder.id /\ read.encoder.type = start.encoder.type
      /\ read.trackers \in [Resources -> Tracker]
      /\ AllBelow(read.trackers, start.encoder.id + 1)
  BY ONLY <1>7, AccessedReaches
<1> HIDE DEF read
<1>9. MayAccess(read, writes, "compute", "write")
  BY <1>5, <1>6, <1>8 DEF MayAccess
<1>10. /\ IsPassOf(written.encoder) /\ WaitsReach(written.encoder) /\ UpdatesAre(written.encoder)
       /\ written.encoder.id = read.encoder.id /\ written.encoder.type = read.encoder.type
       /\ written.trackers \in [Resources -> Tracker]
       /\ AllBelow(written.trackers, read.encoder.id + 1)
  BY ONLY <1>9, AccessedReaches
<1> HIDE DEF written
<1>11. /\ written.encoder.id = encoder_id /\ written.encoder.type # "render"
       /\ FirstId = encoder_id
  BY <1>1, <1>5, <1>6, <1>8, <1>10 DEF FirstId
<1> QED
  BY <1>1, <1>2, <1>8, <1>10, <1>11, FinishFences

LEMMA EndPassFences ==
  ASSUME DistantWrites = FALSE, FenceInv, IdsInv, EndPass
  PROVE  FenceInv'
<1> DEFINE s == At(current)
<1>1. /\ current # NoEncoder /\ Finish(s) /\ current' = NoEncoder /\ encoder_id' = encoder_id
      /\ gpu' = gpu
  BY DEF EndPass
<1>2. s.encoder = current /\ s.trackers = trackers
  BY DEF At
<1> HIDE DEF s
<1>3. /\ encoders = <<>> /\ WaitsReach(current) /\ UpdatesAre(current)
      /\ AttachmentsMayBeWritten
  BY <1>1 DEF FenceInv
<1>4. IsPassOf(current) /\ encoder_id = current.id + 1
  BY <1>1 DEF IdsInv, TypeOK, CurrentIs, IsPassOf
<1>5. trackers \in [Resources -> Tracker] /\ AllBelow(trackers, current.id + 1)
  BY <1>4 DEF IdsInv, TypeOK, IdsAreBelow, AllBelow
<1>6. FirstId = IF current.type = "render" THEN current.vertex ELSE current.id
  BY <1>1 DEF FirstId
<1> QED
  BY <1>1, <1>2, <1>3, <1>4, <1>5, <1>6, FinishFences DEF AttachmentsMayBeWritten

LEMMA EventFences ==
  ASSUME MaxList = 1, FenceInv, IdsInv, Event
  PROVE  FenceInv'
<1> DEFINE ev == Encoder("event", None, None)
           s == At(ev)
<1>1. /\ current = NoEncoder /\ Len(encoders) < 1 /\ encoder_id' = encoder_id
      /\ Finish(s) /\ current' = current /\ gpu' = gpu
  BY DEF Event, CanStart
<1>2. encoders = <<>>
  <2>1. \A x : Len(<<x>>) = 1
    OBVIOUS
  <2> QED
    BY <1>1, <2>1 DEF FenceInv
<1>3. s.encoder = ev /\ ev.type = "event" /\ ev.update = {} /\ ev.update_vertex = {}
  BY DEF At, Encoder
<1> HIDE DEF ev, s
<1>4. Ended(s).summary = fence_locality /\ Ended(s).encoder = ev
  BY <1>3 DEF Ended
<1>5. fence_locality' = fence_locality /\ encoders' = <<ev>>
  BY <1>1, <1>2, <1>4 DEF Finish
<1>6. /\ FenceCount <= FirstId /\ IsGpu(gpu) /\ FirstId = encoder_id
      /\ OrderIs(gpu.before, gpu.last, fence_locality, FirstId) /\ DistantPassesAreOrdered
  BY <1>1, <1>2 DEF FenceInv, Flushed, FirstId
<1> DEFINE n == Encoded(gpu, ev)
<1>7. /\ DOMAIN n.before = DOMAIN gpu.before /\ DOMAIN n.last = DOMAIN gpu.last
      /\ \A b \in DOMAIN gpu.before : n.before[b] = gpu.before[b]
      /\ \A f \in DOMAIN gpu.last : n.last[f] = gpu.last[f]
  <2>1. ev.update \union ev.update_vertex = {}
    BY <1>3
  <2>2. DOMAIN n.before = ev.update \union ev.update_vertex \union DOMAIN gpu.before
        /\ DOMAIN n.last = DOMAIN gpu.last
    BY ONLY EncodedIs
  <2>3. \A b \in DOMAIN gpu.before :
          b \notin ev.update \union ev.update_vertex => n.before[b] = gpu.before[b]
    BY ONLY EncodedIs
  <2>4. \A f \in DOMAIN gpu.last :
          (\A x \in ev.update \union ev.update_vertex : Fence(x) # f) => n.last[f] = gpu.last[f]
    BY ONLY EncodedIs
  <2> HIDE DEF n
  <2> QED
    BY <2>1, <2>2, <2>3, <2>4
<1> HIDE DEF n
<1>8. OrderIs(n.before, n.last, fence_locality, encoder_id)
  <2>1. OrderIs(gpu.before, gpu.last, fence_locality, encoder_id)
    BY <1>6
  <2>2. encoder_id \in Nat /\ FenceCount \in Nat
    BY FenceCountIs DEF IdsInv, TypeOK
  <2>3. DOMAIN gpu.before = FenceCount .. encoder_id - 1 /\ DOMAIN gpu.last = 0 .. FenceCount - 1
    BY <2>1 DEF OrderIs
  <2>4. ASSUME NEW b \in FenceCount .. encoder_id - 1
        PROVE  /\ n.before[b] \subseteq FenceCount .. b - 1 /\ IsClosed(n.before, n.before[b])
               /\ CoversOld(n.before[b], b)
               /\ encoder_id <= b + FenceCount =>
                    b \in n.last[Fence(b)] /\ Covers(n.before[b], b, fence_locality[Fence(b)])
    <3>1. /\ n.before[b] = gpu.before[b] /\ gpu.before[b] \subseteq FenceCount .. b - 1
          /\ IsClosed(gpu.before, gpu.before[b]) /\ b \in Nat
          /\ FenceCount .. b - 1 \subseteq FenceCount .. encoder_id - 1
      BY <1>7, <2>1, <2>2, <2>3 DEF OrderIs
    <3>2. IsClosed(n.before, gpu.before[b])
      BY <1>7, <2>3, <3>1 DEF IsClosed
    <3>3. n.last[Fence(b)] = gpu.last[Fence(b)]
      BY <1>7, <2>3, <3>1, LaneOfFence
    <3> QED
      BY <2>1, <3>1, <3>2, <3>3 DEF OrderIs
  <2>5. \A f \in 0 .. FenceCount - 1 : n.last[f] \subseteq FenceCount .. encoder_id - 1
    BY <1>7, <2>1 DEF OrderIs
  <2> QED
    BY <1>7, <2>1, <2>3, <2>4, <2>5 DEF OrderIs
<1>9. encoders' # <<>> /\ encoders'[1] = ev /\ \E e : encoders' = <<e>>
  BY <1>5
<1>10. Flushed' = n /\ FirstId' = encoder_id
  BY <1>1, <1>9 DEF Flushed, FirstId, n
<1>11. DistantPassesAreOrdered'
  BY <1>1, <1>6 DEF DistantPassesAreOrdered
<1> QED
  BY <1>1, <1>5, <1>6, <1>8, <1>9, <1>10, <1>11 DEF FenceInv

LEMMA StartPassFences ==
  ASSUME MaxList = 1, FenceInv, IdsInv, NEW type \in PassTypes, StartPass(type)
  PROVE  FenceInv'
<1> DEFINE e == Encoder(type, None, encoder_id)
<1>1. /\ current = NoEncoder /\ Len(encoders) < 1 /\ encoder_id' = encoder_id + 1
      /\ current' = e /\ fence_locality' = fence_locality /\ encoders' = encoders
      /\ gpu' = gpu
  BY DEF StartPass, CanStart
<1>2. encoders = <<>>
  <2>1. \A x : Len(<<x>>) = 1
    OBVIOUS
  <2> QED
    BY <1>1, <2>1 DEF FenceInv
<1>3. type \in {"compute", "blit"}
  BY PassTypesAssumption
<1>4. /\ e.type = type /\ e.id = encoder_id /\ e.wait = {} /\ e.wait_vertex = {}
      /\ e.update = {encoder_id} /\ e.update_vertex = {} /\ e.attachments = NoAttachments
  BY <1>3 DEF Encoder
<1> HIDE DEF e
<1>5. WaitsReach(e)
  BY <1>3, <1>4 DEF WaitsReach
<1>6. UpdatesAre(e)
  BY <1>3, <1>4 DEF UpdatesAre
<1>7. e # NoEncoder
  BY <1>3, <1>4, NoEncoderIs
<1>8. AttachmentsMayBeWritten'
  <2>1. DOMAIN e.attachments = {}
    BY <1>4 DEF NoAttachments
  <2>2. ResourcesOf({}) = {}
    BY DEF ResourcesOf
  <2> QED
    BY <1>1, <2>1, <2>2 DEF AttachmentsMayBeWritten
<1>9. FirstId = encoder_id /\ FirstId' = encoder_id
  BY <1>1, <1>3, <1>4, <1>7 DEF FirstId
<1>10. Flushed' = Flushed
  BY <1>1, <1>2 DEF Flushed
<1>11. /\ FenceCount <= FirstId /\ IsGpu(gpu)
       /\ OrderIs(Flushed.before, Flushed.last, fence_locality, FirstId)
       /\ DistantPassesAreOrdered
  BY DEF FenceInv
<1>12. DistantPassesAreOrdered'
  BY <1>1, <1>11 DEF DistantPassesAreOrdered
<1> QED
  BY <1>1, <1>2, <1>5, <1>6, <1>8, <1>9, <1>10, <1>11, <1>12 DEF FenceInv

(* A step that leaves the list and the ids alone keeps the order. *)
LEMMA SameList ==
  ASSUME FenceInv, FirstId' = FirstId, encoders' = encoders, gpu' = gpu,
         fence_locality' = fence_locality,
         current' # NoEncoder =>
           /\ encoders = <<>> /\ WaitsReach(current') /\ UpdatesAre(current')
           /\ AttachmentsMayBeWritten'
  PROVE  FenceInv'
<1>1. Flushed' = Flushed
  BY DEF Flushed
<1>2. /\ FenceCount <= FirstId /\ IsGpu(gpu) /\ (encoders = <<>> \/ \E e : encoders = <<e>>)
      /\ OrderIs(Flushed.before, Flushed.last, fence_locality, FirstId)
      /\ DistantPassesAreOrdered
  BY DEF FenceInv
<1>3. DistantPassesAreOrdered'
  BY <1>2 DEF DistantPassesAreOrdered
<1> QED
  BY <1>1, <1>2, <1>3 DEF FenceInv

LEMMA StartRenderPassFences ==
  ASSUME MaxList = 1, DistantWrites = FALSE, FenceInv, IdsInv,
         NEW planes \in AttachmentSets, NEW readonly, StartRenderPass(planes, readonly)
  PROVE  FenceInv'
<1> DEFINE n == Encoder("render", encoder_id, encoder_id + 1)
           attachments == [p \in planes |-> Attachment(p \in readonly)]
           e == [n EXCEPT !.attachments = attachments]
           colors == ResourcesOf(planes \ DepthStencil(planes))
           others == ResourcesOf(DepthStencil(planes))
           start == At(e)
           color == Accessed(start, colors, "pixel", "write")
           all == Accessed(color, others, "pixel", "read")
           id == encoder_id + 1
<1>1. /\ current = NoEncoder /\ Len(encoders) < 1 /\ trackers' = all.trackers
      /\ current' = all.encoder /\ fence_locality' = fence_locality /\ encoders' = encoders
      /\ gpu' = gpu /\ \A r \in ResourcesOf(planes) : MayWrite(trackers[r], id)
  BY DEF StartRenderPass, CanStart
<1>2. encoders = <<>>
  <2>1. \A x : Len(<<x>>) = 1
    OBVIOUS
  <2> QED
    BY <1>1, <2>1 DEF FenceInv
<1>3. /\ encoder_id \in Nat \ {0} /\ trackers \in [Resources -> Tracker]
      /\ AllBelow(trackers, encoder_id) /\ id \in Nat \ {0}
  BY <1>1, IdleIs
<1>4. AllBelow(trackers, id + 1)
  BY <1>3, BelowGrows
<1>5. /\ IsEncoder(e) /\ e.type = "render" /\ e.vertex = encoder_id /\ e.id = id
      /\ DOMAIN e.attachments = planes /\ WaitsReach(e) /\ UpdatesAre(e)
  <2>1. /\ IsEncoder(n) /\ n.type = "render" /\ n.vertex = encoder_id /\ n.id = id
        /\ n.wait = {} /\ n.wait_vertex = {} /\ n.update = {id}
        /\ n.update_vertex = {encoder_id}
    BY EncoderIs DEF Encoder
  <2>2. DOMAIN attachments = planes
    OBVIOUS
  <2> HIDE DEF attachments, n
  <2>3. /\ e.attachments = attachments /\ e.type = n.type /\ e.vertex = n.vertex
        /\ e.id = n.id /\ e.wait = n.wait /\ e.wait_vertex = n.wait_vertex
        /\ e.update = n.update /\ e.update_vertex = n.update_vertex
    BY <2>1 DEF IsEncoder
  <2>4. IsEncoder(e)
    BY <2>1 DEF IsEncoder
  <2> HIDE DEF e
  <2>5. WaitsReach(e) /\ UpdatesAre(e)
    BY <2>1, <2>3 DEF WaitsReach, UpdatesAre
  <2> QED
    BY <2>1, <2>2, <2>3, <2>4, <2>5
<1>6. /\ planes \subseteq Planes /\ colors \subseteq Resources /\ others \subseteq Resources
      /\ colors \subseteq ResourcesOf(planes)
  <2>1. planes \subseteq Planes
    BY PlanesAssumption
  <2>2. DepthStencil(planes) \subseteq planes
    BY DEF DepthStencil
  <2> QED
    BY <2>1, <2>2, ResourcesOfIs DEF ResourcesOf
<1> HIDE DEF e, colors, others, id
<1>7. start.encoder = e /\ start.trackers = trackers
  BY DEF At
<1> HIDE DEF start
<1>8. MayAccess(start, colors, "pixel", "write")
  <2>1. "pixel" # "compute" /\ IdOf(e, "pixel") = id
    BY <1>5 DEF IdOf
  <2>2. \A r \in colors : MayWrite(start.trackers[r], IdOf(start.encoder, "pixel"))
    BY <1>1, <1>6, <1>7, <2>1
  <2>3. IsPassOf(e)
    BY <1>3, <1>5 DEF IsPassOf, id
  <2> QED
    BY <1>3, <1>4, <1>5, <1>6, <1>7, <2>2, <2>3 DEF MayAccess
<1>9. /\ IsPassOf(color.encoder) /\ WaitsReach(color.encoder) /\ UpdatesAre(color.encoder)
      /\ color.encoder.id = start.encoder.id /\ color.encoder.type = start.encoder.type
      /\ color.encoder.vertex = start.encoder.vertex
      /\ color.encoder.attachments = start.encoder.attachments
      /\ color.trackers \in [Resources -> Tracker]
      /\ AllBelow(color.trackers, start.encoder.id + 1)
      /\ \A r \in Resources : MayWrite(start.trackers[r], start.encoder.id) =>
           MayWrite(color.trackers[r], start.encoder.id)
  BY ONLY <1>8, AccessedReaches
<1> HIDE DEF color
<1>10. MayAccess(color, others, "pixel", "read")
  BY <1>5, <1>6, <1>7, <1>9 DEF MayAccess, IsWrite
<1>11. /\ IsPassOf(all.encoder) /\ WaitsReach(all.encoder) /\ UpdatesAre(all.encoder)
       /\ all.encoder.id = color.encoder.id /\ all.encoder.type = color.encoder.type
       /\ all.encoder.vertex = color.encoder.vertex
       /\ all.encoder.attachments = color.encoder.attachments
       /\ \A r \in Resources : MayWrite(color.trackers[r], color.encoder.id) =>
            MayWrite(all.trackers[r], color.encoder.id)
  BY ONLY <1>10, AccessedReaches
<1> HIDE DEF all
<1>12. /\ current'.type = "render" /\ current'.vertex = encoder_id /\ current'.id = id
       /\ DOMAIN current'.attachments = planes /\ current' # NoEncoder
  BY <1>1, <1>5, <1>7, <1>9, <1>11, NoEncoderIs
<1>13. AttachmentsMayBeWritten'
  <2>1. \A r \in ResourcesOf(planes) : r \in Resources /\ MayWrite(trackers[r], id)
    BY <1>1, <1>6, ResourcesOfIs
  <2>2. \A r \in ResourcesOf(planes) : MayWrite(all.trackers[r], id)
    BY <1>5, <1>7, <1>9, <1>11, <2>1
  <2> QED
    BY <1>1, <1>6, <1>12, <2>2 DEF AttachmentsMayBeWritten
<1>14. FirstId' = FirstId
  BY <1>1, <1>12 DEF FirstId
<1> QED
  BY <1>1, <1>2, <1>11, <1>13, <1>14, SameList

LEMMA AccessFences ==
  ASSUME DistantWrites = FALSE, FenceInv, IdsInv,
         NEW stage \in {"compute", "vertex", "pixel"}, NEW r \in Resources, NEW mode,
         Access(stage, r, mode)
  PROVE  FenceInv'
<1> DEFINE start == At(current)
           after == Accessed(start, {r}, stage, mode)
<1>1. /\ current # NoEncoder /\ trackers' = after.trackers /\ current' = after.encoder
      /\ fence_locality' = fence_locality /\ encoders' = encoders /\ gpu' = gpu
      /\ stage \in (IF current.type = "render" THEN ShaderStages ELSE {"compute"})
      /\ stage # "compute" /\ IsWrite(mode) =>
           MayWrite(trackers[r], Use(current, stage, r, mode).id)
  BY DEF Access
<1>2. start.encoder = current /\ start.trackers = trackers
  BY DEF At
<1> HIDE DEF start
<1>3. /\ encoders = <<>> /\ WaitsReach(current) /\ UpdatesAre(current)
      /\ AttachmentsMayBeWritten
  BY <1>1 DEF FenceInv
<1>4. IsPassOf(current) /\ encoder_id = current.id + 1
  BY <1>1 DEF IdsInv, TypeOK, CurrentIs, IsPassOf
<1>5. trackers \in [Resources -> Tracker] /\ AllBelow(trackers, current.id + 1)
  BY <1>4 DEF IdsInv, TypeOK, IdsAreBelow, AllBelow
<1>6. MayAccess(start, {r}, stage, mode)
  <2>1. stage = "compute" <=> current.type # "render"
    BY <1>1, ShaderStagesAssumption
  <2>2. Use(current, stage, r, mode).id = IdOf(current, stage)
    BY DEF Use, IdOf
  <2> QED
    BY <1>1, <1>2, <1>3, <1>4, <1>5, <2>1, <2>2 DEF MayAccess
<1>7. /\ IsPassOf(after.encoder) /\ WaitsReach(after.encoder) /\ UpdatesAre(after.encoder)
      /\ after.encoder.id = start.encoder.id /\ after.encoder.type = start.encoder.type
      /\ after.encoder.vertex = start.encoder.vertex
      /\ after.encoder.attachments = start.encoder.attachments
      /\ \A q \in Resources : MayWrite(start.trackers[q], start.encoder.id) =>
           MayWrite(after.trackers[q], start.encoder.id)
  BY ONLY <1>6, AccessedReaches
<1> HIDE DEF after
<1>8. AttachmentsMayBeWritten'
  <2>1. \A q \in ResourcesOf(DOMAIN current.attachments) : q \in Resources
    BY <1>3, ResourcesOfIs DEF AttachmentsMayBeWritten
  <2>2. \A q \in ResourcesOf(DOMAIN current.attachments) : MayWrite(trackers'[q], current.id)
    BY <1>1, <1>2, <1>3, <1>7, <2>1 DEF AttachmentsMayBeWritten
  <2>3. current'.attachments = current.attachments /\ current'.id = current.id
    BY <1>1, <1>2, <1>7
  <2> QED
    BY <1>3, <2>2, <2>3 DEF AttachmentsMayBeWritten
<1>9. FirstId' = FirstId
  <2>1. current' # NoEncoder
    BY <1>1, <1>2, <1>4, <1>7, NoEncoderIs DEF CurrentIs, IdsInv
  <2> QED
    BY <1>1, <1>2, <1>7, <2>1 DEF FirstId
<1> QED
  BY <1>1, <1>3, <1>7, <1>8, <1>9, SameList

LEMMA CommandFences ==
  ASSUME FenceInv, IdsInv, Command
  PROVE  FenceInv'
<1>1. /\ current'.type = current.type /\ current'.id = current.id
      /\ current'.vertex = current.vertex /\ current'.attachments = current.attachments
      /\ trackers' = trackers /\ current # NoEncoder
  BY CommandIs
<1>2. fence_locality' = fence_locality /\ encoders' = encoders /\ gpu' = gpu
  BY DEF Command
<1>3. /\ current'.wait = current.wait /\ current'.wait_vertex = current.wait_vertex
      /\ current'.update = current.update /\ current'.update_vertex = current.update_vertex
  <2> DEFINE left == BarriersLeft
             cmds == IF current.type = "render" THEN Append(current.cmds, current.id)
                     ELSE current.cmds
  <2>1. IsEncoder(current)
    BY DEF IdsInv, TypeOK
  <2>2. current' = [current EXCEPT !.barriers = left,
                      !.cmds = IF current.type = "render" THEN Append(@, current.id) ELSE @]
    BY DEF Command
  <2> HIDE DEF left
  <2>3. current' = [[current EXCEPT !.barriers = left] EXCEPT !.cmds = cmds]
    BY <2>1, <2>2 DEF IsEncoder
  <2> HIDE DEF cmds
  <2> QED
    BY <2>1, <2>3 DEF IsEncoder
<1>4. /\ encoders = <<>> /\ WaitsReach(current) /\ UpdatesAre(current)
      /\ AttachmentsMayBeWritten
  BY <1>1 DEF FenceInv
<1>5. WaitsReach(current') /\ UpdatesAre(current')
  BY <1>1, <1>3, <1>4 DEF WaitsReach, UpdatesAre
<1>6. AttachmentsMayBeWritten'
  BY <1>1, <1>4 DEF AttachmentsMayBeWritten
<1>7. FirstId' = FirstId
  <2>1. current' # NoEncoder
    BY <1>1, NoEncoderIs DEF CurrentIs, IdsInv
  <2> QED
    BY <1>1, <2>1 DEF FirstId
<1> QED
  BY <1>2, <1>4, <1>5, <1>6, <1>7, SameList

LEMMA SameFences ==
  ASSUME FenceInv,
         UNCHANGED <<encoder_id, trackers, fence_locality, encoders, current, gpu>>
  PROVE  FenceInv'
<1>1. FirstId' = FirstId
  BY DEF FirstId
<1>2. current' # NoEncoder =>
        /\ encoders = <<>> /\ WaitsReach(current') /\ UpdatesAre(current')
        /\ AttachmentsMayBeWritten'
  BY DEF FenceInv, AttachmentsMayBeWritten
<1> QED
  BY <1>1, <1>2, SameList

(* The order of what is encoded, as the trackers and the summary of        *)
(* FenceLocalityCheck know it, is never wrong as long as each pass is      *)
(* flushed before the next one starts.                                     *)
THEOREM FenceInvariance ==
  ASSUME MaxList = 1, DistantWrites = FALSE
  PROVE  Spec => []FenceInv
<1>1. Init => FenceInv
  BY InitFences
<1>2. IdsInv /\ ListInv /\ FenceInv /\ [Next]_vars => FenceInv'
  <2> SUFFICES ASSUME IdsInv, ListInv, FenceInv, [Next]_vars PROVE FenceInv'
    OBVIOUS
  <2>1. ASSUME NEW planes \in ClearSets, Clear(planes) PROVE FenceInv'
    <3>1. OnePass("clear", {}, ResourcesOf(planes), planes, None, None)
      BY <2>1 DEF Clear
    <3>2. ResourcesOf(planes) \subseteq Resources
      BY PlanesAssumption, ResourcesOfIs
    <3> QED
      BY <3>1, <3>2, OnePassFences
  <2>2. ASSUME NEW p \in Resolves, ResolveTexture(p[1], p[2]) PROVE FenceInv'
    <3> DEFINE reads == {ResourceOf(p[1])}
               writes == {ResourceOf(p[2])}
    <3>1. OnePass("resolve", reads, writes, {}, p[1], p[2])
      BY <2>2 DEF ResolveTexture
    <3>2. reads \subseteq Resources /\ writes \subseteq Resources
      <4>1. {p[1], p[2]} \subseteq Planes
        BY PlanesAssumption
      <4> QED
        BY <4>1, ResourcesOfIs DEF ResourcesOf
    <3> HIDE DEF reads, writes
    <3> QED
      BY <3>1, <3>2, OnePassFences
  <2>3. ASSUME NEW p \in Presents, Present(p[1], p[2]) PROVE FenceInv'
    <3> DEFINE reads == {p[1]}
               writes == {p[2]} \ {None}
    <3>1. OnePass("present", reads, writes, {}, None, None)
      BY <2>3 DEF Present
    <3>2. reads \subseteq Resources /\ writes \subseteq Resources
      BY PlanesAssumption
    <3> HIDE DEF reads, writes
    <3> QED
      BY <3>1, <3>2, OnePassFences
  <2>4. CASE Event
    BY <2>4, EventFences
  <2>5. ASSUME NEW planes \in AttachmentSets, NEW readonly \in ReadonlySets,
               StartRenderPass(planes, readonly)
        PROVE  FenceInv'
    BY <2>5, StartRenderPassFences
  <2>6. ASSUME NEW type \in PassTypes, StartPass(type) PROVE FenceInv'
    BY <2>6, StartPassFences
  <2>7. ASSUME NEW stage \in {"compute", "vertex", "pixel"}, NEW r \in Resources,
               NEW mode \in {"read", "write", "uav"}, Access(stage, r, mode)
        PROVE  FenceInv'
    BY <2>7, AccessFences
  <2>8. CASE SetIntrapassControl
    BY <2>8, SameFences DEF SetIntrapassControl
  <2>9. CASE Command
    BY <2>9, CommandFences
  <2>10. CASE EndPass
    BY <2>10, EndPassFences
  <2>11. CASE FlushCommands
    BY <2>11, FlushFences
  <2>12. CASE UNCHANGED vars
    BY <2>12, SameFences DEF vars
  <2> QED
    BY <2>1, <2>2, <2>3, <2>4, <2>5, <2>6, <2>7, <2>8, <2>9, <2>10, <2>11, <2>12 DEF Next
<1> QED
  BY <1>1, <1>2, IdsInvariance, ListInvariance, PTL DEF Spec

(* FenceLocalityCheck and the weak fences: of the passes that are encoded, *)
(* one runs after all that are Lane ids or more older, those whose fence   *)
(* it does not wait for included.                                          *)
THEOREM DistantPassesStayOrdered ==
  ASSUME MaxList = 1, DistantWrites = FALSE
  PROVE  Spec => []DistantPassesAreOrdered
<1>1. FenceInv => DistantPassesAreOrdered
  BY DEF FenceInv
<1> QED
  BY <1>1, FenceInvariance, PTL

-----------------------------------------------------------------------------
(* What the answers of a tracker do to its writer and its ring, and for    *)
(* which fences they wait. A pass has the ids from "first" to "last".      *)

WaitsForWriter(t, id, waits) ==
  t.exclusive # 0 /\ id < t.exclusive + Lane => Fence(t.exclusive) \in waits

WriteIs(t, a, id, first) ==
  /\ a.tracker.exclusive = id
  /\ first <= t.exclusive => a.tracker.shared = t.shared
  /\ t.exclusive < first =>
       /\ a.tracker.shared = <<>> /\ WaitsForWriter(t, id, a.waits)
       /\ RecentReaders(t, id) \subseteq a.waits

ReadIs(t, a, id, first, last) ==
  /\ a.tracker.exclusive = t.exclusive
  /\ \/ a.tracker.shared = t.shared
     \/ /\ t.exclusive < first /\ a.tracker.shared = AddShared(t, id)
        /\ IsLastAccess(t, last) => id = last
  /\ t.exclusive < first =>
       /\ IsLastAccess(a.tracker, id) \/ IsLastAccess(a.tracker, last)
       /\ \/ WaitsForWriter(t, id, a.waits) \/ IsLastAccess(t, id)
          \/ id = first /\ IsLastAccess(t, last) /\ t.isSharedPreRaster

(* When the vertex stage is known to have read. *)
FlagIs(t, u, id, first, last) ==
  u.exclusive < first /\ IsLastAccess(u, last) /\ u.isSharedPreRaster =>
    \/ id = first \/ IsLastAccess(t, first)
    \/ t.exclusive < first /\ IsLastAccess(t, last) /\ t.isSharedPreRaster

LEMMA LastWriterWaits ==
  ASSUME NEW t \in Tracker, NEW id \in Nat, NEW waits,
         LastWriter(t, id) \subseteq waits \/ AnyLastWriter(t) \subseteq waits
  PROVE  WaitsForWriter(t, id, waits)
<1>1. t.exclusive \in Nat
  BY DEF Tracker
<1> QED
  BY <1>1, LaneAssumption DEF WaitsForWriter, LastWriter, AnyLastWriter

LEMMA AddedIsLast ==
  ASSUME NEW t \in Tracker, NEW id \in Nat, NEW u, u.shared = AddShared(t, id)
  PROVE  IsLastAccess(u, id)
  BY AddSharedIs DEF IsLastAccess

LEMMA ComputeReadIs ==
  ASSUME NEW t \in Tracker, NEW id \in Nat, t.exclusive <= id
  PROVE  ReadIs(t, AccessShared(t, id), id, id, id)
<1> DEFINE a == AccessShared(t, id)
<1> SUFFICES ReadIs(t, a, id, id, id)
  OBVIOUS
<1>1. t.exclusive \in Nat
  BY DEF Tracker
<1>2. CASE t.exclusive = id
  <2>1. a.tracker = t \/ a.tracker = [t EXCEPT !.isShared = TRUE]
    BY <1>2 DEF AccessShared, Answer, Nothing
  <2>2. a.tracker.exclusive = t.exclusive /\ a.tracker.shared = t.shared
    BY <2>1 DEF Tracker
  <2> HIDE DEF a
  <2> QED
    BY <1>1, <1>2, <2>2 DEF ReadIs
<1>3. CASE t.exclusive # id /\ IsLastAccess(t, id)
  <2>1. a.tracker = t
    BY <1>3 DEF AccessShared, Answer, Nothing
  <2> HIDE DEF a
  <2> QED
    BY <1>3, <2>1 DEF ReadIs
<1>4. CASE t.exclusive # id /\ ~ IsLastAccess(t, id)
  <2>1. a.tracker = [t EXCEPT !.shared = AddShared(t, id)] /\ a.waits = LastWriter(t, id)
    BY <1>4 DEF AccessShared, Answer
  <2> HIDE DEF a
  <2>2. a.tracker.exclusive = t.exclusive /\ a.tracker.shared = AddShared(t, id)
    BY <2>1 DEF Tracker
  <2>3. IsLastAccess(a.tracker, id)
    BY <2>2, AddedIsLast
  <2>4. WaitsForWriter(t, id, a.waits)
    BY <2>1, LastWriterWaits
  <2>5. t.exclusive < id
    BY <1>1, <1>4
  <2> QED
    BY <1>4, <2>2, <2>3, <2>4, <2>5 DEF ReadIs
<1> QED
  BY <1>2, <1>3, <1>4

LEMMA ComputeWriteIs ==
  ASSUME NEW t \in Tracker, NEW id \in Nat, t.exclusive <= id, NEW uav
  PROVE  WriteIs(t, AccessExclusive(t, id, uav), id, id)
<1> DEFINE a == AccessExclusive(t, id, uav)
<1> SUFFICES WriteIs(t, a, id, id)
  OBVIOUS
<1>1. t.exclusive \in Nat
  BY DEF Tracker
<1>2. CASE t.exclusive = id
  <2>1. a.tracker = [t EXCEPT !.isShared = FALSE]
    BY <1>2 DEF AccessExclusive, Answer
  <2> HIDE DEF a
  <2>2. a.tracker.exclusive = id /\ a.tracker.shared = t.shared
    BY <1>2, <2>1 DEF Tracker
  <2> QED
    BY <1>2, <2>2 DEF WriteIs
<1>3. CASE t.exclusive # id
  <2>1. /\ a.tracker = [t EXCEPT !.isShared = FALSE, !.shared = <<>>, !.exclusive = id]
        /\ a.waits = RecentReaders(t, id) \union LastWriter(t, id)
    BY <1>3 DEF AccessExclusive, Answer
  <2> HIDE DEF a
  <2>2. a.tracker.exclusive = id /\ a.tracker.shared = <<>>
    BY <2>1 DEF Tracker
  <2>3. WaitsForWriter(t, id, a.waits)
    BY <2>1, LastWriterWaits
  <2>4. ~ (id <= t.exclusive)
    BY <1>1, <1>3
  <2> QED
    BY <2>1, <2>2, <2>3, <2>4 DEF WriteIs
<1> QED
  BY <1>2, <1>3

LEMMA VertexReadIs ==
  ASSUME NEW t \in Tracker, NEW v \in Nat, t.exclusive <= v + 1
  PROVE  LET a == AccessSharedPreRaster(t, v)
         IN  ReadIs(t, a, v, v, v + 1)
<1> DEFINE a == AccessSharedPreRaster(t, v)
           read == [t EXCEPT !.isSharedPreRaster = TRUE]
<1> SUFFICES ReadIs(t, a, v, v, v + 1)
  OBVIOUS
<1>1. t.exclusive \in Nat /\ (t.exclusive < v <=> t.exclusive \notin {v, v + 1})
  BY DEF Tracker
<1>2. read.exclusive = t.exclusive /\ read.shared = t.shared
  BY DEF Tracker
<1>3. CASE t.exclusive \in {v, v + 1}
  <2>1. a.tracker = t \/ a.tracker = read
    BY <1>3 DEF AccessSharedPreRaster, Answer, Nothing
  <2> HIDE DEF a, read
  <2> QED
    BY <1>1, <1>2, <1>3, <2>1 DEF ReadIs
<1>4. CASE t.exclusive \notin {v, v + 1} /\ IsLastAccess(t, v + 1)
  <2>1. \/ a.tracker = t /\ t.isSharedPreRaster
        \/ a.tracker = read /\ a.waits = LastWriter(t, v)
    <3>1. CASE t.isSharedPreRaster
      BY <1>4, <3>1 DEF AccessSharedPreRaster, Answer, Nothing
    <3>2. CASE ~ t.isSharedPreRaster
      <4>1. a = Answer(read, LastWriter(t, v), {})
        <5>1. ~ IsLastAccess(t, v)
          BY <1>4 DEF IsLastAccess
        <5> QED
          BY <1>4, <3>2, <5>1 DEF AccessSharedPreRaster
      <4> HIDE DEF a
      <4> QED
        BY <4>1 DEF Answer
    <3> QED
      BY <3>1, <3>2
  <2> HIDE DEF a, read
  <2>2. a.tracker.exclusive = t.exclusive /\ a.tracker.shared = t.shared
    BY <1>2, <2>1
  <2>3. IsLastAccess(a.tracker, v + 1)
    BY <1>4, <2>2 DEF IsLastAccess
  <2>4. t.isSharedPreRaster \/ WaitsForWriter(t, v, a.waits)
    BY <2>1, LastWriterWaits
  <2> QED
    BY <1>4, <2>2, <2>3, <2>4 DEF ReadIs
<1>5. CASE t.exclusive \notin {v, v + 1} /\ ~ IsLastAccess(t, v + 1) /\ IsLastAccess(t, v)
  <2>1. a.tracker = t
    BY <1>5 DEF AccessSharedPreRaster, Answer, Nothing
  <2> HIDE DEF a, read
  <2> QED
    BY <1>5, <2>1 DEF ReadIs
<1>6. CASE t.exclusive \notin {v, v + 1} /\ ~ IsLastAccess(t, v + 1) /\ ~ IsLastAccess(t, v)
  <2>1. /\ a.tracker = [read EXCEPT !.shared = AddShared(t, v), !.isShared = FALSE]
        /\ a.waits = LastWriter(t, v)
    BY <1>6 DEF AccessSharedPreRaster, Answer
  <2>2. a.tracker.exclusive = t.exclusive /\ a.tracker.shared = AddShared(t, v)
    BY <2>1 DEF Tracker
  <2> HIDE DEF a, read
  <2>3. IsLastAccess(a.tracker, v)
    BY <2>2, AddedIsLast
  <2>4. WaitsForWriter(t, v, a.waits)
    BY <2>1, LastWriterWaits
  <2> QED
    BY <1>1, <1>6, <2>2, <2>3, <2>4 DEF ReadIs
<1> QED
  BY <1>3, <1>4, <1>5, <1>6

LEMMA FirstWriteIs ==
  ASSUME NEW t \in Tracker, NEW id \in Nat, NEW first \in Nat, t.exclusive < first,
         NEW writer \in Tracker, NEW afterReads, writer.exclusive = id
  PROVE  WriteIs(t, FirstWrite(t, id, writer, afterReads), id, first)
<1> DEFINE a == FirstWrite(t, id, writer, afterReads)
           unread == Unread(writer)
<1>1. /\ a.tracker = [unread EXCEPT !.shared = <<>>]
      /\ a.waits = RecentReaders(t, id) \union AnyLastWriter(t)
  BY DEF FirstWrite, Answer
<1>2. unread \in Tracker /\ unread.exclusive = id
  BY DEF Unread, Tracker
<1> HIDE DEF a, unread
<1>3. a.tracker.exclusive = id /\ a.tracker.shared = <<>>
  BY <1>1, <1>2 DEF Tracker
<1>4. WaitsForWriter(t, id, a.waits)
  BY <1>1, LastWriterWaits
<1>5. t.exclusive \in Nat /\ ~ (first <= t.exclusive)
  BY DEF Tracker
<1> QED
  BY <1>1, <1>3, <1>4, <1>5 DEF a, WriteIs

LEMMA VertexWriteIs ==
  ASSUME NEW t \in Tracker, NEW v \in Nat, t.exclusive <= v + 1, NEW uav
  PROVE  WriteIs(t, AccessExclusivePreRaster(t, v, uav), v, v)
<1> DEFINE a == AccessExclusivePreRaster(t, v, uav)
           written == [t EXCEPT !.exclusive = v]
           unread == Unread(written)
<1> SUFFICES WriteIs(t, a, v, v)
  OBVIOUS
<1>1. t.exclusive \in Nat /\ (t.exclusive < v <=> t.exclusive \notin {v, v + 1})
  BY DEF Tracker
<1>2. unread \in Tracker /\ unread.exclusive = v /\ unread.shared = t.shared
  BY DEF Unread, Tracker
<1>3. CASE t.exclusive \in {v, v + 1}
  <2>1. a.tracker = unread \/ a.tracker = [unread EXCEPT !.lastWriteFromPreRaster = TRUE]
    BY <1>3 DEF AccessExclusivePreRaster, Answer
  <2> HIDE DEF a, unread
  <2>2. a.tracker.exclusive = v /\ a.tracker.shared = t.shared
    BY <1>2, <2>1 DEF Tracker
  <2> QED
    BY <1>1, <1>3, <2>2 DEF WriteIs
<1>4. CASE t.exclusive \notin {v, v + 1}
  <2>1. written \in Tracker /\ written.exclusive = v /\ t.exclusive < v
    BY <1>1, <1>4 DEF Tracker
  <2>2. PICK afterReads : a = FirstWrite(t, v, written, afterReads)
    BY <1>1, <1>4 DEF AccessExclusivePreRaster
  <2> HIDE DEF a, written
  <2> QED
    BY <1>1, <2>1, <2>2, FirstWriteIs
<1> QED
  BY <1>3, <1>4

LEMMA PixelReadIs ==
  ASSUME NEW t \in Tracker, NEW v \in Nat, t.exclusive <= v + 1
  PROVE  LET a == AccessSharedFragment(t, v + 1)
         IN  ReadIs(t, a, v + 1, v, v + 1) /\ FlagIs(t, a.tracker, v + 1, v, v + 1)
<1> DEFINE a == AccessSharedFragment(t, v + 1)
           read == [t EXCEPT !.isShared = TRUE]
<1> SUFFICES ReadIs(t, a, v + 1, v, v + 1) /\ FlagIs(t, a.tracker, v + 1, v, v + 1)
  OBVIOUS
<1>1. /\ t.exclusive \in Nat /\ (t.exclusive < v <=> t.exclusive \notin {v + 1, v + 1 - 1})
      /\ v + 1 - 1 = v /\ v + 1 \in Nat
  BY DEF Tracker
<1>2. read.exclusive = t.exclusive /\ read.shared = t.shared
  BY DEF Tracker
<1>3. CASE t.exclusive \in {v + 1, v + 1 - 1}
  <2>1. a.tracker = t \/ a.tracker = read
    BY <1>3 DEF AccessSharedFragment, Answer, Nothing
  <2> HIDE DEF a, read
  <2> QED
    BY <1>1, <1>2, <1>3, <2>1 DEF ReadIs, FlagIs
<1>4. CASE t.exclusive \notin {v + 1, v + 1 - 1} /\ IsLastAccess(t, v + 1)
  <2>1. a.tracker = t
    BY <1>4 DEF AccessSharedFragment, Answer, Nothing
  <2> HIDE DEF a, read
  <2> QED
    BY <1>4, <2>1 DEF ReadIs, FlagIs
<1>5. CASE t.exclusive \notin {v + 1, v + 1 - 1} /\ ~ IsLastAccess(t, v + 1)
  <2> HIDE DEF a
  <2>1. v + 1 - 1 = v /\ t.exclusive \notin {v + 1, v}
    BY <1>1, <1>5
  <2>5. /\ a.tracker.exclusive = t.exclusive /\ a.tracker.shared = AddShared(t, v + 1)
        /\ a.tracker.isSharedPreRaster <=> IsLastAccess(t, v) /\ t.isSharedPreRaster
        /\ a.waits = LastWriter(t, v + 1)
    BY <1>1, <1>5, <2>1, FirstSharedFragment DEF a
  <2>6. IsLastAccess(a.tracker, v + 1)
    BY <1>1, <2>5, AddedIsLast
  <2>7. WaitsForWriter(t, v + 1, a.waits)
    BY <1>1, <2>5, LastWriterWaits
  <2>8. ReadIs(t, a, v + 1, v, v + 1)
    BY <1>1, <1>5, <2>5, <2>6, <2>7 DEF ReadIs
  <2>9. FlagIs(t, a.tracker, v + 1, v, v + 1)
    BY <2>5 DEF FlagIs
  <2> QED
    BY <2>8, <2>9
<1> QED
  BY <1>3, <1>4, <1>5

LEMMA PixelWriteIs ==
  ASSUME NEW t \in Tracker, NEW v \in Nat, t.exclusive <= v + 1, NEW uav
  PROVE  WriteIs(t, AccessExclusiveFragment(t, v + 1, uav), v + 1, v)
<1> DEFINE a == AccessExclusiveFragment(t, v + 1, uav)
           written == [t EXCEPT !.exclusive = v + 1, !.lastWriteFromPreRaster = FALSE]
           unread == Unread(written)
<1> SUFFICES WriteIs(t, a, v + 1, v)
  OBVIOUS
<1>1. /\ t.exclusive \in Nat /\ (t.exclusive < v <=> t.exclusive \notin {v + 1, v + 1 - 1})
      /\ v + 1 \in Nat
  BY DEF Tracker
<1>2. unread.exclusive = v + 1 /\ unread.shared = t.shared
  BY DEF Unread, Tracker
<1>3. CASE t.exclusive \in {v + 1, v + 1 - 1}
  <2>1. a.tracker = unread
    BY <1>3 DEF AccessExclusiveFragment, Answer
  <2> HIDE DEF a, unread
  <2> QED
    BY <1>1, <1>2, <1>3, <2>1 DEF WriteIs
<1>4. CASE t.exclusive \notin {v + 1, v + 1 - 1}
  <2>1. written \in Tracker /\ written.exclusive = v + 1 /\ t.exclusive < v
    BY <1>1, <1>4 DEF Tracker
  <2>2. PICK afterReads : a = FirstWrite(t, v + 1, written, afterReads)
    BY <1>1, <1>4 DEF AccessExclusiveFragment
  <2> HIDE DEF a, written
  <2> QED
    BY <1>1, <2>1, <2>2, FirstWriteIs
<1> QED
  BY <1>3, <1>4

(* The first id of a pass. *)
FirstOf(e) == IF e.type = "render" THEN e.vertex ELSE e.id

LEMMA AnswerIs ==
  ASSUME NEW t \in Tracker, NEW e, IsPassOf(e), NEW stage \in {"compute", "vertex", "pixel"},
         NEW mode, (stage = "compute") <=> e.type # "render", t.exclusive <= e.id
  PROVE  LET a == AnswerTo(e, t, stage, mode)
             id == IdOf(e, stage)
         IN  /\ IsWrite(mode) => WriteIs(t, a, id, FirstOf(e))
             /\ ~ IsWrite(mode) => ReadIs(t, a, id, FirstOf(e), e.id)
             /\ e.type = "render" => FlagIs(t, a.tracker, id, FirstOf(e), e.id)
<1> DEFINE a == AnswerTo(e, t, stage, mode)
           id == IdOf(e, stage)
<1>1. CASE stage = "compute"
  <2>1. e.type # "render" /\ e.id \in Nat /\ id = e.id /\ FirstOf(e) = e.id
    BY <1>1 DEF IsPassOf, IdOf, FirstOf
  <2>2. CASE IsWrite(mode)
    <3>1. a = AccessExclusive(t, id, mode = "uav")
      BY <1>1, <2>1, <2>2 DEF AnswerTo
    <3> HIDE DEF a, id
    <3> QED
      BY <2>1, <2>2, <3>1, ComputeWriteIs DEF a, id
  <2>3. CASE ~ IsWrite(mode)
    <3>1. a = AccessShared(t, id)
      BY <1>1, <2>1, <2>3 DEF AnswerTo
    <3> HIDE DEF a, id
    <3> QED
      BY <2>1, <2>3, <3>1, ComputeReadIs DEF a, id
  <2> QED
    BY <2>2, <2>3
<1>2. ASSUME stage # "compute"
      PROVE  /\ e.type = "render" /\ e.vertex \in Nat /\ e.id = e.vertex + 1
             /\ FirstOf(e) = e.vertex /\ t.exclusive <= e.vertex + 1
  BY <1>2 DEF IsPassOf, FirstOf
<1>3. CASE stage = "vertex"
  <2>1. id = e.vertex /\ FlagIs(t, a.tracker, id, e.vertex, e.id)
    BY <1>3 DEF IdOf, FlagIs
  <2>2. CASE IsWrite(mode)
    <3>1. a = AccessExclusivePreRaster(t, e.vertex, mode = "uav")
      BY <1>3, <2>2 DEF AnswerTo
    <3>2. WriteIs(t, a, e.vertex, e.vertex)
      <4> HIDE DEF a
      <4> QED
        BY <1>2, <1>3, <3>1, VertexWriteIs
    <3> HIDE DEF a, id
    <3> QED
      BY <1>2, <1>3, <2>1, <2>2, <3>2 DEF a, id
  <2>3. CASE ~ IsWrite(mode)
    <3>1. a = AccessSharedPreRaster(t, e.vertex)
      BY <1>3, <2>3 DEF AnswerTo
    <3>2. ReadIs(t, a, e.vertex, e.vertex, e.vertex + 1)
      <4> HIDE DEF a
      <4> QED
        BY <1>2, <1>3, <3>1, VertexReadIs
    <3> HIDE DEF a, id
    <3> QED
      BY <1>2, <1>3, <2>1, <2>3, <3>2 DEF a, id
  <2> QED
    BY <2>2, <2>3
<1>4. CASE stage = "pixel"
  <2>1. id = e.vertex + 1
    BY <1>2, <1>4 DEF IdOf
  <2>2. CASE IsWrite(mode)
    <3>1. a = AccessExclusiveFragment(t, e.vertex + 1, mode = "uav")
      BY <1>2, <1>4, <2>2 DEF AnswerTo
    <3>2. WriteIs(t, a, e.vertex + 1, e.vertex)
      <4> HIDE DEF a
      <4> QED
        BY <1>2, <1>4, <3>1, PixelWriteIs
    <3> HIDE DEF a, id
    <3>3. FlagIs(t, a.tracker, id, e.vertex, e.id)
      <4>1. a.tracker.exclusive = e.vertex + 1 /\ ~ (e.vertex + 1 < e.vertex)
        BY <1>2, <1>4, <3>2 DEF WriteIs
      <4> QED
        BY <4>1 DEF FlagIs
    <3> QED
      BY <1>2, <1>4, <2>1, <2>2, <3>2, <3>3 DEF a, id
  <2>3. CASE ~ IsWrite(mode)
    <3>1. a = AccessSharedFragment(t, e.vertex + 1)
      BY <1>2, <1>4, <2>3 DEF AnswerTo
    <3>2. /\ ReadIs(t, a, e.vertex + 1, e.vertex, e.vertex + 1)
          /\ FlagIs(t, a.tracker, e.vertex + 1, e.vertex, e.vertex + 1)
      <4> HIDE DEF a
      <4> QED
        BY <1>2, <1>4, <3>1, PixelReadIs
    <3> HIDE DEF a, id
    <3> QED
      BY <1>2, <1>4, <2>1, <2>3, <3>2 DEF a, id
  <2> QED
    BY <2>2, <2>3
<1> QED
  BY <1>1, <1>3, <1>4

(* A ring that is full loses a reader that is Lane ids away. *)
LEMMA RingGrows ==
  ASSUME NEW t \in Tracker, IsRing(t.shared), NEW id \in Nat,
         t.shared # <<>> => Head(t.shared) <= id
  PROVE  LET s == AddShared(t, id)
         IN  /\ IsRing(s)
             /\ \A i \in DOMAIN t.shared :
                  t.shared[i] + Lane <= id \/ \E j \in DOMAIN s : s[j] = t.shared[i]
<1> DEFINE s == AddShared(t, id)
<1> SUFFICES /\ IsRing(s)
             /\ \A i \in DOMAIN t.shared :
                  t.shared[i] + Lane <= id \/ \E j \in DOMAIN s : s[j] = t.shared[i]
  OBVIOUS
<1>1. t.shared \in Seq(Nat) /\ Len(t.shared) \in Nat /\ Lane \in Nat /\ Lane > 1
  BY LaneAssumption DEF Tracker
<1>2. CASE IsLastAccess(t, id)
  <2>1. s = t.shared
    BY <1>2 DEF AddShared
  <2> HIDE DEF s
  <2> QED
    BY <2>1
<1>3. CASE ~ IsLastAccess(t, id)
  <2> DEFINE ring == t.shared
             all == <<id>> \o ring
             n == IF Len(ring) < Lane THEN Len(ring) + 1 ELSE Lane
  <2>1. /\ all \in Seq(Nat) /\ Len(all) = Len(ring) + 1 /\ all[1] = id
        /\ \A i \in 2 .. Len(all) : all[i] = ring[i - 1]
    BY <1>1
  <2>0. /\ ring \in Seq(Nat) /\ Len(ring) \in Nat /\ DOMAIN ring = 1 .. Len(ring)
        /\ Lane \in Nat /\ Lane > 1
    BY <1>1
  <2>2. n \in 1 .. Len(all)
    BY <1>1, <2>1
  <2>3. s = SubSeq(all, 1, n)
    BY <1>3 DEF AddShared
  <2> HIDE DEF all, n, s
  <2>4. Len(s) = n /\ DOMAIN s = 1 .. n /\ \A i \in 1 .. n : s[i] = all[i]
    BY <2>1, <2>2, <2>3
  <2> HIDE DEF ring
  <2>5. ASSUME NEW i \in DOMAIN ring PROVE ring[i] \in Nat /\ ring[i] + i <= id
    <3>1. 1 \in DOMAIN ring /\ i \in Nat /\ 1 <= i /\ ring # <<>> /\ ring[1] = Head(ring)
      BY <2>0, <2>5
    <3>2. \A k, j \in DOMAIN ring : k <= j => ring[j] + j <= ring[k] + k
      BY DEF IsRing, ring
    <3>3. ring[i] + i <= ring[1] + 1
      BY ONLY <3>2, <2>5, <3>1
    <3>4. ring[i] + i <= ring[1] + 1 /\ ring[1] \in Nat /\ ring[i] \in Nat
      BY <2>0, <2>5, <3>1, <3>3
    <3>5. ring[1] <= id /\ ring[1] # id
      BY <1>3, <3>1 DEF IsLastAccess, ring
    <3> QED
      BY <3>1, <3>4, <3>5
  <2>6. ASSUME NEW i \in 1 .. n, NEW j \in 1 .. n, i <= j PROVE s[j] + j <= s[i] + i
    <3>1. CASE j = 1
      BY <2>1, <2>4, <2>6, <3>1
    <3>2. CASE i = 1 /\ j # 1
      <4>1. j \in 2 .. Len(all) /\ j - 1 \in DOMAIN ring /\ j \in Nat
        BY <2>0, <2>1, <2>2, <3>2
      <4>2. s[j] = ring[j - 1] /\ s[i] = id
        BY <2>1, <2>4, <3>2, <4>1
      <4>3. ring[j - 1] \in Nat /\ ring[j - 1] + (j - 1) <= id
        BY <2>5, <4>1
      <4> QED
        BY <3>2, <4>1, <4>2, <4>3
    <3>3. CASE i # 1 /\ j # 1
      <4>0. /\ n \in Nat /\ n <= Len(all) /\ Len(all) = Len(ring) + 1 /\ Len(ring) \in Nat
            /\ DOMAIN ring = 1 .. Len(ring) /\ i # 1 /\ j # 1 /\ i <= j
            /\ i \in 1 .. n /\ j \in 1 .. n
        BY <2>0, <2>1, <2>2, <2>6, <3>3
      <4>1. /\ j \in 2 .. Len(all) /\ j - 1 \in DOMAIN ring /\ j \in Nat
            /\ i \in 2 .. Len(all) /\ i - 1 \in DOMAIN ring /\ i \in Nat /\ i - 1 <= j - 1
        <5>1. j \in Nat /\ j \in 2 .. Len(all) /\ j - 1 \in DOMAIN ring
          BY ONLY <4>0
        <5>2. i \in Nat /\ i \in 2 .. Len(all) /\ i - 1 \in DOMAIN ring
          BY ONLY <4>0
        <5>3. i - 1 <= j - 1
          BY ONLY <4>0
        <5> QED
          BY ONLY <5>1, <5>2, <5>3
      <4>2. s[j] = ring[j - 1] /\ s[i] = ring[i - 1]
        BY <2>1, <2>4, <4>1
      <4>3. /\ ring[j - 1] \in Nat /\ ring[i - 1] \in Nat
            /\ ring[j - 1] + (j - 1) <= ring[i - 1] + (i - 1)
        BY <2>5, <4>1 DEF IsRing, ring
      <4> QED
        BY <4>1, <4>2, <4>3
    <3> QED
      BY <3>1, <3>2, <3>3
  <2>7. ASSUME NEW i \in DOMAIN ring, ~ (ring[i] + Lane <= id)
        PROVE  \E j \in 1 .. n : s[j] = ring[i]
    <3>1. i \in 1 .. Len(ring) /\ ring[i] \in Nat /\ ring[i] + i <= id
      BY <2>0, <2>5
    <3>2. i < Lane
      BY <2>0, <2>7, <3>1
    <3>3. i + 1 \in 1 .. n
      BY <2>0, <3>1, <3>2 DEF n
    <3>4. s[i + 1] = all[i + 1]
      BY <2>4, <3>3
    <3>5. \A k \in 2 .. Len(all) : all[k] = ring[k - 1]
      BY <2>1
    <3>6. all[i + 1] = ring[i]
      <4> DEFINE k == i + 1
      <4>1. k \in 2 .. Len(all) /\ k - 1 = i
        <5>1. Len(all) = Len(ring) + 1 /\ Len(ring) \in Nat /\ i \in 1 .. Len(ring)
          BY <2>0, <2>1, <3>1
        <5> QED
          BY ONLY <5>1
      <4> HIDE DEF k
      <4>2. all[k] = ring[k - 1]
        BY ONLY <3>5, <4>1
      <4>3. all[k] = ring[i]
        BY ONLY <4>1, <4>2
      <4> QED
        BY ONLY <4>3 DEF k
    <3> QED
      BY <3>3, <3>4, <3>6
  <2> QED
    BY <2>4, <2>6, <2>7 DEF IsRing, ring
<1> QED
  BY <1>2, <1>3

-----------------------------------------------------------------------------
(* An access waits for what its tracker knows, and the tracker then knows  *)
(* the access. "n" is the pass after the access, "o" before it.            *)

(* One resource of an access. *)
AccessOf(o, n, t, a, r, stage, mode) ==
  LET use == Use(o, stage, r, mode)
  IN  /\ IsPassOf(o) /\ n.type = o.type /\ n.id = o.id /\ n.vertex = o.vertex
      /\ (stage = "compute") <=> o.type # "render"
      /\ \A u \in n.uses : u.res = r => u \in o.uses \/ u = use
      /\ use \in n.uses /\ o.uses \subseteq n.uses
      /\ \A id : WaitsAt(o, id) \subseteq WaitsAt(n, id)
      /\ a.waits \subseteq WaitsAt(n, use.id)
      /\ stage = "vertex" =>
           \A u \in o.uses : ~ (u.stage = "pixel" /\ Conflict(u, use))
      /\ IsBelow(t, o.id + 1)

(* The order of the passes before, with which the tracker is compared. *)
IsBefore(before, first) ==
  /\ DOMAIN before = FenceCount .. first - 1
  /\ \A b \in DOMAIN before : before[b] \subseteq FenceCount .. b - 1

LEMMA IdsOfPass ==
  ASSUME NEW e, IsPassOf(e), NEW stage \in {"compute", "vertex", "pixel"},
         (stage = "compute") <=> e.type # "render"
  PROVE  /\ e.id \in Nat /\ FirstOf(e) \in Nat /\ FirstOf(e) <= e.id /\ e.id <= FirstOf(e) + 1
         /\ IdOf(e, stage) \in Nat /\ FirstOf(e) <= IdOf(e, stage) /\ IdOf(e, stage) <= e.id
         /\ stage = "compute" => IdOf(e, stage) = e.id /\ FirstOf(e) = e.id
         /\ stage = "vertex" => IdOf(e, stage) = FirstOf(e) /\ FirstOf(e) = e.vertex
         /\ stage = "pixel" => IdOf(e, stage) = e.id /\ FirstOf(e) = e.vertex
         /\ stage # "compute" => e.type = "render" /\ e.id = e.vertex + 1 /\ e.vertex \in Nat
  BY DEF IsPassOf, FirstOf, IdOf

LEMMA BehindIsBelow ==
  ASSUME NEW before, NEW first \in Nat, IsBefore(before, first), NEW y, NEW x,
         IsBehind(before, y, x)
  PROVE  /\ y \in Nat /\ FenceCount <= y /\ y < first /\ x \in Nat /\ x <= y /\ y # 0
<1>1. FenceCount \in Nat /\ FenceCount # 0
  BY FenceCountIs
<1>2. y \in FenceCount .. first - 1 /\ (x = y \/ x \in FenceCount .. y - 1)
  BY DEF IsBehind, IsBefore
<1> QED
  BY ONLY <1>1, <1>2, first \in Nat

(* Behind an id that the pass waits for, or Lane ids away. *)
LEMMA BehindIsAfter ==
  ASSUME NEW before, NEW first \in Nat, IsBefore(before, first), NEW y, NEW x,
         IsBehind(before, y, x), NEW e, NEW id \in Nat, first <= id,
         id < y + Lane => Fence(y) \in WaitsAt(e, id)
  PROVE  IsAfter(e, id, x, before)
<1>1. y \in Nat /\ y < first /\ x \in Nat /\ x <= y
  BY BehindIsBelow
<1>2. Lane \in Nat
  BY LaneAssumption
<1>3. CASE id < y + Lane
  <2>1. y < id /\ id < y + 2 * Lane
    BY <1>1, <1>2, <1>3
  <2>2. y \in DOMAIN before
    BY DEF IsBehind
  <2> QED
    BY <1>3, <2>1, <2>2 DEF IsAfter, IsFenceOf
<1>4. CASE ~ (id < y + Lane)
  <2>1. x + Lane <= id
    BY <1>1, <1>2, <1>4
  <2> QED
    BY <2>1 DEF IsAfter
<1> QED
  BY <1>3, <1>4

(* Both stages of a pass wait, or the stage alone. *)
LEMMA SameStageIsAfter ==
  ASSUME NEW e, IsPassOf(e), UsesAreOf(e), NEW w \in e.uses,
         NEW stage \in {"compute", "vertex", "pixel"}, (stage = "compute") <=> e.type # "render",
         NEW r, NEW mode, NEW a, NEW before, UseIsAfter(e, w, a, before),
         w.id = IdOf(e, stage) \/ stage = "pixel"
  PROVE  UseIsAfter(e, Use(e, stage, r, mode), a, before)
<1> DEFINE use == Use(e, stage, r, mode)
<1>1. use.id = IdOf(e, stage) /\ use.stage = stage
  BY DEF Use, IdOf
<1>2. /\ w.id = (IF w.stage = "vertex" THEN e.vertex ELSE e.id)
      /\ w.stage \in (IF e.type = "render" THEN {"vertex", "pixel"} ELSE {"compute"})
  BY DEF UsesAreOf
<1>3. /\ stage = "compute" => IdOf(e, stage) = e.id
      /\ stage = "vertex" => IdOf(e, stage) = e.vertex
      /\ stage = "pixel" => IdOf(e, stage) = e.id
      /\ stage # "compute" => e.type = "render" /\ e.vertex # e.id
  <2>1. stage # "compute" => e.id = e.vertex + 1 /\ e.vertex \in Nat
    BY IdsOfPass
  <2>2. stage # "compute" => e.vertex # e.id
    BY <2>1
  <2> QED
    BY <2>2, IdsOfPass DEF IdOf
<1> HIDE DEF use
<1>4. CASE stage = "pixel"
  <2>1. IsAfter(e, e.id, a.id, before) \/ IsAfter(e, e.vertex, a.id, before)
    BY <1>2 DEF UseIsAfter
  <2> QED
    BY <1>1, <1>3, <1>4, <2>1 DEF UseIsAfter, use
<1>5. CASE stage # "pixel"
  <2>1. w.id = IdOf(e, stage) /\ w.stage # "pixel"
    BY <1>2, <1>3, <1>5
  <2>2. IsAfter(e, w.id, a.id, before)
    BY <2>1 DEF UseIsAfter
  <2> QED
    BY <1>1, <2>1, <2>2 DEF UseIsAfter, use
<1> QED
  BY <1>4, <1>5

LEMMA WaitsGrow ==
  ASSUME NEW o, NEW n, n.vertex = o.vertex, NEW u, NEW a, NEW before,
         \A id : WaitsAt(o, id) \subseteq WaitsAt(n, id), UseIsAfter(o, u, a, before)
  PROVE  UseIsAfter(n, u, a, before)
  BY DEF UseIsAfter, IsAfter

(* What the lemmas about an access assume. *)
AccessStep(o, n, t, r, old, before, stage, mode) ==
  /\ t \in Tracker /\ UsesAreOf(o) /\ stage \in {"compute", "vertex", "pixel"}
  /\ AccessOf(o, n, t, AnswerTo(o, t, stage, mode), r, stage, mode)
  /\ FirstOf(o) \in Nat /\ IsBefore(before, FirstOf(o)) /\ \A a \in old : a.id \in Nat
  /\ TrackerFits(o, t, r, old, before, FirstOf(o))

LEMMA AccessStepIs ==
  ASSUME NEW o, NEW n, NEW t, NEW r, NEW old, NEW before, NEW stage, NEW mode,
         AccessStep(o, n, t, r, old, before, stage, mode)
  PROVE  LET a == AnswerTo(o, t, stage, mode)
             id == IdOf(o, stage)
             first == FirstOf(o)
         IN  /\ id \in Nat /\ first \in Nat /\ o.id \in Nat /\ first <= id /\ id <= o.id
             /\ id = o.id \/ (stage = "vertex" /\ id = first /\ o.id = id + 1)
             /\ stage = "pixel" => o.type = "render" /\ first = o.vertex /\ o.id = o.vertex + 1
             /\ t.exclusive \in Nat /\ t.exclusive <= o.id
             /\ t.shared # <<>> => Head(t.shared) \in Nat /\ Head(t.shared) <= o.id
             /\ IsWrite(mode) => WriteIs(t, a, id, first)
             /\ ~ IsWrite(mode) => ReadIs(t, a, id, first, o.id)
             /\ o.type = "render" => FlagIs(t, a.tracker, id, first, o.id)
             /\ stage = "compute" => first = o.id
<1>1. /\ t \in Tracker /\ stage \in {"compute", "vertex", "pixel"} /\ IsPassOf(o)
      /\ (stage = "compute") <=> o.type # "render"
      /\ IsBelow(t, o.id + 1)
  BY DEF AccessStep, AccessOf
<1>2. /\ o.id \in Nat /\ FirstOf(o) \in Nat /\ FirstOf(o) <= o.id /\ o.id <= FirstOf(o) + 1
      /\ IdOf(o, stage) \in Nat /\ FirstOf(o) <= IdOf(o, stage) /\ IdOf(o, stage) <= o.id
      /\ stage = "compute" => IdOf(o, stage) = o.id /\ FirstOf(o) = o.id
      /\ stage = "vertex" => IdOf(o, stage) = FirstOf(o) /\ FirstOf(o) = o.vertex
      /\ stage = "pixel" => IdOf(o, stage) = o.id /\ FirstOf(o) = o.vertex
      /\ stage # "compute" => o.type = "render" /\ o.id = o.vertex + 1 /\ o.vertex \in Nat
  BY <1>1, IdsOfPass
<1>3. t.exclusive \in Nat /\ t.exclusive <= o.id
  BY <1>1, <1>2 DEF Tracker, IsBelow
<1>4. t.shared # <<>> => Head(t.shared) \in Nat /\ Head(t.shared) <= o.id
  <2> SUFFICES ASSUME t.shared # <<>> PROVE Head(t.shared) \in Nat /\ Head(t.shared) <= o.id
    OBVIOUS
  <2>1. t.shared \in Seq(Nat)
    BY <1>1 DEF Tracker
  <2>2. 1 \in DOMAIN t.shared /\ Head(t.shared) = t.shared[1] /\ t.shared[1] \in Nat
    BY <2>1
  <2>3. t.shared[1] < o.id + 1
    BY <1>1, <2>2 DEF IsBelow
  <2> QED
    BY <1>2, <2>2, <2>3
<1>5. /\ IsWrite(mode) => WriteIs(t, AnswerTo(o, t, stage, mode), IdOf(o, stage), FirstOf(o))
      /\ ~ IsWrite(mode) => ReadIs(t, AnswerTo(o, t, stage, mode), IdOf(o, stage), FirstOf(o), o.id)
      /\ o.type = "render" =>
           FlagIs(t, AnswerTo(o, t, stage, mode).tracker, IdOf(o, stage), FirstOf(o), o.id)
  BY <1>1, <1>3, AnswerIs
<1>6. IdOf(o, stage) = o.id \/ (stage = "vertex" /\ IdOf(o, stage) = FirstOf(o)
                                /\ o.id = IdOf(o, stage) + 1)
  BY <1>1, <1>2
<1> QED
  BY <1>1, <1>2, <1>3, <1>4, <1>5, <1>6

(* The ring, and the passes before. *)
LEMMA AccessKeepsOld ==
  ASSUME NEW o, NEW n, NEW t, NEW r, NEW old, NEW before, NEW stage, NEW mode,
         AccessStep(o, n, t, r, old, before, stage, mode)
  PROVE  LET u == AnswerTo(o, t, stage, mode).tracker
         IN  IsRing(u.shared) /\ OldAreKnown(u, r, old, before, FirstOf(o))
<1> DEFINE a == AnswerTo(o, t, stage, mode)
           u == a.tracker
           id == IdOf(o, stage)
           first == FirstOf(o)
<1> SUFFICES IsRing(u.shared) /\ OldAreKnown(u, r, old, before, first)
  OBVIOUS
<1>1. /\ id \in Nat /\ first \in Nat /\ o.id \in Nat /\ first <= id /\ id <= o.id
      /\ id = o.id \/ (stage = "vertex" /\ id = first /\ o.id = id + 1)
      /\ t.exclusive \in Nat
      /\ t.shared # <<>> => Head(t.shared) \in Nat /\ Head(t.shared) <= o.id
      /\ IsWrite(mode) => WriteIs(t, a, id, first)
      /\ ~ IsWrite(mode) => ReadIs(t, a, id, first, o.id)
  BY AccessStepIs
<1>2. /\ IsRing(t.shared) /\ OldAreKnown(t, r, old, before, first) /\ t \in Tracker
      /\ IsBefore(before, first) /\ \A x \in old : x.id \in Nat
  BY DEF AccessStep, TrackerFits
<1> HIDE DEF a, id, first
<1>3. CASE IsWrite(mode)
  <2>1. u.exclusive = id /\ (u.shared = t.shared \/ u.shared = <<>>)
    <3>1. first <= t.exclusive \/ t.exclusive < first
      BY <1>1
    <3> QED
      BY <1>1, <1>3, <3>1 DEF WriteIs
  <2>2. IsRing(<<>>)
    BY DEF IsRing
  <2>3. first <= u.exclusive
    BY <1>1, <2>1
  <2> QED
    BY <1>2, <2>1, <2>2, <2>3 DEF OldAreKnown
<1>4. CASE ~ IsWrite(mode) /\ u.shared = t.shared
  <2>1. u.exclusive = t.exclusive
    BY <1>1, <1>4 DEF ReadIs
  <2> HIDE DEF u
  <2> QED
    BY <1>2, <1>4, <2>1 DEF OldAreKnown, Knows
<1>5. CASE ~ IsWrite(mode) /\ u.shared # t.shared
  <2>1. /\ u.exclusive = t.exclusive /\ u.shared = AddShared(t, id)
        /\ IsLastAccess(t, o.id) => id = o.id
    BY <1>1, <1>5 DEF ReadIs
  <2>2. t.shared # <<>> => Head(t.shared) <= id
    BY <1>1, <2>1 DEF IsLastAccess
  <2>3. /\ IsRing(u.shared)
        /\ \A i \in DOMAIN t.shared :
             t.shared[i] + Lane <= id \/ \E j \in DOMAIN u.shared : u.shared[j] = t.shared[i]
    BY <1>1, <1>2, <2>1, <2>2, RingGrows
  <2>4. u.shared # <<>> /\ Head(u.shared) = id
    BY <1>1, <1>2, <2>1, AddSharedIs
  <2> HIDE DEF u
  <2>5. ASSUME NEW x \in old, Knows(t, x, before) PROVE Knows(u, x, before)
    <3>0. Lane \in Nat /\ x.id \in Nat
      BY <1>2, LaneAssumption
    <3>1. CASE IsBehind(before, t.exclusive, x.id)
      BY <2>1, <3>1 DEF Knows
    <3>2. CASE ~ IsWrite(x.mode) /\ t.shared # <<>> /\ x.id + Lane <= Head(t.shared)
      <4>1. x.id + Lane <= id
        BY <1>1, <2>2, <3>0, <3>2
      <4> QED
        BY <2>4, <3>2, <4>1 DEF Knows
    <3>3. ASSUME ~ IsWrite(x.mode), NEW i \in DOMAIN t.shared, IsBehind(before, t.shared[i], x.id)
          PROVE  Knows(u, x, before)
      <4>1. t.shared[i] \in Nat /\ x.id <= t.shared[i]
        BY <1>1, <1>2, <3>3, BehindIsBelow
      <4>2. CASE t.shared[i] + Lane <= id
        <5>1. x.id + Lane <= id
          BY <1>1, <3>0, <4>1, <4>2
        <5> QED
          BY <2>4, <3>3, <5>1 DEF Knows
      <4>3. CASE \E j \in DOMAIN u.shared : u.shared[j] = t.shared[i]
        BY <2>4, <3>3, <4>3 DEF Knows
      <4> QED
        BY <2>3, <4>2, <4>3
    <3> QED
      BY <2>5, <3>1, <3>2, <3>3 DEF Knows
  <2>6. OldAreKnown(u, r, old, before, first)
    BY <1>2, <2>1, <2>5 DEF OldAreKnown
  <2> QED
    BY <2>3, <2>6
<1> QED
  BY <1>3, <1>4, <1>5

(* An access waits for what conflicts with it. *)
LEMMA AccessIsAfter ==
  ASSUME NEW o, NEW n, NEW t, NEW r, NEW old, NEW before, NEW stage, NEW mode,
         AccessStep(o, n, t, r, old, before, stage, mode)
  PROVE  UsesAreAfter(n, r, old, before)
<1> DEFINE answer == AnswerTo(o, t, stage, mode)
           use == Use(o, stage, r, mode)
           id == IdOf(o, stage)
           first == FirstOf(o)
<1>1. /\ id \in Nat /\ first \in Nat /\ o.id \in Nat /\ first <= id /\ id <= o.id
      /\ id = o.id \/ (stage = "vertex" /\ id = first /\ o.id = id + 1)
      /\ stage = "pixel" => o.type = "render" /\ first = o.vertex /\ o.id = o.vertex + 1
      /\ t.exclusive \in Nat
      /\ t.shared # <<>> => Head(t.shared) \in Nat /\ Head(t.shared) <= o.id
      /\ IsWrite(mode) => WriteIs(t, answer, id, first)
      /\ ~ IsWrite(mode) => ReadIs(t, answer, id, first, o.id)
      /\ stage = "compute" => first = o.id
  BY AccessStepIs
<1>2. /\ t \in Tracker /\ UsesAreOf(o) /\ stage \in {"compute", "vertex", "pixel"}
      /\ IsBefore(before, first) /\ \A a \in old : a.id \in Nat
      /\ OldAreKnown(t, r, old, before, first) /\ UsesAreAfter(o, r, old, before)
      /\ OwnAreKnown(o, t, r, first)
  BY DEF AccessStep, TrackerFits
<1>3. /\ IsPassOf(o) /\ n.vertex = o.vertex
      /\ (stage = "compute") <=> o.type # "render"
      /\ \A u \in n.uses : u.res = r => u \in o.uses \/ u = use
      /\ \A x : WaitsAt(o, x) \subseteq WaitsAt(n, x)
      /\ answer.waits \subseteq WaitsAt(n, use.id)
      /\ stage = "vertex" =>
           \A u \in o.uses : ~ (u.stage = "pixel" /\ Conflict(u, use))
  BY DEF AccessStep, AccessOf
<1>4. use.id = id /\ use.stage = stage /\ use.res = r /\ use.mode = mode
  BY DEF Use, IdOf
<1>5. \A w \in o.uses : (w.stage = "vertex" /\ w.id = o.vertex)
                        \/ (w.stage # "vertex" /\ w.id = o.id)
  BY <1>2 DEF UsesAreOf
<1>6. \A w \in o.uses : w.stage \in (IF o.type = "render" THEN {"vertex", "pixel"} ELSE {"compute"})
  BY <1>2 DEF UsesAreOf
<1>7. stage = "vertex" => id = o.vertex /\ o.id # id /\ o.type = "render"
  <2>1. stage = "vertex" => id = o.vertex
    BY DEF IdOf
  <2>2. stage = "vertex" => o.type = "render"
    BY <1>3
  <2>3. stage = "vertex" => o.id = o.vertex + 1 /\ o.vertex \in Nat
    BY <2>2, <1>2, <1>3, IdsOfPass
  <2> QED
    BY <2>1, <2>2, <2>3
<1> HIDE DEF answer, use, id, first
<1>8. ASSUME NEW w \in o.uses, NEW a, UseIsAfter(o, w, a, before),
             w.id = id \/ stage = "pixel"
      PROVE  UseIsAfter(n, use, a, before)
  <2>1. UseIsAfter(o, use, a, before)
    BY <1>2, <1>3, <1>8, SameStageIsAfter DEF use, id
  <2> QED
    BY <2>1, <1>3, WaitsGrow
<1> SUFFICES ASSUME NEW u \in n.uses, NEW a \in old, u.res = r, Conflict(a, u),
                    ~ IsForgotten(old, a)
             PROVE  UseIsAfter(n, u, a, before)
  BY DEF UsesAreAfter
<1>9. CASE u \in o.uses
  <2>1. UseIsAfter(o, u, a, before)
    BY <1>2, <1>9 DEF UsesAreAfter
  <2> QED
    BY <1>3, <2>1, WaitsGrow
<1>10. ASSUME u = use PROVE UseIsAfter(n, use, a, before)
  <2>1. a.res = r /\ (IsWrite(a.mode) \/ IsWrite(mode)) /\ a.id \in Nat
    BY <1>2, <1>4, <1>10 DEF Conflict
  <2>2. ASSUME NEW w \in o.uses, w.res = r, IsWrite(a.mode) \/ IsWrite(w.mode),
               w.id = id \/ stage = "pixel"
        PROVE  UseIsAfter(n, use, a, before)
    <3>1. Conflict(a, w)
      BY <2>1, <2>2 DEF Conflict
    <3>2. UseIsAfter(o, w, a, before)
      BY <1>2, <2>2, <3>1 DEF UsesAreAfter
    <3> QED
      BY <1>8, <2>2, <3>2
  <2>3. CASE first <= t.exclusive
    <3>1. PICK w \in o.uses : w.res = r /\ w.id = t.exclusive /\ IsWrite(w.mode)
      BY <1>2, <2>3 DEF OwnAreKnown
    <3>2. w.id = id \/ stage = "pixel"
      <4>1. CASE stage = "compute"
        BY <1>1, <1>3, <1>5, <1>6, <4>1
      <4>2. CASE stage = "vertex"
        <5>1. Conflict(w, use)
          BY <1>4, <3>1 DEF Conflict
        <5>2. w.stage # "pixel"
          BY <1>3, <4>2, <5>1
        <5> QED
          BY <1>5, <1>6, <1>7, <4>2, <5>2
      <4> QED
        BY <1>2, <4>1, <4>2
    <3> QED
      BY <2>2, <3>1, <3>2
  <2>4. CASE t.exclusive < first
    <3>0. ~ (first <= t.exclusive)
      BY <1>1, <2>4
    <3>1. Knows(t, a, before)
      BY <1>2, <2>1, <2>4, <3>0 DEF OldAreKnown
    <3>2. ASSUME IsAfter(n, id, a.id, before) PROVE UseIsAfter(n, use, a, before)
      BY <1>4, <3>2 DEF UseIsAfter
    <3>3. ASSUME NEW y, IsBehind(before, y, a.id),
                 id < y + Lane => Fence(y) \in answer.waits
          PROVE  UseIsAfter(n, use, a, before)
      <4>1. id < y + Lane => Fence(y) \in WaitsAt(n, id)
        BY <1>3, <1>4, <3>3
      <4>2. IsAfter(n, id, a.id, before)
        BY <1>1, <1>2, <3>3, <4>1, BehindIsAfter
      <4> QED
        BY <3>2, <4>2
    <3>4. CASE IsBehind(before, t.exclusive, a.id)
      <4>1. t.exclusive # 0
        BY <1>1, <1>2, <3>4, BehindIsBelow
      <4>2. CASE WaitsForWriter(t, id, answer.waits)
        BY <3>3, <3>4, <4>1, <4>2 DEF WaitsForWriter
      <4>3. CASE ~ WaitsForWriter(t, id, answer.waits)
        <5>1. ~ IsWrite(mode) /\ IsWrite(a.mode)
          BY <1>1, <2>1, <2>4, <4>3 DEF WriteIs
        <5>2. \/ IsLastAccess(t, id)
              \/ id = first /\ IsLastAccess(t, o.id) /\ t.isSharedPreRaster
          BY <1>1, <2>4, <4>3, <5>1 DEF ReadIs
        <5>3. CASE IsLastAccess(t, id)
          <6>1. HasLast(t, first) /\ Head(t.shared) = id
            BY <1>1, <5>3 DEF IsLastAccess, HasLast
          <6>2. PICK w \in o.uses : w.res = r /\ w.id = id
            BY <1>2, <6>1 DEF OwnAreKnown
          <6> QED
            BY <2>2, <5>1, <6>2
        <5>4. CASE ~ IsLastAccess(t, id)
          <6>1. id = first /\ id # o.id /\ IsLastAccess(t, o.id) /\ t.isSharedPreRaster
            BY <5>2, <5>4
          <6>2. stage = "vertex" /\ o.type = "render" /\ id = o.vertex
            BY <1>1, <1>7, <6>1
          <6>3. PICK w \in o.uses : w.res = r /\ w.id = o.vertex
            BY <1>2, <2>4, <6>1, <6>2 DEF OwnAreKnown
          <6> QED
            BY <2>2, <5>1, <6>2, <6>3
        <5> QED
          BY <5>3, <5>4
      <4> QED
        BY <4>2, <4>3
    <3>5. ASSUME ~ IsBehind(before, t.exclusive, a.id)
          PROVE  UseIsAfter(n, use, a, before)
      <4>1. /\ ~ IsWrite(a.mode) /\ IsWrite(mode) /\ t.shared # <<>>
            /\ \/ a.id + Lane <= Head(t.shared)
               \/ \E i \in DOMAIN t.shared : IsBehind(before, t.shared[i], a.id)
        BY <2>1, <3>1, <3>5 DEF Knows
      <4>2. CASE a.id + Lane <= Head(t.shared)
        <5>1. CASE Head(t.shared) <= id
          <6>1. a.id + Lane <= id
            BY <1>1, <2>1, <4>1, <4>2, <5>1, LaneAssumption
          <6> QED
            BY <3>2, <6>1 DEF IsAfter
        <5>2. CASE ~ (Head(t.shared) <= id)
          <6>1. stage = "vertex" /\ first <= Head(t.shared) /\ Head(t.shared) = o.id
            BY <1>1, <4>1, <5>2
          <6>2. PICK w \in o.uses : w.res = r /\ w.id = o.id
            BY <1>2, <4>1, <6>1 DEF OwnAreKnown, HasLast
          <6>3. w.stage = "pixel"
            BY <1>5, <1>6, <1>7, <6>1, <6>2
          <6>4. Conflict(w, use)
            BY <1>4, <4>1, <6>2 DEF Conflict
          <6> QED
            BY <1>3, <6>1, <6>3, <6>4
        <5> QED
          BY <5>1, <5>2
      <4>3. ASSUME NEW i \in DOMAIN t.shared, IsBehind(before, t.shared[i], a.id)
            PROVE  UseIsAfter(n, use, a, before)
        <5> DEFINE c == t.shared[i]
        <5>1. c \in Nat /\ c < first
          BY <1>1, <1>2, <4>3, BehindIsBelow
        <5>2. RecentReaders(t, id) \subseteq answer.waits
          BY <1>1, <2>4, <4>1 DEF WriteIs
        <5>3. c \in ToSet(t.shared)
          BY <4>3 DEF ToSet
        <5> HIDE DEF c
        <5>4. c < id
          BY <1>1, <5>1
        <5>5. id < c + Lane => c + Lane > id
          BY <1>1, <5>1, LaneAssumption
        <5>6. id < c + Lane => Fence(c) \in RecentReaders(t, id)
          BY <5>3, <5>4, <5>5 DEF RecentReaders
        <5>7. id < c + Lane => Fence(c) \in answer.waits
          BY <5>2, <5>6
        <5> QED
          BY <3>3, <4>3, <5>7 DEF c
      <4> QED
        BY <4>1, <4>2, <4>3
    <3> QED
      BY <3>4, <3>5
  <2> QED
    BY <1>1, <2>3, <2>4
<1> QED
  BY <1>3, <1>9, <1>10

(* The tracker knows the access. *)
LEMMA AccessIsKnown ==
  ASSUME NEW o, NEW n, NEW t, NEW r, NEW old, NEW before, NEW stage, NEW mode,
         AccessStep(o, n, t, r, old, before, stage, mode)
  PROVE  OwnAreKnown(n, AnswerTo(o, t, stage, mode).tracker, r, FirstOf(o))
<1> DEFINE answer == AnswerTo(o, t, stage, mode)
           new == answer.tracker
           use == Use(o, stage, r, mode)
           id == IdOf(o, stage)
           first == FirstOf(o)
<1>1. /\ id \in Nat /\ first \in Nat /\ o.id \in Nat /\ first <= id /\ id <= o.id
      /\ id = o.id \/ (stage = "vertex" /\ id = first /\ o.id = id + 1)
      /\ stage = "pixel" => o.type = "render" /\ first = o.vertex /\ o.id = o.vertex + 1
      /\ t.exclusive \in Nat /\ t.exclusive <= o.id
      /\ t.shared # <<>> => Head(t.shared) \in Nat /\ Head(t.shared) <= o.id
      /\ IsWrite(mode) => WriteIs(t, answer, id, first)
      /\ ~ IsWrite(mode) => ReadIs(t, answer, id, first, o.id)
      /\ o.type = "render" => FlagIs(t, new, id, first, o.id)
      /\ stage = "compute" => first = o.id
  BY AccessStepIs
<1>2. /\ t \in Tracker /\ UsesAreOf(o) /\ stage \in {"compute", "vertex", "pixel"}
      /\ OwnAreKnown(o, t, r, first)
  BY DEF AccessStep, TrackerFits
<1>3. /\ IsPassOf(o) /\ n.vertex = o.vertex /\ n.type = o.type /\ n.id = o.id
      /\ (stage = "compute") <=> o.type # "render"
      /\ \A u \in n.uses : u.res = r => u \in o.uses \/ u = use
      /\ use \in n.uses /\ o.uses \subseteq n.uses
      /\ stage = "vertex" =>
           \A u \in o.uses : ~ (u.stage = "pixel" /\ Conflict(u, use))
  BY DEF AccessStep, AccessOf
<1>4. use.id = id /\ use.stage = stage /\ use.res = r /\ use.mode = mode
  BY DEF Use, IdOf
<1>5. /\ \A w \in o.uses : (w.stage = "vertex" /\ w.id = o.vertex)
                           \/ (w.stage # "vertex" /\ w.id = o.id)
      /\ \A w \in o.uses :
           w.stage \in (IF o.type = "render" THEN {"vertex", "pixel"} ELSE {"compute"})
  BY <1>2 DEF UsesAreOf
<1>6. o.type = "render" => first = o.vertex
  BY DEF FirstOf
<1>7. IsWrite(mode) => new.exclusive = id
  BY <1>1 DEF WriteIs
<1>8. ~ IsWrite(mode) => new.exclusive = t.exclusive
  BY <1>1 DEF ReadIs
<1>9. \/ new.shared = t.shared
      \/ IsWrite(mode) /\ new.shared = <<>>
      \/ /\ ~ IsWrite(mode) /\ t.exclusive < first /\ new.shared # <<>>
         /\ Head(new.shared) = id /\ (IsLastAccess(t, o.id) => id = o.id)
  <2>1. CASE IsWrite(mode)
    <3>1. first <= t.exclusive \/ t.exclusive < first
      BY <1>1
    <3> QED
      BY <1>1, <2>1, <3>1 DEF WriteIs
  <2>2. ASSUME ~ IsWrite(mode), new.shared # t.shared
        PROVE  /\ t.exclusive < first /\ new.shared # <<>>
               /\ Head(new.shared) = id /\ (IsLastAccess(t, o.id) => id = o.id)
    <3>1. /\ t.exclusive < first /\ new.shared = AddShared(t, id)
          /\ IsLastAccess(t, o.id) => id = o.id
      BY <1>1, <2>2 DEF ReadIs
    <3>2. AddShared(t, id) # <<>> /\ Head(AddShared(t, id)) = id
      BY <1>1, <1>2, AddSharedIs
    <3> QED
      BY <3>1, <3>2
  <2> QED
    BY <2>1, <2>2
<1> HIDE DEF answer, new, use, id, first
<1>10. first <= new.exclusive =>
         \E u \in n.uses : u.res = r /\ u.id = new.exclusive /\ IsWrite(u.mode)
  <2>1. CASE IsWrite(mode)
    BY <1>3, <1>4, <1>7, <2>1
  <2>2. CASE ~ IsWrite(mode)
    BY <1>2, <1>3, <1>8, <2>2 DEF OwnAreKnown
  <2> QED
    BY <2>1, <2>2
<1>11. HasLast(new, first) => \E u \in n.uses : u.res = r /\ u.id = Head(new.shared)
  <2>1. CASE new.shared = t.shared
    BY <1>2, <1>3, <2>1 DEF OwnAreKnown, HasLast
  <2>2. CASE new.shared = <<>>
    BY <2>2 DEF HasLast
  <2>3. CASE Head(new.shared) = id
    BY <1>3, <1>4, <2>3
  <2> QED
    BY <1>9, <2>1, <2>2, <2>3
<1>12. ASSUME n.type = "render", new.exclusive < first, IsLastAccess(new, n.id),
              new.isSharedPreRaster
       PROVE  \E u \in n.uses : u.res = r /\ u.id = n.vertex
  <2>1. \/ id = first \/ IsLastAccess(t, first)
        \/ t.exclusive < first /\ IsLastAccess(t, o.id) /\ t.isSharedPreRaster
    BY <1>1, <1>3, <1>12 DEF FlagIs
  <2>2. CASE id = first
    BY <1>3, <1>4, <1>6, <1>12, <2>2
  <2>3. CASE IsLastAccess(t, first)
    <3>1. HasLast(t, first) /\ Head(t.shared) = first
      BY <1>1, <2>3 DEF HasLast, IsLastAccess
    <3> QED
      BY <1>2, <1>3, <1>6, <1>12, <3>1 DEF OwnAreKnown
  <2>4. CASE t.exclusive < first /\ IsLastAccess(t, o.id) /\ t.isSharedPreRaster
    BY <1>2, <1>3, <1>12, <2>4 DEF OwnAreKnown
  <2> QED
    BY <2>1, <2>2, <2>3, <2>4
<1>13. ASSUME NEW w \in n.uses, w.res = r, ~ IsForgotten(n.uses, w)
       PROVE  \/ first <= new.exclusive /\ w.id <= new.exclusive
              \/ ~ IsWrite(w.mode) /\ HasLast(new, first) /\ w.id <= Head(new.shared)
  <2>1. CASE w \in o.uses /\ IsWrite(mode)
    <3>1. w.id <= id
      <4>1. CASE id = o.id
        <5>1. w.id = o.id \/ (w.id = o.vertex /\ o.type = "render")
          BY <1>5, <2>1
        <5> QED
          BY <1>1, <1>6, <4>1, <5>1
      <4>2. CASE stage = "vertex"
        <5>1. Conflict(w, use)
          BY <1>4, <1>13, <2>1 DEF Conflict
        <5>2. w.stage # "pixel" /\ o.type = "render"
          BY <1>3, <2>1, <4>2, <5>1
        <5>3. w.id = o.vertex
          BY <1>5, <2>1, <5>2
        <5> QED
          BY <1>1, <1>6, <5>2, <5>3
      <4> QED
        BY <1>1, <4>1, <4>2
    <3> QED
      BY <1>1, <1>7, <2>1, <3>1
  <2>2. CASE w \in o.uses /\ ~ IsWrite(mode)
    <3>1. ~ IsForgotten(o.uses, w)
      BY <1>3, <1>13 DEF IsForgotten
    <3>2. \/ first <= t.exclusive /\ w.id <= t.exclusive
          \/ ~ IsWrite(w.mode) /\ HasLast(t, first) /\ w.id <= Head(t.shared)
      BY <1>2, <1>13, <2>2, <3>1 DEF OwnAreKnown
    <3>3. CASE first <= t.exclusive /\ w.id <= t.exclusive
      BY <1>8, <2>2, <3>3
    <3>4. CASE ~ IsWrite(w.mode) /\ HasLast(t, first) /\ w.id <= Head(t.shared)
      <4>1. CASE new.shared = t.shared
        BY <3>4, <4>1 DEF HasLast
      <4>2. CASE /\ new.shared # <<>>
                 /\ Head(new.shared) = id /\ (IsLastAccess(t, o.id) => id = o.id)
        <5>1. t.shared # <<>> /\ first <= Head(t.shared)
          BY <3>4 DEF HasLast
        <5>2. Head(t.shared) <= id
          BY <1>1, <4>2, <5>1 DEF IsLastAccess
        <5>3. w.id \in Nat
          BY <1>1, <1>5, <1>6, <2>2
        <5>4. w.id <= id
          BY <1>1, <3>4, <5>1, <5>2, <5>3
        <5> QED
          BY <1>1, <3>4, <4>2, <5>4 DEF HasLast
      <4> QED
        BY <1>9, <2>2, <4>1, <4>2
    <3> QED
      BY <3>2, <3>3, <3>4
  <2>3. CASE w = use /\ IsWrite(mode)
    BY <1>1, <1>4, <1>7, <2>3
  <2>4. CASE w = use /\ ~ IsWrite(mode) /\ t.exclusive < first
    <3>1. IsLastAccess(new, id) \/ IsLastAccess(new, o.id)
      BY <1>1, <2>4 DEF ReadIs, new
    <3>2. HasLast(new, first) /\ id <= Head(new.shared)
      BY <1>1, <3>1 DEF HasLast, IsLastAccess
    <3> QED
      BY <1>4, <2>4, <3>2
  <2>5. CASE w = use /\ ~ IsWrite(mode) /\ first <= t.exclusive
    <3>1. CASE id <= t.exclusive
      BY <1>4, <1>8, <2>5, <3>1
    <3>2. CASE ~ (id <= t.exclusive)
      <4>1. id # first /\ id = o.id
        BY <1>1, <2>5, <3>2
      <4>2. stage = "pixel"
        <5>1. stage = "vertex" => id = first
          BY <1>2, <1>3, IdsOfPass DEF id, first
        <5> QED
          BY <1>1, <1>2, <4>1, <5>1
      <4>3. o.type = "render" /\ first = o.vertex /\ o.id = o.vertex + 1
        BY <1>1, <4>2
      <4>4. t.exclusive = o.vertex
        BY <1>1, <2>5, <3>2, <4>1, <4>3
      <4>5. PICK x \in o.uses : x.res = r /\ x.id = o.vertex /\ IsWrite(x.mode)
        BY <1>2, <2>5, <4>4 DEF OwnAreKnown
      <4>6. x.stage = "vertex"
        BY <1>1, <1>5, <4>1, <4>3, <4>5
      <4>7. Conflict(x, use) /\ x.id + 1 = use.id
        BY <1>4, <4>1, <4>3, <4>5 DEF Conflict
      <4>8. use.stage = "pixel" /\ ~ IsWrite(use.mode)
        BY <1>4, <2>5, <4>2
      <4>9. IsForgotten(n.uses, use)
        BY <1>3, <4>6, <4>7, <4>8 DEF IsForgotten
      <4> QED
        BY <1>13, <2>5, <4>9
    <3> QED
      BY <3>1, <3>2
  <2> QED
    BY <1>1, <1>3, <1>13, <2>1, <2>2, <2>3, <2>4, <2>5
<1> QED
  BY <1>10, <1>11, <1>12, <1>13 DEF OwnAreKnown, new, first, answer

LEMMA AccessFits ==
  ASSUME NEW o, NEW n, NEW t, NEW r, NEW old, NEW before, NEW stage, NEW mode,
         AccessStep(o, n, t, r, old, before, stage, mode)
  PROVE  TrackerFits(n, AnswerTo(o, t, stage, mode).tracker, r, old, before, FirstOf(o))
<1>1. LET u == AnswerTo(o, t, stage, mode).tracker
      IN  IsRing(u.shared) /\ OldAreKnown(u, r, old, before, FirstOf(o))
  BY AccessKeepsOld
<1>2. UsesAreAfter(n, r, old, before)
  BY AccessIsAfter
<1>3. OwnAreKnown(n, AnswerTo(o, t, stage, mode).tracker, r, FirstOf(o))
  BY AccessIsKnown
<1> QED
  BY <1>1, <1>2, <1>3 DEF TrackerFits

-----------------------------------------------------------------------------
(* The accesses of a pass, one after the other. "g" is what is encoded.    *)

PassesAreOrdered(first, g) ==
  /\ first \in Nat /\ IsBefore(g.before, first)
  /\ \A a \in g.uses : a.id \in FenceCount .. first - 1
  /\ DOMAIN g.host = DOMAIN g.before /\ AreOrdered(g)

PassFits(e, ts, g) ==
  /\ PassesAreOrdered(FirstOf(e), g) /\ UsesAreOf(e)
  /\ \A r \in Resources : TrackerFits(e, ts[r], r, g.uses, g.before, FirstOf(e))

FragmentStaysLast(e, resources, stage, mode) ==
  stage = "vertex" =>
    \A r \in resources, u \in e.uses :
      ~ (u.stage = "pixel" /\ Conflict(u, Use(e, stage, r, mode)))

(* A resource that is not accessed. *)
LEMMA OtherFits ==
  ASSUME NEW o, NEW n, NEW t, NEW r, NEW old, NEW before, NEW first,
         TrackerFits(o, t, r, old, before, first),
         n.type = o.type, n.id = o.id, n.vertex = o.vertex, o.uses \subseteq n.uses,
         \A u \in n.uses : u.res = r => u \in o.uses,
         \A id : WaitsAt(o, id) \subseteq WaitsAt(n, id)
  PROVE  TrackerFits(n, t, r, old, before, first)
<1>1. /\ IsRing(t.shared) /\ OldAreKnown(t, r, old, before, first)
      /\ UsesAreAfter(o, r, old, before) /\ OwnAreKnown(o, t, r, first)
  BY DEF TrackerFits
<1>2. UsesAreAfter(n, r, old, before)
  <2> SUFFICES ASSUME NEW u \in n.uses, NEW a \in old, u.res = r, Conflict(a, u),
                      ~ IsForgotten(old, a)
               PROVE  UseIsAfter(n, u, a, before)
    BY DEF UsesAreAfter
  <2>1. UseIsAfter(o, u, a, before)
    BY <1>1 DEF UsesAreAfter
  <2> QED
    BY <2>1, WaitsGrow
<1>3. OwnAreKnown(n, t, r, first)
  <2>1. first <= t.exclusive =>
          \E u \in n.uses : u.res = r /\ u.id = t.exclusive /\ IsWrite(u.mode)
    BY <1>1 DEF OwnAreKnown
  <2>2. HasLast(t, first) => \E u \in n.uses : u.res = r /\ u.id = Head(t.shared)
    BY <1>1 DEF OwnAreKnown
  <2>3. n.type = "render" /\ t.exclusive < first /\ IsLastAccess(t, n.id)
        /\ t.isSharedPreRaster => \E u \in n.uses : u.res = r /\ u.id = n.vertex
    BY <1>1 DEF OwnAreKnown
  <2>4. ASSUME NEW u \in n.uses, u.res = r, ~ IsForgotten(n.uses, u)
        PROVE  \/ first <= t.exclusive /\ u.id <= t.exclusive
               \/ ~ IsWrite(u.mode) /\ HasLast(t, first) /\ u.id <= Head(t.shared)
    <3>1. u \in o.uses /\ ~ IsForgotten(o.uses, u)
      BY <2>4 DEF IsForgotten
    <3> QED
      BY <1>1, <2>4, <3>1 DEF OwnAreKnown
  <2> QED
    BY <2>1, <2>2, <2>3, <2>4 DEF OwnAreKnown
<1> QED
  BY <1>1, <1>2, <1>3 DEF TrackerFits

LEMMA AccessedFits ==
  ASSUME NEW s, NEW resources, NEW stage, NEW mode, NEW g,
         MayAccess(s, resources, stage, mode), PassFits(s.encoder, s.trackers, g),
         FragmentStaysLast(s.encoder, resources, stage, mode)
  PROVE  LET n == Accessed(s, resources, stage, mode)
         IN  PassFits(n.encoder, n.trackers, g)
<1> DEFINE m == Accessed(s, resources, stage, mode)
           n == m.encoder
           e == s.encoder
           uses == { Use(e, stage, r, mode) : r \in resources }
           waits == WaitsOf(s, resources, stage, mode)
<1>1. /\ s.trackers \in [Resources -> Tracker] /\ AllBelow(s.trackers, e.id + 1)
      /\ IsPassOf(e) /\ IsEncoder(e)
      /\ resources \subseteq Resources /\ stage \in {"compute", "vertex", "pixel"}
      /\ (stage = "compute") <=> e.type # "render"
  BY DEF MayAccess, IsPassOf
<1>2. /\ PassesAreOrdered(FirstOf(e), g) /\ UsesAreOf(e)
      /\ \A r \in Resources : TrackerFits(e, s.trackers[r], r, g.uses, g.before, FirstOf(e))
  BY DEF PassFits
<1>3. /\ n.type = e.type /\ n.vertex = e.vertex /\ n.id = e.id
      /\ n.uses = e.uses \union uses
  BY <1>1, AccessedEncoder
<1>4. /\ stage = "vertex" => n.wait = e.wait /\ n.wait_vertex = e.wait_vertex \union waits
      /\ stage # "vertex" => n.wait = e.wait \union waits /\ n.wait_vertex = e.wait_vertex
  BY <1>1, AccessedWaits
<1>5. /\ \A r \in Resources : r \notin resources => m.trackers[r] = s.trackers[r]
      /\ \A r \in Resources : r \in resources =>
           m.trackers[r] = AnswerTo(e, s.trackers[r], stage, mode).tracker
  BY DEF Accessed
<1>6. \A r \in resources : AnswerTo(e, s.trackers[r], stage, mode).waits \subseteq waits
  BY DEF WaitsOf
<1>7. stage # "compute" => e.type = "render" /\ e.id # e.vertex
  <2>1. stage # "compute" => e.id = e.vertex + 1 /\ e.vertex \in Nat
    BY <1>1 DEF IsPassOf
  <2>2. stage # "compute" => e.id # e.vertex
    BY <2>1
  <2> QED
    BY <1>1, <2>2
<1>8. \A r : /\ Use(e, stage, r, mode).res = r /\ Use(e, stage, r, mode).stage = stage
             /\ Use(e, stage, r, mode).id = (IF stage = "vertex" THEN e.vertex ELSE e.id)
  BY DEF Use
<1> HIDE DEF m, waits
<1>9. FirstOf(n) = FirstOf(e)
  BY <1>3 DEF FirstOf
<1>10. \A id : WaitsAt(e, id) \subseteq WaitsAt(n, id)
  BY <1>3, <1>4 DEF WaitsAt
<1>11. waits \subseteq WaitsAt(n, IF stage = "vertex" THEN e.vertex ELSE e.id)
  BY <1>1, <1>3, <1>4, <1>7 DEF WaitsAt
<1>12. UsesAreOf(n)
  <2>1. \A u \in e.uses :
          /\ u.res \in Resources /\ u.id = IF u.stage = "vertex" THEN e.vertex ELSE e.id
          /\ u.stage \in (IF e.type = "render" THEN {"vertex", "pixel"} ELSE {"compute"})
    BY <1>2 DEF UsesAreOf
  <2>2. \A u \in uses :
          /\ u.res \in Resources /\ u.id = IF u.stage = "vertex" THEN e.vertex ELSE e.id
          /\ u.stage \in (IF e.type = "render" THEN {"vertex", "pixel"} ELSE {"compute"})
    BY <1>1, <1>8
  <2> HIDE DEF uses, e, n
  <2> QED
    BY <1>3, <2>1, <2>2 DEF UsesAreOf
<1>13. ASSUME NEW r \in Resources
       PROVE  TrackerFits(n, m.trackers[r], r, g.uses, g.before, FirstOf(e))
  <2> DEFINE t == s.trackers[r]
             use == Use(e, stage, r, mode)
  <2>0. TrackerFits(e, t, r, g.uses, g.before, FirstOf(e)) /\ t \in Tracker
        /\ IsBelow(t, e.id + 1)
    BY <1>1, <1>2 DEF AllBelow
  <2>1. CASE r \notin resources
    <3>1. m.trackers[r] = t
      BY <1>5, <2>1
    <3>2. \A u \in n.uses : u.res = r => u \in e.uses
      BY <1>3, <1>8, <2>1
    <3>3. e.uses \subseteq n.uses
      BY <1>3
    <3> HIDE DEF t, n, e, uses
    <3> QED
      BY <1>3, <1>10, <2>0, <3>1, <3>2, <3>3, OtherFits
  <2>2. CASE r \in resources
    <3>1. m.trackers[r] = AnswerTo(e, t, stage, mode).tracker
      BY <1>5, <2>2
    <3>2. \A u \in n.uses : u.res = r => u \in e.uses \/ u = use
      BY <1>3, <1>8
    <3>3. e.uses \subseteq n.uses /\ use \in n.uses
      BY <1>3, <2>2
    <3>4. AnswerTo(e, t, stage, mode).waits \subseteq WaitsAt(n, use.id)
      BY <1>6, <1>8, <1>11, <2>2
    <3>5. stage = "vertex" =>
            \A u \in e.uses : ~ (u.stage = "pixel" /\ Conflict(u, use))
      BY <2>2 DEF FragmentStaysLast
    <3> HIDE DEF t, n, e, uses, use
    <3>6. AccessOf(e, n, t, AnswerTo(e, t, stage, mode), r, stage, mode)
      BY <1>1, <1>3, <1>10, <2>0, <3>2, <3>3, <3>4, <3>5 DEF AccessOf, use
    <3>7. /\ FirstOf(e) \in Nat /\ IsBefore(g.before, FirstOf(e))
          /\ \A a \in g.uses : a.id \in Nat
      BY <1>2, FenceCountIs DEF PassesAreOrdered
    <3>8. AccessStep(e, n, t, r, g.uses, g.before, stage, mode)
      BY <1>1, <1>2, <2>0, <3>6, <3>7 DEF AccessStep
    <3> QED
      BY <3>1, <3>8, AccessFits
  <2> QED
    BY <2>1, <2>2
<1> HIDE DEF n, e
<1> QED
  BY <1>2, <1>9, <1>12, <1>13 DEF PassFits, n, m

-----------------------------------------------------------------------------
(* The end of a pass: "e" has all its accesses, "n" the simplified waits,  *)
(* and "f" is what is encoded with it.                                     *)

EndsPass(e, n, ts, g, f, summary) ==
  /\ IsPassOf(e) /\ ts \in [Resources -> Tracker] /\ AllBelow(ts, e.id + 1)
  /\ PassFits(e, ts, g)
  /\ n.type = e.type /\ n.id = e.id /\ n.vertex = e.vertex /\ n.uses = e.uses /\ UpdatesAre(n)
  /\ f = Encoded(g, n) /\ OrderIs(f.before, f.last, summary, e.id + 1)
  /\ \A id \in {e.id, FirstOf(e)} : WaitsAt(e, id) \subseteq summary[Fence(id)]

LEMMA EncodedHost ==
  ASSUME NEW g, NEW e
  PROVE  LET n == Encoded(g, e)
             ids == e.update \union e.update_vertex
         IN  /\ DOMAIN n.host = ids \union DOMAIN g.host /\ n.uses = g.uses \union e.uses
             /\ \A id \in ids : n.host[id] = e.id
             /\ \A id \in DOMAIN g.host : id \notin ids => n.host[id] = g.host[id]
<1> DEFINE ids == e.update \union e.update_vertex
           host == [id \in ids \union DOMAIN g.host |-> IF id \in ids THEN e.id ELSE g.host[id]]
           n == Encoded(g, e)
<1>1. n.host = host /\ n.uses = g.uses \union e.uses
  BY DEF Encoded
<1> HIDE DEF n
<1>2. /\ DOMAIN host = ids \union DOMAIN g.host /\ \A id \in ids : host[id] = e.id
      /\ \A id \in DOMAIN g.host : id \notin ids => host[id] = g.host[id]
  OBVIOUS
<1> HIDE DEF host
<1> QED
  BY <1>1, <1>2 DEF n

LEMMA EndIs ==
  ASSUME NEW e, NEW n, NEW ts, NEW g, NEW f, NEW summary, EndsPass(e, n, ts, g, f, summary)
  PROVE  LET first == FirstOf(e)
         IN  /\ e.id \in Nat /\ first \in Nat /\ FenceCount \in Nat
             /\ e.id = first \/ (e.type = "render" /\ e.id = first + 1)
             /\ e.type = "render" => first = e.vertex /\ e.id = first + 1
             /\ e.type # "render" => e.id = first
             /\ FenceCount <= first
             /\ DOMAIN f.before = FenceCount .. e.id /\ DOMAIN g.before = FenceCount .. first - 1
             /\ \A y \in DOMAIN g.before : f.before[y] = g.before[y]
             /\ e.type = "render" => e.vertex \in f.before[e.id]
             /\ DOMAIN f.host = DOMAIN f.before
             /\ \A y \in DOMAIN g.before : f.host[y] = g.host[y]
             /\ f.host[e.id] = e.id /\ f.host[first] = e.id
             /\ f.uses = g.uses \union e.uses
<1> DEFINE first == FirstOf(e)
           ids == n.update \union n.update_vertex
<1>1. /\ IsPassOf(e) /\ PassFits(e, ts, g) /\ n.type = e.type /\ n.id = e.id
      /\ n.vertex = e.vertex /\ n.uses = e.uses /\ UpdatesAre(n)
      /\ f = Encoded(g, n) /\ OrderIs(f.before, f.last, summary, e.id + 1)
  BY DEF EndsPass
<1>2. /\ e.id \in Nat /\ FenceCount \in Nat
      /\ e.type = "render" => first = e.vertex /\ e.id = first + 1 /\ first \in Nat
      /\ e.type # "render" => e.id = first
  BY <1>1, FenceCountIs DEF IsPassOf, FirstOf
<1>3. /\ n.update = {e.id} /\ ids = {e.id, first}
      /\ e.type = "render" => e.vertex \in n.update_vertex
  BY <1>1, <1>2 DEF UpdatesAre
<1>4. /\ first \in Nat /\ DOMAIN g.before = FenceCount .. first - 1
      /\ DOMAIN g.host = DOMAIN g.before
  BY <1>1 DEF PassFits, PassesAreOrdered, IsBefore
<1>5. DOMAIN f.before = FenceCount .. e.id
  <2>1. DOMAIN f.before = FenceCount .. (e.id + 1) - 1
    BY <1>1 DEF OrderIs
  <2> QED
    BY <1>2, <2>1
<1> HIDE DEF ids, first
<1>6. DOMAIN f.before = ids \union DOMAIN g.before
  BY <1>1, EncodedIs DEF ids
<1>7. FenceCount <= first
  <2>1. first \in DOMAIN f.before
    BY <1>3, <1>6
  <2>2. first \in FenceCount .. e.id
    BY <1>5, <2>1
  <2> QED
    BY <1>2, <1>4, <2>2
<1>8. \A y \in DOMAIN g.before : y \notin ids
  BY <1>2, <1>3, <1>4
<1>9. \A y \in DOMAIN g.before : f.before[y] = g.before[y]
  <2>1. \A y \in DOMAIN g.before :
          y \notin n.update \union n.update_vertex => Encoded(g, n).before[y] = g.before[y]
    BY ONLY EncodedIs
  <2> QED
    BY <1>1, <1>8, <2>1 DEF ids
<1>10. e.type = "render" => e.vertex \in f.before[e.id]
  <2>1. \A x \in n.update : Encoded(g, n).before[x] =
          DoneOf(g, n.wait_vertex) \union n.update_vertex \union DoneOf(g, n.wait)
    BY ONLY EncodedIs
  <2> QED
    BY <1>1, <1>3, <2>1
<1>11. /\ DOMAIN f.host = ids \union DOMAIN g.host /\ f.uses = g.uses \union e.uses
       /\ \A id \in ids : f.host[id] = e.id
       /\ \A id \in DOMAIN g.host : id \notin ids => f.host[id] = g.host[id]
  <2>1. LET ends == n.update \union n.update_vertex
            h == Encoded(g, n)
        IN  /\ DOMAIN h.host = ends \union DOMAIN g.host /\ h.uses = g.uses \union n.uses
            /\ \A id \in ends : h.host[id] = n.id
            /\ \A id \in DOMAIN g.host : id \notin ends => h.host[id] = g.host[id]
    BY ONLY EncodedHost
  <2> QED
    BY <1>1, <2>1 DEF ids
<1> QED
  BY <1>2, <1>3, <1>4, <1>5, <1>6, <1>7, <1>8, <1>9, <1>10, <1>11 DEF first

(* What a pass waits for is done before it. *)
LEMMA EndIsAfter ==
  ASSUME NEW e, NEW n, NEW ts, NEW g, NEW f, NEW summary, EndsPass(e, n, ts, g, f, summary),
         NEW id \in {e.id, FirstOf(e)}, NEW x \in FenceCount .. FirstOf(e) - 1,
         IsAfter(e, id, x, g.before)
  PROVE  x \in f.before[id]
<1>1. /\ e.id \in Nat /\ FirstOf(e) \in Nat /\ FenceCount \in Nat
      /\ e.id = FirstOf(e) \/ e.id = FirstOf(e) + 1
      /\ FenceCount <= FirstOf(e)
      /\ DOMAIN g.before = FenceCount .. FirstOf(e) - 1
      /\ \A y \in DOMAIN g.before : f.before[y] = g.before[y]
  <2>1. EndsPass(e, n, ts, g, f, summary)
    OBVIOUS
  <2> QED
    BY ONLY <2>1, EndIs
<1>2. /\ OrderIs(f.before, f.last, summary, e.id + 1)
      /\ WaitsAt(e, id) \subseteq summary[Fence(id)]
  BY DEF EndsPass
<1>3. id \in FenceCount .. (e.id + 1) - 1 /\ e.id + 1 <= id + FenceCount /\ x \in Nat
      /\ FenceCount <= x
  BY <1>1, FenceCountIs
<1>4. /\ IsClosed(f.before, f.before[id]) /\ CoversOld(f.before[id], id)
      /\ Covers(f.before[id], id, summary[Fence(id)])
  BY <1>2, <1>3 DEF OrderIs
<1>5. CASE x + Lane <= id
  BY <1>3, <1>4, <1>5 DEF CoversOld
<1>6. ASSUME NEW y \in DOMAIN g.before, IsBehind(g.before, y, x), IsFenceOf(id, Fence(y), y),
             Fence(y) \in WaitsAt(e, id)
      PROVE  x \in f.before[id]
  <2>1. y \in Nat /\ y >= FenceCount
    BY <1>1, <1>6
  <2>2. y \in f.before[id]
    BY <1>2, <1>4, <1>6, <2>1 DEF Covers
  <2>3. x = y \/ x \in f.before[y]
    BY <1>1, <1>6 DEF IsBehind
  <2> QED
    BY <1>4, <2>2, <2>3 DEF IsClosed
<1> QED
  BY <1>5, <1>6 DEF IsAfter

LEMMA EndUses ==
  ASSUME NEW e, NEW n, NEW ts, NEW g, NEW f, NEW summary, EndsPass(e, n, ts, g, f, summary),
         NEW u \in e.uses, NEW a \in g.uses, Conflict(a, u), ~ IsForgotten(g.uses, a)
  PROVE  a.id \in f.before[u.id]
<1>1. /\ e.type = "render" => FirstOf(e) = e.vertex /\ e.vertex \in f.before[e.id]
      /\ e.id \in FenceCount .. (e.id + 1) - 1
  <2>1. EndsPass(e, n, ts, g, f, summary)
    OBVIOUS
  <2>2. /\ e.type = "render" => FirstOf(e) = e.vertex /\ e.vertex \in f.before[e.id]
        /\ e.id \in Nat /\ FenceCount \in Nat /\ FenceCount <= FirstOf(e) /\ FirstOf(e) \in Nat
        /\ e.id = FirstOf(e) \/ e.id = FirstOf(e) + 1
    BY ONLY <2>1, EndIs
  <2> QED
    BY <2>2
<1>2. /\ PassFits(e, ts, g) /\ OrderIs(f.before, f.last, summary, e.id + 1)
  BY DEF EndsPass
<1>3. UsesAreOf(e) /\ a.id \in FenceCount .. FirstOf(e) - 1
  BY <1>2 DEF PassFits, PassesAreOrdered
<1>4. /\ u.res \in Resources /\ u.id = (IF u.stage = "vertex" THEN e.vertex ELSE e.id)
      /\ u.stage \in (IF e.type = "render" THEN {"vertex", "pixel"} ELSE {"compute"})
  BY <1>3 DEF UsesAreOf
<1>5. UsesAreAfter(e, u.res, g.uses, g.before)
  BY <1>2, <1>4 DEF PassFits, TrackerFits
<1>6. UseIsAfter(e, u, a, g.before)
  BY <1>5 DEF UsesAreAfter
<1>7. CASE IsAfter(e, u.id, a.id, g.before)
  <2>1. u.id \in {e.id, FirstOf(e)}
    BY <1>1, <1>4
  <2> QED
    BY <1>3, <1>7, <2>1, EndIsAfter
<1>8. CASE u.stage = "pixel" /\ IsAfter(e, e.vertex, a.id, g.before)
  <2>1. e.type = "render" /\ u.id = e.id
    BY <1>4, <1>8
  <2>2. e.vertex \in {e.id, FirstOf(e)} /\ e.vertex \in f.before[e.id]
    BY <1>1, <2>1
  <2>3. a.id \in f.before[e.vertex]
    BY <1>3, <1>8, <2>2, EndIsAfter
  <2>4. IsClosed(f.before, f.before[e.id])
    BY <1>1, <1>2 DEF OrderIs
  <2> QED
    BY <2>1, <2>2, <2>3, <2>4 DEF IsClosed
<1> QED
  BY <1>6, <1>7, <1>8 DEF UseIsAfter

LEMMA EndIsOrdered ==
  ASSUME NEW e, NEW n, NEW ts, NEW g, NEW f, NEW summary, EndsPass(e, n, ts, g, f, summary)
  PROVE  PassesAreOrdered(e.id + 1, f)
<1> DEFINE first == FirstOf(e)
<1>1. /\ e.id \in Nat /\ first \in Nat /\ FenceCount \in Nat
      /\ e.id = first \/ e.id = first + 1
      /\ FenceCount <= first
      /\ DOMAIN f.before = FenceCount .. e.id /\ DOMAIN g.before = FenceCount .. first - 1
      /\ DOMAIN f.host = DOMAIN f.before
      /\ \A y \in DOMAIN g.before : f.before[y] = g.before[y]
      /\ \A y \in DOMAIN g.before : f.host[y] = g.host[y]
      /\ f.host[e.id] = e.id /\ f.host[first] = e.id
      /\ f.uses = g.uses \union e.uses
  BY EndIs
<1>2. PassFits(e, ts, g) /\ OrderIs(f.before, f.last, summary, e.id + 1)
  BY DEF EndsPass
<1>3. /\ UsesAreOf(e) /\ \A a \in g.uses : a.id \in FenceCount .. first - 1
      /\ AreOrdered(g)
  BY <1>2 DEF PassFits, PassesAreOrdered
<1>4. \A u \in e.uses : u.id \in {e.id, first}
  <2>1. e.type = "render" => first = e.vertex
    BY DEF FirstOf
  <2> QED
    BY <1>3, <2>1 DEF UsesAreOf
<1> HIDE DEF first
<1>5. IsBefore(f.before, e.id + 1)
  <2>1. FenceCount .. (e.id + 1) - 1 = FenceCount .. e.id
    BY <1>1
  <2>2. \A b \in FenceCount .. (e.id + 1) - 1 : f.before[b] \subseteq FenceCount .. b - 1
    BY <1>2 DEF OrderIs
  <2> QED
    BY <1>1, <2>1, <2>2 DEF IsBefore
<1>6. \A a \in f.uses : a.id \in FenceCount .. (e.id + 1) - 1
  BY <1>1, <1>3, <1>4
<1>7. AreOrdered(f)
  <2> SUFFICES ASSUME NEW a \in f.uses, NEW b \in f.uses, a.id < b.id, Conflict(a, b),
                      f.host[a.id] # f.host[b.id], ~ IsForgotten(f.uses, a)
               PROVE  a.id \in f.before[b.id]
    BY DEF AreOrdered
  <2>1. ~ IsForgotten(g.uses, a)
    BY <1>1 DEF IsForgotten
  <2>2. CASE a \in g.uses /\ b \in g.uses
    <3>1. a.id \in DOMAIN g.before /\ b.id \in DOMAIN g.before
      BY <1>1, <1>3, <2>2
    <3>2. g.host[a.id] # g.host[b.id]
      BY <1>1, <3>1
    <3>3. a.id \in g.before[b.id]
      BY <1>3, <2>1, <2>2, <3>2 DEF AreOrdered
    <3> QED
      BY <1>1, <3>1, <3>3
  <2>3. CASE a \in g.uses /\ b \in e.uses
    BY <2>1, <2>3, EndUses
  <2>4. CASE a \in e.uses /\ b \in g.uses
    <3>1. a.id \in {e.id, first} /\ b.id \in FenceCount .. first - 1
      BY <1>3, <1>4, <2>4
    <3> QED
      BY <1>1, <3>1
  <2>5. CASE a \in e.uses /\ b \in e.uses
    BY <1>1, <1>4, <2>5
  <2> QED
    BY <1>1, <2>2, <2>3, <2>4, <2>5
<1> QED
  BY <1>1, <1>5, <1>6, <1>7 DEF PassesAreOrdered

LEMMA KnowsGrows ==
  ASSUME NEW t, NEW a, NEW before, NEW after, DOMAIN before \subseteq DOMAIN after,
         \A y \in DOMAIN before : after[y] = before[y], Knows(t, a, before)
  PROVE  Knows(t, a, after)
<1>1. \A y, x : IsBehind(before, y, x) => IsBehind(after, y, x)
  BY DEF IsBehind
<1> QED
  BY <1>1 DEF Knows

(* A tracker now knows the accesses of the pass among the old ones. *)
LEMMA EndIsKnown ==
  ASSUME NEW e, NEW n, NEW ts, NEW g, NEW f, NEW summary, EndsPass(e, n, ts, g, f, summary),
         NEW r \in Resources
  PROVE  IsRing(ts[r].shared) /\ OldAreKnown(ts[r], r, f.uses, f.before, e.id + 1)
<1> DEFINE first == FirstOf(e)
           t == ts[r]
<1>1. /\ e.id \in Nat /\ first \in Nat /\ FenceCount \in Nat
      /\ e.id = first \/ (e.type = "render" /\ e.id = first + 1)
      /\ e.type = "render" => first = e.vertex /\ e.vertex \in f.before[e.id]
      /\ FenceCount <= first
      /\ DOMAIN f.before = FenceCount .. e.id /\ DOMAIN g.before = FenceCount .. first - 1
      /\ \A y \in DOMAIN g.before : f.before[y] = g.before[y]
      /\ f.uses = g.uses \union e.uses
  BY EndIs
<1>2. PassFits(e, ts, g) /\ ts \in [Resources -> Tracker]
  BY DEF EndsPass
<1>3. /\ UsesAreOf(e) /\ IsRing(t.shared) /\ t \in Tracker
      /\ OldAreKnown(t, r, g.uses, g.before, first) /\ OwnAreKnown(e, t, r, first)
  BY <1>2 DEF PassFits, TrackerFits
<1>4. \A u \in e.uses : u.id \in {e.id, first}
  BY <1>1, <1>3 DEF UsesAreOf
<1> HIDE DEF first, t
<1>5. DOMAIN g.before \subseteq DOMAIN f.before /\ e.id \in DOMAIN f.before
      /\ first \in DOMAIN f.before
  BY <1>1
<1>6. ASSUME NEW u \in e.uses, NEW x \in {e.id, first}, x <= u.id
      PROVE  IsBehind(f.before, u.id, x)
  <2>1. u.id \in DOMAIN f.before
    BY <1>4, <1>5
  <2>2. CASE x = u.id
    BY <2>1, <2>2 DEF IsBehind
  <2>3. CASE x # u.id
    <3>1. x = first /\ u.id = e.id /\ e.type = "render"
      BY <1>1, <1>4, <1>6, <2>3
    <3> QED
      BY <1>1, <2>1, <3>1 DEF IsBehind
  <2> QED
    BY <2>2, <2>3
<1>7. ASSUME NEW a \in f.uses, a.res = r, ~ IsForgotten(f.uses, a)
      PROVE  Knows(t, a, f.before)
  <2>1. ~ IsForgotten(g.uses, a) /\ ~ IsForgotten(e.uses, a)
    BY <1>1, <1>7 DEF IsForgotten
  <2>2. CASE a \in g.uses /\ first <= t.exclusive
    <3>1. PICK w \in e.uses : w.res = r /\ w.id = t.exclusive /\ IsWrite(w.mode)
      BY <1>3, <2>2 DEF OwnAreKnown
    <3>2. Conflict(a, w)
      BY <1>7, <3>1 DEF Conflict
    <3>3. a.id \in f.before[w.id]
      BY <2>1, <2>2, <3>2, EndUses
    <3>4. w.id \in DOMAIN f.before
      BY <1>4, <1>5
    <3>5. IsBehind(f.before, t.exclusive, a.id)
      BY <3>1, <3>3, <3>4 DEF IsBehind
    <3> QED
      BY <3>5 DEF Knows
  <2>3. CASE a \in g.uses /\ ~ (first <= t.exclusive)
    <3>1. Knows(t, a, g.before)
      BY <1>3, <1>7, <2>1, <2>3 DEF OldAreKnown
    <3> QED
      BY <1>1, <1>5, <3>1, KnowsGrows
  <2>4. ASSUME a \in e.uses PROVE Knows(t, a, f.before)
    <3>0. a.id \in {e.id, first}
      BY <1>4, <2>4
    <3>1. \/ first <= t.exclusive /\ a.id <= t.exclusive
          \/ ~ IsWrite(a.mode) /\ HasLast(t, first) /\ a.id <= Head(t.shared)
      BY <1>3, <1>7, <2>1, <2>4 DEF OwnAreKnown
    <3>2. CASE first <= t.exclusive /\ a.id <= t.exclusive
      <4>1. PICK w \in e.uses : w.id = t.exclusive
        BY <1>3, <3>2 DEF OwnAreKnown
      <4>2. IsBehind(f.before, t.exclusive, a.id)
        BY <1>6, <3>0, <3>2, <4>1
      <4> QED
        BY <4>2 DEF Knows
    <3>3. CASE ~ IsWrite(a.mode) /\ HasLast(t, first) /\ a.id <= Head(t.shared)
      <4>1. PICK w \in e.uses : w.id = Head(t.shared)
        BY <1>3, <3>3 DEF OwnAreKnown
      <4>2. IsBehind(f.before, Head(t.shared), a.id)
        BY <1>6, <3>0, <3>3, <4>1
      <4>3. t.shared # <<>> /\ t.shared \in Seq(Nat)
        BY <1>3, <3>3 DEF HasLast, Tracker
      <4>4. 1 \in DOMAIN t.shared /\ t.shared[1] = Head(t.shared)
        BY <4>3
      <4>5. IsBehind(f.before, t.shared[1], a.id)
        BY <4>2, <4>4
      <4> QED
        BY <3>3, <4>3, <4>4, <4>5 DEF Knows
    <3> QED
      BY <3>1, <3>2, <3>3
  <2> QED
    BY <1>1, <2>2, <2>3, <2>4
<1> QED
  BY <1>3, <1>7 DEF OldAreKnown, t

-----------------------------------------------------------------------------
(* Between the passes, and at the start of one.                            *)

TrackersKnow(first, ts, g) ==
  \A r \in Resources :
    IsRing(ts[r].shared) /\ OldAreKnown(ts[r], r, g.uses, g.before, first)

LEMMA StartFits ==
  ASSUME NEW first \in Nat, NEW ts \in [Resources -> Tracker], AllBelow(ts, first), NEW g,
         TrackersKnow(first, ts, g), NEW e, e.uses = {},
         e.type = "render" => e.id \in Nat /\ first <= e.id
  PROVE  /\ UsesAreOf(e)
         /\ \A r \in Resources : TrackerFits(e, ts[r], r, g.uses, g.before, first)
<1>1. UsesAreOf(e)
  BY DEF UsesAreOf
<1>2. ASSUME NEW r \in Resources PROVE TrackerFits(e, ts[r], r, g.uses, g.before, first)
  <2> DEFINE t == ts[r]
  <2>1. IsRing(t.shared) /\ OldAreKnown(t, r, g.uses, g.before, first)
    BY DEF TrackersKnow
  <2>2. UsesAreAfter(e, r, g.uses, g.before)
    BY DEF UsesAreAfter
  <2>3. t \in Tracker /\ IsBelow(t, first)
    BY DEF AllBelow
  <2> HIDE DEF t
  <2>4. t.exclusive \in Nat /\ ~ (first <= t.exclusive)
    BY <2>3 DEF IsBelow, Tracker
  <2>5. t.shared # <<>> => Head(t.shared) \in Nat /\ Head(t.shared) < first
    <3>1. t.shared \in Seq(Nat)
      BY <2>3 DEF Tracker
    <3>2. t.shared # <<>> => 1 \in DOMAIN t.shared /\ Head(t.shared) = t.shared[1]
                             /\ t.shared[1] \in Nat
      BY <3>1
    <3> QED
      BY <2>3, <3>2 DEF IsBelow
  <2>6. ~ HasLast(t, first)
    BY <2>5 DEF HasLast
  <2>7. e.type = "render" => ~ IsLastAccess(t, e.id)
    BY <2>5 DEF IsLastAccess
  <2>8. OwnAreKnown(e, t, r, first)
    BY <2>4, <2>6, <2>7 DEF OwnAreKnown
  <2> QED
    BY <2>1, <2>2, <2>8 DEF TrackerFits, t
<1> QED
  BY <1>1, <1>2

-----------------------------------------------------------------------------
(* endPass: a render pass first writes its depth and stencil planes.       *)

MayEnd(s, g) ==
  /\ DistantWrites = FALSE /\ s.trackers \in [Resources -> Tracker]
  /\ IsPassOf(s.encoder) /\ AllBelow(s.trackers, s.encoder.id + 1)
  /\ WaitsReach(s.encoder) /\ UpdatesAre(s.encoder)
  /\ s.encoder.type = "render" =>
       /\ DOMAIN s.encoder.attachments \subseteq Planes
       /\ \A r \in ResourcesOf(DOMAIN s.encoder.attachments) :
            MayWrite(s.trackers[r], s.encoder.id)
  /\ FenceCount <= FirstOf(s.encoder)
  /\ OrderIs(g.before, g.last, fence_locality, FirstOf(s.encoder))

LEMMA FullHas ==
  ASSUME NEW strong, NEW id
  PROVE  strong \subseteq FullFences(strong, id)
  BY DEF FullFences, MergeWithLaneMaskOff

LEMMA WaitsOnly ==
  ASSUME NEW e, IsEncoder(e), NEW wait, NEW wait_vertex
  PROVE  LET n == [e EXCEPT !.wait = wait, !.wait_vertex = wait_vertex]
         IN  n.type = e.type /\ n.id = e.id /\ n.vertex = e.vertex /\ n.uses = e.uses
  BY DEF IsEncoder

LEMMA WaitOnly ==
  ASSUME NEW e, IsEncoder(e), NEW wait
  PROVE  LET n == [e EXCEPT !.wait = wait]
         IN  /\ n.type = e.type /\ n.id = e.id /\ n.vertex = e.vertex /\ n.uses = e.uses
             /\ n.update = e.update /\ n.update_vertex = e.update_vertex
  BY DEF IsEncoder

LEMMA LastAccess ==
  ASSUME NEW s, NEW g, MayEnd(s, g), s.encoder.type = "render"
  PROVE  MayAccess(s, ResourcesOf(DepthStencil(Written(s.encoder.attachments))), "pixel", "write")
<1> DEFINE planes == DepthStencil(Written(s.encoder.attachments))
           resources == ResourcesOf(planes)
<1>1. planes \subseteq DOMAIN s.encoder.attachments
  BY DEF DepthStencil, Written
<1>2. resources \subseteq Resources /\ resources \subseteq ResourcesOf(DOMAIN s.encoder.attachments)
  BY <1>1, ResourcesOfIs DEF MayEnd, ResourcesOf
<1>3. IdOf(s.encoder, "pixel") = s.encoder.id
  BY DEF IdOf
<1> HIDE DEF resources
<1>4. \A r \in resources : MayWrite(s.trackers[r], IdOf(s.encoder, "pixel"))
  BY <1>2, <1>3 DEF MayEnd
<1> QED
  BY <1>2, <1>4 DEF MayEnd, MayAccess, resources

LEMMA RenderEnds ==
  ASSUME NEW s, NEW g, MayEnd(s, g), PassFits(s.encoder, s.trackers, g),
         s.encoder.type = "render"
  PROVE  LET n == Ended(s)
         IN  \E e : e.id = s.encoder.id
                    /\ EndsPass(e, n.encoder, n.trackers, g, Encoded(g, n.encoder), n.summary)
<1> DEFINE n == Ended(s)
           f == Encoded(g, n.encoder)
           planes == DepthStencil(Written(s.encoder.attachments))
           resources == ResourcesOf(planes)
           w == Accessed(s, resources, "pixel", "write")
           e == w.encoder
           vertex == s.encoder.vertex
           id == s.encoder.id
           early == e.wait_vertex
           strong == e.wait \union { Fence(vertex) }
           first == [fence_locality EXCEPT ![Fence(vertex)] = FullFences(early, vertex)]
           wait == MinimalFences(FullFences(strong, id), first, id) \ { Fence(vertex) }
           wait_vertex == MinimalFences(FullFences(early, vertex), fence_locality, vertex)
<1>1. /\ DistantWrites = FALSE /\ s.trackers \in [Resources -> Tracker]
      /\ IsPassOf(s.encoder) /\ AllBelow(s.trackers, s.encoder.id + 1)
      /\ WaitsReach(s.encoder) /\ UpdatesAre(s.encoder)
      /\ DOMAIN s.encoder.attachments \subseteq Planes
      /\ \A r \in ResourcesOf(DOMAIN s.encoder.attachments) :
           MayWrite(s.trackers[r], s.encoder.id)
      /\ FenceCount <= FirstOf(s.encoder)
      /\ OrderIs(g.before, g.last, fence_locality, FirstOf(s.encoder))
  BY DEF MayEnd
<1>2. vertex \in Nat /\ id = vertex + 1 /\ FirstOf(s.encoder) = vertex
  BY <1>1 DEF IsPassOf, FirstOf
<1>3. OrderIs(f.before, f.last, n.summary, s.encoder.id + 1)
  BY <1>1, EndedOrder DEF FirstOf
<1>4. /\ n.summary = [first EXCEPT ![Fence(id)] = FullFences(strong, id)]
      /\ n.trackers = w.trackers
      /\ n.encoder = [e EXCEPT !.wait = wait, !.wait_vertex = wait_vertex]
  BY EndedRender
<1>5. MayAccess(s, resources, "pixel", "write")
  BY LastAccess
<1> HIDE DEF n, resources, planes
<1>6. PassFits(e, w.trackers, g)
  <2>1. FragmentStaysLast(s.encoder, resources, "pixel", "write")
    BY DEF FragmentStaysLast
  <2>2. PassFits(s.encoder, s.trackers, g)
    OBVIOUS
  <2> QED
    BY ONLY <1>5, <2>1, <2>2, AccessedFits
<1>7. /\ IsPassOf(e) /\ UpdatesAre(e) /\ e.id = s.encoder.id /\ e.type = s.encoder.type
      /\ e.vertex = s.encoder.vertex
      /\ w.trackers \in [Resources -> Tracker] /\ AllBelow(w.trackers, s.encoder.id + 1)
  BY ONLY <1>5, AccessedReaches
<1>8. IsEncoder(e)
  BY <1>7 DEF IsPassOf
<1> HIDE DEF w, wait, wait_vertex, early, strong
<1>9. /\ n.encoder.type = e.type /\ n.encoder.id = e.id /\ n.encoder.vertex = e.vertex
      /\ n.encoder.uses = e.uses
      /\ n.encoder.update = e.update /\ n.encoder.update_vertex = e.update_vertex
  <2>1. n.encoder.type = e.type /\ n.encoder.id = e.id /\ n.encoder.vertex = e.vertex
        /\ n.encoder.uses = e.uses
    BY <1>4, <1>8, WaitsOnly
  <2>2. n.encoder.update = e.update /\ n.encoder.update_vertex = e.update_vertex
    BY <1>4, <1>8, WithWaits
  <2> QED
    BY <2>1, <2>2
<1>10. UpdatesAre(n.encoder)
  BY <1>7, <1>9 DEF UpdatesAre
<1>11. /\ n.summary[Fence(id)] = FullFences(strong, id)
       /\ n.summary[Fence(vertex)] = FullFences(early, vertex)
  <2>1. Fence(id) \in DOMAIN fence_locality /\ Fence(vertex) \in DOMAIN fence_locality
    <3>1. DOMAIN fence_locality = 0 .. FenceCount - 1
      BY <1>1 DEF OrderIs
    <3>2. id \in Nat /\ vertex \in Nat
      BY <1>2
    <3> QED
      BY <3>1, <3>2, LaneOfFence
  <2>2. Fence(id) # Fence(vertex)
    <3>1. id \in Nat /\ id # vertex /\ vertex < id + FenceCount /\ id < vertex + FenceCount
      BY <1>2, FenceCountIs
    <3> QED
      BY <1>2, <3>1, SameFence
  <2> QED
    BY <1>4, <2>1, <2>2
<1>12. ASSUME NEW x \in {e.id, FirstOf(e)} PROVE WaitsAt(e, x) \subseteq n.summary[Fence(x)]
  <2>1. FirstOf(e) = vertex /\ e.type = "render" /\ e.vertex = vertex /\ e.id = id /\ id # vertex
    BY <1>2, <1>7 DEF FirstOf
  <2>2. CASE x = vertex
    BY <1>11, <2>1, <2>2, FullHas DEF WaitsAt, early
  <2>3. CASE x = id
    <3>1. WaitsAt(e, x) \subseteq strong
      BY <2>1, <2>3 DEF WaitsAt, strong
    <3> QED
      BY <1>11, <2>3, <3>1, FullHas
  <2> QED
    BY <2>1, <2>2, <2>3
<1>13. EndsPass(e, n.encoder, n.trackers, g, f, n.summary)
  BY <1>3, <1>4, <1>6, <1>7, <1>9, <1>10, <1>12 DEF EndsPass
<1> QED
  BY <1>7, <1>13 DEF n

LEMMA OtherEnds ==
  ASSUME NEW s, NEW g, MayEnd(s, g), PassFits(s.encoder, s.trackers, g),
         s.encoder.type # "render"
  PROVE  LET n == Ended(s)
         IN  EndsPass(s.encoder, n.encoder, n.trackers, g, Encoded(g, n.encoder), n.summary)
<1> DEFINE n == Ended(s)
           e == s.encoder
           f == Encoded(g, n.encoder)
           full == FullFences(e.wait, e.id)
           wait == MinimalFences(full, fence_locality, e.id)
<1>1. /\ DistantWrites = FALSE /\ s.trackers \in [Resources -> Tracker]
      /\ IsPassOf(s.encoder) /\ AllBelow(s.trackers, s.encoder.id + 1)
      /\ WaitsReach(s.encoder) /\ UpdatesAre(s.encoder)
      /\ FenceCount <= FirstOf(s.encoder)
      /\ OrderIs(g.before, g.last, fence_locality, FirstOf(s.encoder))
  BY DEF MayEnd
<1>2. e.id \in Nat /\ FirstOf(e) = e.id /\ IsEncoder(e) /\ e.type \notin {"render", "event"}
  BY <1>1 DEF IsPassOf, FirstOf
<1>3. OrderIs(f.before, f.last, n.summary, s.encoder.id + 1)
  BY <1>1, EndedOrder DEF FirstOf
<1>4. /\ n.summary = [fence_locality EXCEPT ![Fence(e.id)] = full]
      /\ n.trackers = s.trackers
      /\ n.encoder = [e EXCEPT !.wait = wait]
  BY <1>2, EndedOther
<1> HIDE DEF n, wait
<1>5. /\ n.encoder.type = e.type /\ n.encoder.id = e.id /\ n.encoder.vertex = e.vertex
      /\ n.encoder.uses = e.uses
      /\ n.encoder.update = e.update /\ n.encoder.update_vertex = e.update_vertex
  BY <1>2, <1>4, WaitOnly
<1>6. UpdatesAre(n.encoder)
  BY <1>1, <1>5 DEF UpdatesAre
<1>7. n.summary[Fence(e.id)] = full
  <2>1. Fence(e.id) \in DOMAIN fence_locality
    BY <1>1, <1>2, LaneOfFence DEF OrderIs
  <2> QED
    BY <1>4, <2>1
<1>8. WaitsAt(e, e.id) \subseteq n.summary[Fence(e.id)]
  BY <1>2, <1>7, FullHas DEF WaitsAt
<1> QED
  BY <1>1, <1>2, <1>3, <1>4, <1>5, <1>6, <1>8 DEF EndsPass, n

-----------------------------------------------------------------------------
(* The steps of ConflictInv.                                               *)

LEMMA EncodedConflicts ==
  ASSUME AreOrdered(gpu)
  PROVE  ConflictsAreOrdered
  BY DEF AreOrdered, IsForgotten, ConflictsAreOrdered, Forgotten

LEMMA ConflictsAre ==
  ASSUME ConflictInv, FenceInv, IdsInv
  PROVE  /\ PassesAreOrdered(FirstId, Flushed)
         /\ current = NoEncoder => FirstId = encoder_id
         /\ current # NoEncoder => FirstId = FirstOf(current)
         /\ TrackersKnow(FirstId, trackers, Flushed)
         /\ UsesAreOf(current)
         /\ \A r \in Resources :
              TrackerFits(current, trackers[r], r, Flushed.uses, Flushed.before, FirstId)
<1>1. /\ current = NoEncoder => FirstId = encoder_id
      /\ current # NoEncoder => FirstId = FirstOf(current)
  BY DEF FirstId, FirstOf
<1>2. FirstId \in Nat
  BY <1>1 DEF FirstOf, IdsInv, TypeOK, CurrentIs
<1>3. OrderIs(Flushed.before, Flushed.last, fence_locality, FirstId)
  BY DEF FenceInv
<1>4. IsBefore(Flushed.before, FirstId)
  BY <1>3 DEF OrderIs, IsBefore
<1>5. PassesAreOrdered(FirstId, Flushed)
  BY <1>2, <1>4 DEF ConflictInv, PassesAreOrdered
<1>6. TrackersKnow(FirstId, trackers, Flushed)
  BY DEF ConflictInv, TrackersKnow, TrackerFits
<1> QED
  BY <1>1, <1>5, <1>6 DEF ConflictInv

LEMMA PassStart ==
  ASSUME NEW first \in Nat, NEW ts \in [Resources -> Tracker], AllBelow(ts, first), NEW g,
         PassesAreOrdered(first, g), TrackersKnow(first, ts, g), NEW e, e.uses = {},
         FirstOf(e) = first, e.type = "render" => e.id \in Nat /\ first <= e.id
  PROVE  PassFits(e, ts, g)
  BY StartFits DEF PassFits

(* No pass is being recorded. *)
LEMMA BetweenConflicts ==
  ASSUME current' = NoEncoder, encoder_id' \in Nat, trackers' \in [Resources -> Tracker],
         AllBelow(trackers', encoder_id'), PassesAreOrdered(encoder_id', Flushed'),
         TrackersKnow(encoder_id', trackers', Flushed'), ConflictsAreOrdered'
  PROVE  ConflictInv'
<1>1. FirstId' = encoder_id'
  BY DEF FirstId
<1>2. current'.uses = {} /\ current'.type # "render"
  BY EncoderIs, NoEncoderIs DEF NoEncoder
<1>3. /\ UsesAreOf(current')
      /\ \A r \in Resources :
           TrackerFits(current', trackers'[r], r, Flushed'.uses, Flushed'.before, encoder_id')
  BY <1>2, StartFits
<1> QED
  BY <1>1, <1>3 DEF ConflictInv, PassesAreOrdered

(* A pass is being recorded. *)
LEMMA RecordingConflicts ==
  ASSUME current' # NoEncoder, PassFits(current', trackers', Flushed'), ConflictsAreOrdered'
  PROVE  ConflictInv'
<1>1. FirstId' = FirstOf(current')
  BY DEF FirstId, FirstOf
<1> QED
  BY <1>1 DEF ConflictInv, PassFits, PassesAreOrdered

LEMMA InitConflicts == Init => ConflictInv
<1> SUFFICES ASSUME Init PROVE ConflictInv
  OBVIOUS
<1>1. FenceCount \in Nat \ {0}
  BY FenceCountIs
<1>2. /\ encoder_id = FenceCount /\ current = NoEncoder /\ encoders = <<>>
      /\ gpu = NothingEncoded /\ trackers = [r \in Resources |-> NewTracker]
  BY DEF Init
<1>3. FirstId = FenceCount /\ Flushed = gpu
  BY <1>2 DEF FirstId, Flushed
<1>4. gpu.uses = {} /\ gpu.before = <<>> /\ gpu.host = <<>>
  BY <1>2 DEF NothingEncoded
<1>5. NewTracker \in Tracker /\ NewTracker.shared = <<>> /\ NewTracker.exclusive = 0
  BY DEF NewTracker, Tracker
<1>6. \A r \in Resources : trackers[r] = NewTracker
  BY <1>2
<1> HIDE DEF NewTracker
<1>7. AllBelow(trackers, FenceCount) /\ trackers \in [Resources -> Tracker]
  <2>1. IsBelow(NewTracker, FenceCount)
    BY <1>1, <1>5 DEF IsBelow
  <2> QED
    BY <1>2, <1>5, <1>6, <2>1 DEF AllBelow
<1>8. TrackersKnow(FenceCount, trackers, gpu)
  BY <1>4, <1>5, <1>6 DEF TrackersKnow, IsRing, OldAreKnown
<1>9. current.uses = {} /\ current.type # "render"
  BY <1>2, EncoderIs, NoEncoderIs DEF NoEncoder
<1>10. /\ UsesAreOf(current)
       /\ \A r \in Resources :
            TrackerFits(current, trackers[r], r, gpu.uses, gpu.before, FenceCount)
  BY <1>1, <1>7, <1>8, <1>9, StartFits
<1>11. AreOrdered(gpu)
  BY <1>4 DEF AreOrdered
<1> QED
  BY <1>3, <1>4, <1>10, <1>11, EncodedConflicts DEF ConflictInv

LEMMA FlushConflicts ==
  ASSUME ConflictInv, FenceInv, IdsInv, ListInv, FlushCommands
  PROVE  ConflictInv'
<1>1. /\ current = NoEncoder /\ encoders # <<>> /\ encoders' = <<>>
      /\ gpu' = FoldLeft(Encoded, gpu, Optimized(encoders))
      /\ current' = current /\ encoder_id' = encoder_id /\ trackers' = trackers
  BY DEF FlushCommands
<1>2. PICK e : encoders = <<e>>
  BY <1>1 DEF FenceInv
<1>3. encoders[1] = e /\ e.type # "null"
  BY <1>2 DEF ListInv
<1>4. gpu' = Encoded(gpu, e)
  BY <1>1, <1>2, <1>3, OptimizedOne, FoldOne
<1>5. Flushed = gpu' /\ Flushed' = gpu'
  BY <1>1, <1>3, <1>4 DEF Flushed
<1>6. /\ PassesAreOrdered(encoder_id, gpu') /\ TrackersKnow(encoder_id, trackers, gpu')
  <2>1. /\ PassesAreOrdered(FirstId, Flushed) /\ FirstId = encoder_id
        /\ TrackersKnow(FirstId, trackers, Flushed)
    BY <1>1, ConflictsAre
  <2> QED
    BY <1>5, <2>1
<1>7. encoder_id \in Nat /\ trackers \in [Resources -> Tracker] /\ AllBelow(trackers, encoder_id)
  BY <1>1, IdleIs
<1>8. ConflictsAreOrdered'
  <2>1. AreOrdered(gpu')
    BY <1>6 DEF PassesAreOrdered
  <2> QED
    BY <2>1 DEF AreOrdered, IsForgotten, ConflictsAreOrdered, Forgotten
<1> QED
  BY <1>1, <1>5, <1>6, <1>7, <1>8, BetweenConflicts

(* A pass that ends is all of the list. *)
LEMMA FinishConflicts ==
  ASSUME encoders = <<>>, NEW s, MayEnd(s, gpu), PassFits(s.encoder, s.trackers, gpu),
         ConflictsAreOrdered,
         Finish(s), encoder_id' = s.encoder.id + 1, current' = NoEncoder, gpu' = gpu
  PROVE  ConflictInv'
<1> DEFINE n == Ended(s)
           f == Encoded(gpu, n.encoder)
<1>1. trackers' = n.trackers /\ encoders' = Append(encoders, n.encoder)
  BY DEF Finish
<1>2. PICK e : e.id = s.encoder.id /\ EndsPass(e, n.encoder, n.trackers, gpu, f, n.summary)
  BY RenderEnds, OtherEnds
<1> HIDE DEF n
<1>3. Flushed' = f
  <2>1. encoders' = <<n.encoder>> /\ encoders' # <<>> /\ encoders'[1] = n.encoder
    BY <1>1
  <2> QED
    BY <2>1 DEF Flushed
<1> HIDE DEF f
<1>4. PassesAreOrdered(e.id + 1, f)
  BY <1>2, EndIsOrdered
<1>5. TrackersKnow(e.id + 1, n.trackers, f)
  BY <1>2, EndIsKnown DEF TrackersKnow
<1>6. n.trackers \in [Resources -> Tracker] /\ AllBelow(n.trackers, e.id + 1)
  BY <1>2 DEF EndsPass
<1>7. e.id + 1 \in Nat
  BY <1>4 DEF PassesAreOrdered
<1>8. ConflictsAreOrdered'
  BY DEF ConflictsAreOrdered, Forgotten
<1> QED
  BY <1>1, <1>2, <1>3, <1>4, <1>5, <1>6, <1>7, <1>8, BetweenConflicts

LEMMA OnePassConflicts ==
  ASSUME MaxList = 1, DistantWrites = FALSE, ConflictInv, FenceInv, IdsInv,
         NEW type \in {"clear", "resolve", "present"}, NEW reads, reads \subseteq Resources,
         NEW writes, writes \subseteq Resources, NEW planes, NEW src, NEW dst,
         OnePass(type, reads, writes, planes, src, dst)
  PROVE  ConflictInv'
<1> DEFINE e == Single(type, encoder_id, planes, src, dst)
           start == At(e)
           read == Accessed(start, reads, "compute", "read")
           written == Accessed(read, writes, "compute", "write")
<1>1. /\ current = NoEncoder /\ Len(encoders) < 1 /\ encoder_id' = encoder_id + 1
      /\ Finish(written) /\ current' = current /\ gpu' = gpu
  BY DEF OnePass, CanStart, Single
<1>2. encoders = <<>>
  <2>1. \A x : Len(<<x>>) = 1
    OBVIOUS
  <2> QED
    BY <1>1, <2>1 DEF FenceInv
<1>3. /\ encoder_id \in Nat \ {0} /\ trackers \in [Resources -> Tracker]
      /\ AllBelow(trackers, encoder_id)
  BY <1>1, IdleIs
<1>4. AllBelow(trackers, encoder_id + 1)
  BY <1>3, BelowGrows
<1>5. /\ IsEncoder(e) /\ e.type = type /\ e.id = encoder_id /\ WaitsReach(e) /\ UpdatesAre(e)
  <2>1. type \in {"clear", "resolve", "present"}
    OBVIOUS
  <2> QED
    BY ONLY <2>1, OnePassIs
<1>6. e.uses = {}
  <2> DEFINE m == Encoder(type, None, encoder_id)
  <2>1. IsEncoder(m) /\ m.uses = {}
    BY EncoderIs
  <2>2. e = [m EXCEPT !.planes = planes, !.src = src, !.dst = dst]
    BY DEF Single
  <2> HIDE DEF m, e
  <2> QED
    BY <2>1, <2>2 DEF IsEncoder
<1> HIDE DEF e
<1>7. start.encoder = e /\ start.trackers = trackers
  BY DEF At
<1>8. PassFits(e, trackers, gpu)
  <2>1. /\ Flushed = gpu /\ PassesAreOrdered(FirstId, Flushed) /\ FirstId = encoder_id
        /\ TrackersKnow(FirstId, trackers, Flushed)
    BY <1>1, <1>2, ConflictsAre DEF Flushed
  <2>2. FirstOf(e) = encoder_id /\ e.type # "render"
    BY <1>5 DEF FirstOf
  <2> QED
    BY <1>3, <1>6, <2>1, <2>2, PassStart
<1> HIDE DEF start
<1>9. /\ MayAccess(start, reads, "compute", "read")
      /\ PassFits(start.encoder, start.trackers, gpu)
      /\ FragmentStaysLast(start.encoder, reads, "compute", "read")
  BY <1>3, <1>4, <1>5, <1>7, <1>8 DEF MayAccess, IsPassOf, FragmentStaysLast
<1>10. PassFits(read.encoder, read.trackers, gpu)
  BY ONLY <1>9, AccessedFits
<1>11. /\ IsPassOf(read.encoder) /\ WaitsReach(read.encoder) /\ UpdatesAre(read.encoder)
       /\ read.encoder.id = start.encoder.id /\ read.encoder.type = start.encoder.type
       /\ read.trackers \in [Resources -> Tracker]
       /\ AllBelow(read.trackers, start.encoder.id + 1)
  BY ONLY <1>9, AccessedReaches
<1> HIDE DEF read
<1>12. /\ MayAccess(read, writes, "compute", "write")
       /\ PassFits(read.encoder, read.trackers, gpu)
       /\ FragmentStaysLast(read.encoder, writes, "compute", "write")
  BY <1>5, <1>7, <1>10, <1>11 DEF MayAccess, FragmentStaysLast
<1>13. PassFits(written.encoder, written.trackers, gpu)
  BY ONLY <1>12, AccessedFits
<1>14. /\ IsPassOf(written.encoder) /\ WaitsReach(written.encoder) /\ UpdatesAre(written.encoder)
       /\ written.encoder.id = read.encoder.id /\ written.encoder.type = read.encoder.type
       /\ written.trackers \in [Resources -> Tracker]
       /\ AllBelow(written.trackers, read.encoder.id + 1)
  BY ONLY <1>12, AccessedReaches
<1> HIDE DEF written
<1>15. /\ written.encoder.id = encoder_id /\ written.encoder.type # "render"
       /\ FirstOf(written.encoder) = encoder_id /\ FirstId = encoder_id
  BY <1>1, <1>5, <1>7, <1>11, <1>14 DEF FirstId, FirstOf
<1>16. MayEnd(written, gpu)
  <2>1. FenceCount <= encoder_id /\ OrderIs(gpu.before, gpu.last, fence_locality, encoder_id)
    BY <1>2, <1>15 DEF FenceInv, Flushed
  <2> QED
    BY <1>11, <1>14, <1>15, <2>1 DEF MayEnd
<1>17. ConflictsAreOrdered
  BY DEF ConflictInv
<1> QED
  BY <1>1, <1>2, <1>13, <1>15, <1>16, <1>17, FinishConflicts

LEMMA RecordingIs ==
  ASSUME ConflictInv, FenceInv, IdsInv, current # NoEncoder
  PROVE  /\ encoders = <<>> /\ Flushed = gpu /\ PassFits(current, trackers, gpu)
         /\ IsPassOf(current) /\ encoder_id = current.id + 1
         /\ trackers \in [Resources -> Tracker] /\ AllBelow(trackers, current.id + 1)
         /\ WaitsReach(current) /\ UpdatesAre(current) /\ AttachmentsMayBeWritten
         /\ FenceCount <= FirstOf(current)
         /\ OrderIs(gpu.before, gpu.last, fence_locality, FirstOf(current))
         /\ ConflictsAreOrdered
<1>1. /\ encoders = <<>> /\ WaitsReach(current) /\ UpdatesAre(current)
      /\ AttachmentsMayBeWritten
  BY DEF FenceInv
<1>2. IsPassOf(current) /\ encoder_id = current.id + 1
  BY DEF IdsInv, TypeOK, CurrentIs, IsPassOf
<1>3. trackers \in [Resources -> Tracker] /\ AllBelow(trackers, current.id + 1)
  BY <1>2 DEF IdsInv, TypeOK, IdsAreBelow, AllBelow
<1>4. Flushed = gpu
  BY <1>1 DEF Flushed
<1>5. FirstId = FirstOf(current) /\ PassFits(current, trackers, gpu)
  BY <1>4, ConflictsAre DEF PassFits
<1>6. /\ FenceCount <= FirstOf(current)
      /\ OrderIs(gpu.before, gpu.last, fence_locality, FirstOf(current))
  BY <1>4, <1>5 DEF FenceInv
<1>7. ConflictsAreOrdered
  BY DEF ConflictInv
<1> QED
  BY <1>1, <1>2, <1>3, <1>4, <1>5, <1>6, <1>7

LEMMA EndPassConflicts ==
  ASSUME DistantWrites = FALSE, ConflictInv, FenceInv, IdsInv, EndPass
  PROVE  ConflictInv'
<1> DEFINE s == At(current)
<1>1. /\ current # NoEncoder /\ Finish(s) /\ current' = NoEncoder /\ encoder_id' = encoder_id
      /\ gpu' = gpu
  BY DEF EndPass
<1>2. s.encoder = current /\ s.trackers = trackers
  BY DEF At
<1> HIDE DEF s
<1>3. /\ encoders = <<>> /\ PassFits(current, trackers, gpu)
      /\ IsPassOf(current) /\ encoder_id = current.id + 1
      /\ trackers \in [Resources -> Tracker] /\ AllBelow(trackers, current.id + 1)
      /\ WaitsReach(current) /\ UpdatesAre(current) /\ AttachmentsMayBeWritten
      /\ FenceCount <= FirstOf(current)
      /\ OrderIs(gpu.before, gpu.last, fence_locality, FirstOf(current))
      /\ ConflictsAreOrdered
  BY <1>1, RecordingIs
<1>4. MayEnd(s, gpu)
  BY <1>2, <1>3 DEF MayEnd, AttachmentsMayBeWritten
<1> QED
  BY <1>1, <1>2, <1>3, <1>4, FinishConflicts

LEMMA EventConflicts ==
  ASSUME MaxList = 1, ConflictInv, FenceInv, IdsInv, Event
  PROVE  ConflictInv'
<1> DEFINE ev == Encoder("event", None, None)
           s == At(ev)
           f == Encoded(gpu, ev)
<1>1. /\ current = NoEncoder /\ Len(encoders) < 1 /\ encoder_id' = encoder_id
      /\ Finish(s) /\ current' = current /\ gpu' = gpu
  BY DEF Event, CanStart
<1>2. encoders = <<>>
  <2>1. \A x : Len(<<x>>) = 1
    OBVIOUS
  <2> QED
    BY <1>1, <2>1 DEF FenceInv
<1>3. /\ s.encoder = ev /\ s.trackers = trackers /\ ev.type = "event" /\ ev.uses = {}
      /\ ev.update = {} /\ ev.update_vertex = {}
  BY DEF At, Encoder
<1> HIDE DEF ev, s
<1>4. Ended(s).trackers = trackers /\ Ended(s).encoder = ev
  BY <1>3 DEF Ended
<1>5. trackers' = trackers /\ encoders' = <<ev>>
  BY <1>1, <1>2, <1>4 DEF Finish
<1>6. Flushed' = f
  <2>1. encoders' # <<>> /\ encoders'[1] = ev
    BY <1>5
  <2> QED
    BY <1>1, <2>1 DEF Flushed
<1>7. /\ PassesAreOrdered(encoder_id, gpu) /\ TrackersKnow(encoder_id, trackers, gpu)
  <2>1. Flushed = gpu
    BY <1>2 DEF Flushed
  <2> QED
    BY <1>1, <2>1, ConflictsAre
<1>8. encoder_id \in Nat /\ trackers \in [Resources -> Tracker] /\ AllBelow(trackers, encoder_id)
  BY <1>1, IdleIs
<1>9. /\ DOMAIN f.before = DOMAIN gpu.before /\ DOMAIN f.host = DOMAIN gpu.host
      /\ \A b \in DOMAIN gpu.before : f.before[b] = gpu.before[b]
      /\ \A b \in DOMAIN gpu.host : f.host[b] = gpu.host[b]
      /\ f.uses = gpu.uses
  <2>1. DOMAIN f.before = ev.update \union ev.update_vertex \union DOMAIN gpu.before
    BY ONLY EncodedIs
  <2>2. \A b \in DOMAIN gpu.before :
          b \notin ev.update \union ev.update_vertex => f.before[b] = gpu.before[b]
    BY ONLY EncodedIs
  <2>3. LET ids == ev.update \union ev.update_vertex
        IN  /\ DOMAIN f.host = ids \union DOMAIN gpu.host /\ f.uses = gpu.uses \union ev.uses
            /\ \A id \in DOMAIN gpu.host : id \notin ids => f.host[id] = gpu.host[id]
    BY ONLY EncodedHost
  <2> HIDE DEF f
  <2> QED
    BY <1>3, <2>1, <2>2, <2>3
<1> HIDE DEF f
<1>10. PassesAreOrdered(encoder_id, f)
  <2>1. /\ IsBefore(gpu.before, encoder_id) /\ DOMAIN gpu.host = DOMAIN gpu.before
        /\ \A a \in gpu.uses : a.id \in FenceCount .. encoder_id - 1
        /\ AreOrdered(gpu)
    BY <1>7 DEF PassesAreOrdered
  <2>2. IsBefore(f.before, encoder_id)
    BY <1>9, <2>1 DEF IsBefore
  <2>3. \A a \in gpu.uses : a.id \in DOMAIN gpu.before
    BY <2>1 DEF IsBefore
  <2>4. AreOrdered(f)
    BY <1>9, <2>1, <2>3 DEF AreOrdered
  <2> QED
    BY <1>8, <1>9, <2>1, <2>2, <2>4 DEF PassesAreOrdered
<1>11. TrackersKnow(encoder_id, trackers, f)
  <2> SUFFICES ASSUME NEW r \in Resources
               PROVE  IsRing(trackers[r].shared)
                      /\ OldAreKnown(trackers[r], r, f.uses, f.before, encoder_id)
    BY DEF TrackersKnow
  <2>1. /\ IsRing(trackers[r].shared)
        /\ OldAreKnown(trackers[r], r, gpu.uses, gpu.before, encoder_id)
    BY <1>7 DEF TrackersKnow
  <2>2. \A a : Knows(trackers[r], a, gpu.before) => Knows(trackers[r], a, f.before)
    BY <1>9, KnowsGrows
  <2> QED
    BY <1>9, <2>1, <2>2 DEF OldAreKnown
<1>12. ConflictsAreOrdered'
  BY <1>1 DEF ConflictInv, ConflictsAreOrdered, Forgotten
<1> QED
  BY <1>1, <1>5, <1>6, <1>8, <1>10, <1>11, <1>12, BetweenConflicts

LEMMA StartPassConflicts ==
  ASSUME MaxList = 1, ConflictInv, FenceInv, IdsInv, NEW type \in PassTypes, StartPass(type)
  PROVE  ConflictInv'
<1> DEFINE e == Encoder(type, None, encoder_id)
<1>1. /\ current = NoEncoder /\ Len(encoders) < 1 /\ current' = e /\ trackers' = trackers
      /\ encoders' = encoders /\ gpu' = gpu
  BY DEF StartPass, CanStart
<1>2. encoders = <<>>
  <2>1. \A x : Len(<<x>>) = 1
    OBVIOUS
  <2> QED
    BY <1>1, <2>1 DEF FenceInv
<1>3. type \in {"compute", "blit"}
  BY PassTypesAssumption
<1>4. e.type = type /\ e.id = encoder_id /\ e.uses = {}
  BY EncoderIs
<1> HIDE DEF e
<1>5. e # NoEncoder
  BY <1>3, <1>4, NoEncoderIs
<1>6. Flushed = gpu /\ Flushed' = gpu'
  BY <1>1, <1>2 DEF Flushed
<1>7. /\ PassesAreOrdered(encoder_id, gpu) /\ TrackersKnow(encoder_id, trackers, gpu)
      /\ ConflictsAreOrdered
  BY <1>1, <1>6, ConflictsAre DEF ConflictInv
<1>8. encoder_id \in Nat /\ trackers \in [Resources -> Tracker] /\ AllBelow(trackers, encoder_id)
  BY <1>1, IdleIs
<1>9. FirstOf(e) = encoder_id /\ e.type # "render"
  BY <1>3, <1>4 DEF FirstOf
<1>10. PassFits(e, trackers, gpu)
  BY <1>4, <1>7, <1>8, <1>9, PassStart
<1>11. ConflictsAreOrdered'
  BY <1>1, <1>7 DEF ConflictsAreOrdered, Forgotten
<1> QED
  BY <1>1, <1>5, <1>6, <1>10, <1>11, RecordingConflicts

LEMMA StartRenderPassConflicts ==
  ASSUME MaxList = 1, DistantWrites = FALSE, ConflictInv, FenceInv, IdsInv,
         NEW planes \in AttachmentSets, NEW readonly, StartRenderPass(planes, readonly)
  PROVE  ConflictInv'
<1> DEFINE n == Encoder("render", encoder_id, encoder_id + 1)
           attachments == [p \in planes |-> Attachment(p \in readonly)]
           e == [n EXCEPT !.attachments = attachments]
           colors == ResourcesOf(planes \ DepthStencil(planes))
           others == ResourcesOf(DepthStencil(planes))
           start == At(e)
           color == Accessed(start, colors, "pixel", "write")
           all == Accessed(color, others, "pixel", "read")
           id == encoder_id + 1
<1>1. /\ current = NoEncoder /\ Len(encoders) < 1 /\ trackers' = all.trackers
      /\ current' = all.encoder /\ encoders' = encoders
      /\ gpu' = gpu /\ \A r \in ResourcesOf(planes) : MayWrite(trackers[r], id)
  BY DEF StartRenderPass, CanStart
<1>2. encoders = <<>>
  <2>1. \A x : Len(<<x>>) = 1
    OBVIOUS
  <2> QED
    BY <1>1, <2>1 DEF FenceInv
<1>3. /\ encoder_id \in Nat \ {0} /\ trackers \in [Resources -> Tracker]
      /\ AllBelow(trackers, encoder_id) /\ id \in Nat \ {0} /\ encoder_id <= id
  BY <1>1, IdleIs
<1>4. AllBelow(trackers, id + 1)
  BY <1>3, BelowGrows
<1>5. /\ IsEncoder(e) /\ e.type = "render" /\ e.vertex = encoder_id /\ e.id = id
      /\ e.uses = {} /\ WaitsReach(e) /\ UpdatesAre(e)
  <2>1. /\ IsEncoder(n) /\ n.type = "render" /\ n.vertex = encoder_id /\ n.id = id
        /\ n.wait = {} /\ n.wait_vertex = {} /\ n.update = {id}
        /\ n.update_vertex = {encoder_id} /\ n.uses = {}
    BY EncoderIs DEF Encoder
  <2> HIDE DEF attachments, n
  <2>2. /\ e.type = n.type /\ e.vertex = n.vertex /\ e.uses = n.uses
        /\ e.id = n.id /\ e.wait = n.wait /\ e.wait_vertex = n.wait_vertex
        /\ e.update = n.update /\ e.update_vertex = n.update_vertex
    BY <2>1 DEF IsEncoder
  <2>3. IsEncoder(e)
    BY <2>1 DEF IsEncoder
  <2> HIDE DEF e
  <2>4. WaitsReach(e) /\ UpdatesAre(e)
    BY <2>1, <2>2 DEF WaitsReach, UpdatesAre
  <2> QED
    BY <2>1, <2>2, <2>3, <2>4
<1>6. /\ colors \subseteq Resources /\ others \subseteq Resources
      /\ colors \subseteq ResourcesOf(planes)
  <2>1. planes \subseteq Planes
    BY PlanesAssumption
  <2>2. DepthStencil(planes) \subseteq planes
    BY DEF DepthStencil
  <2> QED
    BY <2>1, <2>2, ResourcesOfIs DEF ResourcesOf
<1> HIDE DEF e, colors, others, id
<1>7. start.encoder = e /\ start.trackers = trackers
  BY DEF At
<1> HIDE DEF start
<1>8. PassFits(e, trackers, gpu)
  <2>1. /\ Flushed = gpu /\ PassesAreOrdered(FirstId, Flushed) /\ FirstId = encoder_id
        /\ TrackersKnow(FirstId, trackers, Flushed)
    BY <1>1, <1>2, ConflictsAre DEF Flushed
  <2>2. FirstOf(e) = encoder_id
    BY <1>5 DEF FirstOf
  <2> QED
    BY <1>3, <1>5, <2>1, <2>2, PassStart
<1>9. /\ MayAccess(start, colors, "pixel", "write")
      /\ PassFits(start.encoder, start.trackers, gpu)
      /\ FragmentStaysLast(start.encoder, colors, "pixel", "write")
  <2>1. "pixel" # "compute" /\ "pixel" # "vertex" /\ IdOf(e, "pixel") = id
    BY <1>5 DEF IdOf
  <2>2. \A r \in colors : MayWrite(start.trackers[r], IdOf(start.encoder, "pixel"))
    BY <1>1, <1>6, <1>7, <2>1
  <2>3. IsPassOf(e)
    BY <1>3, <1>5 DEF IsPassOf, id
  <2>4. MayAccess(start, colors, "pixel", "write")
    BY <1>3, <1>4, <1>5, <1>6, <1>7, <2>2, <2>3 DEF MayAccess
  <2> QED
    BY <1>7, <1>8, <2>1, <2>4 DEF FragmentStaysLast
<1>10. PassFits(color.encoder, color.trackers, gpu)
  BY ONLY <1>9, AccessedFits
<1>11. /\ IsPassOf(color.encoder) /\ WaitsReach(color.encoder) /\ UpdatesAre(color.encoder)
       /\ color.encoder.id = start.encoder.id /\ color.encoder.type = start.encoder.type
       /\ color.trackers \in [Resources -> Tracker]
       /\ AllBelow(color.trackers, start.encoder.id + 1)
  BY ONLY <1>9, AccessedReaches
<1> HIDE DEF color
<1>12. /\ MayAccess(color, others, "pixel", "read")
       /\ PassFits(color.encoder, color.trackers, gpu)
       /\ FragmentStaysLast(color.encoder, others, "pixel", "read")
  BY <1>5, <1>6, <1>7, <1>10, <1>11 DEF MayAccess, IsWrite, FragmentStaysLast
<1>13. PassFits(all.encoder, all.trackers, gpu)
  BY ONLY <1>12, AccessedFits
<1>14. all.encoder.type = color.encoder.type
  BY ONLY <1>12, AccessedReaches
<1> HIDE DEF all
<1>15. current' # NoEncoder
  BY <1>1, <1>5, <1>7, <1>11, <1>14, NoEncoderIs
<1>16. Flushed' = gpu
  BY <1>1, <1>2 DEF Flushed
<1>17. ConflictsAreOrdered'
  BY <1>1 DEF ConflictInv, ConflictsAreOrdered, Forgotten
<1> QED
  BY <1>1, <1>13, <1>15, <1>16, <1>17, RecordingConflicts

LEMMA AccessConflicts ==
  ASSUME DistantWrites = FALSE, FragmentToVertex = FALSE, ConflictInv, FenceInv, IdsInv,
         NEW stage \in {"compute", "vertex", "pixel"}, NEW r \in Resources, NEW mode,
         Access(stage, r, mode)
  PROVE  ConflictInv'
<1> DEFINE start == At(current)
           after == Accessed(start, {r}, stage, mode)
<1>1. /\ current # NoEncoder /\ trackers' = after.trackers /\ current' = after.encoder
      /\ encoders' = encoders /\ gpu' = gpu
      /\ stage \in (IF current.type = "render" THEN ShaderStages ELSE {"compute"})
      /\ stage = "vertex" =>
           \A u \in current.uses :
             ~ (u.stage = "pixel" /\ Conflict(u, Use(current, stage, r, mode)))
      /\ stage # "compute" /\ IsWrite(mode) =>
           MayWrite(trackers[r], Use(current, stage, r, mode).id)
  BY DEF Access
<1>2. start.encoder = current /\ start.trackers = trackers
  BY DEF At
<1> HIDE DEF start
<1>3. /\ encoders = <<>> /\ PassFits(current, trackers, gpu)
      /\ IsPassOf(current) /\ encoder_id = current.id + 1
      /\ trackers \in [Resources -> Tracker] /\ AllBelow(trackers, current.id + 1)
      /\ WaitsReach(current) /\ UpdatesAre(current) /\ ConflictsAreOrdered
  BY <1>1, RecordingIs
<1>4. MayAccess(start, {r}, stage, mode)
  <2>1. (stage = "compute") <=> current.type # "render"
    BY <1>1, ShaderStagesAssumption
  <2>2. Use(current, stage, r, mode).id = IdOf(current, stage)
    BY DEF Use, IdOf
  <2> QED
    BY <1>1, <1>2, <1>3, <2>1, <2>2 DEF MayAccess
<1>5. /\ MayAccess(start, {r}, stage, mode)
      /\ PassFits(start.encoder, start.trackers, gpu)
      /\ FragmentStaysLast(start.encoder, {r}, stage, mode)
  BY <1>1, <1>2, <1>3, <1>4 DEF FragmentStaysLast
<1>6. PassFits(after.encoder, after.trackers, gpu)
  BY ONLY <1>5, AccessedFits
<1>7. after.encoder.id = start.encoder.id /\ after.encoder.type = start.encoder.type
  BY ONLY <1>4, AccessedReaches
<1> HIDE DEF after
<1>8. current' # NoEncoder
  BY <1>1, <1>2, <1>7, NoEncoderIs DEF CurrentIs, IdsInv
<1>9. Flushed' = gpu
  BY <1>1, <1>3 DEF Flushed
<1>10. ConflictsAreOrdered'
  BY <1>1, <1>3 DEF ConflictsAreOrdered, Forgotten
<1> QED
  BY <1>1, <1>6, <1>8, <1>9, <1>10, RecordingConflicts

LEMMA CommandConflicts ==
  ASSUME ConflictInv, FenceInv, IdsInv, Command
  PROVE  ConflictInv'
<1>1. /\ current'.type = current.type /\ current'.id = current.id
      /\ current'.vertex = current.vertex /\ current'.uses = current.uses
      /\ trackers' = trackers /\ current # NoEncoder
  BY CommandIs
<1>2. encoders' = encoders /\ gpu' = gpu
  BY DEF Command
<1>3. current'.wait = current.wait /\ current'.wait_vertex = current.wait_vertex
  <2> DEFINE left == BarriersLeft
             cmds == IF current.type = "render" THEN Append(current.cmds, current.id)
                     ELSE current.cmds
  <2>1. IsEncoder(current)
    BY DEF IdsInv, TypeOK
  <2>2. current' = [current EXCEPT !.barriers = left,
                      !.cmds = IF current.type = "render" THEN Append(@, current.id) ELSE @]
    BY DEF Command
  <2> HIDE DEF left
  <2>3. current' = [[current EXCEPT !.barriers = left] EXCEPT !.cmds = cmds]
    BY <2>1, <2>2 DEF IsEncoder
  <2> HIDE DEF cmds
  <2> QED
    BY <2>1, <2>3 DEF IsEncoder
<1>4. encoders = <<>> /\ Flushed = gpu /\ PassFits(current, trackers, gpu) /\ ConflictsAreOrdered
  BY <1>1, RecordingIs
<1>5. \A id : WaitsAt(current, id) \subseteq WaitsAt(current', id)
  BY <1>1, <1>3 DEF WaitsAt
<1>6. PassFits(current', trackers, gpu)
  <2>1. FirstOf(current') = FirstOf(current)
    BY <1>1 DEF FirstOf
  <2>2. UsesAreOf(current')
    BY <1>1, <1>4 DEF PassFits, UsesAreOf
  <2>3. ASSUME NEW r \in Resources
        PROVE  TrackerFits(current', trackers[r], r, gpu.uses, gpu.before, FirstOf(current))
    <3>1. TrackerFits(current, trackers[r], r, gpu.uses, gpu.before, FirstOf(current))
      BY <1>4 DEF PassFits
    <3> QED
      BY <1>1, <1>5, <3>1, OtherFits
  <2> QED
    BY <1>4, <2>1, <2>2, <2>3 DEF PassFits
<1>7. current' # NoEncoder
  BY <1>1, NoEncoderIs DEF CurrentIs, IdsInv
<1>8. Flushed' = gpu
  BY <1>2, <1>4 DEF Flushed
<1>9. ConflictsAreOrdered'
  BY <1>2, <1>4 DEF ConflictsAreOrdered, Forgotten
<1> QED
  BY <1>1, <1>6, <1>7, <1>8, <1>9, RecordingConflicts

LEMMA SameConflicts ==
  ASSUME ConflictInv, UNCHANGED <<encoder_id, trackers, encoders, current, gpu>>
  PROVE  ConflictInv'
<1>1. Flushed' = Flushed /\ FirstId' = FirstId
  BY DEF Flushed, FirstId
<1>2. ConflictsAreOrdered'
  BY DEF ConflictInv, ConflictsAreOrdered, Forgotten
<1> QED
  BY <1>1, <1>2 DEF ConflictInv

(* What the trackers know of the passes before is enough: each access      *)
(* waits for what conflicts with it, or is Lane ids away from it, as long  *)
(* as each pass is flushed before the next one starts.                     *)
THEOREM ConflictInvariance ==
  ASSUME MaxList = 1, DistantWrites = FALSE, FragmentToVertex = FALSE
  PROVE  Spec => []ConflictInv
<1>1. Init => ConflictInv
  BY InitConflicts
<1>2. IdsInv /\ ListInv /\ FenceInv /\ ConflictInv /\ [Next]_vars => ConflictInv'
  <2> SUFFICES ASSUME IdsInv, ListInv, FenceInv, ConflictInv, [Next]_vars PROVE ConflictInv'
    OBVIOUS
  <2>1. ASSUME NEW planes \in ClearSets, Clear(planes) PROVE ConflictInv'
    <3>1. OnePass("clear", {}, ResourcesOf(planes), planes, None, None)
      BY <2>1 DEF Clear
    <3>2. ResourcesOf(planes) \subseteq Resources
      BY PlanesAssumption, ResourcesOfIs
    <3> QED
      BY <3>1, <3>2, OnePassConflicts
  <2>2. ASSUME NEW p \in Resolves, ResolveTexture(p[1], p[2]) PROVE ConflictInv'
    <3> DEFINE reads == {ResourceOf(p[1])}
               writes == {ResourceOf(p[2])}
    <3>1. OnePass("resolve", reads, writes, {}, p[1], p[2])
      BY <2>2 DEF ResolveTexture
    <3>2. reads \subseteq Resources /\ writes \subseteq Resources
      <4>1. {p[1], p[2]} \subseteq Planes
        BY PlanesAssumption
      <4> QED
        BY <4>1, ResourcesOfIs DEF ResourcesOf
    <3> HIDE DEF reads, writes
    <3> QED
      BY <3>1, <3>2, OnePassConflicts
  <2>3. ASSUME NEW p \in Presents, Present(p[1], p[2]) PROVE ConflictInv'
    <3> DEFINE reads == {p[1]}
               writes == {p[2]} \ {None}
    <3>1. OnePass("present", reads, writes, {}, None, None)
      BY <2>3 DEF Present
    <3>2. reads \subseteq Resources /\ writes \subseteq Resources
      BY PlanesAssumption
    <3> HIDE DEF reads, writes
    <3> QED
      BY <3>1, <3>2, OnePassConflicts
  <2>4. CASE Event
    BY <2>4, EventConflicts
  <2>5. ASSUME NEW planes \in AttachmentSets, NEW readonly \in ReadonlySets,
               StartRenderPass(planes, readonly)
        PROVE  ConflictInv'
    BY <2>5, StartRenderPassConflicts
  <2>6. ASSUME NEW type \in PassTypes, StartPass(type) PROVE ConflictInv'
    BY <2>6, StartPassConflicts
  <2>7. ASSUME NEW stage \in {"compute", "vertex", "pixel"}, NEW r \in Resources,
               NEW mode \in {"read", "write", "uav"}, Access(stage, r, mode)
        PROVE  ConflictInv'
    BY <2>7, AccessConflicts
  <2>8. CASE SetIntrapassControl
    BY <2>8, SameConflicts DEF SetIntrapassControl
  <2>9. CASE Command
    BY <2>9, CommandConflicts
  <2>10. CASE EndPass
    BY <2>10, EndPassConflicts
  <2>11. CASE FlushCommands
    BY <2>11, FlushConflicts
  <2>12. CASE UNCHANGED vars
    BY <2>12, SameConflicts DEF vars
  <2> QED
    BY <2>1, <2>2, <2>3, <2>4, <2>5, <2>6, <2>7, <2>8, <2>9, <2>10, <2>11, <2>12 DEF Next
<1> QED
  BY <1>1, <1>2, IdsInvariance, ListInvariance, FenceInvariance, PTL DEF Spec

(* The trackers, the waits and the weak fences together: two passes that   *)
(* conflict on a resource run one after the other.                         *)
THEOREM ConflictsStayOrdered ==
  ASSUME MaxList = 1, DistantWrites = FALSE, FragmentToVertex = FALSE
  PROVE  Spec => []ConflictsAreOrdered
<1>1. ConflictInv => ConflictsAreOrdered
  BY DEF ConflictInv
<1> QED
  BY <1>1, ConflictInvariance, PTL

=============================================================================
