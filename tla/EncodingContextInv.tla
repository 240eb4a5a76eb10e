------------------------- MODULE EncodingContextInv -------------------------
(***************************************************************************)
(* The inductive invariants of EncodingContext: what the trackers remember *)
(* of the current pass and of earlier ones, what the passes of the list    *)
(* have, the fences and the order they give; and what it takes for a list  *)
(* that flushCommands may have the optimizer change (IsSound).             *)
(***************************************************************************)
EXTENDS EncodingContext

Tracker ==
  [shared : Seq(Nat), exclusive : Nat, isShared : BOOLEAN,
   isSharedPreRaster : BOOLEAN, lastWriteFromPreRaster : BOOLEAN]

(* EncoderData has these fields. *)
IsEncoder(e) ==
  e = [type |-> e.type, vertex |-> e.vertex, id |-> e.id, wait |-> e.wait,
       wait_vertex |-> e.wait_vertex, update |-> e.update,
       update_vertex |-> e.update_vertex, barriers |-> e.barriers,
       attachments |-> e.attachments, cmds |-> e.cmds, uses |-> e.uses,
       planes |-> e.planes, src |-> e.src, dst |-> e.dst]

IsPass(p) == p = [open |-> p.open, pending |-> p.pending, commands |-> p.commands]

TypeOK ==
  /\ encoder_id \in Nat \ {0} /\ trackers \in [Resources -> Tracker]
  /\ IsEncoder(current) /\ IsPass(pass) /\ ignore_waw \in BOOLEAN

-----------------------------------------------------------------------------
(* The current pass has the last ids.                                      *)
Stages == IF current.type = "render" THEN {"vertex", "pixel"} ELSE {"compute"}

CurrentIs ==
  \/ current = NoEncoder /\ pass = NoPass
  \/ /\ current.type = "render" /\ current.vertex \in Nat \ {0}
     /\ current.id = current.vertex + 1 /\ encoder_id = current.id + 1
  \/ /\ current.type \in {"compute", "blit"} /\ current.id \in Nat \ {0}
     /\ encoder_id = current.id + 1

(* No id after "last" has accessed a resource. *)
IsBelow(t, id) == t.exclusive < id /\ \A i \in DOMAIN t.shared : t.shared[i] < id
IdsAreBelow == \A r \in Resources : IsBelow(trackers[r], encoder_id)

IdsInv == TypeOK /\ CurrentIs /\ IdsAreBelow

(* A pass binds none of its attachments. *)
Bindable == Resources \ ResourcesOf(DOMAIN current.attachments)

UsesAre ==
  /\ \A p \in pass.pending :
       /\ p \in current.uses /\ p.stage \in Stages /\ p.res \in Bindable
       /\ current.type = "compute" => p.mode \in {"read", "uav"}
  /\ \A x \in pass.open :
       /\ x.stage \in Stages /\ x.to \in Stages /\ x.res \in Bindable
       /\ \E u \in current.uses : u.stage = x.stage /\ u.res = x.res /\ u.mode = x.mode

-----------------------------------------------------------------------------
(* What the tracker of a resource remembers of the accesses of a pass that *)
(* are not ordered yet.                                                    *)

(* "used", "written": by a fragment stage of this pass. *)
PixelUsed(r) == \E u \in current.uses : u.stage = "pixel" /\ u.res = r
PixelWritten(r) ==
  \E u \in current.uses : u.stage = "pixel" /\ u.res = r /\ IsWrite(u.mode)

InPass(t, vertex) == t.exclusive \in {vertex, vertex + 1}

FlagsFit(t, vertex, used, written) ==
  /\ t.exclusive = vertex + 1 => ~ t.lastWriteFromPreRaster /\ written
  /\ InPass(t, vertex) /\ t.isShared => used
  /\ ~ InPass(t, vertex) /\ IsLastAccess(t, vertex) =>
       t.isSharedPreRaster /\ ~ t.isShared
  /\ ~ InPass(t, vertex) /\ IsLastAccess(t, vertex + 1) => t.isShared /\ used

IsSeen(t, vertex) ==
  InPass(t, vertex) \/ IsLastAccess(t, vertex) \/ IsLastAccess(t, vertex + 1)

RenderRemembers(t, vertex, written, x) ==
  /\ x.stage = "vertex" /\ IsWrite(x.mode) =>
       /\ InPass(t, vertex) /\ ~ t.isSharedPreRaster
       /\ x.to = "pixel" => t.exclusive = vertex /\ ~ t.isShared
  /\ x.stage = "vertex" /\ ~ IsWrite(x.mode) =>
       IsSeen(t, vertex) /\ (t.isSharedPreRaster \/ (x.to = "vertex" /\ written))
  /\ x.stage = "pixel" /\ x.to = "pixel" /\ IsWrite(x.mode) =>
       t.exclusive = vertex + 1 /\ ~ t.isShared /\ ~ t.isSharedPreRaster
  /\ x.stage = "pixel" /\ x.to = "pixel" /\ ~ IsWrite(x.mode) =>
       IsSeen(t, vertex) /\ t.isShared

ComputeRemembers(t, id, x) ==
  IF IsWrite(x.mode) THEN t.exclusive = id /\ ~ t.isShared
  ELSE t.exclusive = id \/ IsLastAccess(t, id)

(* A barrier that the next command emits, if it is not masked. *)
IsDue(e, x) == \E b \in e.barriers : Ordered(x, e, { b[1] })
ReadIsDue(e) == <<"barrier", "RW">> \in e.barriers

RenderFits(r) ==
  LET t == trackers[r]
      Remembers(x) == RenderRemembers(t, current.vertex, PixelWritten(r), x)
  IN  /\ FlagsFit(t, current.vertex, PixelUsed(r), PixelWritten(r))
      /\ \A x \in pass.open : x.res = r => IsDue(current, x) \/ Remembers(x)
      /\ \A p \in pass.pending : p.res = r => \A x \in Opened(p) : Remembers(x)

ComputeFits(r) ==
  LET Remembers(x) == ComputeRemembers(trackers[r], current.id, x)
  IN  /\ \A x \in pass.open : x.res = r => ReadIsDue(current) \/ Remembers(x)
      /\ \A p \in pass.pending : p.res = r => Remembers(p)

(* Conflicts of the next command have a barrier, masked or not. *)
BarriersAreDue ==
  \A x \in pass.open, p \in pass.pending :
    x.to = p.stage /\ Conflict(x, p) =>
      /\ IsDue(current, x)
      /\ current.type = "compute" /\ ~ IsWrite(p.mode) => ReadIsDue(current)

NoneOmitted == \A b \in current.barriers : b[1] /= "pre_raster_after_fragment"

BarrierInv ==
  /\ IdsInv
  /\ current.type \in {"render", "compute"} => UsesAre /\ BarriersAreDue
  /\ current.type = "render" => NoneOmitted /\ \A r \in Bindable : RenderFits(r)
  /\ current.type = "compute" => \A r \in Resources : ComputeFits(r)

-----------------------------------------------------------------------------
(* The list of passes.                                                     *)
IsList(list) == list \in Seq({ list[i] : i \in DOMAIN list })

(* Only a render pass has a vertex stage. *)
IsListed(e) ==
  IsEncoder(e) /\ (e.type \in {"clear", "resolve"} => e.update_vertex = {})

AreListed(list) == IsList(list) /\ \A i \in DOMAIN list : IsListed(list[i])

ListInv ==
  /\ AreListed(encoders) /\ \A i \in DOMAIN encoders : encoders[i].type /= "null"
  /\ \/ current = NoEncoder
     \/ IsEncoder(current) /\ current.type \in {"render", "compute", "blit"}

(* What an optimized list may differ in: a pass that is left has the ids   *)
(* of others, with no event between it and them.                           *)
IdsOf(e) == IF e.type = "null" THEN {} ELSE e.update \union e.update_vertex
EventsUpTo(list, i) == { k \in 1 .. i : list[k].type = "event" }

IdsStay(list, after) ==
  \A i \in DOMAIN list : \A id \in IdsOf(list[i]) :
    \E k \in DOMAIN list :
      id \in IdsOf(after[k]) /\ EventsUpTo(list, i) = EventsUpTo(list, k)

Kept(list, after) ==
  /\ AreListed(after) /\ Len(after) = Len(list)
  /\ \A i \in DOMAIN list : list[i].type = "event" <=> after[i].type = "event"
  /\ IdsStay(list, after) /\ IdsStay(after, list)

-----------------------------------------------------------------------------
(* Fences and ids: a fence stands for the last id before x that has it. A  *)
(* pass waits for none that is two generations older.                      *)
IsFenceOf(x, f, y) == y < x /\ x < y + 2 * Lane /\ Fence(y) = f
Reaches(x, f) == \E y \in Nat : IsFenceOf(x, f, y)

(* No id below FenceCount is given out. *)
Covers(done, x, fences) ==
  \A f \in fences, y \in Nat : IsFenceOf(x, f, y) /\ y >= FenceCount => y \in done
CoversOld(done, x) == \A y \in Nat : FenceCount <= y /\ y + Lane <= x => y \in done

(* The order of the passes with the ids before "end": what is done before  *)
(* each, at the last update of each fence, and what the summary holds.     *)
IsClosed(before, done) == \A x \in done : before[x] \subseteq done

OrderIs(before, last, summary, end) ==
  /\ DOMAIN before = FenceCount .. end - 1
  /\ DOMAIN last = 0 .. FenceCount - 1 /\ DOMAIN summary = 0 .. FenceCount - 1
  /\ \A b \in FenceCount .. end - 1 :
       /\ before[b] \subseteq FenceCount .. b - 1 /\ IsClosed(before, before[b])
       /\ CoversOld(before[b], b)
       /\ end <= b + FenceCount =>
            b \in last[Fence(b)] /\ Covers(before[b], b, summary[Fence(b)])
  /\ \A f \in 0 .. FenceCount - 1 : last[f] \subseteq FenceCount .. end - 1
  /\ \A x \in Nat : x < end /\ end <= x + FenceCount =>
       \A f \in summary[Fence(x)] : Reaches(x, f)

(* The ids of all but the current pass are below this one.                 *)
FirstId ==
  CASE current = NoEncoder -> encoder_id
    [] current # NoEncoder /\ current.type = "render" -> current.vertex
    [] current # NoEncoder /\ current.type # "render" -> current.id

(* What a flush would encode now, of a list of one pass.                   *)
Flushed == IF encoders = <<>> THEN gpu ELSE Encoded(gpu, encoders[1])

IsGpu(g) ==
  g = [before |-> g.before, host |-> g.host, uses |-> g.uses, last |-> g.last]

(* The fences of a pass, its waits and updates.                            *)
WaitsReach(e) ==
  /\ \A f \in e.wait : Reaches(e.id, f)
  /\ e.type # "render" => e.wait_vertex = {}
  /\ e.type = "render" => \A f \in e.wait_vertex : Reaches(e.vertex, f)

UpdatesAre(e) ==
  e.update = {e.id} /\ e.update_vertex = IF e.type = "render" THEN {e.vertex} ELSE {}

AttachmentsMayBeWritten ==
  /\ DOMAIN current.attachments \subseteq Planes
  /\ \A r \in ResourcesOf(DOMAIN current.attachments) : MayWrite(trackers[r], current.id)

FenceInv ==
  /\ FenceCount <= FirstId
  /\ encoders = <<>> \/ \E e : encoders = <<e>>
  /\ current # NoEncoder =>
       /\ encoders = <<>> /\ WaitsReach(current) /\ UpdatesAre(current)
       /\ AttachmentsMayBeWritten
  /\ IsGpu(gpu) /\ OrderIs(Flushed.before, Flushed.last, fence_locality, FirstId)
  /\ DistantPassesAreOrdered

-----------------------------------------------------------------------------
(* The order of conflicts: what a tracker knows of the passes before       *)
(* "first", whose order is "before" and whose accesses are "old".          *)
IsForgotten(uses, a) ==
  /\ a.stage = "pixel" /\ ~ IsWrite(a.mode)
  /\ \E w \in uses : w.stage = "vertex" /\ w.id + 1 = a.id /\ Conflict(w, a)

(* The readers of a ring are different ids, the newest first. *)
IsRing(ring) ==
  \A i, j \in DOMAIN ring : i <= j => ring[j] + j <= ring[i] + i

IsBehind(before, y, x) == y \in DOMAIN before /\ (x = y \/ x \in before[y])

Knows(t, a, before) ==
  \/ IsBehind(before, t.exclusive, a.id)
  \/ /\ ~ IsWrite(a.mode) /\ t.shared # <<>>
     /\ \/ a.id + Lane <= Head(t.shared)
        \/ \E i \in DOMAIN t.shared : IsBehind(before, t.shared[i], a.id)

OldAreKnown(t, r, old, before, first) ==
  \A a \in old : a.res = r /\ ~ IsForgotten(old, a) =>
    first <= t.exclusive \/ Knows(t, a, before)

(* The passes that the current one waits for. *)
WaitsAt(e, id) == IF e.type = "render" /\ id = e.vertex THEN e.wait_vertex ELSE e.wait

IsAfter(e, id, x, before) ==
  \/ x + Lane <= id
  \/ \E y \in DOMAIN before :
       IsBehind(before, y, x) /\ IsFenceOf(id, Fence(y), y) /\ Fence(y) \in WaitsAt(e, id)

UseIsAfter(e, u, a, before) ==
  IsAfter(e, u.id, a.id, before) \/ (u.stage = "pixel" /\ IsAfter(e, e.vertex, a.id, before))

UsesAreAfter(e, r, old, before) ==
  \A u \in e.uses, a \in old : u.res = r /\ Conflict(a, u) /\ ~ IsForgotten(old, a) =>
    UseIsAfter(e, u, a, before)

(* What a tracker knows of the accesses of the current pass. *)
HasLast(t, first) == t.shared # <<>> /\ first <= Head(t.shared)

OwnAreKnown(e, t, r, first) ==
  /\ first <= t.exclusive =>
       \E u \in e.uses : u.res = r /\ u.id = t.exclusive /\ IsWrite(u.mode)
  /\ HasLast(t, first) => \E u \in e.uses : u.res = r /\ u.id = Head(t.shared)
  /\ e.type = "render" /\ t.exclusive < first /\ IsLastAccess(t, e.id)
     /\ t.isSharedPreRaster => \E u \in e.uses : u.res = r /\ u.id = e.vertex
  /\ \A u \in e.uses : u.res = r /\ ~ IsForgotten(e.uses, u) =>
       \/ first <= t.exclusive /\ u.id <= t.exclusive
       \/ ~ IsWrite(u.mode) /\ HasLast(t, first) /\ u.id <= Head(t.shared)

TrackerFits(e, t, r, old, before, first) ==
  /\ IsRing(t.shared) /\ OldAreKnown(t, r, old, before, first)
  /\ UsesAreAfter(e, r, old, before) /\ OwnAreKnown(e, t, r, first)

UsesAreOf(e) ==
  \A u \in e.uses :
    /\ u.res \in Resources /\ u.id = IF u.stage = "vertex" THEN e.vertex ELSE e.id
    /\ u.stage \in (IF e.type = "render" THEN {"vertex", "pixel"} ELSE {"compute"})

AreOrdered(g) ==
  \A a, b \in g.uses :
    a.id < b.id /\ Conflict(a, b) /\ g.host[a.id] # g.host[b.id] /\ ~ IsForgotten(g.uses, a)
    => a.id \in g.before[b.id]

ConflictInv ==
  /\ \A a \in Flushed.uses : a.id \in FenceCount .. FirstId - 1
  /\ DOMAIN Flushed.host = DOMAIN Flushed.before
  /\ UsesAreOf(current)
  /\ \A r \in Resources :
       TrackerFits(current, trackers[r], r, Flushed.uses, Flushed.before, FirstId)
  /\ AreOrdered(Flushed) /\ ConflictsAreOrdered

-----------------------------------------------------------------------------
(* What a list of passes does. The optimizer has dealt with the passes     *)
(* from "end" on: those before it are as they were recorded.               *)
IsDepthStencil(p) == p \in {"depth", "stencil"}

(* Dropped passes have type "null".                                         *)
Live(list) == { i \in DOMAIN list : list[i].type # "null" }

ClearLoads(e) == { p \in DOMAIN e.attachments : e.attachments[p].load = "clear" }
Alters(e) == ResourcesWritten(e) \union ResourcesOf(ClearLoads(e))

Clash(a, b) ==
  \/ Alters(a) \intersect ResourcesUsed(b) # {}
  \/ ResourcesUsed(a) \intersect Alters(b) # {}

WaitsFor(b, a) == Updated(a) \intersect Waited(b) # {}

(* A pass has accessed what it loads, stores, clears and resolves.          *)
IsAttachment(e, p) ==
  LET a == e.attachments[p]
  IN  /\ a = [load |-> a.load, clear |-> a.clear, store |-> a.store, resolve |-> a.resolve,
              resolver |-> a.resolver, readonly |-> a.readonly]
      /\ p \in Planes /\ ResourceOf(p) \in ResourcesUsed(e)
      /\ a.load \in {"load", "clear"} /\ (a.load = "clear" => a.clear \in Nat)
      /\ IF a.readonly THEN IsDepthStencil(p) ELSE ResourceOf(p) \in ResourcesWritten(e)
      /\ a.store \in {"store", "resolve", "dont_care"}
      /\ a.store = "dont_care" => IsDepthStencil(p)
      /\ IF a.resolve = None THEN a.store # "resolve"
         ELSE /\ a.store = "resolve" /\ ~ IsDepthStencil(p)
              /\ a.resolve \in Planes \ DOMAIN e.attachments
              /\ ResourceOf(a.resolve) \in ResourcesWritten(e)
              /\ a.resolver \in IdsOf(e)

IsWhole(e) ==
  /\ IsEncoder(e) /\ IdsOf(e) \subseteq Nat
  /\ \A u \in e.uses : u.res \in Resources /\ u.id \in IdsOf(e)
  /\ e.type \notin {"render", "event"} => e.id \in Nat
  /\ e.type # "render" =>
       e.attachments = NoAttachments /\ e.wait_vertex = {} /\ e.update_vertex = {}
  /\ e.type = "clear" =>
       /\ e.planes \subseteq Planes /\ \A u \in e.uses : IsWrite(u.mode)
       /\ \A p \in e.planes : ResourceOf(p) \in ResourcesWritten(e)
  /\ e.type = "resolve" =>
       /\ e.id \in IdsOf(e) /\ e.src \in Planes /\ e.dst \in Planes /\ ~ IsDepthStencil(e.src)
       /\ ResourcesUsed(e) = {ResourceOf(e.src), ResourceOf(e.dst)}
       /\ ResourcesWritten(e) = {ResourceOf(e.dst)}
       /\ \A u \in e.uses : u.id = e.id
  /\ e.type = "render" =>
       /\ e.cmds \in Seq(Nat)
       /\ e.attachments = [p \in DOMAIN e.attachments |-> e.attachments[p]]
       /\ \A p \in DOMAIN e.attachments : IsAttachment(e, p)
       /\ \A p, q \in DOMAIN e.attachments :
            e.attachments[p].resolve # None /\ e.attachments[p].resolve = e.attachments[q].resolve
            => p = q
  /\ e.type = "event" => e.uses = {} /\ IdsOf(e) = {} /\ Waited(e) = {}

(* As it was recorded, but for the resolves it has taken over.              *)
IsRecorded(e) ==
  \A p \in DOMAIN e.attachments :
    e.attachments[p].load = "load" /\ e.attachments[p].store # "dont_care"

(* To the passes order[i] some chain of waits leads from the pass i.        *)
Chains(list, order) ==
  \A i \in Live(list) : \A k \in order[i] :
    /\ k \in Live(list) /\ i < k
    /\ \/ WaitsFor(list[k], list[i])
       \/ \E m \in order[i] : m < k /\ WaitsFor(list[k], list[m])

IsOrder(list, end, order) ==
  /\ Chains(list, order)
  /\ \A i, k \in Live(list) :
       (i < end \/ list[i].type = "resolve") /\ i < k /\ Clash(list[i], list[k])
       => k \in order[i]

(* What is not stored is cleared, and nothing uses it before or can be moved *)
(* there.                                                                   *)
IsCleared(list, end, i, p) ==
  /\ \E k \in Live(list) :
       /\ i < k /\ list[k].type = "clear" /\ p \in list[k].planes
       /\ \A m \in Live(list) : i < m /\ m < k => ResourceOf(p) \notin ResourcesUsed(list[m])
  /\ \A m \in Live(list) :
       m < end /\ m < i /\ ResourceOf(p) \in ResourcesUsed(list[m]) => Clash(list[m], list[i])

IsReadonly(e, p) == p \in DOMAIN e.attachments /\ e.attachments[p].readonly

AreWhole(list, end) ==
  \A i \in Live(list) : IsWhole(list[i]) /\ (i < end => IsRecorded(list[i]))

AreSeparate(list) ==
  \A i, k \in Live(list) : i # k =>
    /\ Updated(list[i]) \intersect Updated(list[k]) = {}
    /\ WaitsFor(list[k], list[i]) => Clash(list[i], list[k])

HasOrder(list, end) == \E order : IsOrder(list, end, order)

(* The target of a resolve is not used before.                              *)
TargetsAreUnused(list) ==
  \A i, k \in Live(list) :
    i < k /\ list[k].type = "resolve" => ResourceOf(list[k].dst) \notin ResourcesUsed(list[i])

(* What one pass has read-only and another only reads is not cleared.       *)
ReadonlyStays(list, end) ==
  \A i, k, m \in Live(list) :
    i < end /\ i < k /\ m < k /\ m # i /\ list[k].type = "clear" =>
      \A p \in list[k].planes :
        IsReadonly(list[i], p) =>
          ResourceOf(p) \notin ResourcesUsed(list[m]) \ ResourcesWritten(list[m])

StoresAreCleared(list, end) ==
  \A i \in Live(list) : \A p \in DOMAIN list[i].attachments :
    list[i].attachments[p].store = "dont_care" => IsCleared(list, end, i, p)

IsSound(list, end) ==
  /\ AreListed(list) /\ AreWhole(list, end) /\ AreSeparate(list) /\ HasOrder(list, end)
  /\ TargetsAreUnused(list) /\ ReadonlyStays(list, end) /\ StoresAreCleared(list, end)

(* The pass has met none that it must stay before.                          *)
Apart(list, j, i) ==
  \A m \in Live(list) : j < m /\ m < i => ~ Clash(list[j], list[m])

(* One pass has become part of another.                                     *)
Carries(e, a, b) ==
  /\ Updated(e) = Updated(a) \union Updated(b)
  /\ (Waited(a) \union Waited(b)) \ Updated(b) \subseteq Waited(e)
  /\ Waited(e) \subseteq Waited(a) \union Waited(b)
  /\ ResourcesUsed(e) = ResourcesUsed(a) \union ResourcesUsed(b)
  /\ ResourcesWritten(e) = ResourcesWritten(a) \union ResourcesWritten(b)
  /\ Alters(e) = Alters(a) \union Alters(b)

Moves(list, after, from, into) ==
  /\ from \in Live(list) /\ into \in Live(list) /\ from # into
  /\ DOMAIN after = DOMAIN list
  /\ after[from].type = "null" /\ after[into].type = list[into].type
  /\ \A i \in DOMAIN list \ {from, into} : after[i] = list[i]
  /\ Carries(after[into], list[into], list[from])

(* A pass whose fences and accesses stay, and whose type.                  *)
IsLike(e, a) ==
  /\ e.type = a.type /\ Updated(e) = Updated(a) /\ Waited(e) = Waited(a)
  /\ ResourcesUsed(e) = ResourcesUsed(a) /\ ResourcesWritten(e) = ResourcesWritten(a)

-----------------------------------------------------------------------------
(* What a pass leaves in the planes, if all is stored, and what it sees.   *)
ResolvedAt(e) == { q \in DOMAIN e.attachments : e.attachments[q].resolve # None }
ResolveTargets(e) == { e.attachments[q].resolve : q \in ResolvedAt(e) }
Resolvers(e) == { e.attachments[q].resolver : q \in ResolvedAt(e) }
ResolverOf(e, p) ==
  e.attachments[CHOOSE q \in ResolvedAt(e) : e.attachments[q].resolve = p].resolver

LoadedAt(c, e, p) ==
  IF e.attachments[p].load = "clear" THEN << e.attachments[p].clear >> ELSE c[p]

DrawnAt(c, e, p) ==
  CASE p \notin DOMAIN e.attachments -> c[p]
    [] p \in DOMAIN e.attachments /\ e.attachments[p].readonly -> LoadedAt(c, e, p)
    [] p \in DOMAIN e.attachments /\ ~ e.attachments[p].readonly -> LoadedAt(c, e, p) \o e.cmds

ContentsAfter(c, e) ==
  [p \in Planes |->
     CASE e.type = "null" -> c[p]
       [] e.type = "clear" -> IF p \in e.planes THEN <<e.id>> ELSE c[p]
       [] e.type = "resolve" -> IF p = e.dst THEN <<e.id>> ELSE c[p]
       [] e.type = "render" ->
            IF p \in ResolveTargets(e) THEN << ResolverOf(e, p) >> ELSE DrawnAt(c, e, p)
       [] OTHER -> IF p \in PlaneWrites(e, e.uses) THEN Append(c[p], e.id) ELSE c[p]]

(* Read by shaders and blits.                                               *)
Readers(e) == { u \in e.uses : ~ IsWrite(u.mode) /\ u.id \notin Resolvers(e) }
PlanesRead(e, u) == PlanesOf[u.res] \ DOMAIN e.attachments

SeenOf(c, e) ==
  UNION { { <<u.id, p, c[p]>> : p \in PlanesRead(e, u) } : u \in Readers(e) }

SeenBy(c, e) ==
  CASE e.type \in {"null", "clear"} -> {}
    [] e.type = "resolve" -> { <<e.id, e.src, c[e.src]>> }
    [] e.type = "render" ->
         SeenOf(c, e)
         \union { << e.attachments[q].resolver, q, DrawnAt(c, e, q) >> : q \in ResolvedAt(e) }
    [] OTHER -> SeenOf(c, e)

InitialContents == [p \in Planes |-> <<0>>]

Contents(list) ==
  LET after[k \in 0 .. Len(list)] ==
        IF k = 0 THEN InitialContents ELSE ContentsAfter(after[k - 1], list[k])
  IN  after

SeenIn(list) == UNION { SeenBy(Contents(list)[k - 1], list[k]) : k \in DOMAIN list }

SameEffect(list, after) ==
  /\ Contents(after)[Len(after)] = Contents(list)[Len(list)]
  /\ SeenIn(after) = SeenIn(list)

(* Two passes a and b, with others between that do not use what a does nor *)
(* the planes "moved", do what x and y do in their places.                 *)
AreContents == [Planes -> Seq(Nat)]

Exchange(a, b, x, y, moved) ==
  /\ \A c \in AreContents : \A p \in Planes \ moved :
       ContentsAfter(c, x)[p] = ContentsAfter(c, a)[p]
  /\ \A c, c2, d2 \in AreContents :
       /\ \A p \in Planes \ moved : d2[p] = c2[p]
       /\ \A p \in Planes : p \in moved \/ ResourceOf(p) \in ResourcesUsed(a) =>
            c2[p] = ContentsAfter(c, a)[p] /\ d2[p] = ContentsAfter(c, x)[p]
       => /\ ContentsAfter(d2, y) = ContentsAfter(c2, b)
          /\ SeenBy(c, x) \union SeenBy(d2, y) = SeenBy(c, a) \union SeenBy(c2, b)

=============================================================================
