-------------------------- MODULE EncodingContext --------------------------
(***************************************************************************)
(* EncodingContext: the encode thread turns commands into a list of        *)
(* passes, each with the fences it waits for and updates. A flush drops    *)
(* passes of the list by merging them into others (clears and renders into *)
(* later renders, resolves into earlier ones) and encodes what is left in  *)
(* a Metal command buffer.                                                 *)
(*                                                                         *)
(* The variable "gpu" is what Metal makes of the encoded fences: a wait is *)
(* for the last update of the fence encoded before; passes run             *)
(* concurrently otherwise.                                                 *)
(***************************************************************************)
EXTENDS FenceTracking

CONSTANTS
  Resources,
  Planes,              \* what a pass clears, loads and stores
  PlanesOf,            \* of each resource
  AttachmentSets,      \* the sets of planes a render pass may have
  ReadonlySets,        \* the sets of planes bound for reading only
  ClearSets,           \* the sets of planes that one clear clears
  Resolves,            \* the pairs <<source, destination>> of resolves
  Presents,            \* the pairs <<read, written>> of presents and upscales
  ShaderStages,        \* of render passes: subset of {"vertex", "pixel"}
  ShaderModes,         \* what shaders of render passes do: read, write, uav
  PassTypes,           \* subset of {"compute", "blit"}
  FragmentToVertex,    \* a vertex stage may use what a fragment stage used
  DistantWrites,       \* a render pass may write what was written long ago
  ResolveAnywhere,     \* the list may use the destination of a resolve
  ClearAfterReaders,   \* what is read beside a read-only use may be cleared
  UavResources,        \* what may be bound as an UAV
  WithEvents,          \* signals, waits and timestamps
  None,
  MaxId, MaxPasses, MaxList, MaxWork, MaxCommands, MaxUses, MaxControls   \* bounds

ASSUME PassTypesAssumption == PassTypes \subseteq {"compute", "blit"}
ASSUME ShaderStagesAssumption == ShaderStages \subseteq {"vertex", "pixel"}
ASSUME PlanesAssumption ==
  /\ PlanesOf \in [Resources -> SUBSET Planes]
  /\ \A p \in Planes : \E r \in Resources : p \in PlanesOf[r]
  /\ \A r1, r2 \in Resources : r1 /= r2 => PlanesOf[r1] \intersect PlanesOf[r2] = {}
  /\ AttachmentSets \union ClearSets \subseteq SUBSET Planes
  /\ Resolves \subseteq (Planes \ {"depth", "stencil"}) \X Planes   \* of colors
  /\ Presents \subseteq Resources \X (Resources \union {None}) /\ None \notin Planes

VARIABLES
  encoder_id,    \* the next id
  trackers,      \* of each resource
  fence_locality,\* FenceLocalityCheck: its summary of the last passes
  encoders,      \* the list since the last flush
  current,       \* encoder_current
  pass,          \* history of the current pass: see PassHistory
  ignore_waw,    \* intrapass_barrier_control_bits_: UAV overlap
  gpu,           \* what is encoded: see GpuHistory
  passes,        \* bound: passes so far, events included
  controls       \* bound: changes of ignore_waw so far

vars == <<encoder_id, trackers, fence_locality, encoders, current, pass,
          ignore_waw, gpu, passes, controls>>

ResourceOf(plane) == CHOOSE r \in Resources : plane \in PlanesOf[r]
ResourcesOf(planes) == { ResourceOf(p) : p \in planes }

NoAttachments == <<>>

(* EncoderData. "update" has ids: it stands for their fences. For a render *)
(* pass, "vertex" is encoder_id_vertex. "cmds" are the ids of the passes   *)
(* whose commands it has, in order; "uses" what was accessed, by whom.     *)
Encoder(type, vertex, id) ==
  [type |-> type, vertex |-> vertex, id |-> id,
   wait |-> {}, wait_vertex |-> {},
   update |-> IF type = "event" THEN {} ELSE {id},
   update_vertex |-> IF type = "render" THEN {vertex} ELSE {},
   barriers |-> {}, attachments |-> NoAttachments, cmds |-> <<>>, uses |-> {},
   planes |-> {}, src |-> None, dst |-> None]

NoEncoder == Encoder("null", None, None)

Attachment(readonly) ==
  [load |-> "load", clear |-> None, store |-> "store", resolve |-> None,
   resolver |-> None, readonly |-> readonly]

IsWrite(mode) == mode \in {"write", "uav"}

Use(e, stage, r, mode) ==
  [id |-> IF stage = "vertex" THEN e.vertex ELSE e.id,
   stage |-> stage, res |-> r, mode |-> mode]

(* open: commands of this pass not yet ordered before stage "to";          *)
(* pending: accesses of the next command.                                  *)
NoPass == [open |-> {}, pending |-> {}, commands |-> 0]

(* before: the ids done before this one starts; host: the pass that runs   *)
(* it; last: of each fence, the ids done at its last update.               *)
NothingEncoded ==
  [before |-> <<>>, host |-> <<>>, uses |-> {},
   last |-> [f \in 0 .. FenceCount - 1 |-> {}]]

Init ==
  /\ encoder_id = FenceCount     \* actually important to not start from 0
  /\ trackers = [r \in Resources |-> NewTracker]
  /\ fence_locality = [f \in 0 .. FenceCount - 1 |-> {}]
  /\ encoders = <<>>
  /\ current = NoEncoder
  /\ pass = NoPass
  /\ ignore_waw = FALSE
  /\ gpu = NothingEncoded
  /\ passes = 0
  /\ controls = 0

----------------------------------------------------------------------------
(* access<stage>: the tracker's answer, added to the current encoder.      *)

AnswerTo(e, t, stage, mode) ==
  CASE stage = "compute" /\ IsWrite(mode) -> AccessExclusive(t, e.id, mode = "uav")
    [] stage = "compute" /\ ~ IsWrite(mode) -> AccessShared(t, e.id)
    [] stage = "vertex" /\ IsWrite(mode) ->
         AccessExclusivePreRaster(t, e.vertex, mode = "uav")
    [] stage = "vertex" /\ ~ IsWrite(mode) -> AccessSharedPreRaster(t, e.vertex)
    [] stage = "pixel" /\ IsWrite(mode) ->
         AccessExclusiveFragment(t, e.id, mode = "uav")
    [] stage = "pixel" /\ ~ IsWrite(mode) -> AccessSharedFragment(t, e.id)

Accessed(s, resources, stage, mode) ==
  LET e == s.encoder
      answer == [r \in resources |-> AnswerTo(e, s.trackers[r], stage, mode)]
      waits == UNION { answer[r].waits : r \in resources }
  IN  [trackers |-> [r \in Resources |-> IF r \in resources THEN answer[r].tracker
                                        ELSE s.trackers[r]],
       encoder |->
         [e EXCEPT
            !.wait = IF stage = "vertex" THEN @ ELSE @ \union waits,
            !.wait_vertex = IF stage = "vertex" THEN @ \union waits ELSE @,
            !.barriers = @ \union UNION { answer[r].barriers : r \in resources },
            !.uses = @ \union { Use(e, stage, r, mode) : r \in resources }]]

At(e) == [trackers |-> trackers, encoder |-> e]

Written(attachments) ==
  { p \in DOMAIN attachments : ~ attachments[p].readonly }

(* endPass: depth and stencil planes are written only now; then the waits  *)
(* are simplified, those of the vertex stage first.                        *)

DepthStencil(planes) == { p \in planes : p \in {"depth", "stencil"} }

Ended(s) ==
  LET e == s.encoder
      w == Accessed(s, ResourcesOf(DepthStencil(Written(e.attachments))),
                       "pixel", "write")
      v == CollectAndSimplifyWaits(w.encoder.wait_vertex, fence_locality,
                                   e.vertex)
      f == CollectAndSimplifyWaits(w.encoder.wait \union { Fence(e.vertex) },
                                   v.summary, e.id)
      c == CollectAndSimplifyWaits(e.wait, fence_locality, e.id)
  IN  CASE e.type = "render" ->
             [trackers |-> w.trackers, summary |-> f.summary,
              encoder |-> [w.encoder EXCEPT !.wait = f.minimal \ { Fence(e.vertex) },
                                            !.wait_vertex = v.minimal]]
        [] e.type = "event" -> [trackers |-> s.trackers, summary |-> fence_locality,
                                encoder |-> e]
        [] OTHER -> [trackers |-> s.trackers, summary |-> c.summary,
                     encoder |-> [e EXCEPT !.wait = c.minimal]]

Finish(s) ==
  LET ended == Ended(s)
  IN  /\ trackers' = ended.trackers
      /\ fence_locality' = ended.summary
      /\ encoders' = Append(encoders, ended.encoder)

(* Bounds; an encoder is added to the list. *)
CanStart(ids) ==
  /\ current = NoEncoder
  /\ encoder_id + ids <= FenceCount + MaxId
  /\ Len(encoders) < MaxList
  /\ passes < MaxPasses
  /\ passes' = passes + 1

----------------------------------------------------------------------------
(* The operations of the context. The passes that are only one command end *)
(* where they start.                                                       *)

OnePass(type, reads, writes, planes, src, dst) ==
  LET e == [Encoder(type, None, encoder_id) EXCEPT
              !.planes = planes, !.src = src, !.dst = dst]
      read == Accessed(At(e), reads, "compute", "read")
  IN  /\ CanStart(1)
      /\ encoder_id' = encoder_id + 1
      /\ Finish(Accessed(read, writes, "compute", "write"))
      /\ UNCHANGED <<current, pass, ignore_waw, gpu, controls>>

(* Is the resource used by a pass of the list? *)
IsUsed(r) == \E i \in DOMAIN encoders : \E u \in encoders[i].uses : u.res = r

ResourcesUsed(e) == { u.res : u \in e.uses }
ResourcesWritten(e) == { u.res : u \in { u \in e.uses : IsWrite(u.mode) } }

(* Is what a pass of the list has read-only only read by another one? *)
ReadBesideReadonly(planes) ==
  \E i, k \in DOMAIN encoders :
    /\ i /= k
    /\ \E p \in planes \intersect (DOMAIN encoders[i].attachments
                                   \ Written(encoders[i].attachments)) :
         ResourceOf(p) \in ResourcesUsed(encoders[k]) \ ResourcesWritten(encoders[k])

(* clearColor, clearDepthStencil *)
Clear(planes) ==
  /\ ClearAfterReaders \/ ~ ReadBesideReadonly(planes)
  /\ OnePass("clear", {}, ResourcesOf(planes), planes, None, None)

ResolveTexture(src, dst) ==
  /\ ResolveAnywhere \/ ~ IsUsed(ResourceOf(dst))
  /\ OnePass("resolve", {ResourceOf(src)}, {ResourceOf(dst)}, {}, src, dst)

(* present reads the back buffer; an upscale also writes its output. *)
Present(src, dst) ==
  OnePass("present", {src}, {dst} \ {None}, {}, None, None)

(* signalEvent, waitEvent and sampleTimestamp have no fences. *)
Event ==
  /\ WithEvents
  /\ CanStart(0)
  /\ Finish(At(Encoder("event", None, None)))
  /\ UNCHANGED <<encoder_id, current, pass, ignore_waw, gpu, controls>>

MayWrite(t, id) == DistantWrites \/ t.exclusive = 0 \/ id - t.exclusive < 2 * Lane

(* startRenderPass, then the attachments: color for writing, depth and     *)
(* stencil for reading (they are written when the pass ends).              *)
StartRenderPass(planes, readonly) ==
  LET e == [Encoder("render", encoder_id, encoder_id + 1) EXCEPT
              !.attachments = [p \in planes |-> Attachment(p \in readonly)]]
      color == Accessed(At(e), ResourcesOf(planes \ DepthStencil(planes)),
                           "pixel", "write")
      all == Accessed(color, ResourcesOf(DepthStencil(planes)), "pixel", "read")
  IN  /\ CanStart(2)
      /\ readonly \subseteq DepthStencil(planes)
      /\ \A r \in ResourcesOf(planes) : MayWrite(trackers[r], encoder_id + 1)
      /\ encoder_id' = encoder_id + 2
      /\ current' = all.encoder
      /\ trackers' = all.trackers
      /\ UNCHANGED <<fence_locality, encoders, pass, ignore_waw, gpu, controls>>

(* startComputePass, startBlitPass *)
StartPass(type) ==
  /\ CanStart(1)
  /\ encoder_id' = encoder_id + 1
  /\ current' = Encoder(type, None, encoder_id)
  /\ UNCHANGED <<trackers, fence_locality, encoders, pass, ignore_waw, gpu, controls>>

(* Bound: pairs of ids and accesses together. *)
AccessCount == Cardinality(gpu.uses)
               + FoldLeft(LAMBDA n, e : n + Cardinality(e.uses), 0, encoders)

Conflict(a, b) == a.res = b.res /\ (IsWrite(a.mode) \/ IsWrite(b.mode))

(* A binding of the next command. D3D11 unbinds what conflicts, so that a  *)
(* command has one use of a resource, and a pass none of its attachments.  *)
Access(stage, r, mode) ==
  LET after == Accessed(At(current), {r}, stage, mode)
      use == Use(current, stage, r, mode)
  IN  /\ current /= NoEncoder
      /\ pass.commands < MaxCommands
      /\ stage \in (IF current.type = "render" THEN ShaderStages ELSE {"compute"})
      /\ mode \in (CASE current.type = "render" -> ShaderModes
                     [] current.type = "compute" -> {"read", "uav"}
                     [] current.type = "blit" -> {"read", "write"})
      /\ mode = "uav" => r \in UavResources
      /\ r \notin ResourcesOf(DOMAIN current.attachments)
      /\ Cardinality(pass.pending) < MaxUses
      /\ \A p \in pass.pending : p.res /= r
      /\ stage = "vertex" /\ ~ FragmentToVertex =>
           \A u \in current.uses : ~ (u.stage = "pixel" /\ Conflict(u, use))
      /\ stage /= "compute" /\ IsWrite(mode) => MayWrite(trackers[r], use.id)
      /\ (encoder_id - FenceCount) \div 2 + AccessCount
         + Cardinality(after.encoder.uses)
         <= MaxWork
      /\ trackers' = after.trackers
      /\ current' = after.encoder
      /\ pass' = [pass EXCEPT !.pending = @ \union {use}]
      /\ UNCHANGED <<encoder_id, fence_locality, encoders, ignore_waw, gpu, passes, controls>>

(* Begin and end of UAV overlap. *)
SetIntrapassControl ==
  /\ current /= NoEncoder
  /\ controls < MaxControls
  /\ controls' = controls + 1
  /\ ignore_waw' = ~ ignore_waw
  /\ UNCHANGED <<encoder_id, trackers, fence_locality, encoders, current, pass,
                 gpu, passes>>

----------------------------------------------------------------------------
(* Draws and dispatches: resolve{Compute,Render}PassBarrier, then the      *)
(* command itself. A blit pass has no barriers.                            *)

FaultMaskAll(barriers, ignore) == IF ignore THEN {} ELSE { b[1] : b \in barriers }

Emitted(barriers, ignore) ==
  { b[1] : b \in { b \in barriers : ~ (ignore /\ b[2] = "WaW") } }

Omitted(e, ignore) ==
  e.type = "render" /\ "pre_raster_after_fragment" \in Emitted(e.barriers, ignore)

EmittedBy(e, ignore) ==
  IF e.type = "blit" \/ Omitted(e, ignore) THEN {} ELSE Emitted(e.barriers, ignore)

(* What Metal orders: a command's fragment stage follows its vertex stage. *)
Ordered(x, e, names) ==
  \/ e.type = "compute" /\ "barrier" \in names
  \/ e.type = "render" /\ "barrier" \in names /\ x.stage = "pixel" /\ x.to = "pixel"
  \/ e.type = "render" /\ "pre_raster" \in names /\ x.stage = "vertex"
  \/ e.type = "render" /\ "fragment_after_pre_raster" \in names
     /\ x.stage = "vertex" /\ x.to = "pixel"

StillOpen == { x \in pass.open : ~ Ordered(x, current, EmittedBy(current, ignore_waw)) }

BarriersLeft ==
  CASE current.type = "blit" -> current.barriers
    [] Omitted(current, ignore_waw) -> {}
    [] OTHER -> { b \in current.barriers : b[1] \notin EmittedBy(current, ignore_waw) }

Opened(use) ==
  { [stage |-> use.stage, res |-> use.res, mode |-> use.mode, to |-> to] :
      to \in IF use.stage = "compute" THEN {"compute"} ELSE {"vertex", "pixel"} }

Command ==
  /\ current /= NoEncoder
  /\ pass.commands < MaxCommands
  /\ pass.pending /= {} \/ DOMAIN current.attachments /= {}
  /\ current' = [current EXCEPT
       !.barriers = BarriersLeft,
       !.cmds = IF current.type = "render" THEN Append(@, current.id) ELSE @]
  /\ pass' = [open |-> StillOpen \union UNION { Opened(u) : u \in pass.pending },
              pending |-> {}, commands |-> pass.commands + 1]
  /\ UNCHANGED <<encoder_id, trackers, fence_locality, encoders, ignore_waw, gpu,
                 passes, controls>>

EndPass ==
  /\ current /= NoEncoder
  /\ pass.pending = {}
  /\ Finish(At(current))
  /\ current' = NoEncoder
  /\ pass' = NoPass
  /\ UNCHANGED <<encoder_id, ignore_waw, gpu, passes, controls>>

----------------------------------------------------------------------------
(* flushCommands: the optimizer. From the last clear or render to the      *)
(* first, each is compared with the passes after it until one of them must *)
(* stay behind it.                                                         *)

Waited(e) == e.wait \union e.wait_vertex
Updated(e) == { Fence(id) : id \in e.update \union e.update_vertex }

FaultOnlyAfter(former, latter) ==
  former.update \union former.update_vertex /= {}
  /\ Updated(latter) \intersect Waited(former) /= {}

HasDataDependency(former, latter) ==
  \/ Updated(former) \intersect Waited(latter) /= {}
  \/ Updated(latter) \intersect Waited(former) /= {}

Null(e) == [e EXCEPT !.type = "null"]

(* The pass "from", less its fences: the waits are for other passes only.  *)
Absorbed(into, from) ==
  [into EXCEPT !.update = @ \union from.update,
               !.wait = (@ \union from.wait) \ { Fence(id) : id \in from.update },
               !.uses = @ \union from.uses]

(* A clear becomes the load action of what it matches, if nothing cleared  *)
(* it already; it is dropped if it matches all.                            *)

ClearedBy(render, clear) ==
  [render EXCEPT !.attachments =
     [p \in DOMAIN @ |->
        IF p \in clear.planes /\ @[p].load = "load"
        THEN [@[p] EXCEPT !.load = "clear", !.clear = clear.id] ELSE @[p]]]

Unmatched(clear, render) ==
  [clear EXCEPT !.planes = @ \ DOMAIN render.attachments]

(* Render, then clear: what is cleared need not be stored. *)
NotStored(render, clear) ==
  [render EXCEPT !.attachments =
     [p \in DOMAIN @ |->
        IF p \in DepthStencil(clear.planes) THEN [@[p] EXCEPT !.store = "dont_care"]
        ELSE @[p]]]

MayResolve(render, resolve) ==
  /\ resolve.src \in DOMAIN render.attachments
  /\ render.attachments[resolve.src].store = "store"
  /\ render.attachments[resolve.src].resolve = None

ResolvedBy(render, resolve) ==
  [render EXCEPT !.attachments[resolve.src] =
     [@ EXCEPT !.store = "resolve", !.resolve = resolve.dst,
               !.resolver = resolve.id]]

FaultSamePlanes(r0, r1) == DOMAIN r0.attachments = DOMAIN r1.attachments

IsEncoderSignatureMatched(r0, r1) ==
  /\ DOMAIN r0.attachments = DOMAIN r1.attachments
  /\ \A p \in DOMAIN r0.attachments :
       LET a0 == r0.attachments[p]
           a1 == r1.attachments[p]
       IN  /\ a0.readonly = a1.readonly
           /\ IF a0.readonly THEN a1.load /= "clear"
              ELSE a0.store = "store" /\ a1.load = "load"

MayMerge(r0, r1) ==
  /\ IsEncoderSignatureMatched(r0, r1)
  /\ r1.wait_vertex \intersect { Fence(id) : id \in r0.update } = {}

(* The latter render with the former's commands before its own. *)
Merged(r0, r1) ==
  LET loaded(p) == [r1.attachments[p] EXCEPT
                      !.load = r0.attachments[p].load,
                      !.clear = r0.attachments[p].clear,
                      !.store = IF p \in DepthStencil({p})
                                THEN r0.attachments[p].store ELSE @]
      vertex == { Fence(id) : id \in r0.update_vertex }
      all == Absorbed(r1, r0)
  IN  [all EXCEPT !.attachments = [p \in DOMAIN @ |-> loaded(p)],
                  !.cmds = r0.cmds \o @,
                  !.update_vertex = @ \union r0.update_vertex,
                  !.wait_vertex = (@ \union r0.wait_vertex) \ vertex,
                  !.wait = @ \ vertex]

FaultEventsMove == {"null_event"}

(* Signals, waits and timestamps: nothing moves past them. *)
Fixed == {"event"}

Stop(list) == [list |-> list, stop |-> TRUE]
Continue(list) == [list |-> list, stop |-> FALSE]

(* checkEncoderRelation of the passes j < i of the list. *)
CheckEncoderRelation(list, j, i) ==
  LET former == list[j]
      latter == list[i]
      types == <<former.type, latter.type>>
      dependent == HasDataDependency(former, latter)
      clear == Unmatched(former, latter)
      cleared == ClearedBy(latter, former)
  IN  CASE former.type = "null" -> Continue(list)
        [] former.type /= "null" /\ {former.type, latter.type} \intersect Fixed /= {} ->
             Stop(list)
        [] types = <<"clear", "render">> /\ clear.planes = {} ->
             Stop([list EXCEPT ![j] = Null(@), ![i] = Absorbed(cleared, former)])
        [] types = <<"clear", "render">> /\ clear.planes /= {} ->
             [list |-> [list EXCEPT ![j] = clear, ![i] = cleared], stop |-> dependent]
        [] types = <<"render", "clear">> ->
             [list |-> [list EXCEPT ![j] = NotStored(former, latter)],
              stop |-> dependent]
        [] types = <<"render", "resolve">> /\ MayResolve(former, latter) ->
             Continue([list EXCEPT ![j] = Absorbed(ResolvedBy(former, latter), latter),
                                   ![i] = Null(@)])
        [] types = <<"render", "render">> /\ MayMerge(former, latter) ->
             Stop([list EXCEPT ![j] = Null(@), ![i] = Merged(former, latter)])
        [] OTHER -> [list |-> list, stop |-> dependent]

Visit(s, j, i) ==
  IF s.stop \/ s.list[i].type = "null" THEN s ELSE CheckEncoderRelation(s.list, j, i)

MoveDown(list, j) ==
  LET upto[k \in 0 .. Len(list) - j] ==
        IF k = 0 THEN Continue(list) ELSE Visit(upto[k - 1], j, j + k)
  IN  upto[Len(list) - j].list

Moved(list, j) == IF list[j].type \in {"clear", "render"} THEN MoveDown(list, j) ELSE list

AllMoved(list) ==
  LET last[k \in 0 .. Len(list)] ==
        IF k = 0 THEN list ELSE Moved(last[k - 1], Len(list) + 1 - k)
  IN  last[Len(list)]

Remaining(list) ==
  LET left[k \in 0 .. Len(list)] ==
        IF k = 0 THEN <<>>
        ELSE IF list[k].type = "null" THEN left[k - 1] ELSE Append(left[k - 1], list[k])
  IN  left[Len(list)]

Optimized(list) == Remaining(AllMoved(list))

(* The passes are encoded in the order of the list: the waits of a pass,   *)
(* then its updates. Events order what is encoded without fences.          *)

Encoded(g, e) ==
  LET Done(fences) == LET ids == UNION { g.last[f] : f \in fences }
                      IN  ids \union UNION { g.before[id] : id \in ids }
      vertex == Done(e.wait_vertex)
      fragment == vertex \union e.update_vertex \union Done(e.wait)
      ids == e.update \union e.update_vertex
  IN  [before |-> [id \in ids \union DOMAIN g.before |->
                     CASE id \in e.update -> fragment
                       [] id \in e.update_vertex \ e.update -> vertex
                       [] OTHER -> g.before[id]],
       host |-> [id \in ids \union DOMAIN g.host |-> IF id \in ids THEN e.id ELSE g.host[id]],
       uses |-> g.uses \union e.uses,
       last |-> [f \in DOMAIN g.last |->
                   CASE \E id \in e.update : Fence(id) = f ->
                          e.update \union e.update_vertex
                     [] (\E id \in e.update_vertex : Fence(id) = f)
                        /\ ~ (\E id \in e.update : Fence(id) = f) ->
                          e.update_vertex
                     [] OTHER -> g.last[f]]]

FlushCommands ==
  /\ current = NoEncoder
  /\ encoders /= <<>>
  /\ gpu' = FoldLeft(Encoded, gpu, Optimized(encoders))
  /\ encoders' = <<>>
  /\ UNCHANGED <<encoder_id, trackers, fence_locality, current, pass, ignore_waw,
                 passes, controls>>

Next ==
  \/ \E planes \in ClearSets : Clear(planes)
  \/ \E p \in Resolves : ResolveTexture(p[1], p[2])
  \/ \E p \in Presents : Present(p[1], p[2])
  \/ Event
  \/ \E planes \in AttachmentSets, readonly \in ReadonlySets :
       StartRenderPass(planes, readonly)
  \/ \E type \in PassTypes : StartPass(type)
  \/ \E stage \in {"compute", "vertex", "pixel"}, r \in Resources,
        mode \in {"read", "write", "uav"} : Access(stage, r, mode)
  \/ SetIntrapassControl
  \/ Command
  \/ EndPass
  \/ FlushCommands

Spec == Init /\ [][Next]_vars

----------------------------------------------------------------------------
(* Properties *)

(* The tracker forgets a fragment stage that reads what the vertex stage of *)
(* its own pass wrote (accessSharedFragment, exclusive_ == id - 1).         *)
Forgotten(a) ==
  a.stage = "pixel" /\ ~ IsWrite(a.mode)
  /\ \E w \in gpu.uses : w.stage = "vertex" /\ w.id + 1 = a.id /\ Conflict(w, a)

(* Two passes that conflict on a resource run one after the other, in the  *)
(* order they were recorded in, however far apart they are and whatever    *)
(* they were merged with (accesses, waits and merges together).            *)
ConflictsAreOrdered ==
  \A a, b \in gpu.uses :
    a.id < b.id /\ Conflict(a, b) /\ gpu.host[a.id] /= gpu.host[b.id]
    /\ ~ Forgotten(a)
    => a.id \in gpu.before[b.id]

(* A pass runs after every pass that is Lane ids or more older: only so    *)
(* may the trackers forget them (the weak fences).                         *)
DistantPassesAreOrdered ==
  \A a, b \in DOMAIN gpu.before : a + Lane <= b => a \in gpu.before[b]

(* Between two commands of a pass that conflict there is a barrier (the    *)
(* flags of the trackers that save barriers, isShared and so on). While    *)
(* UAV overlap is on only a read in a compute pass is sure to have one.    *)
BarriersBetweenConflicts ==
  current /= NoEncoder /\ current.type /= "blit" =>
    \A a \in StillOpen, b \in pass.pending :
      a.to = b.stage /\ Conflict(a, b) =>
        ignore_waw /\ (current.type = "render" \/ b.mode = "uav")

(* What a list does to the contents of planes, executed in its order:      *)
(* contents are the passes that wrote since the last clear; "seen" is what *)
(* each pass read.                                                         *)
Before(c, e, attachments) ==
  [p \in Planes |-> IF p \in DOMAIN attachments /\ attachments[p].load = "clear"
                    THEN <<attachments[p].clear>> ELSE c[p]]

Drawn(c, e) ==
  [p \in Planes |-> IF p \in Written(e.attachments) THEN c[p] \o e.cmds ELSE c[p]]

PlaneWrites(e, uses) ==
  { p \in Planes : \E u \in uses : u.stage \in {"compute", "vertex"}
                     /\ IsWrite(u.mode) /\ p \in PlanesOf[u.res] }

Executed(s, e) ==
  LET loaded == Before(s.contents, e, e.attachments)
      drawn == Drawn(loaded, e)
      resolved == { p \in DOMAIN e.attachments : e.attachments[p].resolve /= None }
      read == { <<u.id, p, loaded[p]>> :
                  u \in { u \in e.uses : ~ IsWrite(u.mode) }, p \in Planes }
      Seen == { t \in read : \E u \in e.uses :
                  u.id = t[1] /\ ~ IsWrite(u.mode) /\ t[2] \in PlanesOf[u.res]
                  /\ t[2] \notin DOMAIN e.attachments }
  IN  CASE e.type = "clear" ->
             [s EXCEPT !.contents = [p \in Planes |-> IF p \in e.planes THEN <<e.id>>
                                                      ELSE @[p]]]
        [] e.type = "resolve" ->
             [contents |-> [s.contents EXCEPT ![e.dst] = <<e.id>>],
              seen |-> s.seen \union { <<e.id, e.src, s.contents[e.src]>> }]
        [] e.type = "render" ->
             [contents |->
                [p \in Planes |->
                   CASE \E q \in resolved : e.attachments[q].resolve = p ->
                          << e.attachments[CHOOSE q \in resolved :
                               e.attachments[q].resolve = p].resolver >>
                     [] p \in DOMAIN e.attachments /\
                        e.attachments[p].store = "dont_care" -> <<>>
                     [] OTHER -> drawn[p]],
              seen |-> (s.seen \union { t \in Seen : t[1] \notin
                          { e.attachments[q].resolver : q \in resolved } })
                       \union { <<e.attachments[q].resolver, q, drawn[q]>> :
                                  q \in resolved }]
        [] OTHER ->
             [contents |-> [p \in Planes |-> IF p \in PlaneWrites(e, e.uses)
                                             THEN Append(s.contents[p], e.id)
                                             ELSE s.contents[p]],
              seen |-> s.seen \union Seen]

Run(list) ==
  LET after[k \in 0 .. Len(list)] ==
        IF k = 0 THEN [contents |-> [p \in Planes |-> <<0>>], seen |-> {}]
        ELSE Executed(after[k - 1], list[k])
  IN  after[Len(list)]

(* The list that is encoded has the effect of the list that was recorded:  *)
(* the same contents in the end and under every read, after all clears,    *)
(* renders and resolves that are merged.                                   *)
SameAsRecorded == current = NoEncoder => Run(Optimized(encoders)) = Run(encoders)

(* Nothing moves past an event: a signal tells of all the passes recorded  *)
(* before it and of none recorded after it.                                *)
IdsBefore(list, n) ==
  UNION { list[i].update \union list[i].update_vertex :
            i \in { i \in DOMAIN list :
                      Cardinality({ k \in 1 .. i : list[k].type = "event" }) < n } }

EventsKeepTheirPlace ==
  \A n \in 1 .. Len(encoders) : IdsBefore(Optimized(encoders), n) = IdsBefore(encoders, n)

=============================================================================
