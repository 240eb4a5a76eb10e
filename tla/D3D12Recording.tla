--------------------------- MODULE D3D12Recording ---------------------------
(***************************************************************************)
(* Recording of D3D12 command lists (d3d12_command_list.cpp) into command  *)
(* allocators (d3d12_command_allocator.hpp): which pass a command goes to, *)
(* which pipeline state the list writes before it, and what                *)
(* ExecuteCommandLists finds when it follows the list's entry.             *)
(*                                                                         *)
(* An allocator keeps the passes of its lists and is recorded into by one  *)
(* list at a time: encoder_last is null when no list records. The list     *)
(* keeps the API state, and in dirty_state_ which parts of it the pass     *)
(* that is open has not been given yet.                                    *)
(***************************************************************************)
EXTENDS Integers, Sequences, SequencesExt, FiniteSets

CONSTANTS
  Lists, Allocators,
  Pipelines,       \* pipeline states: <<"graphics", n>> or <<"compute", n>>
  KkPipelines,     \* compute pipelines with the KK layout of root arguments
  ViewportCounts,  \* how many viewports RSSetViewports may set
  CountChanges,    \* whether their number changes while a render pass is open
  Settable,        \* the members of DirtyState that the application sets
  MaxCalls         \* bound on the calls of the application

(* Two things the code leaves open. SetPipelineState does not make the     *)
(* root arguments dirty, so that a pass that has them in one layout keeps  *)
(* it for a pipeline with the other; and RSSetViewports does not make the  *)
(* scissor rectangles dirty, of which as many are set as there are         *)
(* viewports. KkPipelines and CountChanges say whether that happens.       *)
ASSUME PipelinesAssumption ==
  /\ Pipelines \subseteq {"graphics", "compute"} \X Nat
  /\ KkPipelines \subseteq Pipelines
  /\ CountChanges \in BOOLEAN

VARIABLES allocator, list, recorded, calls
vars == <<allocator, list, recorded, calls>>

(* enum class DirtyState *)
GraphicsState ==
  {"VertexBuffer", "GraphicsRootArguments", "GraphicsRootSignature", "Viewport",
   "ScissorRect", "BlendFactor", "StencilRef"}
ComputeState == {"ComputeRootArguments", "ComputeRootSignature"}
DirtyState == GraphicsState \union ComputeState

RootArguments == {"GraphicsRootArguments", "ComputeRootArguments"}
RootSignatures == {"GraphicsRootSignature", "ComputeRootSignature"}
SignatureOf(arguments) ==
  IF arguments = "GraphicsRootArguments" THEN "GraphicsRootSignature"
  ELSE "ComputeRootSignature"

None == <<>>
NoPass == [type |-> "None"]
NoList == [allocator |-> None]

-----------------------------------------------------------------------------
(* The allocator: lists holds the passes behind each EncoderData of        *)
(* encoder_lists_, the last one belonging to the list that records.        *)

InvalidateCurrentPass(a) ==
  IF a.current = NoPass THEN a
  ELSE [a EXCEPT !.lists[Len(a.lists)] = Append(@, a.current), !.current = NoPass]

NoTargets == 0
AllocatePass(a, type, targets) ==
  [a EXCEPT !.current = [type |-> type, targets |-> targets, cmds |-> <<>>,
                         bound |-> [s \in DirtyState \union {"pso"} |-> None]]]

StartRecord(a) == [a EXCEPT !.recording = TRUE, !.lists = Append(@, <<>>)]
EndRecord(a) == [InvalidateCurrentPass(a) EXCEPT !.recording = FALSE]

NewAllocator == [recording |-> FALSE, current |-> NoPass, lists |-> <<>>]

-----------------------------------------------------------------------------
(* The list's API state, and what it writes into a pass for each part.     *)

(* Initialize; entry is the index of the list's passes in the allocator,   *)
(* refused says that StartRecord did not set it.                           *)
Initialize(a, entry, refused, pso) ==
  [allocator |-> a, entry |-> entry, open |-> TRUE, refused |-> refused,
   pso |-> pso, targets |-> NoTargets, viewports |-> 0, epoch |-> 0,
   value |-> [s \in DirtyState |-> 0], dirty |-> {}]

Pso(d, kind) == IF d.pso # None /\ d.pso[1] = kind THEN d.pso ELSE None

(* The vertex table holds the slots the pipeline reads, root arguments are *)
(* copied with the size of the root signature, in the layout of the        *)
(* pipeline, and as many scissor rectangles are set as there are viewports.*)
Written(d, s) ==
  CASE s = "VertexBuffer" -> <<d.value[s], Pso(d, "graphics")>>
    [] s \in RootArguments /\ d.value[SignatureOf(s)] = 0 -> None
    [] s \in RootArguments /\ d.value[SignatureOf(s)] # 0 ->
         <<d.value[s], d.value[SignatureOf(s)],
           s = "ComputeRootArguments" /\ d.pso \in KkPipelines>>
    [] s \in RootSignatures -> IF d.value[s] = 0 THEN None ELSE <<d.value[s]>>
    [] s \in {"Viewport", "ScissorRect"} -> <<d.value[s], d.viewports>>
    [] OTHER -> <<d.value[s]>>

Write(bound, d, states) ==
  [s \in DOMAIN bound |-> IF s \in states THEN Written(d, s) ELSE bound[s]]

(* UpdateGraphicsPSO also sets the stencil reference, with the depth state.*)
UpdateGraphicsPSO(bound, d) ==
  [Write(bound, d, {"StencilRef"}) EXCEPT !["pso"] = Pso(d, "graphics")]

StatesOf(type) == IF type = "Render" THEN GraphicsState ELSE ComputeState
KindOf(type) == IF type = "Render" THEN "graphics" ELSE "compute"

(* A new pass knows nothing: all its states are dirty. *)
FaultForgetsScissors(type) == StatesOf(type) \ {"ScissorRect"}
DirtyInNewPass(type) == StatesOf(type)

TargetsOf(d, type) == IF type = "Render" THEN d.targets ELSE NoTargets

Opens(a, type) == a.current = NoPass \/ a.current.type # type

(* PreDraw and PreDispatch: the pass that the command goes to, given the   *)
(* state that is dirty; with skip, root arguments and samplers stay dirty. *)
Prepared(a, d, type, skip) ==
  LET opens == Opens(a, type)
      dirty == IF opens THEN d.dirty \union DirtyInNewPass(type) ELSE d.dirty
      writes == (dirty \intersect StatesOf(type))
                \ (IF skip THEN RootArguments \union RootSignatures ELSE {})
      b == IF opens THEN AllocatePass(InvalidateCurrentPass(a), type, TargetsOf(d, type))
           ELSE a
      bound == IF ~opens THEN b.current.bound
               ELSE IF type = "Render" THEN UpdateGraphicsPSO(b.current.bound, d)
               ELSE [b.current.bound EXCEPT !["pso"] = Pso(d, "compute")]
  IN [allocator |-> [b EXCEPT !.current.bound = Write(bound, d, writes)],
      dirty |-> dirty \ writes]

(* PreBlit *)
PreBlit(a, d) ==
  IF Opens(a, "Blit") THEN AllocatePass(InvalidateCurrentPass(a), "Blit", NoTargets) ELSE a

(* A command as the pass holds it, and as the application recorded it: the *)
(* state it sees, the render targets, and the barriers that precede it.    *)
Command(kind, state, targets, epoch) ==
  [kind |-> kind, state |-> state, targets |-> targets, epoch |-> epoch]

Encoded(a, cmd) == [a EXCEPT !.current.cmds = Append(@, cmd)]

Seen(bound, type) == [s \in StatesOf(type) \union {"pso"} |-> bound[s]]
Wanted(d, type) ==
  [s \in StatesOf(type) \union {"pso"} |->
     IF s = "pso" THEN Pso(d, KindOf(type)) ELSE Written(d, s)]

-----------------------------------------------------------------------------
Init ==
  /\ allocator = [a \in Allocators |-> NewAllocator]
  /\ list = [l \in Lists |-> NoList]
  /\ recorded = [l \in Lists |-> <<>>]
  /\ calls = 0

Call == calls < MaxCalls /\ calls' = calls + 1

(* The application records into lists that were created or reset, and does *)
(* not use a list whose Reset was refused: closing that one would end the  *)
(* recording of the list that the allocator belongs to.                    *)
Records(l) == list[l] # NoList /\ list[l].open /\ ~list[l].refused
AllocatorOf(l) == allocator[list[l].allocator]

(* Nothing but the API state changes. *)
SetState(l, d) ==
  /\ list' = [list EXCEPT ![l] = d]
  /\ UNCHANGED <<allocator, recorded>>

Starts(l, a, pso) ==
  /\ ~allocator[a].recording
  /\ allocator' = [allocator EXCEPT ![a] = StartRecord(@)]
  /\ list' = [list EXCEPT ![l] = Initialize(a, Len(allocator'[a].lists), FALSE, pso)]
  /\ recorded' = [recorded EXCEPT ![l] = <<>>]

(* CreateCommandList destroys the new list again if it is refused.         *)
CreateCommandList(l, a, pso) ==
  /\ list[l] = NoList /\ Call
  /\ Starts(l, a, pso)

Reset(l, a, pso) ==
  /\ list[l] # NoList /\ ~list[l].open /\ Call
  /\ Starts(l, a, pso)

(* The allocator is being recorded into. The list has already dropped what *)
(* it held, and now passes for one that records.                           *)
ResetRefused(l, a, pso) ==
  /\ list[l] # NoList /\ ~list[l].open /\ Call
  /\ allocator[a].recording
  /\ SetState(l, Initialize(a, list[l].entry, TRUE, pso))

(* EndRecord fails, and leaves the list open, if nobody records.           *)
Close(l) ==
  /\ Records(l) /\ Call
  /\ AllocatorOf(l).recording
  /\ allocator' = [allocator EXCEPT ![list[l].allocator] = EndRecord(@)]
  /\ list' = [list EXCEPT ![l].open = FALSE]
  /\ UNCHANGED recorded

(* MTLD3D12CommandAllocatorImpl::Reset. The lists that were recorded with  *)
(* it may not be executed any more.                                        *)
ResetAllocator(a) ==
  /\ ~allocator[a].recording /\ allocator[a].lists # <<>> /\ Call
  /\ allocator' = [allocator EXCEPT ![a] = NewAllocator]
  /\ list' = [l \in Lists |->
                IF list[l] # NoList /\ list[l].allocator = a
                  THEN [list[l] EXCEPT !.entry = 0] ELSE list[l]]
  /\ UNCHANGED recorded

SetPipelineState(l, pso) ==
  /\ Records(l) /\ Call
  /\ pso # list[l].pso
  /\ LET d == [list[l] EXCEPT !.pso = pso]
         type == IF Pso(d, "graphics") # None THEN "Render" ELSE "Compute"
         isOpen == pso # None /\ ~Opens(AllocatorOf(l), type)
         update(bound) == IF type = "Render" THEN UpdateGraphicsPSO(bound, d)
                          ELSE [bound EXCEPT !["pso"] = pso]
     IN /\ list' = [list EXCEPT ![l] =
                      IF isOpen /\ type = "Render"
                        THEN [d EXCEPT !.dirty = @ \union {"VertexBuffer"}] ELSE d]
        /\ allocator' = IF isOpen
                          THEN [allocator EXCEPT ![d.allocator].current.bound = update(@)]
                          ELSE allocator
  /\ UNCHANGED recorded

(* IASetVertexBuffers, OMSetBlendFactor, OMSetStencilRef, RSSetScissorRects*)
(* and the setters of root arguments, which need a root signature.         *)
Set(l, s, v) ==
  /\ Records(l) /\ Call
  /\ s \in Settable \ (RootSignatures \union {"Viewport"})
  /\ s \in RootArguments => list[l].value[SignatureOf(s)] # 0
  /\ SetState(l, [list[l] EXCEPT !.value[s] = v, !.dirty = @ \union {s}])

RSSetViewports(l, v, count) ==
  /\ Records(l) /\ Call /\ "Viewport" \in Settable
  /\ CountChanges \/ count = list[l].viewports \/ Opens(AllocatorOf(l), "Render")
  /\ SetState(l, [list[l] EXCEPT !.value["Viewport"] = v, !.viewports = count,
                                 !.dirty = @ \union {"Viewport"}])

(* SetGraphicsRootSignature, SetComputeRootSignature *)
SetRootSignature(l, arguments, v) ==
  /\ Records(l) /\ Call /\ SignatureOf(arguments) \in Settable
  /\ v # list[l].value[SignatureOf(arguments)]
  /\ SetState(l, [list[l] EXCEPT !.value[SignatureOf(arguments)] = v,
                                 !.dirty = @ \union {arguments, SignatureOf(arguments)}])

(* Draws and dispatches. An indirect one whose signature changes bindings  *)
(* takes a copy of the root arguments, samplers and vertex table along.    *)
Issue(l, type, indirect, updates) ==
  /\ Records(l) /\ Call
  /\ Pso(list[l], KindOf(type)) # None
  /\ updates => indirect
  /\ updates => \A s \in RootSignatures \intersect StatesOf(type) : list[l].value[s] # 0
  /\ LET p == Prepared(AllocatorOf(l), list[l], type, updates)
         copied == IF ~updates THEN {}
                   ELSE (RootArguments \union RootSignatures \union {"VertexBuffer"})
                        \intersect StatesOf(type)
         pass == p.allocator.current
         seen == Seen(Write(pass.bound, list[l], copied), type)
         kind == <<type, indirect>>
     IN /\ allocator' = [allocator EXCEPT ![list[l].allocator] =
                           Encoded(p.allocator,
                                   Command(kind, seen, pass.targets, list[l].epoch))]
        /\ list' = [list EXCEPT ![l].dirty = p.dirty]
        /\ recorded' = [recorded EXCEPT ![l] =
                          Append(@, Command(kind, Wanted(list[l], type),
                                            TargetsOf(list[l], type), list[l].epoch))]

(* CopyBufferRegion, CopyTextureRegion, CopyResource *)
Copy(l) ==
  /\ Records(l) /\ Call
  /\ LET cmd == Command(<<"Blit">>, None, NoTargets, list[l].epoch)
     IN /\ allocator' = [allocator EXCEPT ![list[l].allocator] =
                           Encoded(PreBlit(@, list[l]), cmd)]
        /\ recorded' = [recorded EXCEPT ![l] = Append(@, cmd)]
  /\ UNCHANGED list

(* ClearDepthStencilView, ClearRenderTargetView, ClearUnorderedAccessView, *)
(* ResolveSubresource: a pass that is closed at once.                      *)
PassOfItsOwn(l, type) ==
  /\ Records(l) /\ Call
  /\ LET cmd == Command(<<type>>, None, NoTargets, list[l].epoch)
         pass(a) == AllocatePass(InvalidateCurrentPass(a), type, NoTargets)
     IN /\ allocator' = [allocator EXCEPT ![list[l].allocator] =
                           InvalidateCurrentPass(Encoded(pass(@), cmd))]
        /\ recorded' = [recorded EXCEPT ![l] = Append(@, cmd)]
  /\ UNCHANGED list

Ended(l) == [allocator EXCEPT ![list[l].allocator] = InvalidateCurrentPass(@)]

FaultKeepsPass(l) == allocator
EndedByBarrier(l) == Ended(l)

(* A transition, aliasing or UAV barrier is an ordering boundary.          *)
ResourceBarrier(l) ==
  /\ Records(l) /\ Call
  /\ allocator' = EndedByBarrier(l)
  /\ list' = [list EXCEPT ![l].epoch = @ + 1]
  /\ UNCHANGED recorded

OMSetRenderTargets(l, targets) ==
  /\ Records(l) /\ Call
  /\ allocator' = Ended(l)
  /\ list' = [list EXCEPT ![l].targets = targets]
  /\ UNCHANGED recorded

Next ==
  \/ \E l \in Lists :
       \/ \E a \in Allocators, pso \in Pipelines \union {None} :
            \/ CreateCommandList(l, a, pso)
            \/ Reset(l, a, pso)
            \/ ResetRefused(l, a, pso)
       \/ Close(l)
       \/ \E pso \in Pipelines \union {None} : SetPipelineState(l, pso)
       \/ \E s \in DirtyState, v \in 0 .. 1 : Set(l, s, v)
       \/ \E v \in 0 .. 1, count \in ViewportCounts : RSSetViewports(l, v, count)
       \/ \E arguments \in RootArguments, v \in 1 .. 2 : SetRootSignature(l, arguments, v)
       \/ \E type \in {"Render", "Compute"}, indirect, updates \in BOOLEAN :
            Issue(l, type, indirect, updates)
       \/ Copy(l)
       \/ \E type \in {"Clear", "Resolve", "Compute"} : PassOfItsOwn(l, type)
       \/ ResourceBarrier(l)
       \/ \E targets \in 0 .. 1 : OMSetRenderTargets(l, targets)
  \/ \E a \in Allocators : ResetAllocator(a)

Spec == Init /\ [][Next]_vars

-----------------------------------------------------------------------------
(* What ExecuteCommandLists finds when it starts at the list's entry, with *)
(* the pass that is still open while the list records.                     *)
IsExecutable(l) == list[l] # NoList /\ ~list[l].refused /\ list[l].entry # 0

Passes(l) ==
  AllocatorOf(l).lists[list[l].entry]
  \o (IF list[l].open /\ AllocatorOf(l).current # NoPass
        THEN <<AllocatorOf(l).current>> ELSE <<>>)

Found(l) == FlattenSeq([i \in DOMAIN Passes(l) |-> Passes(l)[i].cmds])

Order(cmds) == [i \in DOMAIN cmds |-> [cmds[i] EXCEPT !.state = None]]

(* A list executes the commands that were recorded into it since its last  *)
(* Reset, in their order and with their render targets, and no pass spans  *)
(* a barrier: whatever other lists the allocator recorded, and although    *)
(* the Reset of a list was refused in between.                             *)
ExecutesWhatWasRecorded ==
  \A l \in Lists : IsExecutable(l) =>
    /\ Order(Found(l)) = Order(recorded[l])
    /\ \A p \in Range(Passes(l)) :
         Cardinality({c.epoch : c \in Range(p.cmds)}) <= 1

(* Every draw and dispatch runs with the pipeline, vertex buffers, root    *)
(* arguments and fixed-function state that were set when it was recorded,  *)
(* although these are only written into a pass when they are dirty.        *)
CommandsSeeState ==
  \A l \in Lists : IsExecutable(l) =>
    [i \in DOMAIN Found(l) |-> Found(l)[i].state]
      = [i \in DOMAIN recorded[l] |-> recorded[l][i].state]

=============================================================================
