-------------------------- MODULE D3D12RecordingInv --------------------------
(***************************************************************************)
(* The inductive invariants of D3D12Recording, in two tiers: which passes  *)
(* belong to a list, and what the pass that is open has been given.        *)
(***************************************************************************)
EXTENDS D3D12Recording

PassTypes == {"Render", "Compute", "Blit", "Clear", "Resolve"}

(* What a list writes into a pass, for a part of its state. *)
Piece ==
  {None} \union Pipelines
    \union (Nat \X (Pipelines \union {None})) \union (Nat \X Nat \X BOOLEAN)
    \union {<<n>> : n \in Nat} \union (Nat \X (ViewportCounts \union {0}))

SeenStates ==
  [GraphicsState \union {"pso"} -> Piece] \union [ComputeState \union {"pso"} -> Piece]

CommandRecord ==
  [kind : ({"Render", "Compute"} \X BOOLEAN) \union {<<type>> : type \in PassTypes},
   state : SeenStates \union {None}, targets : Nat, epoch : Nat]

Pass ==
  [type : PassTypes, targets : Nat, cmds : Seq(CommandRecord),
   bound : [DirtyState \union {"pso"} -> Piece]]

AllocatorRecord ==
  [recording : BOOLEAN, current : Pass \union {NoPass}, lists : Seq(Seq(Pass))]

ListRecord ==
  [allocator : Allocators, entry : Nat, open : BOOLEAN, refused : BOOLEAN,
   pso : Pipelines \union {None}, targets : Nat,
   viewports : ViewportCounts \union {0}, epoch : Nat,
   value : [DirtyState -> Nat], dirty : SUBSET DirtyState]

TypeOK ==
  /\ allocator \in [Allocators -> AllocatorRecord]
  /\ list \in [Lists -> ListRecord \union {NoList}]
  /\ recorded \in [Lists -> Seq(CommandRecord)]

-----------------------------------------------------------------------------
(* Passes.                                                                 *)

CmdsOf(passes) == [i \in DOMAIN passes |-> passes[i].cmds]
Flat(passes) == FlattenSeq(CmdsOf(passes))

OneEpoch(pass) ==
  \A i, j \in DOMAIN pass.cmds : pass.cmds[i].epoch = pass.cmds[j].epoch
OneEpochs(passes) == \A i \in DOMAIN passes : OneEpoch(passes[i])

(* But for the state they see, found are the commands recorded. *)
SameOrder(found, cmds) ==
  /\ Len(found) = Len(cmds)
  /\ \A i \in DOMAIN cmds : /\ found[i].kind = cmds[i].kind
                            /\ found[i].targets = cmds[i].targets
                            /\ found[i].epoch = cmds[i].epoch

(* The passes of an allocator's last entry, with the one that is open.     *)
Opened(a) ==
  a.lists[Len(a.lists)] \o (IF a.current # NoPass THEN <<a.current>> ELSE <<>>)

(* They are what was recorded; the open one has the render targets that    *)
(* are set, and commands of the current epoch only.                        *)
Fits(a, d, r) ==
  /\ SameOrder(Flat(Opened(a)), r) /\ OneEpochs(Opened(a))
  /\ a.current # NoPass =>
       /\ a.current.targets = TargetsOf(d, a.current.type)
       /\ \A i \in DOMAIN a.current.cmds : a.current.cmds[i].epoch = d.epoch

(* The list that records has the last entry of its allocator; a list that  *)
(* is closed has one that no other list has. An allocator that nobody      *)
(* records into has no open pass.                                          *)
RecordingFits(l) ==
  /\ AllocatorOf(l).recording
  /\ list[l].entry = Len(AllocatorOf(l).lists) /\ list[l].entry # 0
  /\ Fits(AllocatorOf(l), list[l], recorded[l])
ClosedFits(l) ==
  /\ list[l].entry \in 1 .. Len(AllocatorOf(l).lists)
  /\ SameOrder(Flat(AllocatorOf(l).lists[list[l].entry]), recorded[l])
  /\ OneEpochs(AllocatorOf(l).lists[list[l].entry])
IsClosed(l) == IsExecutable(l) /\ ~list[l].open

EntriesDiffer ==
  \A k, l \in Lists :
    IsExecutable(k) /\ IsExecutable(l) /\ list[k].allocator = list[l].allocator
      /\ list[k].entry = list[l].entry => k = l
IdleHasNoPass == \A a \in Allocators : ~allocator[a].recording => allocator[a].current = NoPass

PassInv ==
  /\ TypeOK /\ EntriesDiffer /\ IdleHasNoPass
  /\ \A l \in Lists : Records(l) => RecordingFits(l)
  /\ \A l \in Lists : IsClosed(l) => ClosedFits(l)

-----------------------------------------------------------------------------
(* State, for pipelines of one layout of root arguments, and a number of   *)
(* viewports that does not change while a render pass is open.             *)

(* What is not dirty has been given to the open pass; the pipeline and the *)
(* vertex table, when there is a pipeline for it.                          *)
BoundFits(d, pass) ==
  /\ \A s \in StatesOf(pass.type) \ d.dirty :
       s # "VertexBuffer" => pass.bound[s] = Written(d, s)
  /\ Pso(d, KindOf(pass.type)) # None =>
       /\ pass.bound["pso"] = Pso(d, KindOf(pass.type))
       /\ pass.type = "Render" /\ "VertexBuffer" \notin d.dirty =>
            pass.bound["VertexBuffer"] = Written(d, "VertexBuffer")

SameStates(found, cmds) == \A i \in DOMAIN cmds : found[i].state = cmds[i].state

StateFits(a, d, r) ==
  /\ SameStates(Flat(Opened(a)), r)
  /\ a.current.type \in {"Render", "Compute"} => BoundFits(d, a.current)

StateInv ==
  /\ PassInv
  /\ \A l \in Lists : Records(l) => StateFits(AllocatorOf(l), list[l], recorded[l])
  /\ \A l \in Lists :
       IsClosed(l) => SameStates(Flat(AllocatorOf(l).lists[list[l].entry]), recorded[l])

=============================================================================
