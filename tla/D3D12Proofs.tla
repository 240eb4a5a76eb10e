---------------------------- MODULE D3D12Proofs ----------------------------
(***************************************************************************)
(* Proofs about D3D12Recording and D3D12Queue.                             *)
(*                                                                         *)
(* Recording: what ExecuteCommandLists finds at a list's entry is what was *)
(* recorded into the list, with the state it had then.                     *)
(*                                                                         *)
(* Queue: WaitOrders, for any threads, queues, fences and values. The      *)
(* value an event has reached is that of a signal whose work is done       *)
(* (ReachedIsFinished). It stays so when the GPU runs a signal, since the  *)
(* work that a signal comes after is done or before it in its queue        *)
(* (SignalsFollowWork). And it is what a wait needs to know, because no    *)
(* wait is left on an event that a fence has replaced                      *)
(* (BuffersUseCurrentEvent, WaitsUseCurrentEvent).                         *)
(***************************************************************************)
EXTENDS D3D12RecordingInv, D3D12QueueInv, FiniteSetTheorems, SequenceTheorems,
        WellFoundedInduction, TLAPS

-----------------------------------------------------------------------------
(* FlattenSeq. Its definition is recursive over the length of a sequence;  *)
(* what follows is by the least length, or index, for which it is false.   *)

LEMMA LeastNumber ==
  ASSUME NEW T, T \subseteq Nat, T # {}
  PROVE  \E x \in T : \A y \in T : x <= y
<1>1. PICK x \in T : \A y \in T : ~(<<y, x>> \in OpToRel(<, Nat))
  BY NatLessThanWellFounded, WFMin
<1>2. \A y \in T : ~(y < x)
  BY <1>1 DEF OpToRel
<1>3. QED
  BY <1>2

(* f[i] is the concatenation of the first i sequences. *)
Flattens(f, seqs, n) ==
  f = [i \in 1 .. n |-> IF i = 1 THEN seqs[i] ELSE f[i - 1] \o seqs[i]]

LEMMA FlattensAt ==
  ASSUME NEW f, NEW seqs, NEW n \in Nat, Flattens(f, seqs, n)
  PROVE  \A i \in 1 .. n : f[i] = IF i = 1 THEN seqs[i] ELSE f[i - 1] \o seqs[i]
  BY DEF Flattens

LEMMA FlattensNext ==
  ASSUME NEW f, NEW seqs, NEW n \in Nat, Flattens(f, seqs, n)
  PROVE  \E g : Flattens(g, seqs, n + 1)
<1> DEFINE next == IF n = 0 THEN seqs[1] ELSE f[n] \o seqs[n + 1]
           g == [i \in 1 .. n + 1 |-> IF i = n + 1 THEN next ELSE f[i]]
<1> HIDE DEF next
<1>1. g[n + 1] = next /\ \A i \in 1 .. n : g[i] = f[i]
  <2>1. n + 1 \in 1 .. n + 1 /\ \A i \in 1 .. n : i \in 1 .. n + 1 /\ i # n + 1
    OBVIOUS
  <2>2. QED
    BY <2>1
<1>2. DOMAIN g = 1 .. n + 1 /\ g = [i \in 1 .. n + 1 |-> g[i]]
  OBVIOUS
<1> HIDE DEF g
<1>3. ASSUME NEW i \in 1 .. n + 1
      PROVE  g[i] = IF i = 1 THEN seqs[i] ELSE g[i - 1] \o seqs[i]
  <2>1. CASE i = n + 1
    <3>1. CASE n = 0
      BY <1>1, <2>1, <3>1 DEF next
    <3>2. CASE n # 0
      <4>1. n \in 1 .. n /\ i - 1 = n /\ i # 1
        BY <2>1, <3>2
      <4>2. g[i - 1] = f[n]
        BY <1>1, <4>1
      <4>3. QED
        BY <1>1, <2>1, <3>2, <4>1, <4>2 DEF next
    <3>3. QED
      BY <3>1, <3>2
  <2>2. CASE i # n + 1
    <3>1. i \in 1 .. n
      BY <2>2
    <3>2. g[i] = f[i] /\ f[i] = IF i = 1 THEN seqs[i] ELSE f[i - 1] \o seqs[i]
      BY <1>1, <3>1, FlattensAt
    <3>3. i # 1 => g[i - 1] = f[i - 1]
      BY <1>1, <3>1
    <3>4. QED
      BY <3>2, <3>3
  <2>3. QED
    BY <2>1, <2>2
<1>4. g = [i \in 1 .. n + 1 |-> IF i = 1 THEN seqs[i] ELSE g[i - 1] \o seqs[i]]
  BY <1>2, <1>3
<1>5. QED
  BY <1>4 DEF Flattens

LEMMA FlattensExists ==
  ASSUME NEW seqs, NEW n \in Nat PROVE \E f : Flattens(f, seqs, n)
<1> DEFINE bad == {k \in Nat : ~\E f : Flattens(f, seqs, k)}
<1>1. 0 \notin bad
  <2> DEFINE f == [i \in 1 .. 0 |-> seqs[i]]
  <2>1. \A i \in 1 .. 0 : FALSE
    OBVIOUS
  <2>2. f = [i \in 1 .. 0 |-> IF i = 1 THEN seqs[i] ELSE f[i - 1] \o seqs[i]]
    BY <2>1
  <2>3. QED
    BY <2>2 DEF Flattens
<1>2. \A k \in Nat : k \notin bad => k + 1 \notin bad
  BY FlattensNext
<1>3. bad \subseteq Nat /\ (n \in bad <=> ~\E f : Flattens(f, seqs, n))
  OBVIOUS
<1> HIDE DEF bad
<1>4. bad = {}
  <2>1. SUFFICES ASSUME bad # {} PROVE FALSE
    OBVIOUS
  <2>2. PICK k \in bad : \A j \in bad : k <= j
    BY <1>3, <2>1, LeastNumber
  <2>3. k \in Nat /\ k # 0 /\ k - 1 \in Nat /\ k - 1 + 1 = k
    BY <1>1, <1>3, <2>2
  <2>4. k - 1 \notin bad
    BY <2>2, <2>3
  <2>5. QED
    BY <1>2, <2>2, <2>3, <2>4
<1>5. QED
  BY <1>3, <1>4

(* Two of them agree as far as the sequences do. *)
LEMMA FlattensAgree ==
  ASSUME NEW f, NEW g, NEW s, NEW t, NEW k \in Nat,
         Flattens(f, s, k), Flattens(g, t, k + 1), \A i \in 1 .. k : s[i] = t[i]
  PROVE  \A i \in 1 .. k : f[i] = g[i]
<1> DEFINE bad == {i \in 1 .. k : f[i] # g[i]}
<1>1. SUFFICES ASSUME bad # {} PROVE FALSE
  OBVIOUS
<1>2. bad \subseteq Nat /\ \A i \in 1 .. k : i \notin bad => f[i] = g[i]
  OBVIOUS
<1>3. \A i \in bad : i \in 1 .. k /\ f[i] # g[i]
  OBVIOUS
<1> HIDE DEF bad
<1>4. PICK i \in bad : \A j \in bad : i <= j
  BY <1>1, <1>2, LeastNumber
<1>5. i \in 1 .. k /\ i \in 1 .. k + 1 /\ k + 1 \in Nat
  BY <1>3, <1>4
<1>6. /\ f[i] = IF i = 1 THEN s[i] ELSE f[i - 1] \o s[i]
      /\ g[i] = IF i = 1 THEN t[i] ELSE g[i - 1] \o t[i]
      /\ s[i] = t[i]
  BY <1>5, FlattensAt
<1>7. i # 1 => f[i - 1] = g[i - 1]
  <2>1. SUFFICES ASSUME i # 1 PROVE f[i - 1] = g[i - 1]
    OBVIOUS
  <2>2. i - 1 \in 1 .. k /\ ~(i <= i - 1)
    BY <1>5, <2>1
  <2>3. QED
    BY <1>2, <1>4, <2>2
<1>8. f[i] = g[i]
  BY <1>6, <1>7
<1>9. QED
  BY <1>3, <1>4, <1>8

LEMMA FlattenSeqIs ==
  ASSUME NEW S, NEW seqs \in Seq(S), seqs # <<>>
  PROVE  \E f : Flattens(f, seqs, Len(seqs)) /\ FlattenSeq(seqs) = f[Len(seqs)]
<1> DEFINE n == Len(seqs)
           f == CHOOSE f : Flattens(f, seqs, n)
<1>1. n \in Nat /\ n # 0
  BY LenProperties, EmptySeq
<1>2. Flattens(f, seqs, n)
  BY <1>1, FlattensExists
<1>3. FlattenSeq(seqs) = f[n]
  BY <1>1 DEF FlattenSeq, Flattens
<1>4. QED
  BY <1>2, <1>3
LEMMA FlattensTyped ==
  ASSUME NEW S, NEW seqs \in Seq(Seq(S)), NEW f, Flattens(f, seqs, Len(seqs))
  PROVE  \A i \in 1 .. Len(seqs) : f[i] \in Seq(S)
<1> DEFINE n == Len(seqs)
           bad == {i \in 1 .. n : f[i] \notin Seq(S)}
<1>1. SUFFICES ASSUME bad # {} PROVE FALSE
  OBVIOUS
<1>2. n \in Nat /\ \A i \in 1 .. n : seqs[i] \in Seq(S)
  BY LenProperties, ElementOfSeq
<1>3. /\ bad \subseteq Nat /\ \A i \in 1 .. n : i \notin bad => f[i] \in Seq(S)
      /\ \A i \in bad : i \in 1 .. n /\ f[i] \notin Seq(S)
  BY <1>2
<1> HIDE DEF bad, n
<1>4. PICK i \in bad : \A j \in bad : i <= j
  BY <1>1, <1>3, LeastNumber
<1>5. i \in 1 .. n /\ f[i] = IF i = 1 THEN seqs[i] ELSE f[i - 1] \o seqs[i]
  BY <1>2, <1>3, <1>4, FlattensAt DEF n
<1>6. i # 1 => f[i - 1] \in Seq(S)
  <2>1. SUFFICES ASSUME i # 1 PROVE f[i - 1] \in Seq(S)
    OBVIOUS
  <2>2. i - 1 \in 1 .. n /\ ~(i <= i - 1)
    BY <1>2, <1>5, <2>1
  <2>3. QED
    BY <1>3, <1>4, <2>2
<1>7. f[i] \in Seq(S)
  BY <1>2, <1>5, <1>6, ConcatProperties
<1>8. QED
  BY <1>3, <1>4, <1>7

LEMMA FlattenSeqTyped ==
  ASSUME NEW S, NEW seqs \in Seq(Seq(S)) PROVE FlattenSeq(seqs) \in Seq(S)
<1>1. CASE seqs = <<>>
  BY <1>1 DEF FlattenSeq
<1>2. CASE seqs # <<>>
  <2>1. PICK f : Flattens(f, seqs, Len(seqs)) /\ FlattenSeq(seqs) = f[Len(seqs)]
    BY <1>2, FlattenSeqIs
  <2>2. Len(seqs) \in 1 .. Len(seqs)
    BY <1>2, LenProperties, EmptySeq
  <2>3. QED
    BY <2>1, <2>2, FlattensTyped
<1>3. QED
  BY <1>1, <1>2

(* One more sequence adds its elements. *)
LEMMA FlattenAppend ==
  ASSUME NEW S, NEW seqs \in Seq(Seq(S)), NEW x \in Seq(S)
  PROVE  FlattenSeq(Append(seqs, x)) = FlattenSeq(seqs) \o x
<1> DEFINE n == Len(seqs)
           longer == Append(seqs, x)
<1>1. /\ longer \in Seq(Seq(S)) /\ longer # <<>> /\ n \in Nat /\ Len(longer) = n + 1
      /\ longer[n + 1] = x /\ \A i \in 1 .. n : longer[i] = seqs[i]
  BY AppendProperties, LenProperties
<1> HIDE DEF longer
<1>2. PICK g : Flattens(g, longer, n + 1) /\ FlattenSeq(longer) = g[n + 1]
  BY <1>1, FlattenSeqIs
<1>3. g[n + 1] = IF n + 1 = 1 THEN longer[n + 1] ELSE g[n + 1 - 1] \o longer[n + 1]
  <2>1. n + 1 \in Nat /\ n + 1 \in 1 .. n + 1
    BY <1>1
  <2>2. QED
    BY <1>2, <2>1, FlattensAt
<1>4. CASE seqs = <<>>
  <2>1. n = 0 /\ FlattenSeq(seqs) = <<>>
    BY <1>4 DEF FlattenSeq
  <2>2. <<>> \o x = x
    BY ConcatEmptySeq
  <2>3. QED
    BY <1>1, <1>2, <1>3, <2>1, <2>2 DEF longer
<1>5. CASE seqs # <<>>
  <2>1. PICK f : Flattens(f, seqs, n) /\ FlattenSeq(seqs) = f[n]
    BY <1>5, FlattenSeqIs
  <2>2. n # 0 /\ n \in 1 .. n /\ n + 1 \in Nat /\ n <= n /\ n <= n + 1 /\ n + 1 - 1 = n
        /\ n + 1 # 1
    BY <1>1, <1>5, EmptySeq
  <2>3. \A i \in 1 .. n : f[i] = g[i]
    <3>1. /\ n \in Nat /\ Flattens(f, seqs, n) /\ Flattens(g, longer, n + 1)
          /\ \A i \in 1 .. n : seqs[i] = longer[i]
      BY <1>1, <1>2, <2>1
    <3> HIDE DEF n
    <3>2. QED
      BY <3>1, FlattensAgree
  <2>4. g[n] = f[n]
    BY <2>2, <2>3
  <2>5. QED
    BY <1>1, <1>2, <1>3, <2>1, <2>2, <2>4 DEF longer
<1>6. QED
  BY <1>4, <1>5

-----------------------------------------------------------------------------
(* The commands of a list's passes.                                        *)

LEMMA CmdsOfTyped ==
  ASSUME NEW passes \in Seq(Pass)
  PROVE  CmdsOf(passes) \in Seq(Seq(CommandRecord)) /\ Flat(passes) \in Seq(CommandRecord)
<1>1. DOMAIN passes = 1 .. Len(passes) /\ Len(passes) \in Nat
  BY LenProperties
<1>2. \A i \in DOMAIN passes : passes[i].cmds \in Seq(CommandRecord)
  <2>1. \A i \in DOMAIN passes : passes[i] \in Pass
    BY <1>1, ElementOfSeq
  <2>2. QED
    BY <2>1 DEF Pass
<1>3. CmdsOf(passes) \in [1 .. Len(passes) -> Seq(CommandRecord)]
  BY <1>1, <1>2 DEF CmdsOf
<1>4. CmdsOf(passes) \in Seq(Seq(CommandRecord))
  BY <1>1, <1>3, SeqDef
<1>5. QED
  BY <1>4, FlattenSeqTyped DEF Flat

LEMMA FlatAppend ==
  ASSUME NEW passes \in Seq(Pass), NEW p \in Pass
  PROVE  Flat(Append(passes, p)) = Flat(passes) \o p.cmds
<1> DEFINE n == Len(passes)
           t == Append(passes, p)
           u == CmdsOf(passes)
           v == Append(u, p.cmds)
<1>1. /\ t \in Seq(Pass) /\ n \in Nat /\ DOMAIN t = 1 .. n + 1 /\ DOMAIN passes = 1 .. n
      /\ t[n + 1] = p /\ \A i \in 1 .. n : t[i] = passes[i]
  BY AppendProperties, LenProperties
<1>2. u \in Seq(Seq(CommandRecord)) /\ p.cmds \in Seq(CommandRecord)
  BY CmdsOfTyped DEF Pass
<1>3. DOMAIN u = 1 .. n /\ \A i \in 1 .. n : u[i] = passes[i].cmds
  BY <1>1 DEF CmdsOf
<1>4. Len(u) = n
  BY <1>1, <1>2, <1>3, LenProperties
<1>5. /\ v \in Seq(Seq(CommandRecord)) /\ DOMAIN v = 1 .. n + 1
      /\ v[n + 1] = p.cmds /\ \A i \in 1 .. n : v[i] = u[i]
  BY <1>2, <1>4, AppendProperties, LenProperties
<1> HIDE DEF t, u, v, n
<1>6. \A i \in 1 .. n + 1 : i = n + 1 \/ i \in 1 .. n
  BY <1>1
<1>7. \A i \in 1 .. n + 1 : v[i] = t[i].cmds
  BY <1>1, <1>3, <1>5, <1>6
<1>8. v = [i \in 1 .. n + 1 |-> v[i]]
  <2>1. v \in [1 .. Len(v) -> Seq(CommandRecord)]
    BY <1>5, LenProperties
  <2>2. QED
    BY <1>5, <2>1
<1>9. CmdsOf(t) = v
  BY <1>1, <1>7, <1>8 DEF CmdsOf
<1>10. FlattenSeq(v) = FlattenSeq(u) \o p.cmds
  BY <1>2, FlattenAppend DEF v
<1>11. QED
  BY <1>9, <1>10 DEF Flat, t, u

LEMMA AllocatorTyped ==
  ASSUME NEW a \in AllocatorRecord
  PROVE  /\ a.recording \in BOOLEAN /\ a.current \in Pass \union {NoPass}
         /\ a.lists \in Seq(Seq(Pass)) /\ Len(a.lists) \in Nat
         /\ DOMAIN a.lists = 1 .. Len(a.lists)
         /\ \A i \in 1 .. Len(a.lists) : a.lists[i] \in Seq(Pass)
         /\ NoPass.type = "None"
         /\ a.current # NoPass =>
              /\ a.current \in Pass /\ a.current.type \in PassTypes
              /\ a.current.cmds \in Seq(CommandRecord) /\ a.current.targets \in Nat
              /\ a.current.bound \in [DirtyState \union {"pso"} -> Piece]
<1>1. a.recording \in BOOLEAN /\ a.current \in Pass \union {NoPass} /\ a.lists \in Seq(Seq(Pass))
  BY DEF AllocatorRecord
<1>2. NoPass.type = "None"
  BY DEF NoPass
<1>3. \A p \in Pass : /\ p.type \in PassTypes /\ p.cmds \in Seq(CommandRecord)
                      /\ p.targets \in Nat /\ p.bound \in [DirtyState \union {"pso"} -> Piece]
  BY DEF Pass
<1>4. /\ Len(a.lists) \in Nat /\ DOMAIN a.lists = 1 .. Len(a.lists)
      /\ \A i \in 1 .. Len(a.lists) : a.lists[i] \in Seq(Pass)
  BY <1>1, LenProperties, ElementOfSeq
<1>5. QED
  BY <1>1, <1>2, <1>3, <1>4

LEMMA OpenedIs ==
  ASSUME NEW a \in AllocatorRecord, Len(a.lists) # 0
  PROVE  LET last == a.lists[Len(a.lists)] IN
         /\ last \in Seq(Pass) /\ Opened(a) \in Seq(Pass)
         /\ Opened(a) = IF a.current # NoPass THEN Append(last, a.current) ELSE last
<1> DEFINE last == a.lists[Len(a.lists)]
<1>1. last \in Seq(Pass)
  <2>1. Len(a.lists) \in 1 .. Len(a.lists)
    BY AllocatorTyped
  <2>2. QED
    BY <2>1, AllocatorTyped
<1> HIDE DEF last
<1>2. CASE a.current # NoPass
  <2>1. a.current \in Pass
    BY <1>2, AllocatorTyped
  <2>2. Append(last, a.current) = last \o <<a.current>> /\ Append(last, a.current) \in Seq(Pass)
    BY <1>1, <2>1, AppendIsConcat, AppendProperties
  <2>3. QED
    BY <1>1, <1>2, <2>2 DEF Opened, last
<1>3. CASE a.current = NoPass
  <2>1. last \o <<>> = last
    BY <1>1, ConcatEmptySeq
  <2>2. QED
    BY <1>1, <1>3, <2>1 DEF Opened, last
<1>4. QED
  BY <1>2, <1>3

(* The passes of the other entries do not change. *)
Kept(b, a) ==
  /\ Len(b.lists) = Len(a.lists)
  /\ \A i \in 1 .. Len(a.lists) : i # Len(a.lists) => b.lists[i] = a.lists[i]

LEMMA InvalidateIs ==
  ASSUME NEW a \in AllocatorRecord, Len(a.lists) # 0
  PROVE  LET b == InvalidateCurrentPass(a) IN
         /\ b \in AllocatorRecord /\ Kept(b, a) /\ b.current = NoPass
         /\ b.recording = a.recording
         /\ b.lists[Len(b.lists)] = Opened(a) /\ Opened(b) = Opened(a)
<1> DEFINE b == InvalidateCurrentPass(a)
           n == Len(a.lists)
           moved == [a.lists EXCEPT ![n] = Opened(a)]
<1>1. /\ n \in Nat /\ n \in 1 .. n /\ a.lists \in Seq(Seq(Pass)) /\ DOMAIN a.lists = 1 .. n
      /\ a.lists[n] \in Seq(Pass)
  BY AllocatorTyped
<1>2. /\ Opened(a) \in Seq(Pass)
      /\ Opened(a) = IF a.current # NoPass THEN Append(a.lists[n], a.current) ELSE a.lists[n]
  BY <1>1, OpenedIs
<1>3. /\ moved \in Seq(Seq(Pass)) /\ Len(moved) = n /\ moved[n] = Opened(a)
      /\ \A i \in 1 .. n : i # n => moved[i] = a.lists[i]
  BY <1>1, <1>2, ExceptSeq
<1>4. CASE a.current = NoPass
  BY <1>1, <1>2, <1>4 DEF InvalidateCurrentPass, Kept
<1>5. CASE a.current # NoPass
  <2>1. b = [a EXCEPT !.lists = moved, !.current = NoPass]
    BY <1>1, <1>2, <1>5 DEF InvalidateCurrentPass
  <2> HIDE DEF b, moved
  <2>2. /\ b \in AllocatorRecord /\ b.lists = moved /\ b.current = NoPass
        /\ b.recording = a.recording
    BY <1>3, <2>1 DEF AllocatorRecord
  <2>3. Len(b.lists) = n /\ b.lists[n] = Opened(a) /\ Kept(b, a)
    BY <1>3, <2>2 DEF Kept
  <2>4. Opened(b) = Opened(a)
    BY <1>1, <2>2, <2>3, OpenedIs
  <2>5. QED
    BY <2>2, <2>3, <2>4 DEF b
<1>6. QED
  BY <1>4, <1>5

LEMMA AllocateIs ==
  ASSUME NEW a \in AllocatorRecord, NEW type \in PassTypes, NEW targets \in Nat
  PROVE  LET b == AllocatePass(a, type, targets) IN
         /\ b \in AllocatorRecord /\ b.lists = a.lists /\ b.recording = a.recording
         /\ b.current \in Pass /\ b.current # NoPass
         /\ b.current.type = type /\ b.current.targets = targets /\ b.current.cmds = <<>>
         /\ b.current.bound = [s \in DirtyState \union {"pso"} |-> None]
<1> DEFINE pass == [type |-> type, targets |-> targets, cmds |-> <<>>,
                    bound |-> [s \in DirtyState \union {"pso"} |-> None]]
           b == AllocatePass(a, type, targets)
<1>1. b = [a EXCEPT !.current = pass]
  BY DEF AllocatePass
<1>2. [s \in DirtyState \union {"pso"} |-> None] \in [DirtyState \union {"pso"} -> Piece]
  BY DEF Piece
<1>3. <<>> \in Seq(CommandRecord)
  BY EmptySeq
<1>4. pass \in Pass
  BY <1>2, <1>3 DEF Pass
<1>5. type # "None"
  BY DEF PassTypes
<1>6. pass.type = type /\ pass # NoPass
  BY <1>5, AllocatorTyped DEF NoPass
<1>7. pass.targets = targets /\ pass.cmds = <<>>
      /\ pass.bound = [s \in DirtyState \union {"pso"} |-> None]
  OBVIOUS
<1> HIDE DEF pass, b
<1>8. b \in AllocatorRecord /\ b.current = pass /\ b.lists = a.lists /\ b.recording = a.recording
  BY <1>1, <1>4 DEF AllocatorRecord
<1>9. QED
  BY <1>4, <1>6, <1>7, <1>8 DEF b

LEMMA EncodedIs ==
  ASSUME NEW a \in AllocatorRecord, a.current # NoPass, NEW c \in CommandRecord
  PROVE  LET b == Encoded(a, c) IN
         /\ b \in AllocatorRecord /\ b.lists = a.lists /\ b.recording = a.recording
         /\ b.current \in Pass /\ b.current # NoPass
         /\ b.current.type = a.current.type /\ b.current.targets = a.current.targets
         /\ b.current.bound = a.current.bound /\ b.current.cmds = Append(a.current.cmds, c)
<1> DEFINE pass == [a.current EXCEPT !.cmds = Append(@, c)]
           b == Encoded(a, c)
<1>1. a.current \in Pass /\ a.current.type \in PassTypes /\ NoPass.type = "None"
  BY AllocatorTyped
<1>2. Append(a.current.cmds, c) \in Seq(CommandRecord)
  BY AllocatorTyped, AppendProperties
<1>3. b = [a EXCEPT !.current = pass]
  BY DEF Encoded
<1>4. /\ pass \in Pass /\ pass.type = a.current.type /\ pass.targets = a.current.targets
      /\ pass.bound = a.current.bound /\ pass.cmds = Append(a.current.cmds, c)
  BY <1>1, <1>2 DEF Pass
<1>5. pass # NoPass
  BY <1>1, <1>4 DEF PassTypes
<1> HIDE DEF pass, b
<1>6. b \in AllocatorRecord /\ b.current = pass /\ b.lists = a.lists /\ b.recording = a.recording
  BY <1>3, <1>4 DEF AllocatorRecord
<1>7. QED
  BY <1>4, <1>5, <1>6 DEF b

LEMMA RebindIs ==
  ASSUME NEW a \in AllocatorRecord, a.current # NoPass,
         NEW bound \in [DirtyState \union {"pso"} -> Piece]
  PROVE  LET b == [a EXCEPT !.current.bound = bound] IN
         /\ b \in AllocatorRecord /\ b.lists = a.lists /\ b.recording = a.recording
         /\ b.current \in Pass /\ b.current # NoPass
         /\ b.current.type = a.current.type /\ b.current.targets = a.current.targets
         /\ b.current.bound = bound /\ b.current.cmds = a.current.cmds
<1> DEFINE pass == [a.current EXCEPT !.bound = bound]
           b == [a EXCEPT !.current.bound = bound]
<1>1. a.current \in Pass /\ a.current.type \in PassTypes /\ NoPass.type = "None"
  BY AllocatorTyped
<1>2. b = [a EXCEPT !.current = pass]
  OBVIOUS
<1>3. /\ pass \in Pass /\ pass.type = a.current.type /\ pass.targets = a.current.targets
      /\ pass.bound = bound /\ pass.cmds = a.current.cmds
  BY <1>1 DEF Pass
<1>4. pass # NoPass
  BY <1>1, <1>3 DEF PassTypes
<1> HIDE DEF pass, b
<1>5. b \in AllocatorRecord /\ b.current = pass /\ b.lists = a.lists /\ b.recording = a.recording
  BY <1>2, <1>3 DEF AllocatorRecord
<1>6. QED
  BY <1>3, <1>4, <1>5 DEF b

-----------------------------------------------------------------------------
(* What is found in the last entry, through the steps of a recording.      *)

LEMMA AppendOneEpochs ==
  ASSUME NEW passes \in Seq(Pass), NEW p \in Pass
  PROVE  OneEpochs(Append(passes, p)) <=> OneEpochs(passes) /\ OneEpoch(p)
<1> DEFINE size == Len(passes)
           longer == Append(passes, p)
<1>1. /\ size \in Nat /\ DOMAIN passes = 1 .. size /\ DOMAIN longer = 1 .. size + 1
      /\ longer[size + 1] = p /\ \A i \in 1 .. size : longer[i] = passes[i]
  BY AppendProperties, LenProperties
<1> HIDE DEF size, longer
<1>2. /\ \A i \in 1 .. size + 1 : i = size + 1 \/ i \in 1 .. size
      /\ \A i \in 1 .. size : i \in 1 .. size + 1
      /\ size + 1 \in 1 .. size + 1
  BY <1>1
<1>3. OneEpochs(longer) <=> OneEpochs(passes) /\ OneEpoch(p)
  BY <1>1, <1>2 DEF OneEpochs
<1>4. QED
  BY <1>3 DEF longer

LEMMA OpenedHas ==
  ASSUME NEW a \in AllocatorRecord, Len(a.lists) # 0
  PROVE  LET last == a.lists[Len(a.lists)] IN
         /\ Flat(last) \in Seq(CommandRecord) /\ Flat(Opened(a)) \in Seq(CommandRecord)
         /\ Flat(Opened(a)) = IF a.current # NoPass THEN Flat(last) \o a.current.cmds ELSE Flat(last)
         /\ OneEpochs(Opened(a)) <=>
              OneEpochs(last) /\ (a.current # NoPass => OneEpoch(a.current))
<1> DEFINE last == a.lists[Len(a.lists)]
<1>1. /\ last \in Seq(Pass) /\ Opened(a) \in Seq(Pass)
      /\ Opened(a) = IF a.current # NoPass THEN Append(last, a.current) ELSE last
      /\ a.current # NoPass => a.current \in Pass
  BY OpenedIs, AllocatorTyped
<1> HIDE DEF last
<1>2. Flat(last) \in Seq(CommandRecord) /\ Flat(Opened(a)) \in Seq(CommandRecord)
  BY <1>1, CmdsOfTyped
<1>3. CASE a.current # NoPass
  BY <1>1, <1>2, <1>3, FlatAppend, AppendOneEpochs DEF last
<1>4. CASE a.current = NoPass
  BY <1>1, <1>2, <1>4 DEF last
<1>5. QED
  BY <1>3, <1>4

(* A command is added at the end; opening a pass, or giving it state, adds *)
(* none.                                                                   *)
LEMMA FlatEncoded ==
  ASSUME NEW a \in AllocatorRecord, Len(a.lists) # 0, a.current # NoPass,
         NEW c \in CommandRecord
  PROVE  Flat(Opened(Encoded(a, c))) = Append(Flat(Opened(a)), c)
<1> DEFINE b == Encoded(a, c)
           last == a.lists[Len(a.lists)]
           cmds == a.current.cmds
<1>1. /\ b \in AllocatorRecord /\ b.lists = a.lists /\ b.current # NoPass
      /\ b.current.cmds = Append(cmds, c)
  BY EncodedIs
<1>2. /\ Flat(Opened(a)) = Flat(last) \o cmds /\ Flat(last) \in Seq(CommandRecord)
      /\ cmds \in Seq(CommandRecord)
  BY OpenedHas, AllocatorTyped
<1>3. Flat(Opened(b)) = Flat(last) \o Append(cmds, c)
  BY <1>1, OpenedHas
<1> HIDE DEF b, last, cmds
<1>4. Append(cmds, c) = cmds \o <<c>> /\ <<c>> \in Seq(CommandRecord)
  BY <1>2, AppendIsConcat
<1>5. Flat(last) \o cmds \in Seq(CommandRecord)
  BY <1>2, ConcatProperties
<1>6. Append(Flat(last) \o cmds, c) = (Flat(last) \o cmds) \o <<c>>
  BY <1>5, AppendIsConcat
<1>7. (Flat(last) \o cmds) \o <<c>> = Flat(last) \o (cmds \o <<c>>)
  BY <1>2, <1>4, ConcatAssociative
<1>8. QED
  BY <1>2, <1>3, <1>4, <1>6, <1>7 DEF b

LEMMA FlatAllocate ==
  ASSUME NEW a \in AllocatorRecord, Len(a.lists) # 0, a.current = NoPass,
         NEW type \in PassTypes, NEW targets \in Nat
  PROVE  Flat(Opened(AllocatePass(a, type, targets))) = Flat(Opened(a))
<1> DEFINE b == AllocatePass(a, type, targets)
           last == a.lists[Len(a.lists)]
<1>1. b \in AllocatorRecord /\ b.lists = a.lists /\ b.current # NoPass /\ b.current.cmds = <<>>
  BY AllocateIs
<1>2. Flat(Opened(a)) = Flat(last) /\ Flat(last) \in Seq(CommandRecord)
  BY OpenedHas
<1>3. Flat(Opened(b)) = Flat(last) \o <<>>
  BY <1>1, OpenedHas
<1> HIDE DEF b, last
<1>4. QED
  BY <1>2, <1>3, ConcatEmptySeq DEF b

LEMMA FlatRebind ==
  ASSUME NEW a \in AllocatorRecord, Len(a.lists) # 0, a.current # NoPass,
         NEW bound \in [DirtyState \union {"pso"} -> Piece]
  PROVE  Flat(Opened([a EXCEPT !.current.bound = bound])) = Flat(Opened(a))
<1> DEFINE b == [a EXCEPT !.current.bound = bound]
<1>1. /\ b \in AllocatorRecord /\ b.lists = a.lists /\ b.current # NoPass
      /\ b.current.cmds = a.current.cmds
  BY RebindIs
<1> HIDE DEF b
<1>2. Flat(Opened(b)) = Flat(Opened(a))
  BY <1>1, OpenedHas
<1>3. QED
  BY <1>2 DEF b

-----------------------------------------------------------------------------
(* The passes of the list that records: what PassInv says of them.         *)

LEMMA FitsInvalidated ==
  ASSUME NEW a \in AllocatorRecord, Len(a.lists) # 0, NEW d, NEW e, NEW r, Fits(a, d, r)
  PROVE  Fits(InvalidateCurrentPass(a), e, r)
  BY InvalidateIs DEF Fits

LEMMA FitsSetState ==
  ASSUME NEW a, NEW d, NEW e, NEW r, Fits(a, d, r), e.targets = d.targets, e.epoch = d.epoch
  PROVE  Fits(a, e, r)
  BY DEF Fits, TargetsOf

LEMMA FitsAllocated ==
  ASSUME NEW a \in AllocatorRecord, Len(a.lists) # 0, a.current = NoPass,
         NEW d, NEW r, Fits(a, d, r), NEW type \in PassTypes, TargetsOf(d, type) \in Nat
  PROVE  Fits(AllocatePass(a, type, TargetsOf(d, type)), d, r)
<1> DEFINE b == AllocatePass(a, type, TargetsOf(d, type))
<1>1. /\ b \in AllocatorRecord /\ b.lists = a.lists /\ b.current.cmds = <<>>
      /\ b.current.type = type /\ b.current.targets = TargetsOf(d, type)
  BY AllocateIs
<1>2. Flat(Opened(b)) = Flat(Opened(a))
  BY FlatAllocate
<1> HIDE DEF b
<1>3. \A i \in DOMAIN b.current.cmds : FALSE
  <2>1. DOMAIN <<>> = {}
    OBVIOUS
  <2>2. QED
    BY <1>1, <2>1
<1>4. OneEpochs(Opened(b))
  BY <1>1, <1>3, OpenedHas DEF Fits, OneEpoch
<1>5. QED
  BY <1>1, <1>2, <1>3, <1>4 DEF Fits, b

LEMMA FitsRebound ==
  ASSUME NEW a \in AllocatorRecord, Len(a.lists) # 0, a.current # NoPass,
         NEW d, NEW r, Fits(a, d, r),
         NEW bound \in [DirtyState \union {"pso"} -> Piece]
  PROVE  Fits([a EXCEPT !.current.bound = bound], d, r)
<1> DEFINE b == [a EXCEPT !.current.bound = bound]
<1>1. /\ b \in AllocatorRecord /\ b.lists = a.lists /\ b.current # NoPass
      /\ b.current.cmds = a.current.cmds
      /\ b.current.type = a.current.type /\ b.current.targets = a.current.targets
  BY RebindIs
<1>2. Flat(Opened(b)) = Flat(Opened(a))
  BY FlatRebind
<1> HIDE DEF b
<1>3. OneEpochs(Opened(b))
  <2>1. OneEpochs(a.lists[Len(a.lists)]) /\ OneEpoch(a.current)
    BY OpenedHas DEF Fits
  <2>2. OneEpoch(b.current)
    BY <1>1, <2>1 DEF OneEpoch
  <2>3. QED
    BY <1>1, <2>1, <2>2, OpenedHas
<1>4. QED
  BY <1>1, <1>2, <1>3 DEF Fits, b

LEMMA AppendSameOrder ==
  ASSUME NEW found \in Seq(CommandRecord), NEW r \in Seq(CommandRecord), SameOrder(found, r),
         NEW c \in CommandRecord, NEW k \in CommandRecord,
         c.kind = k.kind, c.targets = k.targets, c.epoch = k.epoch
  PROVE  SameOrder(Append(found, c), Append(r, k))
<1> DEFINE size == Len(r)
           f == Append(found, c)
           g == Append(r, k)
<1>1. /\ size \in Nat /\ DOMAIN r = 1 .. size /\ DOMAIN g = 1 .. size + 1
      /\ Len(g) = size + 1 /\ g[size + 1] = k /\ \A i \in 1 .. size : g[i] = r[i]
  BY AppendProperties, LenProperties
<1>2. Len(found) = size
  BY DEF SameOrder
<1>3. Len(f) = size + 1 /\ f[size + 1] = c /\ \A i \in 1 .. size : f[i] = found[i]
  BY <1>2, AppendProperties
<1> HIDE DEF size, f, g
<1>4. \A i \in 1 .. size + 1 : i = size + 1 \/ i \in 1 .. size
  BY <1>1
<1>5. SameOrder(f, g)
  BY <1>1, <1>3, <1>4 DEF SameOrder
<1>6. QED
  BY <1>5 DEF f, g

LEMMA FitsEncoded ==
  ASSUME NEW a \in AllocatorRecord, Len(a.lists) # 0, a.current # NoPass,
         NEW d, NEW r \in Seq(CommandRecord), Fits(a, d, r),
         NEW c \in CommandRecord, NEW k \in CommandRecord,
         c.kind = k.kind, c.targets = k.targets, c.epoch = k.epoch, c.epoch = d.epoch
  PROVE  Fits(Encoded(a, c), d, Append(r, k))
<1> DEFINE b == Encoded(a, c)
           cmds == a.current.cmds
           size == Len(cmds)
<1>1. /\ b \in AllocatorRecord /\ b.lists = a.lists /\ b.current # NoPass
      /\ b.current.type = a.current.type /\ b.current.targets = a.current.targets
      /\ b.current.cmds = Append(cmds, c)
  BY EncodedIs
<1>2. SameOrder(Flat(Opened(b)), Append(r, k))
  BY FlatEncoded, OpenedHas, AppendSameOrder DEF Fits
<1> HIDE DEF b
<1>3. \A i \in DOMAIN b.current.cmds : b.current.cmds[i].epoch = d.epoch
  <2> DEFINE longer == Append(cmds, c)
  <2>1. /\ size \in Nat /\ DOMAIN cmds = 1 .. size /\ DOMAIN longer = 1 .. size + 1
        /\ longer[size + 1] = c /\ \A i \in 1 .. size : longer[i] = cmds[i]
    BY AllocatorTyped, AppendProperties, LenProperties
  <2>2. \A i \in 1 .. size : cmds[i].epoch = d.epoch
    BY <2>1 DEF Fits
  <2> HIDE DEF longer, size, cmds
  <2>3. \A i \in 1 .. size + 1 : i = size + 1 \/ i \in 1 .. size
    BY <2>1
  <2>4. QED
    BY <1>1, <2>1, <2>2, <2>3 DEF longer
<1>4. OneEpochs(Opened(b))
  <2>1. OneEpoch(b.current)
    BY <1>3 DEF OneEpoch
  <2>2. QED
    BY <1>1, <2>1, OpenedHas DEF Fits
<1>5. QED
  BY <1>1, <1>2, <1>3, <1>4 DEF Fits, b

-----------------------------------------------------------------------------
(* What a call leaves to the other lists.                                  *)

LEMMA ListTyped ==
  ASSUME TypeOK, NEW l \in Lists, list[l] # NoList
  PROVE  /\ list[l] \in ListRecord /\ list[l].allocator \in Allocators
         /\ AllocatorOf(l) \in AllocatorRecord /\ AllocatorOf(l) = allocator[list[l].allocator]
         /\ list[l].entry \in Nat /\ list[l].targets \in Nat /\ list[l].epoch \in Nat
         /\ list[l].pso \in Pipelines \union {None} /\ list[l].dirty \subseteq DirtyState
         /\ list[l].value \in [DirtyState -> Nat]
         /\ list[l].viewports \in ViewportCounts \union {0}
         /\ list[l].open \in BOOLEAN /\ list[l].refused \in BOOLEAN
         /\ recorded[l] \in Seq(CommandRecord)
<1>1. list[l] \in ListRecord /\ recorded[l] \in Seq(CommandRecord)
  BY DEF TypeOK
<1>2. list[l].allocator \in Allocators
  BY <1>1 DEF ListRecord
<1>3. AllocatorOf(l) \in AllocatorRecord /\ AllocatorOf(l) = allocator[list[l].allocator]
  BY <1>2 DEF TypeOK, AllocatorOf
<1>4. QED
  BY <1>1, <1>2, <1>3 DEF ListRecord

(* A list that is not the one called finds the same passes afterwards.     *)
KeepsPasses(k) ==
  /\ list'[k] = list[k] /\ recorded'[k] = recorded[k]
  /\ Records(k) => allocator'[list[k].allocator] = allocator[list[k].allocator]
  /\ IsClosed(k) =>
       LET a == allocator[list[k].allocator]
           b == allocator'[list[k].allocator]
       IN  /\ Len(a.lists) <= Len(b.lists) /\ Len(b.lists) \in Nat
           /\ list[k].entry \in 1 .. Len(a.lists) =>
                b.lists[list[k].entry] = a.lists[list[k].entry]

LEMMA PassesStay ==
  ASSUME PassInv, NEW k \in Lists, KeepsPasses(k)
  PROVE  /\ Records(k)' => RecordingFits(k)'
         /\ IsClosed(k)' => ClosedFits(k)'
<1>1. list'[k] = list[k] /\ recorded'[k] = recorded[k]
  BY DEF KeepsPasses
<1>2. (Records(k)' <=> Records(k)) /\ (IsClosed(k)' <=> IsClosed(k))
  BY <1>1 DEF Records, IsClosed, IsExecutable
<1>3. ASSUME Records(k) PROVE RecordingFits(k)'
  <2>1. allocator'[list[k].allocator] = allocator[list[k].allocator] /\ RecordingFits(k)
    BY <1>3 DEF KeepsPasses, PassInv
  <2>2. QED
    BY <1>1, <2>1 DEF RecordingFits, AllocatorOf
<1>4. ASSUME IsClosed(k) PROVE ClosedFits(k)'
  <2>1. ClosedFits(k) /\ list[k] # NoList /\ TypeOK
    BY <1>4 DEF PassInv, IsClosed, IsExecutable
  <2> DEFINE a == allocator[list[k].allocator]
             b == allocator'[list[k].allocator]
  <2>2. Len(a.lists) \in Nat
    BY <2>1, ListTyped, AllocatorTyped
  <2>3. /\ list[k].entry \in 1 .. Len(a.lists)
        /\ SameOrder(Flat(a.lists[list[k].entry]), recorded[k])
        /\ OneEpochs(a.lists[list[k].entry])
    BY <2>1 DEF ClosedFits, AllocatorOf
  <2>4. Len(a.lists) <= Len(b.lists) /\ Len(b.lists) \in Nat
        /\ b.lists[list[k].entry] = a.lists[list[k].entry]
    BY <1>4, <2>3 DEF KeepsPasses
  <2>5. list[k].entry \in 1 .. Len(b.lists)
    BY <2>2, <2>3, <2>4
  <2>6. QED
    BY <1>1, <2>3, <2>4, <2>5 DEF ClosedFits, AllocatorOf
<1>5. QED
  BY <1>2, <1>3, <1>4

(* Two lists that may be executed have entries of their own: the one that  *)
(* records has the last one, and every other is closed with another.       *)
LEMMA OthersAreClosed ==
  ASSUME PassInv, NEW l \in Lists, Records(l), NEW k \in Lists, k # l, IsExecutable(k),
         list[k].allocator = list[l].allocator
  PROVE  IsClosed(k) /\ list[k].entry # Len(AllocatorOf(l).lists)
<1>1. list[l].entry = Len(AllocatorOf(l).lists) /\ list[l].entry # 0
  BY DEF PassInv, RecordingFits
<1>2. IsExecutable(l)
  BY <1>1 DEF Records, IsExecutable
<1>3. list[k].entry # list[l].entry
  BY <1>2 DEF PassInv, EntriesDiffer
<1>4. AllocatorOf(k) = AllocatorOf(l)
  BY DEF AllocatorOf
<1>5. list[k].open => list[k].entry = Len(AllocatorOf(k).lists)
  BY DEF PassInv, RecordingFits, Records, IsExecutable
<1>6. QED
  BY <1>1, <1>3, <1>4, <1>5 DEF IsClosed

(* A call of the list that records, which gives its allocator the passes   *)
(* of b; all but Close leave the list open.                                *)
Calling(l, b, d, r) ==
  /\ allocator' = [allocator EXCEPT ![list[l].allocator] = b]
  /\ list' = [list EXCEPT ![l] = d]
  /\ recorded' = [recorded EXCEPT ![l] = r]
  /\ b \in AllocatorRecord /\ Kept(b, AllocatorOf(l))
  /\ ~b.recording => b.current = NoPass
  /\ d \in ListRecord /\ d.allocator = list[l].allocator /\ d.entry = list[l].entry
  /\ ~d.refused /\ r \in Seq(CommandRecord)
Recording(l, b, d, r) == Calling(l, b, d, r) /\ b.recording /\ d.open

LEMMA CallKeeps ==
  ASSUME PassInv, NEW l \in Lists, Records(l), NEW b, NEW d, NEW r, Calling(l, b, d, r)
  PROVE  /\ TypeOK' /\ EntriesDiffer' /\ IdleHasNoPass'
         /\ list'[l] = d /\ recorded'[l] = r /\ AllocatorOf(l)' = b
         /\ d.entry = Len(b.lists) /\ d.entry # 0
         /\ \A k \in Lists \ {l} : KeepsPasses(k)
<1> DEFINE a0 == list[l].allocator
           a == allocator[a0]
<1>1. TypeOK /\ list[l] # NoList /\ list[l].open /\ ~list[l].refused
  BY DEF PassInv, Records
<1>2. a0 \in Allocators /\ a \in AllocatorRecord /\ AllocatorOf(l) = a
  BY <1>1, ListTyped
<1>3. a.recording /\ list[l].entry = Len(a.lists) /\ list[l].entry # 0 /\ Len(a.lists) \in Nat
  BY <1>2, AllocatorTyped DEF PassInv, RecordingFits
<1>4. /\ allocator'[a0] = b /\ \A x \in Allocators \ {a0} : allocator'[x] = allocator[x]
      /\ allocator' \in [Allocators -> AllocatorRecord]
      /\ list'[l] = d /\ \A k \in Lists \ {l} : list'[k] = list[k]
      /\ list' \in [Lists -> ListRecord \union {NoList}]
      /\ recorded'[l] = r /\ \A k \in Lists \ {l} : recorded'[k] = recorded[k]
      /\ recorded' \in [Lists -> Seq(CommandRecord)]
  BY <1>1, <1>2 DEF Calling, TypeOK
<1>5. /\ Len(b.lists) = Len(a.lists) /\ (~b.recording => b.current = NoPass)
      /\ \A i \in 1 .. Len(a.lists) : i # Len(a.lists) => b.lists[i] = a.lists[i]
      /\ d.allocator = a0 /\ d.entry = list[l].entry /\ ~d.refused
  BY <1>2, <1>3 DEF Calling, Kept
<1>6. AllocatorOf(l)' = b
  BY <1>4, <1>5 DEF AllocatorOf
<1>7. TypeOK'
  BY <1>4 DEF TypeOK
<1>8. IdleHasNoPass'
  BY <1>4, <1>5 DEF IdleHasNoPass, PassInv
<1>9. IsExecutable(l)
  BY <1>1, <1>3 DEF IsExecutable
<1>10. EntriesDiffer'
  <2>1. \A k \in Lists : IsExecutable(k)' => /\ IsExecutable(k)
                                             /\ list'[k].allocator = list[k].allocator
                                             /\ list'[k].entry = list[k].entry
    BY <1>4, <1>5, <1>9 DEF IsExecutable
  <2>2. QED
    BY <2>1 DEF EntriesDiffer, PassInv
<1>11. ASSUME NEW k \in Lists \ {l} PROVE KeepsPasses(k)
  <2>1. CASE list[k] # NoList /\ list[k].allocator = a0 /\ IsExecutable(k)
    <3>1. IsClosed(k) /\ list[k].entry # Len(a.lists)
      BY <1>2, <1>11, <2>1, OthersAreClosed
    <3>2. ~Records(k)
      BY <3>1 DEF IsClosed, Records
    <3>3. allocator[list[k].allocator] = a /\ allocator'[list[k].allocator] = b
      BY <1>4, <2>1
    <3>4. /\ Len(a.lists) <= Len(b.lists) /\ Len(b.lists) \in Nat
          /\ list[k].entry \in 1 .. Len(a.lists) =>
               b.lists[list[k].entry] = a.lists[list[k].entry]
      BY <1>3, <1>5, <3>1
    <3>5. list'[k] = list[k] /\ recorded'[k] = recorded[k]
      BY <1>4
    <3> HIDE DEF a, a0
    <3>6. QED
      BY <3>2, <3>3, <3>4, <3>5 DEF KeepsPasses
  <2>2. CASE list[k] # NoList /\ list[k].allocator # a0
    <3>1. list[k].allocator \in Allocators /\ allocator[list[k].allocator] \in AllocatorRecord
      BY <1>1, <2>2, ListTyped
    <3>2. allocator'[list[k].allocator] = allocator[list[k].allocator]
      BY <1>4, <2>2, <3>1
    <3>3. Len(allocator[list[k].allocator].lists) \in Nat
      BY <3>1, AllocatorTyped
    <3>4. QED
      BY <1>4, <3>2, <3>3 DEF KeepsPasses
  <2>3. CASE list[k] = NoList \/ ~IsExecutable(k)
    <3>1. ~IsExecutable(k) /\ ~IsClosed(k)
      BY <2>3 DEF IsExecutable, IsClosed
    <3>2. ~Records(k)
      BY <3>1 DEF PassInv, RecordingFits, Records, IsExecutable
    <3>3. QED
      BY <1>4, <3>1, <3>2 DEF KeepsPasses
  <2>4. QED
    BY <2>1, <2>2, <2>3
<1>12. QED
  BY <1>3, <1>4, <1>5, <1>6, <1>7, <1>8, <1>10, <1>11

LEMMA RecordingStep ==
  ASSUME PassInv, NEW l \in Lists, Records(l), NEW b, NEW d, NEW r,
         Recording(l, b, d, r), Fits(b, d, r)
  PROVE  PassInv'
<1>1. /\ TypeOK' /\ EntriesDiffer' /\ IdleHasNoPass'
      /\ list'[l] = d /\ recorded'[l] = r /\ AllocatorOf(l)' = b
      /\ d.entry = Len(b.lists) /\ d.entry # 0 /\ b.recording /\ d.open
      /\ \A k \in Lists \ {l} : KeepsPasses(k)
  BY CallKeeps DEF Recording
<1>2. RecordingFits(l)'
  BY <1>1 DEF RecordingFits
<1>3. ~IsClosed(l)'
  BY <1>1 DEF IsClosed
<1>4. QED
  BY <1>1, <1>2, <1>3, PassesStay DEF PassInv

-----------------------------------------------------------------------------
(* The beginning and the end of a recording, and what resets do.           *)

LEMMA EmptyFits ==
  /\ Flat(<<>>) = <<>> /\ <<>> \in Seq(CommandRecord) /\ DOMAIN <<>> = {} /\ Len(<<>>) = 0
  /\ SameOrder(<<>>, <<>>) /\ OneEpochs(<<>>) /\ SameStates(<<>>, <<>>)
<1>1. DOMAIN <<>> = {} /\ <<>> \in Seq(CommandRecord) /\ Len(<<>>) = 0
  OBVIOUS
<1>2. CmdsOf(<<>>) = <<>>
  BY <1>1 DEF CmdsOf
<1>3. Flat(<<>>) = <<>>
  BY <1>1, <1>2 DEF Flat, FlattenSeq
<1>4. QED
  BY <1>1, <1>3 DEF SameOrder, OneEpochs, SameStates

LEMMA StartIs ==
  ASSUME NEW a \in AllocatorRecord
  PROVE  LET b == StartRecord(a) IN
         /\ b \in AllocatorRecord /\ b.recording /\ b.current = a.current
         /\ Len(a.lists) \in Nat /\ Len(b.lists) = Len(a.lists) + 1
         /\ b.lists[Len(b.lists)] = <<>>
         /\ \A i \in 1 .. Len(a.lists) : b.lists[i] = a.lists[i]
<1> DEFINE b == StartRecord(a)
           longer == Append(a.lists, <<>>)
<1>1. a.lists \in Seq(Seq(Pass)) /\ <<>> \in Seq(Pass)
  BY AllocatorTyped
<1>2. /\ longer \in Seq(Seq(Pass)) /\ Len(longer) = Len(a.lists) + 1 /\ Len(a.lists) \in Nat
      /\ longer[Len(a.lists) + 1] = <<>> /\ \A i \in 1 .. Len(a.lists) : longer[i] = a.lists[i]
  BY <1>1, AppendProperties, LenProperties
<1>3. b = [a EXCEPT !.recording = TRUE, !.lists = longer]
  BY DEF StartRecord
<1> HIDE DEF b, longer
<1>4. b \in AllocatorRecord /\ b.recording /\ b.current = a.current /\ b.lists = longer
  BY <1>2, <1>3 DEF AllocatorRecord
<1>5. QED
  BY <1>2, <1>4 DEF b

LEMMA InitializeTyped ==
  ASSUME NEW a \in Allocators, NEW entry \in Nat, NEW refused \in BOOLEAN,
         NEW pso \in Pipelines \union {None}
  PROVE  LET d == Initialize(a, entry, refused, pso) IN
         /\ d \in ListRecord /\ d.allocator = a /\ d.entry = entry
         /\ d.open /\ d.refused = refused
  BY DEF Initialize, ListRecord, NoTargets

(* Whoever does not record into the allocator a is left alone by a call    *)
(* for another list that changes nothing else than appends to a.           *)
LEMMA StartKeeps ==
  ASSUME PassInv, NEW l \in Lists, NEW a \in Allocators, NEW pso \in Pipelines \union {None},
         Starts(l, a, pso)
  PROVE  /\ TypeOK' /\ EntriesDiffer' /\ IdleHasNoPass' /\ RecordingFits(l)'
         /\ ~IsClosed(l)' /\ \A k \in Lists \ {l} : KeepsPasses(k)
         /\ recorded'[l] = <<>> /\ Flat(Opened(AllocatorOf(l)')) = <<>>
         /\ AllocatorOf(l)'.current = NoPass
<1> DEFINE x == allocator[a]
           b == StartRecord(x)
           size == Len(b.lists)
           d == Initialize(a, size, FALSE, pso)
<1>1. /\ TypeOK /\ x \in AllocatorRecord /\ ~x.recording /\ x.current = NoPass
      /\ allocator' = [allocator EXCEPT ![a] = b]
      /\ list' = [list EXCEPT ![l] = Initialize(a, Len(allocator'[a].lists), FALSE, pso)]
      /\ recorded' = [recorded EXCEPT ![l] = <<>>]
  BY DEF PassInv, Starts, TypeOK, IdleHasNoPass
<1>2. /\ b \in AllocatorRecord /\ b.recording /\ b.current = NoPass
      /\ Len(x.lists) \in Nat /\ size = Len(x.lists) + 1 /\ b.lists[size] = <<>>
      /\ \A i \in 1 .. Len(x.lists) : b.lists[i] = x.lists[i]
  BY <1>1, StartIs
<1> HIDE DEF b, x
<1>3. /\ d \in ListRecord /\ d.allocator = a /\ d.entry = size /\ d.open /\ ~d.refused
      /\ size # 0
  <2>1. size \in Nat /\ size # 0
    BY <1>2
  <2> HIDE DEF size
  <2>2. d \in ListRecord /\ d.allocator = a /\ d.entry = size /\ d.open /\ d.refused = FALSE
    BY <2>1 DEF Initialize, ListRecord, NoTargets
  <2>3. QED
    BY <2>1, <2>2
<1>4. /\ allocator'[a] = b /\ \A y \in Allocators \ {a} : allocator'[y] = allocator[y]
      /\ allocator' \in [Allocators -> AllocatorRecord]
  BY <1>1, <1>2 DEF TypeOK
<1>5. list' = [list EXCEPT ![l] = d]
  BY <1>1, <1>4
<1> HIDE DEF d, size
<1>6. /\ list'[l] = d /\ \A k \in Lists \ {l} : list'[k] = list[k]
      /\ list' \in [Lists -> ListRecord \union {NoList}]
      /\ recorded'[l] = <<>> /\ \A k \in Lists \ {l} : recorded'[k] = recorded[k]
      /\ recorded' \in [Lists -> Seq(CommandRecord)]
  <2>1. /\ list'[l] = d /\ \A k \in Lists \ {l} : list'[k] = list[k]
        /\ list' \in [Lists -> ListRecord \union {NoList}]
    BY <1>1, <1>3, <1>5 DEF TypeOK
  <2>2. /\ recorded'[l] = <<>> /\ \A k \in Lists \ {l} : recorded'[k] = recorded[k]
        /\ recorded' \in [Lists -> Seq(CommandRecord)]
    <3>1. recorded \in [Lists -> Seq(CommandRecord)] /\ <<>> \in Seq(CommandRecord)
      BY <1>1, EmptyFits DEF TypeOK
    <3>2. QED
      BY <1>1, <3>1
  <2>3. QED
    BY <2>1, <2>2
<1>7. AllocatorOf(l)' = b
  BY <1>3, <1>4, <1>6 DEF AllocatorOf
<1>8. TypeOK' /\ IdleHasNoPass'
  <2>1. TypeOK'
    BY <1>4, <1>6 DEF TypeOK
  <2>2. \A y \in Allocators : ~allocator'[y].recording => allocator'[y].current = NoPass
    BY <1>2, <1>4 DEF IdleHasNoPass, PassInv
  <2>3. QED
    BY <2>1, <2>2 DEF IdleHasNoPass
<1>9. Opened(b) = <<>>
  BY <1>2, <1>3, OpenedIs DEF size
<1>10. RecordingFits(l)'
  <2>1. Fits(b, d, <<>>)
    BY <1>2, <1>9, EmptyFits DEF Fits
  <2>2. d.entry = Len(b.lists)
    BY <1>3 DEF size
  <2>3. QED
    BY <1>2, <1>3, <1>6, <1>7, <2>1, <2>2 DEF RecordingFits
<1>11. ASSUME NEW k \in Lists, IsExecutable(k)
       PROVE  /\ list[k] # NoList /\ list[k].allocator \in Allocators
              /\ IsClosed(k) \/ Records(k)
              /\ list[k].allocator = a => IsClosed(k) /\ list[k].entry \in 1 .. Len(x.lists)
  <2>1. list[k] # NoList /\ list[k].allocator \in Allocators
    BY <1>1, <1>11, ListTyped DEF IsExecutable
  <2>2. IsClosed(k) \/ Records(k)
    BY <1>11 DEF IsExecutable, IsClosed, Records
  <2>3. ASSUME list[k].allocator = a PROVE IsClosed(k) /\ list[k].entry \in 1 .. Len(x.lists)
    <3>1. AllocatorOf(k) = x
      BY <2>3 DEF AllocatorOf, x
    <3>2. ~Records(k)
      BY <1>1, <3>1 DEF PassInv, RecordingFits
    <3>3. QED
      BY <2>2, <3>1, <3>2 DEF PassInv, ClosedFits
  <2>4. QED
    BY <2>1, <2>2, <2>3
<1>12. EntriesDiffer'
  <2>1. ASSUME NEW k \in Lists \ {l}, IsExecutable(k)', list'[k].allocator = a
        PROVE  list'[k].entry # size
    <3>1. list[k].entry \in 1 .. Len(x.lists)
      BY <1>6, <1>11, <2>1 DEF IsExecutable
    <3>2. QED
      BY <1>2, <1>6, <3>1
  <2>2. \A k \in Lists \ {l} : IsExecutable(k)' => IsExecutable(k)
    BY <1>6 DEF IsExecutable
  <2>3. QED
    BY <1>3, <1>6, <2>1, <2>2 DEF EntriesDiffer, PassInv
<1>13. ASSUME NEW k \in Lists \ {l} PROVE KeepsPasses(k)
  <2>1. ASSUME Records(k) PROVE allocator'[list[k].allocator] = allocator[list[k].allocator]
    <3>1. IsExecutable(k)
      BY <2>1 DEF PassInv, RecordingFits, Records, IsExecutable
    <3>2. list[k].allocator # a
      BY <1>11, <2>1, <3>1 DEF IsClosed, Records
    <3>3. QED
      BY <1>4, <1>11, <3>1, <3>2
  <2>2. ASSUME IsClosed(k)
        PROVE  LET y == allocator[list[k].allocator]
                   z == allocator'[list[k].allocator]
               IN  /\ Len(y.lists) <= Len(z.lists) /\ Len(z.lists) \in Nat
                   /\ list[k].entry \in 1 .. Len(y.lists) =>
                        z.lists[list[k].entry] = y.lists[list[k].entry]
    <3>1. IsExecutable(k)
      BY <2>2 DEF IsClosed
    <3>2. CASE list[k].allocator = a
      <4>1. allocator[list[k].allocator] = x /\ allocator'[list[k].allocator] = b
        BY <1>4, <3>2 DEF x
      <4>2. Len(x.lists) <= Len(b.lists) /\ Len(b.lists) \in Nat
        BY <1>2 DEF size
      <4>3. QED
        BY <1>2, <4>1, <4>2
    <3>3. CASE list[k].allocator # a
      <4>1. allocator'[list[k].allocator] = allocator[list[k].allocator]
        BY <1>4, <1>11, <3>1, <3>3
      <4>2. Len(allocator[list[k].allocator].lists) \in Nat
        BY <1>1, <1>11, <3>1, AllocatorTyped DEF TypeOK
      <4>3. QED
        BY <4>1, <4>2
    <3>4. QED
      BY <3>2, <3>3
  <2>3. list'[k] = list[k] /\ recorded'[k] = recorded[k]
    BY <1>6
  <2>4. QED
    BY <2>1, <2>2, <2>3 DEF KeepsPasses
<1>14. ~IsClosed(l)'
  BY <1>3, <1>6 DEF IsClosed
<1>15. QED
  BY <1>2, <1>6, <1>7, <1>8, <1>9, <1>10, <1>12, <1>13, <1>14, EmptyFits

LEMMA StartPasses ==
  ASSUME PassInv, NEW l \in Lists, NEW a \in Allocators, NEW pso \in Pipelines \union {None},
         Starts(l, a, pso)
  PROVE  PassInv'
  BY StartKeeps, PassesStay DEF PassInv

(* A list whose Reset was refused may not be executed.                     *)
LEMMA RefusedKeeps ==
  ASSUME PassInv, NEW l \in Lists, NEW a \in Allocators, NEW pso \in Pipelines \union {None},
         ResetRefused(l, a, pso)
  PROVE  /\ TypeOK' /\ EntriesDiffer' /\ IdleHasNoPass'
         /\ ~Records(l)' /\ ~IsClosed(l)' /\ \A k \in Lists \ {l} : KeepsPasses(k)
<1> DEFINE d == Initialize(a, list[l].entry, TRUE, pso)
<1>1. TypeOK /\ list[l] # NoList /\ list' = [list EXCEPT ![l] = d]
      /\ allocator' = allocator /\ recorded' = recorded
  BY DEF PassInv, ResetRefused, SetState
<1>2. list[l].entry \in Nat
  BY <1>1, ListTyped
<1>3. d \in ListRecord /\ d.refused
  BY <1>2, InitializeTyped
<1> HIDE DEF d
<1>4. /\ list'[l] = d /\ \A k \in Lists \ {l} : list'[k] = list[k]
      /\ list' \in [Lists -> ListRecord \union {NoList}]
  BY <1>1, <1>3 DEF TypeOK
<1>5. TypeOK' /\ IdleHasNoPass'
  BY <1>1, <1>4 DEF TypeOK, IdleHasNoPass, PassInv
<1>6. ~Records(l)' /\ ~IsExecutable(l)'
  BY <1>3, <1>4 DEF Records, IsExecutable
<1>7. \A k \in Lists : IsExecutable(k)' => IsExecutable(k) /\ list'[k] = list[k]
  BY <1>4, <1>6 DEF IsExecutable
<1>8. EntriesDiffer'
  BY <1>7 DEF EntriesDiffer, PassInv
<1>9. ASSUME NEW k \in Lists \ {l} PROVE KeepsPasses(k)
  <2>1. IsClosed(k) => Len(allocator[list[k].allocator].lists) \in Nat
    BY <1>1, ListTyped, AllocatorTyped DEF IsClosed, IsExecutable
  <2>2. QED
    BY <1>1, <1>4, <2>1 DEF KeepsPasses
<1>10. QED
  BY <1>5, <1>6, <1>8, <1>9 DEF IsClosed

(* Closing a list moves its open pass to its entry. *)
LEMMA CloseIs ==
  ASSUME PassInv, NEW l \in Lists, Close(l)
  PROVE  LET b == EndRecord(AllocatorOf(l))
             d == [list[l] EXCEPT !.open = FALSE]
         IN  /\ Records(l) /\ Calling(l, b, d, recorded[l]) /\ ~d.open
             /\ b.lists[Len(b.lists)] = Opened(AllocatorOf(l))
<1> DEFINE a == AllocatorOf(l)
           x == InvalidateCurrentPass(a)
           b == EndRecord(a)
           d == [list[l] EXCEPT !.open = FALSE]
<1>1. /\ Records(l) /\ list[l] # NoList /\ TypeOK /\ ~list[l].refused
      /\ allocator' = [allocator EXCEPT ![list[l].allocator] = EndRecord(@)]
      /\ list' = [list EXCEPT ![l] = d] /\ recorded' = recorded
  BY DEF Close, PassInv, Records
<1>2. /\ a \in AllocatorRecord /\ a = allocator[list[l].allocator] /\ list[l] \in ListRecord
      /\ recorded[l] \in Seq(CommandRecord)
  BY <1>1, ListTyped
<1>3. Len(a.lists) # 0
  BY <1>1 DEF PassInv, RecordingFits
<1>4. /\ x \in AllocatorRecord /\ Kept(x, a) /\ x.current = NoPass
      /\ x.lists[Len(x.lists)] = Opened(a)
  BY <1>2, <1>3, InvalidateIs
<1>5. b = [x EXCEPT !.recording = FALSE]
  BY DEF EndRecord
<1>6. allocator' = [allocator EXCEPT ![list[l].allocator] = b]
  BY <1>1, <1>2
<1> HIDE DEF x, b
<1>7. b \in AllocatorRecord /\ b.lists = x.lists /\ b.current = NoPass
  BY <1>4, <1>5 DEF AllocatorRecord
<1>8. Kept(b, a) /\ b.lists[Len(b.lists)] = Opened(a)
  BY <1>4, <1>7 DEF Kept
<1>9. /\ d \in ListRecord /\ d.allocator = list[l].allocator /\ d.entry = list[l].entry
      /\ ~d.refused /\ ~d.open
  BY <1>1, <1>2 DEF ListRecord
<1> HIDE DEF d
<1>10. recorded' = [recorded EXCEPT ![l] = recorded[l]]
  BY <1>1 DEF TypeOK
<1>11. Calling(l, b, d, recorded[l])
  BY <1>1, <1>2, <1>6, <1>7, <1>8, <1>9, <1>10 DEF Calling
<1>12. QED
  BY <1>1, <1>8, <1>9, <1>11 DEF b, d

LEMMA ClosePasses == ASSUME PassInv, NEW l \in Lists, Close(l) PROVE PassInv'
<1> DEFINE b == EndRecord(AllocatorOf(l))
           d == [list[l] EXCEPT !.open = FALSE]
<1>1. /\ Records(l) /\ Calling(l, b, d, recorded[l]) /\ ~d.open
      /\ b.lists[Len(b.lists)] = Opened(AllocatorOf(l))
  BY CloseIs
<1> HIDE DEF b, d
<1>2. /\ TypeOK' /\ EntriesDiffer' /\ IdleHasNoPass'
      /\ list'[l] = d /\ recorded'[l] = recorded[l] /\ AllocatorOf(l)' = b
      /\ d.entry = Len(b.lists) /\ d.entry # 0
      /\ \A k \in Lists \ {l} : KeepsPasses(k)
  BY <1>1, CallKeeps
<1>3. ~Records(l)'
  BY <1>1, <1>2 DEF Records
<1>4. Fits(AllocatorOf(l), list[l], recorded[l])
  BY <1>1 DEF PassInv, RecordingFits
<1>5. d.entry \in 1 .. Len(b.lists)
  <2>1. Len(b.lists) \in Nat
    BY <1>1, AllocatorTyped DEF Calling
  <2>2. QED
    BY <1>2, <2>1
<1>6. ClosedFits(l)'
  BY <1>1, <1>2, <1>4, <1>5 DEF ClosedFits, Fits
<1>7. QED
  BY <1>2, <1>3, <1>6, PassesStay DEF PassInv

LEMMA ResetAllocatorKeeps ==
  ASSUME PassInv, NEW a \in Allocators, ResetAllocator(a)
  PROVE  /\ TypeOK' /\ EntriesDiffer' /\ IdleHasNoPass'
         /\ \A k \in Lists : KeepsPasses(k) \/ (~Records(k)' /\ ~IsClosed(k)')
<1> DEFINE emptied(k) == [list[k] EXCEPT !.entry = 0]
<1>1. /\ TypeOK /\ ~allocator[a].recording /\ recorded' = recorded
      /\ allocator' = [allocator EXCEPT ![a] = NewAllocator]
      /\ list' = [k \in Lists |-> IF list[k] # NoList /\ list[k].allocator = a
                                    THEN emptied(k) ELSE list[k]]
  BY DEF PassInv, ResetAllocator
<1>2. NewAllocator \in AllocatorRecord /\ NewAllocator.current = NoPass
  BY EmptySeq DEF NewAllocator, AllocatorRecord
<1>3. /\ allocator'[a] = NewAllocator
      /\ \A x \in Allocators \ {a} : allocator'[x] = allocator[x]
      /\ allocator' \in [Allocators -> AllocatorRecord]
  BY <1>1, <1>2 DEF TypeOK
<1>4. \A k \in Lists : list[k] # NoList =>
        /\ emptied(k) \in ListRecord /\ emptied(k).entry = 0
        /\ emptied(k).open = list[k].open /\ emptied(k).refused = list[k].refused
  <2>1. ASSUME NEW k \in Lists, list[k] # NoList
        PROVE  /\ emptied(k) \in ListRecord /\ emptied(k).entry = 0
               /\ emptied(k).open = list[k].open /\ emptied(k).refused = list[k].refused
    <3>1. list[k] \in ListRecord
      BY <1>1, <2>1, ListTyped
    <3>2. QED
      BY <3>1 DEF ListRecord
  <2>2. QED
    BY <2>1
<1> HIDE DEF emptied
<1>5. list' \in [Lists -> ListRecord \union {NoList}]
  BY <1>1, <1>4 DEF TypeOK
<1>6. TypeOK' /\ IdleHasNoPass'
  <2>1. TypeOK'
    BY <1>1, <1>3, <1>5 DEF TypeOK
  <2>2. \A x \in Allocators : ~allocator'[x].recording => allocator'[x].current = NoPass
    BY <1>2, <1>3 DEF IdleHasNoPass, PassInv
  <2>3. QED
    BY <2>1, <2>2 DEF IdleHasNoPass
<1>7. ASSUME NEW k \in Lists, list[k] # NoList, list[k].allocator = a
      PROVE  ~IsExecutable(k)' /\ ~Records(k)' /\ ~IsClosed(k)'
  <2>1. list'[k] = emptied(k) /\ list'[k].entry = 0
    BY <1>1, <1>4, <1>7
  <2>2. AllocatorOf(k) = allocator[a]
    BY <1>7 DEF AllocatorOf
  <2>3. ~Records(k)
    BY <1>1, <2>2 DEF PassInv, RecordingFits
  <2>4. ~Records(k)'
    BY <1>4, <1>7, <2>1, <2>3 DEF Records
  <2>5. QED
    BY <2>1, <2>4 DEF IsExecutable, IsClosed
<1>8. ASSUME NEW k \in Lists, ~(list[k] # NoList /\ list[k].allocator = a)
      PROVE  KeepsPasses(k) /\ list'[k] = list[k]
  <2>1. list'[k] = list[k] /\ recorded'[k] = recorded[k]
    BY <1>1, <1>8
  <2>2. CASE list[k] = NoList
    BY <2>1, <2>2 DEF KeepsPasses, Records, IsClosed, IsExecutable
  <2>3. CASE list[k] # NoList
    <3>1. /\ list[k].allocator \in Allocators
          /\ Len(allocator[list[k].allocator].lists) \in Nat
      BY <1>1, <2>3, ListTyped, AllocatorTyped
    <3>2. allocator'[list[k].allocator] = allocator[list[k].allocator]
      BY <1>3, <1>8, <2>3, <3>1
    <3>3. QED
      BY <2>1, <3>1, <3>2 DEF KeepsPasses
  <2>4. QED
    BY <2>2, <2>3
<1>9. EntriesDiffer'
  <2>1. \A k \in Lists : IsExecutable(k)' => IsExecutable(k) /\ list'[k] = list[k]
    BY <1>7, <1>8 DEF IsExecutable
  <2>2. QED
    BY <2>1 DEF EntriesDiffer, PassInv
<1>10. QED
  BY <1>6, <1>7, <1>8, <1>9

LEMMA OtherPasses ==
  ASSUME PassInv,
         \/ \E l \in Lists, a \in Allocators, pso \in Pipelines \union {None} :
              ResetRefused(l, a, pso)
         \/ \E a \in Allocators : ResetAllocator(a)
  PROVE  PassInv'
<1>1. /\ TypeOK' /\ EntriesDiffer' /\ IdleHasNoPass'
      /\ \A k \in Lists : KeepsPasses(k) \/ (~Records(k)' /\ ~IsClosed(k)')
  BY RefusedKeeps, ResetAllocatorKeeps
<1>2. QED
  BY <1>1, PassesStay DEF PassInv

-----------------------------------------------------------------------------
(* The calls of a list that records.                                       *)

LEMMA CallerIs ==
  ASSUME PassInv, NEW l \in Lists, Records(l)
  PROVE  /\ AllocatorOf(l) \in AllocatorRecord /\ AllocatorOf(l) = allocator[list[l].allocator]
         /\ Len(AllocatorOf(l).lists) # 0 /\ AllocatorOf(l).recording
         /\ Fits(AllocatorOf(l), list[l], recorded[l])
         /\ list[l] \in ListRecord /\ recorded[l] \in Seq(CommandRecord)
         /\ list[l].open /\ ~list[l].refused /\ TypeOK
<1>1. TypeOK /\ list[l] # NoList /\ list[l].open /\ ~list[l].refused
  BY DEF PassInv, Records
<1>2. RecordingFits(l)
  BY DEF PassInv
<1>3. QED
  BY <1>1, <1>2, ListTyped DEF RecordingFits

(* Calls that only set state: they make dirty what they set. *)
Sets(l, d) ==
  /\ d \in ListRecord /\ d.allocator = list[l].allocator /\ d.entry = list[l].entry
  /\ d.open /\ ~d.refused /\ d.targets = list[l].targets /\ d.epoch = list[l].epoch
  /\ d.pso = list[l].pso

LEMMA SetsIs ==
  ASSUME PassInv, NEW l \in Lists, Records(l), NEW d, Sets(l, d), SetState(l, d)
  PROVE  Recording(l, AllocatorOf(l), d, recorded[l])
<1> DEFINE a == AllocatorOf(l)
<1>1. /\ a \in AllocatorRecord /\ a = allocator[list[l].allocator] /\ a.recording
      /\ recorded[l] \in Seq(CommandRecord) /\ TypeOK
  BY CallerIs
<1>2. allocator' = allocator /\ recorded' = recorded /\ list' = [list EXCEPT ![l] = d]
  BY DEF SetState
<1>3. /\ allocator' = [allocator EXCEPT ![list[l].allocator] = a]
      /\ recorded' = [recorded EXCEPT ![l] = recorded[l]]
  BY <1>1, <1>2 DEF TypeOK
<1>4. Kept(a, a)
  BY DEF Kept
<1> HIDE DEF a
<1>5. QED
  BY <1>1, <1>2, <1>3, <1>4 DEF Recording, Calling, Sets, a

LEMMA SetIs ==
  ASSUME PassInv, NEW l \in Lists, NEW s \in DirtyState, NEW v \in 0 .. 1, Set(l, s, v)
  PROVE  LET d == [list[l] EXCEPT !.value[s] = v, !.dirty = @ \union {s}] IN
         /\ Records(l) /\ Sets(l, d) /\ SetState(l, d)
         /\ d.value = [list[l].value EXCEPT ![s] = v] /\ d.viewports = list[l].viewports
         /\ d.dirty = list[l].dirty \union {s}
<1>1. Records(l) /\ list[l] \in ListRecord /\ list[l].open /\ ~list[l].refused
  BY CallerIs DEF Set
<1>2. [list[l].value EXCEPT ![s] = v] \in [DirtyState -> Nat]
  BY <1>1 DEF ListRecord
<1>3. QED
  BY <1>1, <1>2 DEF Set, Sets, ListRecord

WithViewports(d, v, count) ==
  [d EXCEPT !.value["Viewport"] = v, !.viewports = count, !.dirty = @ \union {"Viewport"}]

LEMMA ViewportsIs ==
  ASSUME PassInv, NEW l \in Lists, NEW v \in 0 .. 1, NEW count \in ViewportCounts,
         RSSetViewports(l, v, count)
  PROVE  LET d == WithViewports(list[l], v, count) IN
         /\ Records(l) /\ Sets(l, d) /\ SetState(l, d)
         /\ d.value = [list[l].value EXCEPT !["Viewport"] = v] /\ d.viewports = count
         /\ d.dirty = list[l].dirty \union {"Viewport"}
<1>1. Records(l) /\ list[l] \in ListRecord /\ list[l].open /\ ~list[l].refused
  BY CallerIs DEF RSSetViewports
<1>2. "Viewport" \in DirtyState
  BY DEF DirtyState, GraphicsState
<1>3. [list[l].value EXCEPT !["Viewport"] = v] \in [DirtyState -> Nat]
  BY <1>1, <1>2 DEF ListRecord
<1>4. QED
  BY <1>1, <1>2, <1>3 DEF RSSetViewports, Sets, ListRecord, WithViewports

LEMMA SignatureIs ==
  ASSUME PassInv, NEW l \in Lists, NEW arguments \in RootArguments, NEW v \in 1 .. 2,
         SetRootSignature(l, arguments, v)
  PROVE  LET d == [list[l] EXCEPT !.value[SignatureOf(arguments)] = v,
                                  !.dirty = @ \union {arguments, SignatureOf(arguments)}] IN
         /\ Records(l) /\ Sets(l, d) /\ SetState(l, d)
         /\ d.value = [list[l].value EXCEPT ![SignatureOf(arguments)] = v]
         /\ d.viewports = list[l].viewports
         /\ d.dirty = list[l].dirty \union {arguments, SignatureOf(arguments)}
<1> DEFINE signature == SignatureOf(arguments)
<1>1. Records(l) /\ list[l] \in ListRecord /\ list[l].open /\ ~list[l].refused
  BY CallerIs DEF SetRootSignature
<1>2. signature \in DirtyState /\ arguments \in DirtyState
  BY DEF DirtyState, GraphicsState, ComputeState, RootArguments, SignatureOf
<1>3. SetRootSignature(l, arguments, v) =>
        SetState(l, [list[l] EXCEPT !.value[signature] = v,
                                    !.dirty = @ \union {arguments, signature}])
  BY DEF SetRootSignature
<1> HIDE DEF signature
<1>4. [list[l].value EXCEPT ![signature] = v] \in [DirtyState -> Nat]
  BY <1>1, <1>2 DEF ListRecord
<1>5. LET d == [list[l] EXCEPT !.value[signature] = v,
                               !.dirty = @ \union {arguments, signature}] IN
      /\ Records(l) /\ Sets(l, d) /\ SetState(l, d)
      /\ d.value = [list[l].value EXCEPT ![signature] = v]
      /\ d.viewports = list[l].viewports
      /\ d.dirty = list[l].dirty \union {arguments, signature}
  BY <1>1, <1>2, <1>3, <1>4 DEF Sets, ListRecord
<1>6. QED
  BY <1>5 DEF signature

LEMMA SetsPasses ==
  ASSUME PassInv, NEW l \in Lists, Records(l), NEW d, Sets(l, d), SetState(l, d)
  PROVE  PassInv'
<1>1. Recording(l, AllocatorOf(l), d, recorded[l])
  BY SetsIs
<1>2. Fits(AllocatorOf(l), d, recorded[l])
  BY CallerIs, FitsSetState DEF Sets
<1>3. QED
  BY <1>1, <1>2, RecordingStep

(* A barrier, or new render targets, end the pass. *)
LEMMA EndsIs ==
  ASSUME PassInv, NEW l \in Lists, Records(l), allocator' = Ended(l), recorded' = recorded,
         NEW d \in ListRecord, list' = [list EXCEPT ![l] = d],
         d.allocator = list[l].allocator, d.entry = list[l].entry, d.open, ~d.refused
  PROVE  Recording(l, InvalidateCurrentPass(AllocatorOf(l)), d, recorded[l])
<1> DEFINE a == AllocatorOf(l)
           b == InvalidateCurrentPass(a)
<1>1. /\ a \in AllocatorRecord /\ a = allocator[list[l].allocator] /\ a.recording
      /\ Len(a.lists) # 0 /\ recorded[l] \in Seq(CommandRecord) /\ TypeOK
  BY CallerIs
<1>2. b \in AllocatorRecord /\ Kept(b, a) /\ b.recording
  BY <1>1, InvalidateIs
<1>3. allocator' = [allocator EXCEPT ![list[l].allocator] = b]
  BY <1>1 DEF Ended
<1>4. recorded' = [recorded EXCEPT ![l] = recorded[l]]
  BY <1>1 DEF TypeOK
<1> HIDE DEF a, b
<1>5. QED
  BY <1>1, <1>2, <1>3, <1>4 DEF Recording, Calling, a, b

LEMMA BarrierIs ==
  ASSUME PassInv, NEW l \in Lists,
         \/ ResourceBarrier(l)
         \/ \E targets \in 0 .. 1 : OMSetRenderTargets(l, targets)
  PROVE  Records(l) /\ \E d : Recording(l, InvalidateCurrentPass(AllocatorOf(l)), d, recorded[l])
<1>1. Records(l) /\ allocator' = Ended(l) /\ recorded' = recorded
  BY DEF ResourceBarrier, OMSetRenderTargets, EndedByBarrier
<1>2. list[l] \in ListRecord /\ list[l].open /\ ~list[l].refused
  BY <1>1, CallerIs
<1>3. CASE ResourceBarrier(l)
  <2> DEFINE epoch == list[l].epoch + 1
             d == [list[l] EXCEPT !.epoch = epoch]
  <2>1. epoch \in Nat
    BY <1>2 DEF ListRecord
  <2>2. list' = [list EXCEPT ![l] = d]
    BY <1>3 DEF ResourceBarrier
  <2> HIDE DEF epoch
  <2>3. d \in ListRecord /\ d.allocator = list[l].allocator /\ d.entry = list[l].entry
        /\ d.open /\ ~d.refused
    BY <1>2, <2>1 DEF ListRecord
  <2>4. QED
    BY <1>1, <2>2, <2>3, EndsIs
<1>4. ASSUME NEW targets \in 0 .. 1, OMSetRenderTargets(l, targets)
      PROVE  \E d : Recording(l, InvalidateCurrentPass(AllocatorOf(l)), d, recorded[l])
  <2> DEFINE d == [list[l] EXCEPT !.targets = targets]
  <2>1. list' = [list EXCEPT ![l] = d]
    BY <1>4 DEF OMSetRenderTargets
  <2>2. d \in ListRecord /\ d.allocator = list[l].allocator /\ d.entry = list[l].entry
        /\ d.open /\ ~d.refused
    BY <1>2 DEF ListRecord
  <2>3. QED
    BY <1>1, <2>1, <2>2, EndsIs
<1>5. QED
  BY <1>1, <1>3, <1>4

LEMMA BarrierPasses ==
  ASSUME PassInv, NEW l \in Lists,
         \/ ResourceBarrier(l)
         \/ \E targets \in 0 .. 1 : OMSetRenderTargets(l, targets)
  PROVE  PassInv'
  BY BarrierIs, CallerIs, FitsInvalidated, RecordingStep

(* Opening another pass ends the one that is open. *)
LEMMA NewPassIs ==
  ASSUME NEW a \in AllocatorRecord, Len(a.lists) # 0,
         NEW type \in PassTypes, NEW targets \in Nat
  PROVE  LET b == AllocatePass(InvalidateCurrentPass(a), type, targets) IN
         /\ b \in AllocatorRecord /\ Kept(b, a) /\ b.recording = a.recording
         /\ b.current \in Pass /\ b.current # NoPass
         /\ b.current.type = type /\ b.current.targets = targets /\ b.current.cmds = <<>>
         /\ b.current.bound = [s \in DirtyState \union {"pso"} |-> None]
         /\ Len(b.lists) # 0 /\ Flat(Opened(b)) = Flat(Opened(a))
         /\ \A d, r : Fits(a, d, r) /\ targets = TargetsOf(d, type) => Fits(b, d, r)
<1> DEFINE x == InvalidateCurrentPass(a)
           b == AllocatePass(x, type, targets)
<1>1. /\ x \in AllocatorRecord /\ Kept(x, a) /\ x.current = NoPass
      /\ x.recording = a.recording /\ Opened(x) = Opened(a)
  BY InvalidateIs
<1>2. Len(x.lists) # 0
  BY <1>1 DEF Kept
<1>3. \A d, r : Fits(a, d, r) => Fits(x, d, r)
  BY FitsInvalidated
<1> HIDE DEF x
<1>4. /\ b \in AllocatorRecord /\ b.lists = x.lists /\ b.recording = x.recording
      /\ b.current \in Pass /\ b.current # NoPass
      /\ b.current.type = type /\ b.current.targets = targets /\ b.current.cmds = <<>>
      /\ b.current.bound = [s \in DirtyState \union {"pso"} |-> None]
  BY <1>1, AllocateIs
<1>5. Flat(Opened(b)) = Flat(Opened(x))
  BY <1>1, <1>2, FlatAllocate
<1>6. ASSUME NEW d, NEW r, Fits(x, d, r), targets = TargetsOf(d, type) PROVE Fits(b, d, r)
  BY <1>1, <1>2, <1>6, FitsAllocated
<1> HIDE DEF b
<1>7. Kept(b, a) /\ Len(b.lists) # 0
  BY <1>1, <1>2, <1>4 DEF Kept
<1>8. /\ b \in AllocatorRecord /\ Kept(b, a) /\ b.recording = a.recording
      /\ b.current \in Pass /\ b.current # NoPass
      /\ b.current.type = type /\ b.current.targets = targets /\ b.current.cmds = <<>>
      /\ b.current.bound = [s \in DirtyState \union {"pso"} |-> None]
      /\ Len(b.lists) # 0 /\ Flat(Opened(b)) = Flat(Opened(a))
      /\ \A d, r : Fits(a, d, r) /\ targets = TargetsOf(d, type) => Fits(b, d, r)
  BY <1>1, <1>3, <1>4, <1>5, <1>6, <1>7
<1>9. QED
  BY <1>8 DEF b, x

(* A command that sees no state: copies, clears and resolves. *)
Stateless(kind, d) == Command(kind, None, NoTargets, d.epoch)

LEMMA StatelessTyped ==
  ASSUME NEW d \in ListRecord, NEW type \in PassTypes
  PROVE  LET c == Stateless(<<type>>, d) IN
         c \in CommandRecord /\ c.epoch = d.epoch /\ c.state = None
  BY DEF Stateless, Command, CommandRecord, ListRecord, NoTargets

(* Encoding adds a command to what is found and to what was recorded.      *)
LEMMA EncodedFits ==
  ASSUME NEW a \in AllocatorRecord, Len(a.lists) # 0, a.current # NoPass,
         NEW d, NEW r \in Seq(CommandRecord), Fits(a, d, r),
         NEW c \in CommandRecord, NEW k \in CommandRecord,
         c.kind = k.kind, c.targets = k.targets, c.epoch = k.epoch, c.epoch = d.epoch
  PROVE  LET b == Encoded(a, c) IN
         /\ b \in AllocatorRecord /\ Kept(b, a) /\ b.recording = a.recording
         /\ b.current # NoPass /\ b.current.type = a.current.type
         /\ b.current.bound = a.current.bound /\ Len(b.lists) # 0
         /\ Flat(Opened(b)) = Append(Flat(Opened(a)), c)
         /\ Fits(b, d, Append(r, k)) /\ Append(r, k) \in Seq(CommandRecord)
<1> DEFINE b == Encoded(a, c)
<1>1. /\ b \in AllocatorRecord /\ b.lists = a.lists /\ b.recording = a.recording
      /\ b.current # NoPass /\ b.current.type = a.current.type
      /\ b.current.bound = a.current.bound
  BY EncodedIs
<1>2. Flat(Opened(b)) = Append(Flat(Opened(a)), c) /\ Fits(b, d, Append(r, k))
  BY FlatEncoded, FitsEncoded
<1>3. Append(r, k) \in Seq(CommandRecord)
  BY AppendProperties
<1> HIDE DEF b
<1>4. Kept(b, a) /\ Len(b.lists) # 0
  BY <1>1 DEF Kept
<1>5. QED
  BY <1>1, <1>2, <1>3, <1>4 DEF b

LEMMA EncodedSameFits ==
  ASSUME NEW a \in AllocatorRecord, Len(a.lists) # 0, a.current # NoPass,
         NEW d, NEW r \in Seq(CommandRecord), Fits(a, d, r),
         NEW c \in CommandRecord, c.epoch = d.epoch
  PROVE  LET b == Encoded(a, c) IN
         /\ b \in AllocatorRecord /\ Kept(b, a) /\ b.recording = a.recording
         /\ b.current # NoPass /\ b.current.type = a.current.type
         /\ b.current.bound = a.current.bound /\ Len(b.lists) # 0
         /\ Flat(Opened(b)) = Append(Flat(Opened(a)), c)
         /\ Fits(b, d, Append(r, c)) /\ Append(r, c) \in Seq(CommandRecord)
  BY EncodedFits

LEMMA CopyIs ==
  ASSUME PassInv, NEW l \in Lists, Copy(l)
  PROVE  LET c == Stateless(<<"Blit">>, list[l]) IN
         /\ Records(l) /\ c \in CommandRecord /\ c.state = None
         /\ \E b : /\ Recording(l, b, list[l], Append(recorded[l], c))
                   /\ Fits(b, list[l], Append(recorded[l], c))
                   /\ b.current.type = "Blit"
                   /\ Flat(Opened(b)) = Append(Flat(Opened(AllocatorOf(l))), c)
<1> DEFINE a == AllocatorOf(l)
           d0 == list[l]
           cmd == Stateless(<<"Blit">>, d0)
           x == PreBlit(a, d0)
           b == Encoded(x, cmd)
           r0 == Append(recorded[l], cmd)
<1>1. Records(l)
  BY DEF Copy
<1>2. /\ a \in AllocatorRecord /\ a = allocator[d0.allocator] /\ a.recording
      /\ Len(a.lists) # 0 /\ Fits(a, d0, recorded[l])
      /\ d0 \in ListRecord /\ recorded[l] \in Seq(CommandRecord)
      /\ d0.open /\ ~d0.refused /\ TypeOK
  BY <1>1, CallerIs
<1>3. cmd \in CommandRecord /\ cmd.epoch = d0.epoch /\ cmd.state = None
  BY <1>2, StatelessTyped DEF PassTypes
<1>4. /\ allocator' = [allocator EXCEPT ![d0.allocator] = Encoded(PreBlit(@, d0), cmd)]
      /\ recorded' = [recorded EXCEPT ![l] = Append(@, cmd)] /\ list' = list
  BY DEF Copy, Stateless
<1>5. /\ allocator' = [allocator EXCEPT ![d0.allocator] = b]
      /\ recorded' = [recorded EXCEPT ![l] = r0]
      /\ list' = [list EXCEPT ![l] = d0]
  BY <1>2, <1>4 DEF TypeOK
<1> HIDE DEF a, d0, cmd
<1>6. /\ x \in AllocatorRecord /\ Kept(x, a) /\ x.recording /\ Len(x.lists) # 0
      /\ x.current # NoPass /\ x.current.type = "Blit"
      /\ Flat(Opened(x)) = Flat(Opened(a)) /\ Fits(x, d0, recorded[l])
  <2>1. CASE Opens(a, "Blit")
    <3>1. "Blit" \in PassTypes /\ NoTargets \in Nat /\ TargetsOf(d0, "Blit") = NoTargets
      BY DEF PassTypes, NoTargets, TargetsOf
    <3>2. x = AllocatePass(InvalidateCurrentPass(a), "Blit", NoTargets)
      BY <2>1 DEF PreBlit
    <3>3. QED
      BY <1>2, <3>1, <3>2, NewPassIs
  <2>2. CASE ~Opens(a, "Blit")
    <3>1. x = a
      BY <2>2 DEF PreBlit
    <3>2. QED
      BY <1>2, <2>2, <3>1 DEF Opens, Kept
  <2>3. QED
    BY <2>1, <2>2
<1> HIDE DEF x
<1>7. /\ b \in AllocatorRecord /\ Kept(b, x) /\ b.recording = x.recording
      /\ b.current.type = x.current.type /\ Flat(Opened(b)) = Append(Flat(Opened(x)), cmd)
      /\ Fits(b, d0, r0) /\ r0 \in Seq(CommandRecord)
  <2>1. /\ x \in AllocatorRecord /\ Len(x.lists) # 0 /\ x.current # NoPass
        /\ recorded[l] \in Seq(CommandRecord) /\ Fits(x, d0, recorded[l])
        /\ cmd \in CommandRecord /\ cmd.epoch = d0.epoch
    BY <1>2, <1>3, <1>6
  <2>2. QED
    BY ONLY <2>1, EncodedSameFits
<1> HIDE DEF b, r0
<1>8. Kept(b, a)
  BY <1>6, <1>7, <1>2, AllocatorTyped DEF Kept
<1>9. Recording(l, b, d0, r0)
  BY <1>2, <1>5, <1>6, <1>7, <1>8 DEF Recording, Calling, a, d0
<1>10. QED
  BY <1>1, <1>3, <1>6, <1>7, <1>9 DEF a, cmd, d0, r0

LEMMA OfItsOwnIs ==
  ASSUME PassInv, NEW l \in Lists, NEW type \in {"Clear", "Resolve", "Compute"},
         PassOfItsOwn(l, type)
  PROVE  LET c == Stateless(<<type>>, list[l]) IN
         /\ Records(l) /\ c \in CommandRecord /\ c.state = None
         /\ \E b : /\ Recording(l, b, list[l], Append(recorded[l], c))
                   /\ Fits(b, list[l], Append(recorded[l], c))
                   /\ b.current = NoPass
                   /\ Flat(Opened(b)) = Append(Flat(Opened(AllocatorOf(l))), c)
<1> DEFINE a == AllocatorOf(l)
           d0 == list[l]
           cmd == Stateless(<<type>>, d0)
           x == AllocatePass(InvalidateCurrentPass(a), type, NoTargets)
           y == Encoded(x, cmd)
           b == InvalidateCurrentPass(y)
           r0 == Append(recorded[l], cmd)
<1>1. Records(l)
  BY DEF PassOfItsOwn
<1>2. /\ a \in AllocatorRecord /\ a = allocator[d0.allocator] /\ a.recording
      /\ Len(a.lists) # 0 /\ Fits(a, d0, recorded[l])
      /\ d0 \in ListRecord /\ recorded[l] \in Seq(CommandRecord)
      /\ d0.open /\ ~d0.refused /\ TypeOK
  BY <1>1, CallerIs
<1>3. /\ cmd \in CommandRecord /\ cmd.epoch = d0.epoch /\ cmd.state = None
      /\ type \in PassTypes /\ NoTargets \in Nat /\ TargetsOf(d0, type) = NoTargets
  <2>1. type \in PassTypes /\ NoTargets \in Nat /\ TargetsOf(d0, type) = NoTargets
    BY DEF PassTypes, NoTargets, TargetsOf
  <2>2. QED
    BY <1>2, <2>1, StatelessTyped
<1>4. /\ allocator' = [allocator EXCEPT ![d0.allocator] =
           InvalidateCurrentPass(Encoded(
             AllocatePass(InvalidateCurrentPass(@), type, NoTargets), cmd))]
      /\ recorded' = [recorded EXCEPT ![l] = Append(@, cmd)] /\ list' = list
  BY DEF PassOfItsOwn, Stateless
<1>5. /\ allocator' = [allocator EXCEPT ![d0.allocator] = b]
      /\ recorded' = [recorded EXCEPT ![l] = r0]
      /\ list' = [list EXCEPT ![l] = d0]
  BY <1>2, <1>4 DEF TypeOK
<1> HIDE DEF a, d0, cmd
<1>6. /\ x \in AllocatorRecord /\ Kept(x, a) /\ x.recording /\ Len(x.lists) # 0
      /\ x.current # NoPass /\ Flat(Opened(x)) = Flat(Opened(a)) /\ Fits(x, d0, recorded[l])
  BY <1>2, <1>3, NewPassIs
<1> HIDE DEF x
<1>7. /\ y \in AllocatorRecord /\ Kept(y, x) /\ y.recording = x.recording /\ Len(y.lists) # 0
      /\ Flat(Opened(y)) = Append(Flat(Opened(x)), cmd)
      /\ Fits(y, d0, r0) /\ r0 \in Seq(CommandRecord)
  <2>1. /\ x \in AllocatorRecord /\ Len(x.lists) # 0 /\ x.current # NoPass
        /\ recorded[l] \in Seq(CommandRecord) /\ Fits(x, d0, recorded[l])
        /\ cmd \in CommandRecord /\ cmd.epoch = d0.epoch
    BY <1>2, <1>3, <1>6
  <2>2. QED
    BY ONLY <2>1, EncodedSameFits
<1> HIDE DEF y, r0
<1>8. /\ b \in AllocatorRecord /\ Kept(b, y) /\ b.recording = y.recording
      /\ b.current = NoPass /\ Opened(b) = Opened(y) /\ Fits(b, d0, r0)
  BY <1>7, InvalidateIs, FitsInvalidated
<1> HIDE DEF b
<1>9. Kept(b, a)
  BY <1>2, <1>6, <1>7, <1>8 DEF Kept
<1>10. Recording(l, b, d0, r0)
  BY <1>2, <1>5, <1>6, <1>7, <1>8, <1>9 DEF Recording, Calling, a, d0
<1>11. QED
  BY <1>1, <1>3, <1>6, <1>7, <1>8, <1>10 DEF a, cmd, d0, r0

LEMMA StatelessPasses ==
  ASSUME PassInv, NEW l \in Lists,
         \/ Copy(l)
         \/ \E type \in {"Clear", "Resolve", "Compute"} : PassOfItsOwn(l, type)
  PROVE  PassInv'
<1>1. CASE Copy(l)
  BY <1>1, CopyIs, RecordingStep
<1>2. ASSUME NEW type \in {"Clear", "Resolve", "Compute"}, PassOfItsOwn(l, type) PROVE PassInv'
  BY <1>2, OfItsOwnIs, RecordingStep
<1>3. QED
  BY <1>1, <1>2

-----------------------------------------------------------------------------
(* What is written into a pass.                                            *)

Parts == DirtyState \union {"pso"}

LEMMA StateNames ==
  /\ "pso" \notin DirtyState /\ "VertexBuffer" \in GraphicsState
  /\ "StencilRef" \in GraphicsState /\ "VertexBuffer" \notin ComputeState
  /\ "StencilRef" \notin ComputeState /\ "VertexBuffer" # "StencilRef"
  /\ GraphicsState \subseteq DirtyState /\ ComputeState \subseteq DirtyState
  /\ RootArguments \subseteq DirtyState /\ RootSignatures \subseteq DirtyState
  /\ \A s \in RootArguments : SignatureOf(s) \in RootSignatures
  /\ \A type : StatesOf(type) \subseteq DirtyState
  /\ "VertexBuffer" \notin RootArguments \union RootSignatures
  /\ "StencilRef" \notin RootArguments \union RootSignatures
  BY DEF DirtyState, GraphicsState, ComputeState, RootArguments, RootSignatures, SignatureOf,
         StatesOf

LEMMA PsoTyped ==
  ASSUME NEW d \in ListRecord, NEW kind
  PROVE  Pso(d, kind) \in Pipelines \union {None} /\ Pso(d, kind) \in Piece
<1>1. d.pso \in Pipelines \union {None}
  BY DEF ListRecord
<1>2. Pso(d, kind) \in Pipelines \union {None}
  BY <1>1 DEF Pso
<1>3. QED
  BY <1>2 DEF Piece

LEMMA WrittenIs ==
  ASSUME NEW d, NEW s \in DirtyState
  PROVE  /\ s = "VertexBuffer" => Written(d, s) = <<d.value[s], Pso(d, "graphics")>>
         /\ s \in RootArguments =>
              Written(d, s) =
                IF d.value[SignatureOf(s)] = 0 THEN None
                ELSE <<d.value[s], d.value[SignatureOf(s)],
                       s = "ComputeRootArguments" /\ d.pso \in KkPipelines>>
         /\ s \in RootSignatures =>
              Written(d, s) = IF d.value[s] = 0 THEN None ELSE <<d.value[s]>>
         /\ s \in {"Viewport", "ScissorRect"} => Written(d, s) = <<d.value[s], d.viewports>>
         /\ \/ s = "VertexBuffer" \/ s \in RootArguments \/ s \in RootSignatures
            \/ s \in {"Viewport", "ScissorRect"} \/ Written(d, s) = <<d.value[s]>>
<1>1. CASE s = "VertexBuffer"
  <2>1. Written(d, s) = <<d.value[s], Pso(d, "graphics")>>
    BY <1>1 DEF Written, RootArguments, RootSignatures
  <2>2. QED
    BY <1>1, <2>1 DEF RootArguments, RootSignatures
<1>2. CASE s \in RootArguments
  <2>1. /\ s # "VertexBuffer" /\ s \notin RootSignatures
        /\ s \notin {"Viewport", "ScissorRect"}
    BY <1>2 DEF RootArguments, RootSignatures
  <2>2. QED
    BY <1>2, <2>1 DEF Written
<1>3. CASE s \in RootSignatures
  <2>1. /\ s # "VertexBuffer" /\ s \notin RootArguments
        /\ s \notin {"Viewport", "ScissorRect"}
    BY <1>3 DEF RootArguments, RootSignatures
  <2>2. QED
    BY <1>3, <2>1 DEF Written
<1>4. CASE s \in {"Viewport", "ScissorRect"}
  <2>1. s # "VertexBuffer" /\ s \notin RootArguments /\ s \notin RootSignatures
    BY <1>4 DEF RootArguments, RootSignatures
  <2>2. Written(d, s) = <<d.value[s], d.viewports>>
    BY <1>4, <2>1 DEF Written
  <2>3. QED
    BY <1>4, <2>1, <2>2
<1>5. CASE /\ s # "VertexBuffer" /\ s \notin RootArguments /\ s \notin RootSignatures
           /\ s \notin {"Viewport", "ScissorRect"}
  BY <1>5 DEF Written
<1>6. QED
  BY <1>1, <1>2, <1>3, <1>4, <1>5

LEMMA WrittenTyped ==
  ASSUME NEW d \in ListRecord, NEW s \in DirtyState
  PROVE  Written(d, s) \in Piece
<1>1. /\ \A x \in DirtyState : d.value[x] \in Nat
      /\ d.viewports \in ViewportCounts \union {0}
  BY DEF ListRecord
<1>2. CASE s = "VertexBuffer"
  <2>1. Written(d, s) = <<d.value[s], Pso(d, "graphics")>>
    BY <1>2, WrittenIs
  <2>2. Pso(d, "graphics") \in Pipelines \union {None}
    BY PsoTyped
  <2>3. QED
    BY <1>1, <2>1, <2>2 DEF Piece
<1>3. CASE s \in RootArguments
  <2> DEFINE kk == s = "ComputeRootArguments" /\ d.pso \in KkPipelines
             n == d.value[s]
             m == d.value[SignatureOf(s)]
  <2>1. SignatureOf(s) \in DirtyState
    BY <1>3, StateNames
  <2>2. Written(d, s) = IF m = 0 THEN None ELSE <<n, m, kk>>
    BY <1>3, WrittenIs
  <2>3. n \in Nat /\ m \in Nat /\ kk \in BOOLEAN
    BY <1>1, <2>1
  <2> HIDE DEF n, m, kk
  <2>4. <<n, m, kk>> \in Nat \X Nat \X BOOLEAN
    BY <2>3
  <2>5. QED
    BY <2>2, <2>4 DEF Piece
<1>4. CASE s \in RootSignatures
  <2>1. Written(d, s) = IF d.value[s] = 0 THEN None ELSE <<d.value[s]>>
    BY <1>4, WrittenIs
  <2>2. QED
    BY <1>1, <2>1 DEF Piece
<1>5. CASE s \in {"Viewport", "ScissorRect"}
  <2>1. Written(d, s) = <<d.value[s], d.viewports>>
    BY <1>5, WrittenIs
  <2>2. QED
    BY <1>1, <2>1 DEF Piece
<1>6. CASE Written(d, s) = <<d.value[s]>>
  BY <1>1, <1>6 DEF Piece
<1>7. QED
  BY <1>2, <1>3, <1>4, <1>5, <1>6, WrittenIs

(* For pipelines of one layout, what is written for a part of the state    *)
(* depends on the pipeline for the vertex table only.                      *)
LEMMA WrittenSame ==
  ASSUME KkPipelines = {}, NEW d, NEW e, NEW s \in DirtyState,
         e.value[s] = d.value[s],
         s \in RootArguments => e.value[SignatureOf(s)] = d.value[SignatureOf(s)],
         s \in {"Viewport", "ScissorRect"} => e.viewports = d.viewports,
         s = "VertexBuffer" => Pso(e, "graphics") = Pso(d, "graphics")
  PROVE  Written(e, s) = Written(d, s)
<1>1. CASE s = "VertexBuffer"
  BY <1>1, WrittenIs
<1>2. CASE s \in RootArguments
  <2>1. (d.pso \in KkPipelines) = FALSE /\ (e.pso \in KkPipelines) = FALSE
    OBVIOUS
  <2>2. QED
    BY <1>2, <2>1, WrittenIs
<1>3. CASE s \in RootSignatures
  BY <1>3, WrittenIs
<1>4. CASE s \in {"Viewport", "ScissorRect"}
  BY <1>4, WrittenIs
<1>5. CASE /\ s # "VertexBuffer" /\ s \notin RootArguments /\ s \notin RootSignatures
           /\ s \notin {"Viewport", "ScissorRect"}
  BY <1>5, WrittenIs
<1>6. QED
  BY <1>1, <1>2, <1>3, <1>4, <1>5

LEMMA WriteIs ==
  ASSUME NEW bound \in [Parts -> Piece], NEW d \in ListRecord, NEW states \in SUBSET DirtyState
  PROVE  LET b == Write(bound, d, states) IN
         /\ b \in [Parts -> Piece] /\ b["pso"] = bound["pso"]
         /\ \A s \in states : b[s] = Written(d, s)
         /\ \A s \in Parts \ states : b[s] = bound[s]
<1>1. DOMAIN bound = Parts /\ \A s \in Parts : bound[s] \in Piece
  OBVIOUS
<1>2. Write(bound, d, states) = [s \in Parts |-> IF s \in states THEN Written(d, s) ELSE bound[s]]
  BY <1>1 DEF Write
<1>3. states \subseteq Parts /\ "pso" \in Parts \ states
  BY StateNames DEF Parts
<1>4. \A s \in states : Written(d, s) \in Piece
  BY WrittenTyped
<1>5. QED
  BY <1>1, <1>2, <1>3, <1>4

LEMMA UpdateIs ==
  ASSUME NEW bound \in [Parts -> Piece], NEW d \in ListRecord
  PROVE  LET b == UpdateGraphicsPSO(bound, d) IN
         /\ b \in [Parts -> Piece] /\ b["pso"] = Pso(d, "graphics")
         /\ b["StencilRef"] = Written(d, "StencilRef")
         /\ \A s \in Parts \ {"StencilRef", "pso"} : b[s] = bound[s]
<1> DEFINE w == Write(bound, d, {"StencilRef"})
           b == UpdateGraphicsPSO(bound, d)
<1>1. /\ w \in [Parts -> Piece] /\ w["StencilRef"] = Written(d, "StencilRef")
      /\ \A s \in Parts \ {"StencilRef"} : w[s] = bound[s]
  <2>1. {"StencilRef"} \in SUBSET DirtyState
    BY StateNames
  <2>2. QED
    BY <2>1, WriteIs
<1>2. b = [w EXCEPT !["pso"] = Pso(d, "graphics")]
  BY DEF UpdateGraphicsPSO
<1> HIDE DEF w, b
<1>3. "pso" \in Parts /\ "StencilRef" \in Parts /\ "StencilRef" # "pso"
      /\ Pso(d, "graphics") \in Piece
  BY StateNames, PsoTyped DEF Parts
<1>4. b \in [Parts -> Piece] /\ b["pso"] = Pso(d, "graphics")
      /\ \A s \in Parts \ {"pso"} : b[s] = w[s]
  BY <1>1, <1>2, <1>3
<1>5. QED
  BY <1>1, <1>3, <1>4 DEF b

(* The parts of Prepared. *)
Fresh == [s \in Parts |-> None]
DirtyFor(a, d, type) ==
  IF Opens(a, type) THEN d.dirty \union DirtyInNewPass(type) ELSE d.dirty
WritesFor(a, d, type, skip) ==
  (DirtyFor(a, d, type) \intersect StatesOf(type))
    \ (IF skip THEN RootArguments \union RootSignatures ELSE {})
BoundFor(a, d, type) ==
  IF ~Opens(a, type) THEN a.current.bound
  ELSE IF type = "Render" THEN UpdateGraphicsPSO(Fresh, d)
  ELSE [Fresh EXCEPT !["pso"] = Pso(d, "compute")]

LEMMA BoundForTyped ==
  ASSUME NEW a \in AllocatorRecord, NEW d \in ListRecord, NEW type \in {"Render", "Compute"}
  PROVE  BoundFor(a, d, type) \in [Parts -> Piece]
<1>1. Fresh \in [Parts -> Piece] /\ "pso" \in Parts
  BY DEF Fresh, Piece, Parts
<1>2. CASE ~Opens(a, type)
  BY <1>2, AllocatorTyped DEF BoundFor, Opens, Parts
<1>3. CASE Opens(a, type) /\ type = "Render"
  BY <1>1, <1>3, UpdateIs DEF BoundFor
<1>4. CASE Opens(a, type) /\ type # "Render"
  <2>1. BoundFor(a, d, type) = [Fresh EXCEPT !["pso"] = Pso(d, "compute")]
    BY <1>4 DEF BoundFor
  <2>2. Pso(d, "compute") \in Piece
    BY PsoTyped
  <2>3. QED
    BY <1>1, <2>1, <2>2
<1>5. QED
  BY <1>2, <1>3, <1>4

LEMMA PreparedIs ==
  ASSUME NEW a \in AllocatorRecord, Len(a.lists) # 0, NEW d \in ListRecord,
         NEW type \in {"Render", "Compute"}, NEW skip \in BOOLEAN
  PROVE  LET p == Prepared(a, d, type, skip)
             b == p.allocator
         IN  /\ b \in AllocatorRecord /\ Kept(b, a) /\ b.recording = a.recording
             /\ Len(b.lists) # 0 /\ b.current # NoPass /\ b.current.type = type
             /\ Flat(Opened(b)) = Flat(Opened(a))
             /\ \A r : Fits(a, d, r) => Fits(b, d, r)
             /\ b.current.bound = Write(BoundFor(a, d, type), d, WritesFor(a, d, type, skip))
             /\ b.current.bound \in [Parts -> Piece]
             /\ p.dirty = DirtyFor(a, d, type) \ WritesFor(a, d, type, skip)
<1> DEFINE x == IF Opens(a, type)
                  THEN AllocatePass(InvalidateCurrentPass(a), type, TargetsOf(d, type)) ELSE a
           given == BoundFor(a, d, type)
           writes == WritesFor(a, d, type, skip)
           bound == Write(given, d, writes)
           b == [x EXCEPT !.current.bound = bound]
           p == Prepared(a, d, type, skip)
<1>1. /\ x \in AllocatorRecord /\ Kept(x, a) /\ x.recording = a.recording
      /\ Len(x.lists) # 0 /\ x.current # NoPass /\ x.current.type = type
      /\ Flat(Opened(x)) = Flat(Opened(a))
      /\ \A r : Fits(a, d, r) => Fits(x, d, r)
      /\ Opens(a, type) => x.current.bound = Fresh
      /\ ~Opens(a, type) => x = a
  <2>1. CASE Opens(a, type)
    <3>1. type \in PassTypes /\ TargetsOf(d, type) \in Nat
      BY DEF PassTypes, TargetsOf, NoTargets, ListRecord
    <3>2. x = AllocatePass(InvalidateCurrentPass(a), type, TargetsOf(d, type))
      BY <2>1
    <3> HIDE DEF x
    <3>3. QED
      BY <2>1, <3>1, <3>2, NewPassIs DEF Fresh, Parts
  <2>2. CASE ~Opens(a, type)
    BY <2>2 DEF Opens, Kept
  <2>3. QED
    BY <2>1, <2>2
<1>2. p = [allocator |-> b, dirty |-> DirtyFor(a, d, type) \ writes]
  <2>1. CASE Opens(a, type)
    <3>1. x.current.bound = Fresh
      BY <1>1, <2>1
    <3>2. p = [allocator |-> [x EXCEPT !.current.bound =
                                Write(IF type = "Render" THEN UpdateGraphicsPSO(x.current.bound, d)
                                      ELSE [x.current.bound EXCEPT !["pso"] = Pso(d, "compute")],
                                      d, writes)],
               dirty |-> DirtyFor(a, d, type) \ writes]
      BY <2>1 DEF Prepared, DirtyFor, WritesFor
    <3> HIDE DEF x, writes
    <3>3. QED
      BY <2>1, <3>1, <3>2 DEF BoundFor
  <2>2. CASE ~Opens(a, type)
    BY <2>2 DEF Prepared, DirtyFor, WritesFor, BoundFor
  <2>3. QED
    BY <2>1, <2>2
<1>3. given \in [Parts -> Piece]
  BY BoundForTyped
<1>4. writes \in SUBSET DirtyState
  BY StateNames DEF WritesFor
<1> HIDE DEF x, given, writes
<1>5. bound \in [Parts -> Piece]
  BY <1>3, <1>4, WriteIs
<1> HIDE DEF bound, p
<1>6. /\ b \in AllocatorRecord /\ b.lists = x.lists /\ b.recording = x.recording
      /\ b.current # NoPass /\ b.current.type = x.current.type /\ b.current.bound = bound
      /\ Flat(Opened(b)) = Flat(Opened(x))
  BY <1>1, <1>5, RebindIs, FlatRebind DEF Parts
<1>7. ASSUME NEW r0, Fits(a, d, r0) PROVE Fits(b, d, r0)
  <2>1. Fits(x, d, r0)
    BY <1>1, <1>7
  <2>2. bound \in [DirtyState \union {"pso"} -> Piece]
    BY <1>5 DEF Parts
  <2>3. /\ x \in AllocatorRecord /\ Len(x.lists) # 0 /\ x.current # NoPass
    BY <1>1
  <2>4. QED
    BY ONLY <2>1, <2>2, <2>3, FitsRebound
<1> HIDE DEF b
<1>8. p.allocator = b /\ p.dirty = DirtyFor(a, d, type) \ writes
  BY <1>2
<1>9. Kept(b, a) /\ Len(b.lists) # 0
  BY <1>1, <1>6 DEF Kept
<1>10. QED
  BY <1>1, <1>5, <1>6, <1>7, <1>8, <1>9 DEF p, bound, given, writes

(* A draw or dispatch, as the pass has it and as it was recorded.          *)
Copied(type, updates) ==
  IF ~updates THEN {}
  ELSE (RootArguments \union RootSignatures \union {"VertexBuffer"}) \intersect StatesOf(type)
SeenBy(pass, d, type, updates) == Seen(Write(pass.bound, d, Copied(type, updates)), type)

LEMMA SeenTyped ==
  ASSUME NEW bound \in [Parts -> Piece], NEW d \in ListRecord,
         NEW type \in {"Render", "Compute"}, NEW updates \in BOOLEAN
  PROVE  /\ Seen(Write(bound, d, Copied(type, updates)), type) \in SeenStates
         /\ Wanted(d, type) \in SeenStates
<1> DEFINE w == Write(bound, d, Copied(type, updates))
           parts == StatesOf(type) \union {"pso"}
<1>1. Copied(type, updates) \in SUBSET DirtyState
  BY StateNames DEF Copied
<1>2. w \in [Parts -> Piece]
  BY <1>1, WriteIs
<1> HIDE DEF w
<1>3. parts \subseteq Parts
  BY StateNames DEF Parts
<1>4. Seen(w, type) \in [parts -> Piece]
  BY <1>2, <1>3 DEF Seen
<1>5. \A s \in parts : (IF s = "pso" THEN Pso(d, KindOf(type)) ELSE Written(d, s)) \in Piece
  BY <1>3, PsoTyped, WrittenTyped DEF Parts
<1>6. Wanted(d, type) \in [parts -> Piece]
  BY <1>5 DEF Wanted
<1>7. [parts -> Piece] \subseteq SeenStates
  BY DEF SeenStates, StatesOf
<1>8. QED
  BY <1>4, <1>6, <1>7 DEF w

LEMMA CommandTyped ==
  ASSUME NEW kind \in {"Render", "Compute"} \X BOOLEAN, NEW state \in SeenStates,
         NEW targets \in Nat, NEW epoch \in Nat
  PROVE  LET c == Command(kind, state, targets, epoch) IN
         /\ c \in CommandRecord /\ c.kind = kind /\ c.state = state
         /\ c.targets = targets /\ c.epoch = epoch
  BY DEF Command, CommandRecord

Given(l, type, updates) == Prepared(AllocatorOf(l), list[l], type, updates)
Seeing(l, type, indirect, updates) ==
  LET pass == Given(l, type, updates).allocator.current
  IN  Command(<<type, indirect>>, SeenBy(pass, list[l], type, updates),
              pass.targets, list[l].epoch)
Wanting(l, type, indirect) ==
  Command(<<type, indirect>>, Wanted(list[l], type), TargetsOf(list[l], type), list[l].epoch)
Issued(l, type, indirect, updates) ==
  Encoded(Given(l, type, updates).allocator, Seeing(l, type, indirect, updates))
Cleaned(l, type, updates) == [list[l] EXCEPT !.dirty = Given(l, type, updates).dirty]

LEMMA IssueIs ==
  ASSUME PassInv, NEW l \in Lists, NEW type \in {"Render", "Compute"},
         NEW indirect \in BOOLEAN, NEW updates \in BOOLEAN,
         Issue(l, type, indirect, updates)
  PROVE  LET p == Given(l, type, updates)
             b == Issued(l, type, indirect, updates)
             c == Seeing(l, type, indirect, updates)
             k == Wanting(l, type, indirect)
             d == Cleaned(l, type, updates)
         IN  /\ Records(l) /\ Pso(list[l], KindOf(type)) # None
             /\ Recording(l, b, d, Append(recorded[l], k)) /\ Fits(b, d, Append(recorded[l], k))
             /\ c \in CommandRecord /\ k \in CommandRecord
             /\ c.state = SeenBy(p.allocator.current, list[l], type, updates)
             /\ k.state = Wanted(list[l], type)
             /\ b.current.type = type /\ b.current.bound = p.allocator.current.bound
             /\ Flat(Opened(b)) = Append(Flat(Opened(AllocatorOf(l))), c)
<1> DEFINE a == AllocatorOf(l)
           d0 == list[l]
           p == Prepared(a, d0, type, updates)
           x == p.allocator
           dirty == p.dirty
           d1 == [d0 EXCEPT !.dirty = dirty]
           seen == SeenBy(x.current, d0, type, updates)
           wanted == Wanted(d0, type)
           kind == <<type, indirect>>
           cmd == Command(kind, seen, x.current.targets, d0.epoch)
           own == Command(kind, wanted, TargetsOf(d0, type), d0.epoch)
           b == Encoded(x, cmd)
           r0 == Append(recorded[l], own)
<1>1. /\ Records(l) /\ Pso(d0, KindOf(type)) # None
      /\ allocator' = [allocator EXCEPT ![d0.allocator] = b]
      /\ list' = [list EXCEPT ![l].dirty = dirty]
      /\ recorded' = [recorded EXCEPT ![l] = Append(@, own)]
  BY DEF Issue, SeenBy, Copied
<1>2. /\ a \in AllocatorRecord /\ a = allocator[d0.allocator] /\ a.recording
      /\ Len(a.lists) # 0 /\ Fits(a, d0, recorded[l])
      /\ d0 \in ListRecord /\ recorded[l] \in Seq(CommandRecord)
      /\ d0.open /\ ~d0.refused /\ TypeOK
  BY <1>1, CallerIs
<1>3. recorded' = [recorded EXCEPT ![l] = r0] /\ list' = [list EXCEPT ![l] = d1]
  BY <1>1, <1>2 DEF TypeOK
<1>4. /\ x \in AllocatorRecord /\ Kept(x, a) /\ x.recording /\ Len(x.lists) # 0
      /\ x.current # NoPass /\ x.current.type = type
      /\ Flat(Opened(x)) = Flat(Opened(a)) /\ Fits(x, d0, recorded[l])
      /\ x.current.bound \in [Parts -> Piece]
      /\ dirty = DirtyFor(a, d0, type) \ WritesFor(a, d0, type, updates)
  BY <1>2, PreparedIs
<1>5. dirty \subseteq DirtyState
  BY <1>2, <1>4, StateNames DEF DirtyFor, DirtyInNewPass, ListRecord
<1>6. seen \in SeenStates /\ wanted \in SeenStates
  BY <1>2, <1>4, SeenTyped DEF SeenBy
<1>7. /\ d1 \in ListRecord /\ d1.allocator = d0.allocator /\ d1.entry = d0.entry
      /\ d1.open /\ ~d1.refused /\ d1.targets = d0.targets /\ d1.epoch = d0.epoch
  <2> HIDE DEF dirty, d0
  <2>1. QED
    BY <1>2, <1>5 DEF ListRecord
<1>8. x.current.targets = TargetsOf(d0, type) /\ TargetsOf(d0, type) \in Nat /\ d0.epoch \in Nat
  BY <1>2, <1>4 DEF Fits, TargetsOf, ListRecord, NoTargets
<1> HIDE DEF x, dirty, d1, seen, wanted, p
<1>9. /\ cmd \in CommandRecord /\ cmd.state = seen /\ own \in CommandRecord /\ own.state = wanted
      /\ cmd.kind = own.kind /\ cmd.targets = own.targets /\ cmd.epoch = own.epoch
      /\ cmd.epoch = d0.epoch
  <2>1. kind \in {"Render", "Compute"} \X BOOLEAN
    OBVIOUS
  <2> HIDE DEF kind
  <2>2. QED
    BY <1>6, <1>8, <2>1, CommandTyped
<1> HIDE DEF cmd, own
<1>10. /\ b \in AllocatorRecord /\ Kept(b, x) /\ b.recording = x.recording
       /\ b.current.type = x.current.type /\ b.current.bound = x.current.bound
       /\ Flat(Opened(b)) = Append(Flat(Opened(x)), cmd)
       /\ Fits(b, d0, r0) /\ r0 \in Seq(CommandRecord)
  <2>1. /\ x \in AllocatorRecord /\ Len(x.lists) # 0 /\ x.current # NoPass
        /\ recorded[l] \in Seq(CommandRecord) /\ Fits(x, d0, recorded[l])
        /\ cmd \in CommandRecord /\ own \in CommandRecord /\ cmd.kind = own.kind
        /\ cmd.targets = own.targets /\ cmd.epoch = own.epoch /\ cmd.epoch = d0.epoch
    BY <1>2, <1>4, <1>9
  <2> HIDE DEF d0
  <2>2. /\ b \in AllocatorRecord /\ b.lists = x.lists /\ b.recording = x.recording
        /\ b.current.type = x.current.type /\ b.current.bound = x.current.bound
    BY ONLY <2>1, EncodedIs
  <2>3. Flat(Opened(b)) = Append(Flat(Opened(x)), cmd)
    BY ONLY <2>1, FlatEncoded
  <2>4. Fits(b, d0, r0)
    BY ONLY <2>1, FitsEncoded
  <2>5. r0 \in Seq(CommandRecord)
    BY <2>1, AppendProperties
  <2> HIDE DEF b
  <2>6. Kept(b, x)
    BY <2>2 DEF Kept
  <2>7. QED
    BY <2>2, <2>3, <2>4, <2>5, <2>6
<1> HIDE DEF b, r0
<1>11. Kept(b, a)
  BY <1>2, <1>4, <1>10 DEF Kept
<1>12. Fits(b, d1, r0)
  BY <1>7, <1>10, FitsSetState
<1>13. Recording(l, b, d1, r0)
  BY <1>1, <1>2, <1>3, <1>4, <1>7, <1>10, <1>11 DEF Recording, Calling
<1>14. QED
  <2>1. /\ Given(l, type, updates) = p /\ Seeing(l, type, indirect, updates) = cmd
        /\ Wanting(l, type, indirect) = own /\ Cleaned(l, type, updates) = d1
        /\ Issued(l, type, indirect, updates) = b
    BY DEF Given, Seeing, Wanting, Cleaned, Issued, p, cmd, own, d1, b, dirty, x, seen, wanted
  <2>2. /\ cmd.state = SeenBy(p.allocator.current, d0, type, updates)
        /\ own.state = Wanted(d0, type)
        /\ b.current.bound = p.allocator.current.bound
    BY <1>9, <1>10 DEF seen, wanted, x
  <2>3. Flat(Opened(b)) = Append(Flat(Opened(a)), cmd) /\ b.current.type = type
    BY <1>4, <1>10
  <2> HIDE DEF a
  <2>4. QED
    BY <1>1, <1>9, <1>12, <1>13, <2>1, <2>2, <2>3 DEF a, r0

(* SetPipelineState gives a pass of the pipeline's kind that is open the   *)
(* new pipeline at once.                                                   *)
WithPso(d, pso) == [d EXCEPT !.pso = pso]
TypeFor(d, pso) == IF Pso(WithPso(d, pso), "graphics") # None THEN "Render" ELSE "Compute"
Updates(a, d, pso) == pso # None /\ ~Opens(a, TypeFor(d, pso))
Updated(bound, d, pso) ==
  IF TypeFor(d, pso) = "Render" THEN UpdateGraphicsPSO(bound, WithPso(d, pso))
  ELSE [bound EXCEPT !["pso"] = pso]

LEMMA UpdatedTyped ==
  ASSUME NEW bound \in [Parts -> Piece], NEW d \in ListRecord, NEW pso \in Pipelines \union {None}
  PROVE  Updated(bound, d, pso) \in [Parts -> Piece] /\ WithPso(d, pso) \in ListRecord
<1>1. WithPso(d, pso) \in ListRecord
  BY DEF WithPso, ListRecord
<1>2. pso \in Piece /\ "pso" \in Parts
  BY DEF Piece, Parts
<1>3. QED
  BY <1>1, <1>2, UpdateIs DEF Updated

LEMMA PipelineIs ==
  ASSUME PassInv, NEW l \in Lists, NEW pso \in Pipelines \union {None}, SetPipelineState(l, pso)
  PROVE  LET a == AllocatorOf(l)
             d == list[l]
         IN  /\ Records(l)
             /\ \E b, e :
                  /\ Recording(l, b, e, recorded[l]) /\ Fits(b, e, recorded[l])
                  /\ Flat(Opened(b)) = Flat(Opened(a))
                  /\ e.pso = pso /\ e.value = d.value /\ e.viewports = d.viewports
                  /\ e.dirty = d.dirty \union
                       (IF Updates(a, d, pso) /\ TypeFor(d, pso) = "Render"
                          THEN {"VertexBuffer"} ELSE {})
                  /\ ~Updates(a, d, pso) => b = a
                  /\ Updates(a, d, pso) =>
                       /\ b.current.type = TypeFor(d, pso)
                       /\ b.current.bound = Updated(a.current.bound, d, pso)
<1> DEFINE a == AllocatorOf(l)
           d0 == list[l]
           d1 == WithPso(d0, pso)
           isOpen == Updates(a, d0, pso)
           e == IF isOpen /\ TypeFor(d0, pso) = "Render"
                  THEN [d1 EXCEPT !.dirty = @ \union {"VertexBuffer"}] ELSE d1
           new == Updated(a.current.bound, d0, pso)
           b == IF isOpen THEN [a EXCEPT !.current.bound = new] ELSE a
<1>1. Records(l)
  BY DEF SetPipelineState
<1>2. /\ a \in AllocatorRecord /\ a = allocator[d0.allocator] /\ a.recording
      /\ Len(a.lists) # 0 /\ Fits(a, d0, recorded[l])
      /\ d0 \in ListRecord /\ recorded[l] \in Seq(CommandRecord)
      /\ d0.open /\ ~d0.refused /\ TypeOK
  BY <1>1, CallerIs
<1>3. d1.allocator = d0.allocator
  BY <1>2 DEF ListRecord, WithPso
<1>4. /\ list' = [list EXCEPT ![l] = e] /\ recorded' = recorded
      /\ allocator' = IF isOpen
           THEN [allocator EXCEPT ![d1.allocator].current.bound =
                   IF TypeFor(d0, pso) = "Render" THEN UpdateGraphicsPSO(@, d1)
                   ELSE [@ EXCEPT !["pso"] = pso]]
           ELSE allocator
  BY DEF SetPipelineState, WithPso, TypeFor, Updates
<1>5. allocator' = [allocator EXCEPT ![d0.allocator] = b]
  <2>1. CASE isOpen
    <3> DEFINE own == d0.allocator
    <3>1. allocator' = [allocator EXCEPT ![own].current.bound =
                          IF TypeFor(d0, pso) = "Render" THEN UpdateGraphicsPSO(@, d1)
                          ELSE [@ EXCEPT !["pso"] = pso]]
      BY <1>3, <1>4, <2>1
    <3> HIDE DEF own, d1
    <3>2. allocator' = [allocator EXCEPT ![own].current.bound =
                          IF TypeFor(d0, pso) = "Render"
                            THEN UpdateGraphicsPSO(allocator[own].current.bound, d1)
                          ELSE [allocator[own].current.bound EXCEPT !["pso"] = pso]]
      BY <3>1
    <3>3. a = allocator[own]
      BY <1>2 DEF own
    <3>4. allocator' = [allocator EXCEPT ![own].current.bound = new]
      BY <3>2, <3>3 DEF Updated, d1
    <3> HIDE DEF new, a
    <3>5. allocator' = [allocator EXCEPT ![own] = [a EXCEPT !.current.bound = new]]
      BY <3>3, <3>4
    <3>6. QED
      BY <2>1, <3>5 DEF own
  <2>2. CASE ~isOpen
    BY <1>2, <1>4, <2>2 DEF TypeOK
  <2>3. QED
    BY <2>1, <2>2
<1>6. recorded' = [recorded EXCEPT ![l] = recorded[l]]
  BY <1>2, <1>4 DEF TypeOK
<1> HIDE DEF isOpen, new, a
<1>7. /\ e \in ListRecord /\ e.allocator = d0.allocator /\ e.entry = d0.entry
      /\ e.open /\ ~e.refused /\ e.targets = d0.targets /\ e.epoch = d0.epoch
      /\ e.pso = pso /\ e.value = d0.value /\ e.viewports = d0.viewports
      /\ e.dirty = d0.dirty \union
           (IF isOpen /\ TypeFor(d0, pso) = "Render" THEN {"VertexBuffer"} ELSE {})
  <2>1. /\ d1 \in ListRecord /\ d1.allocator = d0.allocator /\ d1.entry = d0.entry
        /\ d1.open /\ ~d1.refused /\ d1.targets = d0.targets /\ d1.epoch = d0.epoch
        /\ d1.pso = pso /\ d1.value = d0.value /\ d1.viewports = d0.viewports
        /\ d1.dirty = d0.dirty
    <3> HIDE DEF d0
    <3>1. QED
      BY <1>2 DEF WithPso, ListRecord
  <2> HIDE DEF d1, d0
  <2>2. "VertexBuffer" \in DirtyState
    BY StateNames
  <2>3. QED
    BY <2>1, <2>2 DEF ListRecord
<1>8. /\ b \in AllocatorRecord /\ Kept(b, a) /\ b.recording /\ Fits(b, d0, recorded[l])
      /\ Flat(Opened(b)) = Flat(Opened(a))
      /\ isOpen => b.current.type = TypeFor(d0, pso) /\ b.current.bound = new
  <2>1. CASE isOpen
    <3>1. a.current # NoPass /\ a.current.type = TypeFor(d0, pso)
      BY <2>1 DEF isOpen, Updates, Opens
    <3>2. new \in [DirtyState \union {"pso"} -> Piece]
      BY <1>2, <3>1, AllocatorTyped, UpdatedTyped DEF new, Parts
    <3>3. b = [a EXCEPT !.current.bound = new]
      BY <2>1
    <3> HIDE DEF b, d0
    <3>4. /\ b \in AllocatorRecord /\ b.lists = a.lists /\ b.recording = a.recording
          /\ b.current.type = a.current.type /\ b.current.bound = new
          /\ Flat(Opened(b)) = Flat(Opened(a))
      <4>1. /\ a \in AllocatorRecord /\ Len(a.lists) # 0 /\ a.current # NoPass
        BY <1>2, <3>1
      <4>2. /\ b \in AllocatorRecord /\ b.lists = a.lists /\ b.recording = a.recording
            /\ b.current.type = a.current.type /\ b.current.bound = new
        BY ONLY <4>1, <3>2, <3>3, RebindIs
      <4>3. Flat(Opened(b)) = Flat(Opened(a))
        BY ONLY <4>1, <3>2, <3>3, FlatRebind
      <4>4. QED
        BY <4>2, <4>3
    <3>5. Fits(b, d0, recorded[l])
      <4>1. /\ a \in AllocatorRecord /\ Len(a.lists) # 0 /\ a.current # NoPass
            /\ Fits(a, d0, recorded[l])
        BY <1>2, <3>1
      <4>2. QED
        BY ONLY <4>1, <3>2, <3>3, FitsRebound
    <3>6. QED
      BY <1>2, <3>1, <3>4, <3>5 DEF Kept
  <2>2. CASE ~isOpen
    BY <1>2, <2>2 DEF Kept
  <2>3. QED
    BY <2>1, <2>2
<1>9. ~isOpen => b = a
  OBVIOUS
<1> HIDE DEF b, e
<1>10. Fits(b, e, recorded[l])
  BY <1>7, <1>8, FitsSetState
<1>11. Recording(l, b, e, recorded[l])
  BY <1>2, <1>4, <1>5, <1>6, <1>7, <1>8 DEF Recording, Calling, a
<1>12. QED
  BY <1>1, <1>7, <1>8, <1>9, <1>10, <1>11 DEF isOpen, new, a

LEMMA IssuePasses ==
  ASSUME PassInv, NEW l \in Lists, NEW type \in {"Render", "Compute"},
         NEW indirect \in BOOLEAN, NEW updates \in BOOLEAN,
         Issue(l, type, indirect, updates)
  PROVE  PassInv'
<1> DEFINE b == Issued(l, type, indirect, updates)
           d == Cleaned(l, type, updates)
           r == Append(recorded[l], Wanting(l, type, indirect))
<1>1. Records(l) /\ Recording(l, b, d, r) /\ Fits(b, d, r)
  BY IssueIs
<1> HIDE DEF b, d, r
<1>2. QED
  BY <1>1, RecordingStep

LEMMA PipelinePasses ==
  ASSUME PassInv, NEW l \in Lists, NEW pso \in Pipelines \union {None}, SetPipelineState(l, pso)
  PROVE  PassInv'
  BY PipelineIs, RecordingStep

-----------------------------------------------------------------------------
LEMMA PassInit == Init => PassInv
<1> SUFFICES ASSUME Init PROVE PassInv
  OBVIOUS
<1>1. NewAllocator \in AllocatorRecord /\ NewAllocator.current = NoPass
  BY EmptySeq DEF NewAllocator, AllocatorRecord
<1>2. TypeOK /\ IdleHasNoPass
  BY <1>1, EmptyFits DEF Init, TypeOK, IdleHasNoPass
<1>3. \A l \in Lists : ~IsExecutable(l) /\ ~Records(l)
  BY DEF Init, IsExecutable, Records
<1>4. QED
  BY <1>2, <1>3 DEF PassInv, EntriesDiffer, IsClosed

LEMMA PassStep == PassInv /\ [Next]_vars => PassInv'
<1> SUFFICES ASSUME PassInv, [Next]_vars PROVE PassInv'
  OBVIOUS
<1>1. ASSUME NEW l \in Lists, NEW a \in Allocators, NEW pso \in Pipelines \union {None},
             CreateCommandList(l, a, pso) \/ Reset(l, a, pso)
      PROVE  PassInv'
  BY <1>1, StartPasses DEF CreateCommandList, Reset
<1>2. ASSUME \/ \E l \in Lists, a \in Allocators, pso \in Pipelines \union {None} :
                  ResetRefused(l, a, pso)
             \/ \E a \in Allocators : ResetAllocator(a)
      PROVE  PassInv'
  BY <1>2, OtherPasses
<1>3. ASSUME NEW l \in Lists, Close(l) PROVE PassInv'
  BY <1>3, ClosePasses
<1>4. ASSUME NEW l \in Lists, NEW pso \in Pipelines \union {None}, SetPipelineState(l, pso)
      PROVE  PassInv'
  BY <1>4, PipelinePasses
<1>5. ASSUME NEW l \in Lists, NEW s \in DirtyState, NEW v \in 0 .. 1, Set(l, s, v)
      PROVE  PassInv'
  BY <1>5, SetIs, SetsPasses
<1>6. ASSUME NEW l \in Lists, NEW v \in 0 .. 1, NEW count \in ViewportCounts,
             RSSetViewports(l, v, count)
      PROVE  PassInv'
  BY <1>6, ViewportsIs, SetsPasses
<1>7. ASSUME NEW l \in Lists, NEW arguments \in RootArguments, NEW v \in 1 .. 2,
             SetRootSignature(l, arguments, v)
      PROVE  PassInv'
  BY <1>7, SignatureIs, SetsPasses
<1>8. ASSUME NEW l \in Lists, NEW type \in {"Render", "Compute"},
             NEW indirect \in BOOLEAN, NEW updates \in BOOLEAN,
             Issue(l, type, indirect, updates)
      PROVE  PassInv'
  BY <1>8, IssuePasses
<1>9. ASSUME NEW l \in Lists,
             \/ Copy(l)
             \/ \E type \in {"Clear", "Resolve", "Compute"} : PassOfItsOwn(l, type)
      PROVE  PassInv'
  BY <1>9, StatelessPasses
<1>10. ASSUME NEW l \in Lists,
              \/ ResourceBarrier(l)
              \/ \E targets \in 0 .. 1 : OMSetRenderTargets(l, targets)
       PROVE  PassInv'
  BY <1>10, BarrierPasses
<1>11. CASE UNCHANGED vars
  <2>1. allocator' = allocator /\ list' = list /\ recorded' = recorded
    BY <1>11 DEF vars
  <2>2. QED
    BY <2>1 DEF PassInv, TypeOK, EntriesDiffer, IdleHasNoPass, Records, IsClosed, IsExecutable,
                RecordingFits, ClosedFits, AllocatorOf
<1>12. QED
  BY <1>1, <1>2, <1>3, <1>4, <1>5, <1>6, <1>7, <1>8, <1>9, <1>10, <1>11 DEF Next

(* PassInv is an invariant: which passes belong to which list, and that    *)
(* they hold what was recorded (d3d12_command_allocator.hpp: StartRecord,  *)
(* EndRecord, InvalidateCurrentPass).                                      *)
THEOREM PassInvariance == Spec => []PassInv
<1>1. Init => PassInv
  BY PassInit
<1>2. PassInv /\ [Next]_vars => PassInv'
  BY PassStep
<1>3. QED
  BY <1>1, <1>2, PTL DEF Spec

-----------------------------------------------------------------------------
(* What ExecuteCommandLists finds.                                         *)

LEMMA FoundIs ==
  ASSUME PassInv, NEW l \in Lists, IsExecutable(l)
  PROVE  /\ Passes(l) \in Seq(Pass) /\ OneEpochs(Passes(l))
         /\ Found(l) = Flat(Passes(l)) /\ Found(l) \in Seq(CommandRecord)
         /\ recorded[l] \in Seq(CommandRecord) /\ SameOrder(Found(l), recorded[l])
         /\ IF list[l].open THEN Passes(l) = Opened(AllocatorOf(l))
            ELSE Passes(l) = AllocatorOf(l).lists[list[l].entry]
<1> DEFINE a == AllocatorOf(l)
           own == a.lists[list[l].entry]
<1>1. /\ TypeOK /\ list[l] # NoList /\ list[l].entry # 0 /\ ~list[l].refused
      /\ a \in AllocatorRecord /\ recorded[l] \in Seq(CommandRecord)
  BY ListTyped DEF PassInv, IsExecutable
<1>2. CASE list[l].open
  <2>1. RecordingFits(l)
    BY <1>1, <1>2 DEF PassInv, Records
  <2>2. Passes(l) = Opened(a)
    BY <1>2, <2>1 DEF Passes, Opened, RecordingFits
  <2>3. Len(a.lists) # 0 /\ SameOrder(Flat(Opened(a)), recorded[l]) /\ OneEpochs(Opened(a))
    BY <2>1 DEF RecordingFits, Fits
  <2>4. Opened(a) \in Seq(Pass)
    BY <1>1, <2>3, OpenedIs
  <2>5. QED
    BY <1>1, <1>2, <2>2, <2>3, <2>4, CmdsOfTyped DEF Found, Flat, CmdsOf
<1>3. CASE ~list[l].open
  <2>1. ClosedFits(l)
    BY <1>3 DEF PassInv, IsClosed
  <2>2. own \in Seq(Pass)
    BY <1>1, <2>1, AllocatorTyped DEF ClosedFits
  <2>3. Passes(l) = own \o <<>>
    BY <1>3 DEF Passes
  <2> HIDE DEF own
  <2>4. Passes(l) = own
    BY <2>2, <2>3, ConcatEmptySeq
  <2>5. SameOrder(Flat(own), recorded[l]) /\ OneEpochs(own)
    BY <2>1 DEF ClosedFits, own
  <2>6. QED
    BY <1>1, <1>3, <2>2, <2>4, <2>5, CmdsOfTyped DEF Found, Flat, CmdsOf, own
<1>4. QED
  BY <1>2, <1>3

LEMMA OrdersAgree ==
  ASSUME NEW found \in Seq(CommandRecord), NEW cmds \in Seq(CommandRecord),
         SameOrder(found, cmds)
  PROVE  Order(found) = Order(cmds)
<1>1. DOMAIN found = DOMAIN cmds
  BY LenProperties DEF SameOrder
<1>2. ASSUME NEW i \in DOMAIN cmds
      PROVE  [found[i] EXCEPT !.state = None] = [cmds[i] EXCEPT !.state = None]
  <2>1. found[i] \in CommandRecord /\ cmds[i] \in CommandRecord
    BY <1>1, ElementOfSeq, LenProperties
  <2>2. /\ found[i].kind = cmds[i].kind /\ found[i].targets = cmds[i].targets
        /\ found[i].epoch = cmds[i].epoch
    BY DEF SameOrder
  <2>3. ASSUME NEW c \in CommandRecord
        PROVE  LET e == [c EXCEPT !.state = None] IN
               /\ e \in CommandRecord /\ e.kind = c.kind /\ e.state = None
               /\ e.targets = c.targets /\ e.epoch = c.epoch
    BY DEF CommandRecord
  <2>4. ASSUME NEW c \in CommandRecord
        PROVE  c = [kind |-> c.kind, state |-> c.state, targets |-> c.targets, epoch |-> c.epoch]
    BY DEF CommandRecord
  <2> DEFINE f == [found[i] EXCEPT !.state = None]
             g == [cmds[i] EXCEPT !.state = None]
  <2>5. /\ f \in CommandRecord /\ g \in CommandRecord /\ f.kind = g.kind
        /\ f.state = g.state /\ f.targets = g.targets /\ f.epoch = g.epoch
    BY <2>1, <2>2, <2>3
  <2> HIDE DEF f, g
  <2>6. f = g
    BY <2>4, <2>5
  <2>7. QED
    BY <2>6 DEF f, g
<1>3. QED
  BY <1>1, <1>2 DEF Order

LEMMA AtMostOneEpoch ==
  ASSUME NEW p, OneEpoch(p)
  PROVE  Cardinality({c.epoch : c \in Range(p.cmds)}) <= 1
<1> DEFINE epochs == {c.epoch : c \in Range(p.cmds)}
<1>1. Range(p.cmds) = {p.cmds[i] : i \in DOMAIN p.cmds}
  BY DEF Range
<1>2. \A x, y \in epochs : x = y
  BY <1>1 DEF OneEpoch
<1> HIDE DEF epochs
<1>3. epochs = {} \/ \E x : epochs = {x}
  <2>1. CASE epochs # {}
    <3>1. PICK x \in epochs : TRUE
      BY <2>1
    <3>2. epochs = {x}
      BY <1>2, <3>1
    <3>3. QED
      BY <3>2
  <2>2. QED
    BY <2>1
<1>4. Cardinality(epochs) <= 1
  <2>1. CASE epochs = {}
    BY <2>1, FS_EmptySet
  <2>2. ASSUME NEW x, epochs = {x} PROVE Cardinality(epochs) <= 1
    <3>1. Cardinality({x}) = 1
      BY FS_Singleton
    <3>2. QED
      BY <2>2, <3>1
  <2>3. QED
    BY <1>3, <2>1, <2>2
<1>5. QED
  BY <1>4 DEF epochs

LEMMA PassesExecute == PassInv => ExecutesWhatWasRecorded
<1> SUFFICES ASSUME PassInv, NEW l \in Lists, IsExecutable(l)
             PROVE  /\ Order(Found(l)) = Order(recorded[l])
                    /\ \A p \in Range(Passes(l)) :
                         Cardinality({c.epoch : c \in Range(p.cmds)}) <= 1
  BY DEF ExecutesWhatWasRecorded
<1>1. Order(Found(l)) = Order(recorded[l])
  BY FoundIs, OrdersAgree
<1>2. ASSUME NEW q \in Range(Passes(l)) PROVE OneEpoch(q)
  <2>1. \E i \in DOMAIN Passes(l) : q = Passes(l)[i]
    BY DEF Range
  <2>2. QED
    BY <2>1, FoundIs DEF OneEpochs
<1>3. QED
  BY <1>1, <1>2, AtMostOneEpoch

(* Whatever other lists an allocator records, and although the Reset of a  *)
(* list may be refused: ExecuteCommandLists finds the commands recorded    *)
(* since the list's last Reset, in their order, and no pass spans a        *)
(* barrier, for any number of lists, allocators, pipelines and calls.      *)
THEOREM ListsExecuteWhatWasRecorded == Spec => []ExecutesWhatWasRecorded
  BY PassInvariance, PassesExecute, PTL

-----------------------------------------------------------------------------
(* The state that commands see, for pipelines of one layout and a number   *)
(* of viewports that changes only while no render pass is open: with more  *)
(* than that, the code gives a pass too little.                            *)
OneLayout == KkPipelines = {} /\ CountChanges = FALSE

LEMMA StatesStay ==
  ASSUME StateInv, NEW k \in Lists, KeepsPasses(k)
  PROVE  /\ Records(k)' => StateFits(AllocatorOf(k), list[k], recorded[k])'
         /\ IsClosed(k)' => SameStates(Flat(AllocatorOf(k).lists[list[k].entry]), recorded[k])'
<1>1. list'[k] = list[k] /\ recorded'[k] = recorded[k]
  BY DEF KeepsPasses
<1>2. (Records(k)' <=> Records(k)) /\ (IsClosed(k)' <=> IsClosed(k))
  BY <1>1 DEF Records, IsClosed, IsExecutable
<1>3. ASSUME Records(k) PROVE StateFits(AllocatorOf(k), list[k], recorded[k])'
  <2>1. AllocatorOf(k)' = AllocatorOf(k)
    BY <1>1, <1>3 DEF KeepsPasses, AllocatorOf
  <2>2. StateFits(AllocatorOf(k), list[k], recorded[k])
    BY <1>3 DEF StateInv
  <2>3. QED
    BY <1>1, <2>1, <2>2 DEF StateFits, BoundFits
<1>4. ASSUME IsClosed(k)
      PROVE  SameStates(Flat(AllocatorOf(k).lists[list[k].entry]), recorded[k])'
  <2>1. /\ ClosedFits(k)
        /\ SameStates(Flat(AllocatorOf(k).lists[list[k].entry]), recorded[k])
    BY <1>4 DEF StateInv, PassInv
  <2>2. AllocatorOf(k)'.lists[list[k].entry] = AllocatorOf(k).lists[list[k].entry]
    BY <1>1, <1>4, <2>1 DEF KeepsPasses, ClosedFits, AllocatorOf
  <2>3. QED
    BY <1>1, <2>1, <2>2 DEF SameStates
<1>5. QED
  BY <1>2, <1>3, <1>4

LEMMA StateStep ==
  ASSUME StateInv, NEW l \in Lists, Records(l), NEW b, NEW d, NEW r,
         Recording(l, b, d, r), Fits(b, d, r), StateFits(b, d, r)
  PROVE  StateInv'
<1>1. PassInv /\ PassInv'
  BY RecordingStep DEF StateInv
<1>2. /\ list'[l] = d /\ recorded'[l] = r /\ AllocatorOf(l)' = b /\ d.open
      /\ \A k \in Lists \ {l} : KeepsPasses(k)
  BY <1>1, CallKeeps DEF Recording
<1>3. StateFits(AllocatorOf(l), list[l], recorded[l])'
  BY <1>2 DEF StateFits, BoundFits
<1>4. ~IsClosed(l)'
  BY <1>2 DEF IsClosed
<1>5. QED
  BY <1>1, <1>2, <1>3, <1>4, StatesStay DEF StateInv

LEMMA AppendSameStates ==
  ASSUME NEW found \in Seq(CommandRecord), NEW r \in Seq(CommandRecord), Len(found) = Len(r),
         SameStates(found, r),
         NEW c \in CommandRecord, NEW k \in CommandRecord, c.state = k.state
  PROVE  SameStates(Append(found, c), Append(r, k))
<1> DEFINE size == Len(r)
           f == Append(found, c)
           g == Append(r, k)
<1>1. /\ size \in Nat /\ DOMAIN r = 1 .. size /\ DOMAIN g = 1 .. size + 1
      /\ g[size + 1] = k /\ \A i \in 1 .. size : g[i] = r[i]
  BY AppendProperties, LenProperties
<1>2. f[size + 1] = c /\ \A i \in 1 .. size : f[i] = found[i]
  BY AppendProperties
<1> HIDE DEF size, f, g
<1>3. \A i \in 1 .. size + 1 : i = size + 1 \/ i \in 1 .. size
  BY <1>1
<1>4. SameStates(f, g)
  BY <1>1, <1>2, <1>3 DEF SameStates
<1>5. QED
  BY <1>4 DEF f, g

LEMMA StartStates ==
  ASSUME StateInv, NEW l \in Lists, NEW a \in Allocators, NEW pso \in Pipelines \union {None},
         Starts(l, a, pso)
  PROVE  StateInv'
<1>1. PassInv /\ PassInv'
  BY StartPasses DEF StateInv
<1>2. /\ ~IsClosed(l)' /\ \A k \in Lists \ {l} : KeepsPasses(k)
      /\ recorded'[l] = <<>> /\ Flat(Opened(AllocatorOf(l)')) = <<>>
      /\ AllocatorOf(l)'.current = NoPass
  BY <1>1, StartKeeps
<1>3. StateFits(AllocatorOf(l), list[l], recorded[l])'
  BY <1>2, EmptyFits DEF StateFits, SameStates, NoPass
<1>4. QED
  BY <1>1, <1>2, <1>3, StatesStay DEF StateInv

LEMMA OtherStates ==
  ASSUME StateInv,
         \/ \E l \in Lists, a \in Allocators, pso \in Pipelines \union {None} :
              ResetRefused(l, a, pso)
         \/ \E a \in Allocators : ResetAllocator(a)
  PROVE  StateInv'
<1>1. PassInv
  BY DEF StateInv
<1>2. PassInv' /\ \A k \in Lists : KeepsPasses(k) \/ (~Records(k)' /\ ~IsClosed(k)')
  BY <1>1, OtherPasses, RefusedKeeps, ResetAllocatorKeeps
<1>3. QED
  BY <1>2, StatesStay DEF StateInv

LEMMA CloseStates == ASSUME StateInv, NEW l \in Lists, Close(l) PROVE StateInv'
<1> DEFINE b == EndRecord(AllocatorOf(l))
           d == [list[l] EXCEPT !.open = FALSE]
<1>1. PassInv /\ PassInv'
  BY ClosePasses DEF StateInv
<1>2. /\ Records(l) /\ Calling(l, b, d, recorded[l]) /\ ~d.open
      /\ b.lists[Len(b.lists)] = Opened(AllocatorOf(l))
  BY <1>1, CloseIs
<1> HIDE DEF b, d
<1>3. /\ list'[l] = d /\ recorded'[l] = recorded[l] /\ AllocatorOf(l)' = b
      /\ d.entry = Len(b.lists) /\ \A k \in Lists \ {l} : KeepsPasses(k)
  BY <1>1, <1>2, CallKeeps
<1>4. ~Records(l)'
  BY <1>2, <1>3 DEF Records
<1>5. SameStates(Flat(Opened(AllocatorOf(l))), recorded[l])
  BY <1>2 DEF StateInv, StateFits
<1>6. SameStates(Flat(AllocatorOf(l).lists[list[l].entry]), recorded[l])'
  BY <1>2, <1>3, <1>5 DEF SameStates
<1>7. QED
  BY <1>1, <1>3, <1>4, <1>6, StatesStay DEF StateInv

(* What PassInv and StateInv say of the list that calls.                   *)
LEMMA CallerSees ==
  ASSUME StateInv, NEW l \in Lists, Records(l)
  PROVE  /\ PassInv /\ Flat(Opened(AllocatorOf(l))) \in Seq(CommandRecord)
         /\ Len(Flat(Opened(AllocatorOf(l)))) = Len(recorded[l])
         /\ SameStates(Flat(Opened(AllocatorOf(l))), recorded[l])
         /\ AllocatorOf(l).current.type \in {"Render", "Compute"} =>
              BoundFits(list[l], AllocatorOf(l).current)
<1>1. PassInv /\ StateFits(AllocatorOf(l), list[l], recorded[l])
  BY DEF StateInv
<1>2. /\ AllocatorOf(l) \in AllocatorRecord /\ Len(AllocatorOf(l).lists) # 0
      /\ Fits(AllocatorOf(l), list[l], recorded[l])
  BY <1>1, CallerIs
<1>3. QED
  BY <1>1, <1>2, OpenedHas DEF StateFits, Fits, SameOrder

LEMMA StatelessStates ==
  ASSUME StateInv, NEW l \in Lists,
         \/ Copy(l)
         \/ \E type \in {"Clear", "Resolve", "Compute"} : PassOfItsOwn(l, type)
  PROVE  StateInv'
<1>1. PassInv
  BY DEF StateInv
<1>2. \E kind : LET c == Stateless(kind, list[l]) IN
        /\ Records(l) /\ c \in CommandRecord
        /\ \E b : /\ Recording(l, b, list[l], Append(recorded[l], c))
                  /\ Fits(b, list[l], Append(recorded[l], c))
                  /\ b.current.type \notin {"Render", "Compute"}
                  /\ Flat(Opened(b)) = Append(Flat(Opened(AllocatorOf(l))), c)
  <2>1. CASE Copy(l)
    BY <1>1, <2>1, CopyIs
  <2>2. ASSUME NEW type \in {"Clear", "Resolve", "Compute"}, PassOfItsOwn(l, type)
        PROVE  LET c == Stateless(<<type>>, list[l]) IN
               /\ Records(l) /\ c \in CommandRecord
               /\ \E b : /\ Recording(l, b, list[l], Append(recorded[l], c))
                         /\ Fits(b, list[l], Append(recorded[l], c))
                         /\ b.current.type \notin {"Render", "Compute"}
                         /\ Flat(Opened(b)) = Append(Flat(Opened(AllocatorOf(l))), c)
    <3>1. NoPass.type \notin {"Render", "Compute"}
      BY DEF NoPass
    <3>2. QED
      BY <1>1, <2>2, <3>1, OfItsOwnIs
  <2>3. QED
    BY <2>1, <2>2
<1>3. PICK kind : LET c == Stateless(kind, list[l]) IN
        /\ Records(l) /\ c \in CommandRecord
        /\ \E b : /\ Recording(l, b, list[l], Append(recorded[l], c))
                  /\ Fits(b, list[l], Append(recorded[l], c))
                  /\ b.current.type \notin {"Render", "Compute"}
                  /\ Flat(Opened(b)) = Append(Flat(Opened(AllocatorOf(l))), c)
  BY <1>2
<1> DEFINE cmd == Stateless(kind, list[l])
           r0 == Append(recorded[l], cmd)
<1>4. Records(l) /\ cmd \in CommandRecord
  BY <1>3
<1>5. PICK b : /\ Recording(l, b, list[l], r0) /\ Fits(b, list[l], r0)
               /\ b.current.type \notin {"Render", "Compute"}
               /\ Flat(Opened(b)) = Append(Flat(Opened(AllocatorOf(l))), cmd)
  BY <1>3
<1> HIDE DEF cmd
<1>6. /\ Flat(Opened(AllocatorOf(l))) \in Seq(CommandRecord) /\ recorded[l] \in Seq(CommandRecord)
      /\ Len(Flat(Opened(AllocatorOf(l)))) = Len(recorded[l])
      /\ SameStates(Flat(Opened(AllocatorOf(l))), recorded[l])
  BY <1>1, <1>4, CallerSees, CallerIs
<1>7. SameStates(Append(Flat(Opened(AllocatorOf(l))), cmd), r0)
  BY ONLY <1>4, <1>6, AppendSameStates
<1> HIDE DEF r0
<1>8. StateFits(b, list[l], r0)
  BY <1>5, <1>7 DEF StateFits
<1>9. QED
  BY <1>4, <1>5, <1>8, StateStep

LEMMA BarrierStates ==
  ASSUME StateInv, NEW l \in Lists,
         \/ ResourceBarrier(l)
         \/ \E targets \in 0 .. 1 : OMSetRenderTargets(l, targets)
  PROVE  StateInv'
<1> DEFINE a == AllocatorOf(l)
           b == InvalidateCurrentPass(a)
<1>1. PassInv
  BY DEF StateInv
<1>2. Records(l) /\ \E d : Recording(l, b, d, recorded[l])
  BY <1>1, BarrierIs
<1>3. a \in AllocatorRecord /\ Len(a.lists) # 0 /\ Fits(a, list[l], recorded[l])
  BY <1>1, <1>2, CallerIs
<1>4. b.current = NoPass /\ Opened(b) = Opened(a)
  BY <1>3, InvalidateIs
<1>5. \A d : Fits(b, d, recorded[l])
  BY <1>3, FitsInvalidated
<1>6. SameStates(Flat(Opened(a)), recorded[l])
  BY <1>2, CallerSees
<1> HIDE DEF a, b
<1>7. \A d : StateFits(b, d, recorded[l])
  BY <1>4, <1>6 DEF StateFits, NoPass
<1>8. QED
  BY <1>2, <1>5, <1>7, StateStep

(* A setter leaves what it does not make dirty as the pass has it.         *)
LEMMA SetsStates ==
  ASSUME StateInv, OneLayout, NEW l \in Lists, Records(l), NEW d, Sets(l, d), SetState(l, d),
         list[l].dirty \subseteq d.dirty,
         \A s \in DirtyState \ d.dirty :
           /\ d.value[s] = list[l].value[s]
           /\ s \in RootArguments => d.value[SignatureOf(s)] = list[l].value[SignatureOf(s)],
         \/ d.viewports = list[l].viewports
         \/ "Viewport" \in d.dirty /\ Opens(AllocatorOf(l), "Render")
  PROVE  StateInv'
<1> DEFINE a == AllocatorOf(l)
           d0 == list[l]
           pass == a.current
<1>1. PassInv /\ Recording(l, a, d, recorded[l])
  BY SetsIs DEF StateInv
<1>2. Fits(a, d, recorded[l])
  BY <1>1, CallerIs, FitsSetState DEF Sets
<1>3. SameStates(Flat(Opened(a)), recorded[l])
      /\ (pass.type \in {"Render", "Compute"} => BoundFits(d0, pass))
  BY CallerSees
<1>4. ASSUME pass.type \in {"Render", "Compute"} PROVE BoundFits(d, pass)
  <2>1. \A kind : Pso(d, kind) = Pso(d0, kind)
    BY DEF Pso, Sets
  <2>2. ASSUME NEW s \in StatesOf(pass.type) \ d.dirty PROVE Written(d, s) = Written(d0, s)
    <3>1. s \in DirtyState
      BY StateNames
    <3>2. ASSUME s \in {"Viewport", "ScissorRect"} PROVE d.viewports = d0.viewports
      <4>1. CASE pass.type = "Render"
        BY <4>1 DEF Opens, NoPass
      <4>2. CASE pass.type = "Compute"
        BY <3>2, <4>2 DEF StatesOf, ComputeState
      <4>3. QED
        BY <1>4, <4>1, <4>2
    <3>3. QED
      BY <2>1, <2>2, <3>1, <3>2, WrittenSame DEF OneLayout
  <2>3. BoundFits(d0, pass)
    BY <1>3, <1>4
  <2>4. pass.type = "Render" => "VertexBuffer" \in StatesOf(pass.type)
    BY StateNames DEF StatesOf
  <2> HIDE DEF pass, d0
  <2>5. QED
    BY <2>1, <2>2, <2>3, <2>4 DEF BoundFits, d0
<1> HIDE DEF pass
<1>5. StateFits(a, d, recorded[l])
  BY <1>3, <1>4 DEF StateFits, pass
<1>6. QED
  BY <1>1, <1>2, <1>5, StateStep

LEMMA SettersStates ==
  ASSUME StateInv, OneLayout, NEW l \in Lists,
         \/ \E s \in DirtyState, v \in 0 .. 1 : Set(l, s, v)
         \/ \E v \in 0 .. 1, count \in ViewportCounts : RSSetViewports(l, v, count)
         \/ \E arguments \in RootArguments, v \in 1 .. 2 : SetRootSignature(l, arguments, v)
  PROVE  StateInv'
<1>1. PassInv
  BY DEF StateInv
<1>2. ASSUME Records(l)
      PROVE  list[l].value \in [DirtyState -> Nat]
  BY <1>1, <1>2, CallerIs DEF ListRecord
<1>3. ASSUME NEW s \in DirtyState, NEW v \in 0 .. 1, Set(l, s, v) PROVE StateInv'
  <2> DEFINE d == [list[l] EXCEPT !.value[s] = v, !.dirty = @ \union {s}]
  <2>1. /\ Records(l) /\ Sets(l, d) /\ SetState(l, d)
        /\ d.value = [list[l].value EXCEPT ![s] = v] /\ d.viewports = list[l].viewports
        /\ d.dirty = list[l].dirty \union {s}
    BY <1>1, <1>3, SetIs
  <2> HIDE DEF d
  <2>2. s \notin RootSignatures
    BY <1>3 DEF Set
  <2>3. \A x \in DirtyState \ d.dirty :
          /\ d.value[x] = list[l].value[x]
          /\ x \in RootArguments => d.value[SignatureOf(x)] = list[l].value[SignatureOf(x)]
    BY <1>2, <2>1, <2>2, StateNames
  <2>4. QED
    BY <2>1, <2>3, SetsStates
<1>4. ASSUME NEW v \in 0 .. 1, NEW count \in ViewportCounts, RSSetViewports(l, v, count)
      PROVE  StateInv'
  <2> DEFINE d == WithViewports(list[l], v, count)
  <2>1. /\ Records(l) /\ Sets(l, d) /\ SetState(l, d)
        /\ d.value = [list[l].value EXCEPT !["Viewport"] = v] /\ d.viewports = count
        /\ d.dirty = list[l].dirty \union {"Viewport"}
    <3>1. Records(l) /\ Sets(l, d) /\ SetState(l, d)
      BY <1>1, <1>4, ViewportsIs
    <3>2. list[l] \in ListRecord
      BY <1>1, <3>1, CallerIs
    <3>3. /\ d.value = [list[l].value EXCEPT !["Viewport"] = v] /\ d.viewports = count
          /\ d.dirty = list[l].dirty \union {"Viewport"}
      BY <3>2 DEF WithViewports, ListRecord
    <3>4. QED
      BY <3>1, <3>3
  <2> HIDE DEF d
  <2>2. count = list[l].viewports \/ Opens(AllocatorOf(l), "Render")
    BY <1>4 DEF RSSetViewports, OneLayout
  <2>3. "Viewport" \notin RootSignatures
    BY DEF RootSignatures
  <2>4. \A x \in DirtyState \ d.dirty :
          /\ d.value[x] = list[l].value[x]
          /\ x \in RootArguments => d.value[SignatureOf(x)] = list[l].value[SignatureOf(x)]
    BY <1>2, <2>1, <2>3, StateNames
  <2>5. QED
    BY <2>1, <2>2, <2>4, SetsStates
<1>5. ASSUME NEW arguments \in RootArguments, NEW v \in 1 .. 2, SetRootSignature(l, arguments, v)
      PROVE  StateInv'
  <2> DEFINE signature == SignatureOf(arguments)
             d == [list[l] EXCEPT !.value[SignatureOf(arguments)] = v,
                                  !.dirty = @ \union {arguments, SignatureOf(arguments)}]
  <2>1. /\ Records(l) /\ Sets(l, d) /\ SetState(l, d)
        /\ d.value = [list[l].value EXCEPT ![signature] = v]
        /\ d.viewports = list[l].viewports
        /\ d.dirty = list[l].dirty \union {arguments, signature}
    BY <1>1, <1>5, SignatureIs
  <2> HIDE DEF d
  <2>2. \A x \in RootArguments : x # arguments => SignatureOf(x) # signature
    BY DEF RootArguments, SignatureOf
  <2>3. signature \in DirtyState
    BY StateNames
  <2> HIDE DEF signature
  <2>4. \A x \in DirtyState \ d.dirty :
          /\ d.value[x] = list[l].value[x]
          /\ x \in RootArguments => d.value[SignatureOf(x)] = list[l].value[SignatureOf(x)]
    BY <1>2, <2>1, <2>2, <2>3, StateNames
  <2>5. QED
    BY <2>1, <2>4, SetsStates
<1>6. QED
  BY <1>3, <1>4, <1>5

(* A pipeline that a pass is not given belongs to passes of another kind;  *)
(* one that it is given makes the vertex table dirty.                      *)
LEMMA KindsDiffer ==
  ASSUME NEW pso \in Pipelines \union {None}, NEW d \in ListRecord, NEW e, e.pso = pso
  PROVE  /\ \A kind : Pso(e, kind) = Pso(WithPso(d, pso), kind)
         /\ \A kind : Pso(e, kind) \in {pso, None}
         /\ pso = None => \A kind : Pso(e, kind) = None
         /\ \/ Pso(e, "graphics") = None
            \/ Pso(e, "compute") = None
<1>1. WithPso(d, pso).pso = pso
  BY DEF WithPso, ListRecord
<1>2. QED
  BY <1>1 DEF Pso

LEMMA PipelineStates ==
  ASSUME StateInv, OneLayout, NEW l \in Lists, NEW pso \in Pipelines \union {None},
         SetPipelineState(l, pso)
  PROVE  StateInv'
<1> DEFINE a == AllocatorOf(l)
           d0 == list[l]
           updates == Updates(a, d0, pso)
           type == TypeFor(d0, pso)
<1>1. PassInv
  BY DEF StateInv
<1>2. Records(l) /\ d0 \in ListRecord /\ a \in AllocatorRecord
  BY <1>1, PipelineIs, CallerIs
<1>3. PICK b, e :
        /\ Recording(l, b, e, recorded[l]) /\ Fits(b, e, recorded[l])
        /\ Flat(Opened(b)) = Flat(Opened(a))
        /\ e.pso = pso /\ e.value = d0.value /\ e.viewports = d0.viewports
        /\ e.dirty = d0.dirty \union
             (IF updates /\ type = "Render" THEN {"VertexBuffer"} ELSE {})
        /\ ~updates => b = a
        /\ updates =>
             /\ b.current.type = type
             /\ b.current.bound = Updated(a.current.bound, d0, pso)
  BY <1>1, PipelineIs
<1> DEFINE d1 == WithPso(d0, pso)
           pass == a.current
           next == b.current
<1>4. /\ \A kind : Pso(e, kind) = Pso(d1, kind) /\ Pso(e, kind) \in {pso, None}
      /\ pso = None => \A kind : Pso(e, kind) = None
      /\ \/ Pso(e, "graphics") = None
         \/ Pso(e, "compute") = None
  BY <1>2, <1>3, KindsDiffer
<1>5. d1 \in ListRecord /\ d1.value = d0.value /\ d1.viewports = d0.viewports
  <2> HIDE DEF d0
  <2>1. QED
    BY <1>2 DEF WithPso, ListRecord
<1>6. /\ SameStates(Flat(Opened(a)), recorded[l])
      /\ pass.type \in {"Render", "Compute"} => BoundFits(d0, pass)
  BY <1>2, CallerSees
<1>7. type = IF Pso(d1, "graphics") # None THEN "Render" ELSE "Compute"
  BY DEF TypeFor
<1>8. updates <=> pso # None /\ pass # NoPass /\ pass.type = type
  BY DEF Updates, Opens
<1>9. updates => next.type = type /\ next.bound = Updated(pass.bound, d0, pso)
  BY <1>3
<1>10. ~updates => next = pass
  BY <1>3
<1> HIDE DEF updates, type, a, d0, d1
<1>11. \A s \in DirtyState \ {"VertexBuffer"} :
         Written(e, s) = Written(d0, s) /\ Written(d1, s) = Written(d0, s)
  BY <1>3, <1>5, WrittenSame DEF OneLayout
<1>12. ASSUME ~updates, next.type \in {"Render", "Compute"} PROVE BoundFits(e, next)
  <2>1. next = pass /\ BoundFits(d0, pass) /\ pass # NoPass
    BY <1>6, <1>10, <1>12 DEF NoPass
  <2>2. Pso(e, KindOf(pass.type)) = None
    BY <1>4, <1>7, <1>8, <1>12, <2>1 DEF KindOf
  <2>3. e.dirty = d0.dirty
    BY <1>3, <1>12
  <2>4. \A s \in StatesOf(pass.type) \ e.dirty :
          s # "VertexBuffer" => pass.bound[s] = Written(e, s)
    BY <1>11, <2>1, <2>3, StateNames DEF BoundFits
  <2> HIDE DEF next, pass
  <2>5. QED
    BY <2>1, <2>2, <2>4 DEF BoundFits
<1>13. ASSUME updates PROVE BoundFits(e, next)
  <2>1. /\ pass # NoPass /\ pass.type = type /\ type \in {"Render", "Compute"}
        /\ next.type = type /\ next.bound = Updated(pass.bound, d0, pso) /\ pso # None
    BY <1>7, <1>8, <1>9, <1>13
  <2>2. pass.bound \in [Parts -> Piece] /\ BoundFits(d0, pass)
    BY <1>2, <1>6, <2>1, AllocatorTyped DEF Parts
  <2>3. CASE type = "Render"
    <3>1. next.bound = UpdateGraphicsPSO(pass.bound, d1)
      BY <2>1, <2>3 DEF Updated, d1, type
    <3>2. /\ next.bound["pso"] = Pso(d1, "graphics")
          /\ next.bound["StencilRef"] = Written(d1, "StencilRef")
          /\ \A s \in Parts \ {"StencilRef", "pso"} : next.bound[s] = pass.bound[s]
      BY <1>5, <2>2, <3>1, UpdateIs
    <3>3. e.dirty = d0.dirty \union {"VertexBuffer"}
      BY <1>3, <1>13, <2>3
    <3> HIDE DEF next, pass
    <3>4. ASSUME NEW s \in StatesOf(type) \ e.dirty PROVE next.bound[s] = Written(e, s)
      <4>1. s \in DirtyState /\ s # "VertexBuffer" /\ s # "pso" /\ s \notin d0.dirty /\ s \in Parts
        BY <3>3, StateNames DEF Parts
      <4>2. pass.bound[s] = Written(d0, s)
        BY <2>1, <2>2, <4>1 DEF BoundFits
      <4>3. Written(e, s) = Written(d0, s) /\ Written(d1, s) = Written(d0, s)
        BY <1>11, <4>1
      <4>4. CASE s = "StencilRef"
        BY <3>2, <4>3, <4>4
      <4>5. CASE s # "StencilRef"
        BY <3>2, <4>1, <4>2, <4>3, <4>5
      <4>6. QED
        BY <4>4, <4>5
    <3>5. Pso(e, KindOf(type)) = Pso(d1, "graphics") /\ "VertexBuffer" \in e.dirty
      BY <1>4, <2>3, <3>3 DEF KindOf
    <3>6. QED
      BY <2>1, <3>2, <3>4, <3>5 DEF BoundFits
  <2>4. CASE type = "Compute"
    <3>1. next.bound = [pass.bound EXCEPT !["pso"] = pso]
      BY <2>1, <2>4 DEF Updated, d1, type
    <3>2. /\ next.bound["pso"] = pso
          /\ \A s \in Parts \ {"pso"} : next.bound[s] = pass.bound[s]
      BY <2>2, <3>1 DEF Parts
    <3>3. e.dirty = d0.dirty
      BY <1>3, <2>4
    <3> HIDE DEF next, pass
    <3>4. ASSUME NEW s \in StatesOf(type) \ e.dirty PROVE next.bound[s] = Written(e, s)
      <4>1. s \in DirtyState /\ s # "VertexBuffer" /\ s # "pso" /\ s \notin d0.dirty /\ s \in Parts
        BY <2>4, <3>3, StateNames DEF Parts, StatesOf
      <4>2. pass.bound[s] = Written(d0, s)
        BY <2>1, <2>2, <4>1 DEF BoundFits
      <4>3. QED
        BY <1>11, <3>2, <4>1, <4>2
    <3>5. Pso(e, KindOf(type)) # None => Pso(e, KindOf(type)) = pso
      BY <1>4
    <3>6. QED
      BY <2>1, <2>4, <3>2, <3>4, <3>5 DEF BoundFits
  <2>5. QED
    BY <2>1, <2>3, <2>4
<1>14. StateFits(b, e, recorded[l])
  BY <1>3, <1>6, <1>12, <1>13 DEF StateFits
<1>15. QED
  BY <1>2, <1>3, <1>14, StateStep

(* With a pipeline set, a pass has what is not dirty, the vertex table     *)
(* included.                                                               *)
GivenFits(bound, d, type, dirty) ==
  /\ \A s \in StatesOf(type) \ dirty : bound[s] = Written(d, s)
  /\ bound["pso"] = Pso(d, KindOf(type))

LEMMA BoundForFits ==
  ASSUME NEW a \in AllocatorRecord, NEW d \in ListRecord, NEW type \in {"Render", "Compute"},
         a.current.type \in {"Render", "Compute"} => BoundFits(d, a.current),
         Pso(d, KindOf(type)) # None
  PROVE  GivenFits(BoundFor(a, d, type), d, type, DirtyFor(a, d, type))
<1> DEFINE pass == a.current
<1>1. CASE Opens(a, type)
  <2>1. DirtyFor(a, d, type) = d.dirty \union StatesOf(type)
    BY <1>1 DEF DirtyFor, DirtyInNewPass
  <2>2. Fresh \in [Parts -> Piece] /\ "pso" \in Parts
    BY DEF Fresh, Piece, Parts
  <2>3. BoundFor(a, d, type)["pso"] = Pso(d, KindOf(type))
    <3>1. CASE type = "Render"
      BY <1>1, <2>2, <3>1, UpdateIs DEF BoundFor, KindOf
    <3>2. CASE type = "Compute"
      BY <1>1, <2>2, <3>2 DEF BoundFor, KindOf
    <3>3. QED
      BY <3>1, <3>2
  <2>4. QED
    BY <2>1, <2>3 DEF GivenFits
<1>2. CASE ~Opens(a, type)
  <2>1. pass.type = type /\ BoundFits(d, pass)
    BY <1>2 DEF Opens
  <2>2. DirtyFor(a, d, type) = d.dirty /\ BoundFor(a, d, type) = pass.bound
    BY <1>2 DEF DirtyFor, BoundFor
  <2> HIDE DEF pass
  <2>3. pass.bound["pso"] = Pso(d, KindOf(type))
    BY <2>1 DEF BoundFits
  <2>4. ASSUME NEW s \in StatesOf(type) \ d.dirty PROVE pass.bound[s] = Written(d, s)
    <3>1. CASE s # "VertexBuffer"
      BY <2>1, <2>4, <3>1 DEF BoundFits
    <3>2. CASE s = "VertexBuffer"
      <4>1. type = "Render"
        BY <3>2, StateNames DEF StatesOf
      <4>2. QED
        BY <2>1, <2>4, <3>2, <4>1 DEF BoundFits
    <3>3. QED
      BY <3>1, <3>2
  <2>5. QED
    BY <2>2, <2>3, <2>4 DEF GivenFits
<1>3. QED
  BY <1>1, <1>2

LEMMA WriteFits ==
  ASSUME NEW bound \in [Parts -> Piece], NEW d \in ListRecord,
         NEW type, NEW dirty, NEW states \in SUBSET DirtyState,
         GivenFits(bound, d, type, dirty)
  PROVE  GivenFits(Write(bound, d, states), d, type, dirty \ states)
<1> DEFINE w == Write(bound, d, states)
<1>1. /\ w["pso"] = bound["pso"] /\ \A s \in states : w[s] = Written(d, s)
      /\ \A s \in Parts \ states : w[s] = bound[s]
  BY WriteIs
<1>2. \A s \in StatesOf(type) : s \in Parts
  BY StateNames DEF Parts
<1> HIDE DEF w
<1>3. GivenFits(w, d, type, dirty \ states)
  BY <1>1, <1>2 DEF GivenFits
<1>4. QED
  BY <1>3 DEF w

(* A draw or dispatch sees the state that is set.                          *)
LEMMA SeesWanted ==
  ASSUME NEW a \in AllocatorRecord, Len(a.lists) # 0, NEW d \in ListRecord,
         NEW type \in {"Render", "Compute"}, NEW updates \in BOOLEAN,
         a.current.type \in {"Render", "Compute"} => BoundFits(d, a.current),
         Pso(d, KindOf(type)) # None
  PROVE  LET p == Prepared(a, d, type, updates)
             pass == p.allocator.current
         IN  /\ GivenFits(pass.bound, d, type, p.dirty)
             /\ SeenBy(pass, d, type, updates) = Wanted(d, type)
<1> DEFINE p == Prepared(a, d, type, updates)
           bound == p.allocator.current.bound
           dirty == p.dirty
           given == BoundFor(a, d, type)
           writes == WritesFor(a, d, type, updates)
           copied == Copied(type, updates)
           w == Write(bound, d, copied)
<1>1. /\ bound = Write(given, d, writes) /\ bound \in [Parts -> Piece]
      /\ dirty = DirtyFor(a, d, type) \ writes
  BY PreparedIs
<1>2. given \in [Parts -> Piece] /\ GivenFits(given, d, type, DirtyFor(a, d, type))
  BY BoundForTyped, BoundForFits
<1>3. writes \in SUBSET DirtyState /\ copied \in SUBSET DirtyState
  BY StateNames DEF WritesFor, Copied
<1>4. StatesOf(type) \intersect dirty \subseteq copied
  BY <1>1 DEF WritesFor, Copied
<1> HIDE DEF bound, dirty, given, writes, copied
<1>5. GivenFits(bound, d, type, dirty)
  BY <1>1, <1>2, <1>3, WriteFits
<1>6. GivenFits(w, d, type, dirty \ copied)
  BY <1>1, <1>3, <1>5, WriteFits
<1> HIDE DEF w
<1>7. \A s \in StatesOf(type) : w[s] = Written(d, s) /\ s # "pso"
  BY <1>4, <1>6, StateNames DEF GivenFits
<1>8. w["pso"] = Pso(d, KindOf(type))
  BY <1>6 DEF GivenFits
<1>9. Seen(w, type) = Wanted(d, type)
  BY <1>7, <1>8 DEF Seen, Wanted
<1>10. QED
  BY <1>5, <1>9 DEF SeenBy, w, bound, dirty, copied, p

LEMMA IssueStates ==
  ASSUME StateInv, NEW l \in Lists, NEW type \in {"Render", "Compute"},
         NEW indirect \in BOOLEAN, NEW updates \in BOOLEAN,
         Issue(l, type, indirect, updates)
  PROVE  StateInv'
<1> DEFINE a == AllocatorOf(l)
           d0 == list[l]
           p == Given(l, type, updates)
           pass == p.allocator.current
           d1 == Cleaned(l, type, updates)
           seen == SeenBy(pass, d0, type, updates)
           cmd == Seeing(l, type, indirect, updates)
           own == Wanting(l, type, indirect)
           b == Issued(l, type, indirect, updates)
           r0 == Append(recorded[l], own)
           next == b.current
<1>1. PassInv
  BY DEF StateInv
<1>2. /\ Records(l) /\ Pso(d0, KindOf(type)) # None
      /\ Recording(l, b, d1, r0) /\ Fits(b, d1, r0)
      /\ cmd \in CommandRecord /\ own \in CommandRecord
      /\ cmd.state = seen /\ own.state = Wanted(d0, type)
      /\ next.type = type /\ next.bound = pass.bound
      /\ Flat(Opened(b)) = Append(Flat(Opened(a)), cmd)
  BY <1>1, IssueIs
<1>3. a \in AllocatorRecord /\ Len(a.lists) # 0 /\ d0 \in ListRecord
      /\ recorded[l] \in Seq(CommandRecord)
  BY <1>1, <1>2, CallerIs
<1>4. /\ Flat(Opened(a)) \in Seq(CommandRecord) /\ Len(Flat(Opened(a))) = Len(recorded[l])
      /\ SameStates(Flat(Opened(a)), recorded[l])
      /\ a.current.type \in {"Render", "Compute"} => BoundFits(d0, a.current)
  BY <1>2, CallerSees
<1>5. GivenFits(pass.bound, d0, type, p.dirty) /\ seen = Wanted(d0, type)
  BY <1>2, <1>3, <1>4, SeesWanted DEF Given
<1>6. /\ d1.dirty = p.dirty /\ d1.value = d0.value /\ d1.viewports = d0.viewports
      /\ d1.pso = d0.pso
  <2> HIDE DEF p
  <2>1. d1 = [list[l] EXCEPT !.dirty = p.dirty]
    BY DEF Cleaned, p
  <2> HIDE DEF d0, d1
  <2>2. QED
    BY <1>3, <2>1 DEF ListRecord, d0
<1> HIDE DEF a, d0, p, pass, d1, seen, cmd, own, b, next
<1>7. /\ \A kind : Pso(d1, kind) = Pso(d0, kind)
      /\ \A s \in DirtyState : Written(d1, s) = Written(d0, s)
  <2>1. \A kind : Pso(d1, kind) = Pso(d0, kind)
    BY <1>6 DEF Pso
  <2>2. \A s \in DirtyState : Written(d1, s) = Written(d0, s)
    BY <1>6, <2>1 DEF Written
  <2>3. QED
    BY <2>1, <2>2
<1>8. BoundFits(d1, next)
  <2>1. type = "Render" => "VertexBuffer" \in StatesOf(type)
    BY StateNames DEF StatesOf
  <2>2. StatesOf(type) \subseteq DirtyState
    BY StateNames
  <2>3. QED
    BY <1>2, <1>5, <1>6, <1>7, <2>1, <2>2 DEF BoundFits, GivenFits
<1>9. SameStates(Append(Flat(Opened(a)), cmd), r0)
  <2>1. cmd.state = own.state
    BY <1>2, <1>5
  <2>2. QED
    BY <1>2, <1>3, <1>4, <2>1, AppendSameStates
<1> HIDE DEF r0
<1>10. StateFits(b, d1, r0)
  BY <1>2, <1>8, <1>9 DEF StateFits, next
<1>11. QED
  BY <1>2, <1>10, StateStep

-----------------------------------------------------------------------------
LEMMA StateInit == Init => StateInv
<1>1. ASSUME Init PROVE \A l \in Lists : ~IsExecutable(l) /\ ~Records(l)
  BY <1>1 DEF Init, IsExecutable, Records
<1>2. QED
  BY <1>1, PassInit DEF StateInv, IsClosed

LEMMA StateStepOfNext == StateInv /\ OneLayout /\ [Next]_vars => StateInv'
<1> SUFFICES ASSUME StateInv, OneLayout, [Next]_vars PROVE StateInv'
  OBVIOUS
<1>1. ASSUME NEW l \in Lists, NEW a \in Allocators, NEW pso \in Pipelines \union {None},
             CreateCommandList(l, a, pso) \/ Reset(l, a, pso)
      PROVE  StateInv'
  BY <1>1, StartStates DEF CreateCommandList, Reset
<1>2. ASSUME \/ \E l \in Lists, a \in Allocators, pso \in Pipelines \union {None} :
                  ResetRefused(l, a, pso)
             \/ \E a \in Allocators : ResetAllocator(a)
      PROVE  StateInv'
  BY <1>2, OtherStates
<1>3. ASSUME NEW l \in Lists, Close(l) PROVE StateInv'
  BY <1>3, CloseStates
<1>4. ASSUME NEW l \in Lists, NEW pso \in Pipelines \union {None}, SetPipelineState(l, pso)
      PROVE  StateInv'
  BY <1>4, PipelineStates
<1>5. ASSUME NEW l \in Lists,
             \/ \E s \in DirtyState, v \in 0 .. 1 : Set(l, s, v)
             \/ \E v \in 0 .. 1, count \in ViewportCounts : RSSetViewports(l, v, count)
             \/ \E arguments \in RootArguments, v \in 1 .. 2 : SetRootSignature(l, arguments, v)
      PROVE  StateInv'
  BY <1>5, SettersStates
<1>6. ASSUME NEW l \in Lists, NEW type \in {"Render", "Compute"},
             NEW indirect \in BOOLEAN, NEW updates \in BOOLEAN,
             Issue(l, type, indirect, updates)
      PROVE  StateInv'
  BY <1>6, IssueStates
<1>7. ASSUME NEW l \in Lists,
             \/ Copy(l)
             \/ \E type \in {"Clear", "Resolve", "Compute"} : PassOfItsOwn(l, type)
      PROVE  StateInv'
  BY <1>7, StatelessStates
<1>8. ASSUME NEW l \in Lists,
             \/ ResourceBarrier(l)
             \/ \E targets \in 0 .. 1 : OMSetRenderTargets(l, targets)
      PROVE  StateInv'
  BY <1>8, BarrierStates
<1>9. CASE UNCHANGED vars
  <2>1. allocator' = allocator /\ list' = list /\ recorded' = recorded
    BY <1>9 DEF vars
  <2>2. PassInv /\ PassInv'
    BY PassStep DEF StateInv
  <2>3. QED
    BY <2>1, <2>2 DEF StateInv, Records, IsClosed, IsExecutable, AllocatorOf, StateFits,
                      BoundFits, SameStates
<1>10. QED
  BY <1>1, <1>2, <1>3, <1>4, <1>5, <1>6, <1>7, <1>8, <1>9 DEF Next

(* For pipelines of one layout, and a number of viewports that changes     *)
(* only between render passes: what is not dirty in the list has been      *)
(* given to the pass that is open (dirty_state_ in                         *)
(* d3d12_command_list.cpp, PreDraw and PreDispatch).                       *)
THEOREM StateInvariance == OneLayout => (Spec => []StateInv)
<1> SUFFICES ASSUME OneLayout PROVE Spec => []StateInv
  OBVIOUS
<1>1. Init => StateInv
  BY StateInit
<1>2. StateInv /\ [Next]_vars => StateInv'
  BY StateStepOfNext
<1>3. QED
  BY <1>1, <1>2, PTL DEF Spec

LEMMA StatesAreSeen == StateInv => CommandsSeeState
<1> SUFFICES ASSUME StateInv, NEW l \in Lists, IsExecutable(l)
             PROVE  [i \in DOMAIN Found(l) |-> Found(l)[i].state]
                      = [i \in DOMAIN recorded[l] |-> recorded[l][i].state]
  BY DEF CommandsSeeState
<1> DEFINE found == Found(l)
           own == recorded[l]
<1>1. PassInv
  BY DEF StateInv
<1>2. /\ found \in Seq(CommandRecord) /\ own \in Seq(CommandRecord) /\ SameOrder(found, own)
      /\ found = Flat(Passes(l))
      /\ IF list[l].open THEN Passes(l) = Opened(AllocatorOf(l))
         ELSE Passes(l) = AllocatorOf(l).lists[list[l].entry]
  BY <1>1, FoundIs
<1>3. SameStates(found, own)
  <2>1. CASE list[l].open
    BY <1>2, <2>1 DEF StateInv, StateFits, Records, IsExecutable
  <2>2. CASE ~list[l].open
    BY <1>2, <2>2 DEF StateInv, IsClosed
  <2>3. QED
    BY <2>1, <2>2
<1> HIDE DEF found, own
<1>4. DOMAIN found = DOMAIN own
  BY <1>2, LenProperties DEF SameOrder
<1>5. [i \in DOMAIN found |-> found[i].state] = [i \in DOMAIN own |-> own[i].state]
  BY <1>3, <1>4 DEF SameStates
<1>6. QED
  BY <1>5 DEF found, own

(* Under the same hypothesis, every draw and dispatch runs with the        *)
(* pipeline, vertex table, root arguments and fixed-function state that    *)
(* were set when it was recorded.                                          *)
THEOREM CommandsSeeTheirState == OneLayout => (Spec => []CommandsSeeState)
<1> SUFFICES ASSUME OneLayout PROVE Spec => []CommandsSeeState
  OBVIOUS
<1>1. Spec => []StateInv
  BY StateInvariance
<1>2. StateInv => CommandsSeeState
  BY StatesAreSeen
<1>3. QED
  BY <1>1, <1>2, PTL

-----------------------------------------------------------------------------
(* The invariant holds at the start: the initial value of a fence needs no *)
(* work.                                                                   *)
LEMMA Initial == QueueInit => QueueInv
<1> SUFFICES ASSUME QueueInit PROVE QueueInv
  OBVIOUS
<1> USE DEF QueueInit
<1>1. \A f \in Fences : last_signaled_[f] \in Nat /\ Len(event[f]) = 1
                        /\ event[f] = <<last_signaled_[f]>>
  BY ValuesAssumption
<1>2. QueueTypeOK
  <2>1. event \in [Fences -> Seq(Nat) \ {<<>>}]
    <3>1. \A f \in Fences : <<last_signaled_[f]>> \in Seq(Nat) \ {<<>>}
      BY <1>1
    <3> QED
      BY <3>1
  <2>2. last_signaled_ \in [Fences -> Nat]
    BY ValuesAssumption
  <2>3. thread \in [Threads -> Waiting]
    BY DEF Waiting
  <2>4. signals \in [Fences -> SUBSET [value : Nat, work : SUBSET Nat]]
    BY <1>1
  <2>5. queue \in [Queues -> Seq(Buffer)]
    OBVIOUS
  <2> QED
    BY <2>1, <2>2, <2>3, <2>4, <2>5 DEF QueueTypeOK
<1>3. BuffersUseCurrentEvent /\ SignalsFollowWork
  BY DEF BuffersUseCurrentEvent, SignalsFollowWork
<1>4. WaitsUseCurrentEvent
  BY DEF WaitsUseCurrentEvent, Running
<1>5. ReachedIsFinished
  <2> SUFFICES ASSUME NEW f \in Fences
               PROVE \E s \in signals[f] : s.value >= completedValue(f) /\ s.work \subseteq done
    BY DEF ReachedIsFinished
  <2>1. completedValue(f) = last_signaled_[f]
    BY <1>1 DEF completedValue, Event
  <2>2. [value |-> last_signaled_[f], work |-> {}] \in signals[f]
    OBVIOUS
  <2> DEFINE s == [value |-> last_signaled_[f], work |-> {}]
  <2>3. s.value >= completedValue(f) /\ s.work \subseteq done
    BY <1>1, <2>1
  <2> HIDE DEF s, QueueInit
  <2> QED
    BY <2>2, <2>3 DEF s
<1> QED
  BY <1>2, <1>3, <1>4, <1>5 DEF QueueInv

-----------------------------------------------------------------------------
(* The events of a fence once it has been told a value.                    *)
LEMMA EventsOf ==
  ASSUME QueueTypeOK, NEW f \in Fences, NEW v \in Values
  PROVE  /\ Events(f, v) \in Seq(Nat) \ {<<>>}
         /\ EventToSignal(f, v) \in 1 .. Len(Events(f, v))
         /\ EventToSignal(f, v) = Len(Events(f, v))
         /\ v < last_signaled_[f] =>
              Events(f, v)[Len(Events(f, v))] = 0
         /\ ~(v < last_signaled_[f]) => Events(f, v) = event[f]
<1>1. event[f] \in Seq(Nat) /\ event[f] # <<>>
  BY DEF QueueTypeOK
<1>2. Events(f, v) \in Seq(Nat) /\ Events(f, v) # <<>>
  BY <1>1 DEF Events
<1> QED
  BY <1>1, <1>2 DEF Events, EventToSignal, NeedsReset

(* What was told stays a signal of the fence, unless the fence is lowered. *)
LEMMA ToldKeeps ==
  ASSUME QueueTypeOK, NEW f \in Fences, NEW v \in Values, NEW work \in SUBSET Nat,
         Told(f, v, work)
  PROVE  /\ last_signaled_' \in [Fences -> Nat]
         /\ signals' \in [Fences -> SUBSET [value : Nat, work : SUBSET Nat]]
         /\ [value |-> v, work |-> work] \in signals'[f]
         /\ \A g \in Fences :
              ~(g = f /\ v < last_signaled_[f]) => signals[g] \subseteq signals'[g]
<1>1. v \in Nat
  BY ValuesAssumption
<1> DEFINE s == [value |-> v, work |-> work]
           kept == IF v < last_signaled_[f] THEN {} ELSE signals[f]
<1>2. s \in [value : Nat, work : SUBSET Nat]
  BY <1>1
<1>3. signals' = [signals EXCEPT ![f] = kept \union {s}]
  BY DEF Told
<1>4. kept \in SUBSET [value : Nat, work : SUBSET Nat]
  BY DEF QueueTypeOK
<1> HIDE DEF s, kept
<1>5. signals' \in [Fences -> SUBSET [value : Nat, work : SUBSET Nat]]
      /\ signals'[f] = kept \union {s}
      /\ \A g \in Fences : g # f => signals'[g] = signals[g]
  BY <1>2, <1>3, <1>4 DEF QueueTypeOK
<1>6. last_signaled_' \in [Fences -> Nat]
  BY <1>1 DEF QueueTypeOK, Told
<1> QED
  BY <1>5, <1>6 DEF s, kept

(* A thread that waits for an event waits for one of a fence.              *)
LEMMA EventWaits ==
  ASSUME QueueTypeOK, NEW r \in Threads, thread[r].kind = "event"
  PROVE  thread[r] \in EventWait /\ thread[r].fence \in Fences
<1>1. thread[r] \in Waiting
  BY DEF QueueTypeOK
<1>2. thread[r] \notin [kind : {"work"}, id : Nat] /\ thread[r] # Running
  BY DEF Running
<1>3. thread[r] \in EventWait
  BY <1>1, <1>2 DEF Waiting
<1> QED
  BY <1>3 DEF EventWait

(* The CPU signals a fence. *)
LEMMA SignalFenceKeeps ==
  ASSUME QueueInv, NEW t \in Threads, NEW f \in Fences, NEW v \in Values, SignalFence(t, f, v)
  PROVE  QueueInv'
<1> DEFINE n == Len(Events(f, v))
<1> USE DEF QueueInv
<1>1. /\ event' = [event EXCEPT ![f] = [Events(f, v) EXCEPT ![n] = v]]
      /\ Told(f, v, {})
      /\ UNCHANGED <<queue, thread, handles, done, submitted>>
      /\ MayTell(f, v)
  BY EventsOf DEF SignalFence
<1>2. event'[f] \in Seq(Nat) \ {<<>>} /\ Len(event'[f]) = n /\ event'[f][n] = v
  <2>1. event'[f] = [Events(f, v) EXCEPT ![n] = v]
    BY <1>1 DEF QueueTypeOK
  <2>2. v \in Nat
    BY ValuesAssumption
  <2> QED
    BY <2>1, <2>2, EventsOf
<1>3. \A g \in Fences : g # f => event'[g] = event[g]
  BY <1>1 DEF QueueTypeOK
<1>4. QueueTypeOK'
  <2>1. event' \in [Fences -> Seq(Nat) \ {<<>>}]
    BY <1>1, <1>2, <1>3 DEF QueueTypeOK
  <2>2. entered' \in Nat
    BY DEF SignalFence, Enters, QueueTypeOK
  <2> QED
    BY <1>1, <2>1, <2>2, ToldKeeps DEF QueueTypeOK
<1>5. ASSUME NEW g \in Fences, ~(g = f /\ v < last_signaled_[f])
      PROVE  Event(g)' = Event(g) /\ signals[g] \subseteq signals'[g]
  BY <1>1, <1>2, <1>3, <1>5, EventsOf, ToldKeeps DEF Event
<1>6. BuffersUseCurrentEvent' /\ SignalsFollowWork'
  <2>1. ASSUME NEW q \in Queues, NEW i \in 1 .. Len(queue[q]), queue[q][i].kind # "work"
        PROVE  /\ queue[q][i].fence \in Fences
               /\ ~(queue[q][i].fence = f /\ v < last_signaled_[f])
    <3>1. queue[q][i] \in Buffer /\ queue[q][i] \in Buffers(q)
      BY DEF QueueTypeOK, Buffers
    <3> QED
      BY <1>1, <2>1, <3>1 DEF Buffer, MayTell, IsIdle
  <2>2. BuffersUseCurrentEvent'
    BY <1>1, <1>5, <2>1 DEF BuffersUseCurrentEvent
  <2>3. SignalsFollowWork'
    <3> SUFFICES ASSUME NEW q \in Queues, NEW i \in 1 .. Len(queue[q]),
                        queue[q][i].kind = "signal"
                 PROVE  \E s \in signals'[queue[q][i].fence] :
                          s.value = queue[q][i].value
                          /\ s.work \subseteq done \union WorkBefore(q, i)
      BY <1>1 DEF SignalsFollowWork, WorkBefore
    <3> QED
      BY <1>5, <2>1 DEF SignalsFollowWork
  <2> QED
    BY <2>2, <2>3
<1>7. WaitsUseCurrentEvent'
  <2>1. ASSUME NEW r \in Threads, thread[r].kind = "event"
        PROVE  thread[r].event = Event(thread[r].fence)'
    <3>1. thread[r].fence \in Fences
      BY <2>1, EventWaits
    <3> QED
      BY <1>1, <1>5, <2>1, <3>1 DEF WaitsUseCurrentEvent, MayTell, IsIdle
  <2>2. ASSUME NEW h \in handles
        PROVE  h.event = Event(h.fence)'
    <3>1. h.fence \in Fences
      BY DEF QueueTypeOK, EventWait
    <3> QED
      BY <1>1, <1>5, <3>1 DEF WaitsUseCurrentEvent, MayTell, IsIdle
  <2> QED
    BY <1>1, <2>1, <2>2 DEF WaitsUseCurrentEvent
<1>8. ReachedIsFinished'
  <2> SUFFICES ASSUME NEW g \in Fences, completedValue(g)' # 0
               PROVE  \E s \in signals'[g] :
                        s.value >= completedValue(g)' /\ s.work \subseteq done
    BY <1>1 DEF ReachedIsFinished
  <2>1. CASE g = f
    <3>1. completedValue(g)' = v
      BY <1>2, <2>1 DEF completedValue, Event
    <3>2. v \in Nat
      BY ValuesAssumption
    <3>3. [value |-> v, work |-> {}] \in signals'[f]
      BY <1>1, ToldKeeps
    <3> QED
      BY <2>1, <3>1, <3>2, <3>3
  <2>2. CASE g # f
    <3>1. completedValue(g)' = completedValue(g)
      BY <1>3, <2>2 DEF completedValue, Event
    <3> QED
      BY <1>5, <2>2, <3>1 DEF ReachedIsFinished
  <2> QED
    BY <2>1, <2>2
<1> QED
  BY <1>4, <1>6, <1>7, <1>8

-----------------------------------------------------------------------------
(* The buffers of a queue that gets one more, and the work before each.    *)
LEMMA Appended ==
  ASSUME QueueTypeOK, NEW q \in Queues, NEW b \in Buffer,
         queue' = [queue EXCEPT ![q] = Append(@, b)]
  PROVE  /\ queue' \in [Queues -> Seq(Buffer)]
         /\ \A r \in Queues : \A i \in 1 .. Len(queue'[r]) :
              \/ /\ i \in 1 .. Len(queue[r])
                 /\ queue'[r][i] = queue[r][i]
                 /\ WorkBefore(r, i)' = WorkBefore(r, i)
              \/ /\ r = q
                 /\ queue'[r][i] = b
                 /\ WorkBefore(r, i)' = WorkOf(q)
<1>1. queue[q] \in Seq(Buffer) /\ queue' \in [Queues -> Seq(Buffer)]
  BY DEF QueueTypeOK
<1>2. queue'[q] = Append(queue[q], b) /\ \A r \in Queues : r # q => queue'[r] = queue[r]
  BY DEF QueueTypeOK
<1>3. /\ Len(queue'[q]) = Len(queue[q]) + 1
      /\ \A i \in 1 .. Len(queue[q]) : queue'[q][i] = queue[q][i]
      /\ queue'[q][Len(queue[q]) + 1] = b
  BY <1>1, <1>2
<1>4. ASSUME NEW r \in Queues, NEW i \in 1 .. Len(queue'[r])
      PROVE  \/ /\ i \in 1 .. Len(queue[r])
                /\ queue'[r][i] = queue[r][i]
                /\ WorkBefore(r, i)' = WorkBefore(r, i)
             \/ /\ r = q
                /\ queue'[r][i] = b
                /\ WorkBefore(r, i)' = WorkOf(q)
  <2>1. CASE r # q
    BY <1>2, <2>1 DEF WorkBefore
  <2>2. CASE r = q /\ i \in 1 .. Len(queue[q])
    <3>1. \A k \in 1 .. i - 1 : queue'[q][k] = queue[q][k]
      BY <1>1, <1>3, <2>2
    <3>2. WorkBefore(q, i)' = WorkBefore(q, i)
      BY <3>1 DEF WorkBefore
    <3> QED
      BY <1>3, <2>2, <3>2
  <2>3. CASE r = q /\ i = Len(queue[q]) + 1
    <3>1. 1 .. i - 1 = 1 .. Len(queue[q])
      BY <1>1, <2>3
    <3>2. WorkBefore(q, i)' = {queue[q][j].id : j \in {k \in 1 .. Len(queue[q]) : queue[q][k].kind = "work"}}
      BY <1>3, <3>1 DEF WorkBefore
    <3>3. @ = WorkOf(q)
      BY DEF WorkOf, Buffers
    <3> QED
      BY <1>3, <2>3, <3>2, <3>3
  <2> QED
    BY <1>1, <1>3, <2>1, <2>2, <2>3
<1> QED
  BY <1>1, <1>4

(* A queue signals a fence. *)
LEMMA SignalKeeps ==
  ASSUME QueueInv, NEW t \in Threads, NEW q \in Queues, NEW f \in Fences, NEW v \in Values,
         Signal(t, q, f, v)
  PROVE  QueueInv'
<1> DEFINE b == SignalBuffer(f, EventToSignal(f, v), v)
<1> USE DEF QueueInv
<1>1. /\ event' = [event EXCEPT ![f] = Events(f, v)]
      /\ queue' = [queue EXCEPT ![q] = Append(@, b)]
      /\ Told(f, v, WorkOf(q))
      /\ UNCHANGED <<thread, handles, done, submitted>>
      /\ MayTell(f, v)
  BY DEF Signal
<1>2. event'[f] = Events(f, v) /\ \A g \in Fences : g # f => event'[g] = event[g]
  BY <1>1 DEF QueueTypeOK
<1>3. b \in Buffer /\ b.kind = "signal" /\ b.fence = f /\ b.value = v
      /\ b.event = Event(f)'
  BY <1>2, EventsOf, ValuesAssumption DEF SignalBuffer, Buffer, Event
<1>4. WorkOf(q) \in SUBSET Nat
  <2>1. \A c \in Buffers(q) : c \in Buffer
    BY DEF Buffers, QueueTypeOK
  <2>2. \A c \in Buffers(q) : c.kind = "work" => c.id \in Nat
    BY <2>1 DEF Buffer
  <2> QED
    BY <2>2 DEF WorkOf
<1> HIDE DEF b
<1>5. ASSUME NEW g \in Fences, ~(g = f /\ v < last_signaled_[f])
      PROVE  Event(g)' = Event(g) /\ signals[g] \subseteq signals'[g]
  BY <1>1, <1>2, <1>4, <1>5, EventsOf, ToldKeeps DEF Event
<1>6. QueueTypeOK'
  <2>1. event' \in [Fences -> Seq(Nat) \ {<<>>}]
    BY <1>1, <1>2, EventsOf DEF QueueTypeOK
  <2>2. entered' \in Nat
    BY DEF Signal, Enters, QueueTypeOK
  <2>3. queue' \in [Queues -> Seq(Buffer)]
    BY <1>1, <1>3, Appended
  <2> QED
    BY <1>1, <1>4, <2>1, <2>2, <2>3, ToldKeeps DEF QueueTypeOK
<1>7. \A r \in Queues : \A i \in 1 .. Len(queue'[r]) :
        \/ /\ i \in 1 .. Len(queue[r])
           /\ queue'[r][i] = queue[r][i]
           /\ WorkBefore(r, i)' = WorkBefore(r, i)
        \/ /\ r = q
           /\ queue'[r][i] = b
           /\ WorkBefore(r, i)' = WorkOf(q)
  BY <1>1, <1>3, Appended
<1>8. BuffersUseCurrentEvent' /\ SignalsFollowWork'
  <2>1. ASSUME NEW r \in Queues, NEW i \in 1 .. Len(queue[r]), queue[r][i].kind # "work"
        PROVE  /\ queue[r][i].fence \in Fences
               /\ ~(queue[r][i].fence = f /\ v < last_signaled_[f])
    <3>1. queue[r][i] \in Buffer /\ queue[r][i] \in Buffers(r)
      BY DEF QueueTypeOK, Buffers
    <3> QED
      BY <1>1, <2>1, <3>1 DEF Buffer, MayTell, IsIdle
  <2>2. BuffersUseCurrentEvent'
    <3> SUFFICES ASSUME NEW r \in Queues, NEW i \in 1 .. Len(queue'[r]),
                        queue'[r][i].kind # "work"
                 PROVE  queue'[r][i].event = Len(event'[queue'[r][i].fence])
      BY DEF BuffersUseCurrentEvent, Event
    <3>1. CASE i \in 1 .. Len(queue[r]) /\ queue'[r][i] = queue[r][i]
      BY <1>5, <2>1, <3>1 DEF BuffersUseCurrentEvent, Event
    <3>2. CASE queue'[r][i] = b
      BY <1>3, <3>2 DEF Event
    <3> QED
      BY <1>7, <3>1, <3>2
  <2>3. SignalsFollowWork'
    <3> SUFFICES ASSUME NEW r \in Queues, NEW i \in 1 .. Len(queue'[r]),
                        queue'[r][i].kind = "signal"
                 PROVE  \E s \in signals'[queue'[r][i].fence] :
                          s.value = queue'[r][i].value
                          /\ s.work \subseteq done \union WorkBefore(r, i)'
      BY <1>1 DEF SignalsFollowWork
    <3>1. CASE /\ i \in 1 .. Len(queue[r]) /\ queue'[r][i] = queue[r][i]
               /\ WorkBefore(r, i)' = WorkBefore(r, i)
      BY <1>5, <2>1, <3>1 DEF SignalsFollowWork
    <3>2. CASE r = q /\ queue'[r][i] = b /\ WorkBefore(r, i)' = WorkOf(q)
      <4> DEFINE s == [value |-> v, work |-> WorkOf(q)]
      <4>1. s \in signals'[f]
        BY <1>1, <1>4, ToldKeeps
      <4>2. s.value = v /\ s.work = WorkOf(q)
        OBVIOUS
      <4> HIDE DEF s
      <4> QED
        BY <1>3, <3>2, <4>1, <4>2
    <3> QED
      BY <1>7, <3>1, <3>2
  <2> QED
    BY <2>2, <2>3
<1>9. WaitsUseCurrentEvent'
  <2>1. ASSUME NEW r \in Threads, thread[r].kind = "event"
        PROVE  thread[r].event = Event(thread[r].fence)'
    <3>1. thread[r].fence \in Fences
      BY <2>1, EventWaits
    <3> QED
      BY <1>1, <1>5, <2>1, <3>1 DEF WaitsUseCurrentEvent, MayTell, IsIdle
  <2>2. ASSUME NEW h \in handles
        PROVE  h.event = Event(h.fence)'
    <3>1. h.fence \in Fences
      BY DEF QueueTypeOK, EventWait
    <3> QED
      BY <1>1, <1>5, <3>1 DEF WaitsUseCurrentEvent, MayTell, IsIdle
  <2> QED
    BY <1>1, <2>1, <2>2 DEF WaitsUseCurrentEvent
<1>10. ReachedIsFinished'
  <2> SUFFICES ASSUME NEW g \in Fences, completedValue(g)' # 0
               PROVE  \E s \in signals'[g] :
                        s.value >= completedValue(g)' /\ s.work \subseteq done
    BY <1>1 DEF ReachedIsFinished
  <2>1. ~(g = f /\ v < last_signaled_[f])
    BY <1>2, EventsOf DEF completedValue, Event
  <2>2. completedValue(g)' = completedValue(g)
    BY <1>2, <2>1, EventsOf DEF completedValue, Event
  <2> QED
    BY <1>5, <2>1, <2>2 DEF ReachedIsFinished
<1> QED
  BY <1>6, <1>8, <1>9, <1>10

-----------------------------------------------------------------------------
(* A step that moves no event and changes no signal, work or value told,   *)
(* and adds to the queues only work and waits on current events.           *)
LEMMA QueueKeeps ==
  ASSUME QueueInv, NEW q \in Queues, NEW b \in Buffer, b.kind # "signal",
         b.kind = "wait" => b.event = Event(b.fence),
         queue' = [queue EXCEPT ![q] = Append(@, b)],
         UNCHANGED <<event, last_signaled_, handles, done, signals>>,
         submitted' \in Nat, entered' \in Nat, thread' \in [Threads -> Waiting],
         \A r \in Threads : thread'[r].kind = "event" => thread'[r] = thread[r]
  PROVE  QueueInv'
<1> USE DEF QueueInv
<1>1. \A r \in Queues : \A i \in 1 .. Len(queue'[r]) :
        \/ /\ i \in 1 .. Len(queue[r])
           /\ queue'[r][i] = queue[r][i]
           /\ WorkBefore(r, i)' = WorkBefore(r, i)
        \/ /\ r = q
           /\ queue'[r][i] = b
           /\ WorkBefore(r, i)' = WorkOf(q)
  BY Appended
<1>2. QueueTypeOK'
  BY Appended DEF QueueTypeOK
<1>3. b.kind # "work" => b.kind = "wait"
  BY DEF Buffer
<1>4. BuffersUseCurrentEvent'
  <2> SUFFICES ASSUME NEW r \in Queues, NEW i \in 1 .. Len(queue'[r]),
                      queue'[r][i].kind # "work"
               PROVE  queue'[r][i].event = Event(queue'[r][i].fence)
    BY DEF BuffersUseCurrentEvent, Event
  <2> QED
    BY <1>1, <1>3 DEF BuffersUseCurrentEvent
<1>5. WaitsUseCurrentEvent'
  BY DEF WaitsUseCurrentEvent, Event
<1>6. SignalsFollowWork'
  BY <1>1 DEF SignalsFollowWork
<1>7. ReachedIsFinished'
  BY DEF ReachedIsFinished, completedValue, Event
<1> QED
  BY <1>2, <1>4, <1>5, <1>6, <1>7

(* A queue waits for a fence, on the event that the fence has.             *)
LEMMA WaitKeeps ==
  ASSUME QueueInv, NEW t \in Threads, NEW q \in Queues, NEW f \in Fences, NEW v \in Values,
         Wait(t, q, f, v)
  PROVE  QueueInv'
<1> DEFINE b == WaitBuffer(f, Event(f), v)
<1>1. Event(f) \in Nat /\ v \in Nat
  BY ValuesAssumption DEF QueueInv, QueueTypeOK, Event
<1>2. b \in Buffer /\ b.kind = "wait" /\ b.event = Event(b.fence)
  BY <1>1 DEF WaitBuffer, Buffer
<1>3. /\ queue' = [queue EXCEPT ![q] = Append(@, b)]
      /\ UNCHANGED <<event, last_signaled_, thread, handles, done, signals, submitted>>
      /\ submitted' \in Nat /\ entered' \in Nat /\ thread' \in [Threads -> Waiting]
  BY DEF Wait, Enters, QueueInv, QueueTypeOK
<1> HIDE DEF b
<1> QED
  BY <1>2, <1>3, QueueKeeps

(* A thread submits work and waits for it.                                 *)
LEMMA ExecuteKeeps ==
  ASSUME QueueInv, NEW t \in Threads, NEW q \in Queues, Execute(t, q)
  PROVE  QueueInv'
<1> DEFINE b == WorkBuffer(submitted')
<1>1. submitted' \in Nat /\ entered' \in Nat
  BY DEF Execute, Enters, QueueInv, QueueTypeOK
<1>2. b \in Buffer /\ b.kind = "work"
  BY <1>1 DEF WorkBuffer, Buffer
<1>3. /\ queue' = [queue EXCEPT ![q] = Append(@, b)]
      /\ thread' = [thread EXCEPT ![t] = ForWork(submitted')]
      /\ UNCHANGED <<event, last_signaled_, handles, done, signals>>
  BY DEF Execute
<1>4. ForWork(submitted') \in Waiting /\ ForWork(submitted').kind # "event"
  BY <1>1 DEF ForWork, Waiting
<1>5. thread' \in [Threads -> Waiting]
      /\ \A r \in Threads : thread'[r].kind = "event" => thread'[r] = thread[r]
  BY <1>3, <1>4 DEF QueueInv, QueueTypeOK
<1> HIDE DEF b
<1> QED
  BY <1>1, <1>2, <1>3, <1>5, QueueKeeps

-----------------------------------------------------------------------------
(* A step that changes only who waits, for the events that fences have.    *)
LEMMA WaitingKeeps ==
  ASSUME QueueInv, UNCHANGED <<event, last_signaled_, queue, done, signals, submitted>>,
         entered' \in Nat, thread' \in [Threads -> Waiting], handles' \subseteq EventWait,
         \A r \in Threads :
           thread'[r].kind = "event" =>
             thread'[r] = thread[r] \/ thread'[r].event = Event(thread'[r].fence),
         \A h \in handles' : h \in handles \/ h.event = Event(h.fence)
  PROVE  QueueInv'
<1> USE DEF QueueInv
<1>1. QueueTypeOK'
  BY DEF QueueTypeOK
<1>2. BuffersUseCurrentEvent'
  BY DEF BuffersUseCurrentEvent, Event
<1>3. WaitsUseCurrentEvent'
  BY DEF WaitsUseCurrentEvent, Event
<1>4. SignalsFollowWork'
  BY DEF SignalsFollowWork, WorkBefore
<1>5. ReachedIsFinished'
  BY DEF ReachedIsFinished, completedValue, Event
<1> QED
  BY <1>1, <1>2, <1>3, <1>4, <1>5

(* A thread, or the listener, waits for a value of a fence.                *)
LEMMA SetEventOnCompletionKeeps ==
  ASSUME QueueInv, NEW t \in Threads, NEW f \in Fences, NEW v \in Values, NEW blocks \in BOOLEAN,
         SetEventOnCompletion(t, f, v, blocks)
  PROVE  QueueInv'
<1> DEFINE wait == ForEvent(f, Event(f), v)
<1>1. Event(f) \in Nat /\ v \in Nat
  BY ValuesAssumption DEF QueueInv, QueueTypeOK, Event
<1>2. wait \in EventWait /\ wait.event = Event(wait.fence)
  BY <1>1 DEF ForEvent, EventWait
<1>3. /\ thread' = [thread EXCEPT ![t] = wait] \/ thread' = thread
      /\ handles' = handles \union {wait} \/ handles' = handles
      /\ UNCHANGED <<event, last_signaled_, queue, done, signals, submitted>>
      /\ entered' \in Nat
  BY DEF SetEventOnCompletion, Enters, QueueInv, QueueTypeOK
<1> HIDE DEF wait
<1>4. thread' \in [Threads -> Waiting] /\ handles' \subseteq EventWait
  BY <1>2, <1>3 DEF QueueInv, QueueTypeOK, Waiting
<1>5. \A r \in Threads :
        thread'[r].kind = "event" =>
          thread'[r] = thread[r] \/ thread'[r].event = Event(thread'[r].fence)
  BY <1>2, <1>3 DEF QueueInv, QueueTypeOK
<1> QED
  BY <1>2, <1>3, <1>4, <1>5, WaitingKeeps

(* A wait ends, of a thread or of a handle, or a call does nothing.        *)
LEMMA WaitEndKeeps ==
  ASSUME QueueInv,
         \/ \E t \in Threads : Return(t)
         \/ \E h \in handles : Listen(h)
         \/ \E t \in Threads, f \in Fences : SignalAgain(t, f)
         \/ UNCHANGED queue_vars
  PROVE  QueueInv'
<1>1. /\ UNCHANGED <<event, last_signaled_, queue, done, signals, submitted>>
      /\ entered' \in Nat
      /\ \/ thread' = thread
         \/ \E t \in Threads : thread' = [thread EXCEPT ![t] = Running]
      /\ handles' \subseteq handles
  BY DEF Return, Listen, SignalAgain, Enters, queue_vars, QueueInv, QueueTypeOK
<1>2. thread' \in [Threads -> Waiting]
      /\ \A r \in Threads : thread'[r] = thread[r] \/ thread'[r] = Running
  BY <1>1 DEF QueueInv, QueueTypeOK, Waiting
<1>3. \A r \in Threads : thread'[r].kind = "event" => thread'[r] = thread[r]
  BY <1>2 DEF Running
<1> QED
  BY <1>1, <1>2, <1>3, WaitingKeeps DEF QueueInv, QueueTypeOK

-----------------------------------------------------------------------------
(* The buffers of a queue once its first is gone, and the work before each.*)
LEMMA Shifted ==
  ASSUME QueueTypeOK, NEW q \in Queues, queue[q] # <<>>,
         queue' = [queue EXCEPT ![q] = Tail(@)]
  PROVE  /\ queue' \in [Queues -> Seq(Buffer)]
         /\ Head(queue[q]) = queue[q][1] /\ queue[q][1] \in Buffer
         /\ 1 \in 1 .. Len(queue[q])
         /\ \A r \in Queues : r # q => queue'[r] = queue[r]
         /\ Len(queue'[q]) = Len(queue[q]) - 1
         /\ \A i \in 1 .. Len(queue'[q]) :
              i + 1 \in 1 .. Len(queue[q]) /\ queue'[q][i] = queue[q][i + 1]
<1>1. queue[q] \in Seq(Buffer)
  BY DEF QueueTypeOK
<1>2. queue'[q] = Tail(queue[q]) /\ \A r \in Queues : r # q => queue'[r] = queue[r]
  BY DEF QueueTypeOK
<1>3. Tail(queue[q]) \in Seq(Buffer) /\ Len(Tail(queue[q])) = Len(queue[q]) - 1
  BY <1>1
<1>4. queue' \in [Queues -> Seq(Buffer)]
  BY <1>3 DEF QueueTypeOK
<1>5. 1 \in 1 .. Len(queue[q]) /\ Head(queue[q]) = queue[q][1] /\ queue[q][1] \in Buffer
  BY <1>1
<1>6. \A i \in 1 .. Len(Tail(queue[q])) :
        i + 1 \in 1 .. Len(queue[q]) /\ Tail(queue[q])[i] = queue[q][i + 1]
  BY <1>1
<1> QED
  BY <1>2, <1>3, <1>4, <1>5, <1>6

(* The GPU takes the first buffer of a queue. An event that it raises      *)
(* reaches the value of a signal, with nothing before it in the queue.     *)
LEMMA RunBufferKeeps ==
  ASSUME QueueInv, NEW q \in Queues, RunBuffer(q)
  PROVE  QueueInv'
<1> DEFINE b == queue[q][1]
           raises == b.kind = "signal" /\ event[b.fence][b.event] < b.value
<1> USE DEF QueueInv
<1>1. queue[q] # <<>> /\ queue' = [queue EXCEPT ![q] = Tail(@)]
  BY DEF RunBuffer
<1>2. /\ done' = IF b.kind = "work" THEN done \union {b.id} ELSE done
      /\ event' = IF raises THEN [event EXCEPT ![b.fence][b.event] = b.value] ELSE event
      /\ UNCHANGED <<last_signaled_, thread, handles, signals, submitted, entered>>
  BY <1>1, Shifted DEF RunBuffer
<1>3. b \in Buffer /\ 1 \in 1 .. Len(queue[q])
  BY <1>1, Shifted
<1> HIDE DEF b
<1>4. b.kind # "work" => b.fence \in Fences /\ b.value \in Nat /\ b.event = Event(b.fence)
  BY <1>3 DEF Buffer, BuffersUseCurrentEvent, b
<1>5. done \subseteq done' /\ done' \subseteq Nat
  BY <1>2, <1>3 DEF Buffer, QueueTypeOK
<1>6. /\ event' \in [Fences -> Seq(Nat) \ {<<>>}]
      /\ \A f \in Fences : Event(f)' = Event(f)
      /\ \A f \in Fences : completedValue(f)' = completedValue(f)
                          \/ (raises /\ f = b.fence /\ completedValue(f)' = b.value)
  <2>1. CASE ~raises
    BY <1>2, <2>1 DEF QueueTypeOK, Event, completedValue
  <2>2. CASE raises
    <3> PICK f \in Fences : f = b.fence
      BY <1>4, <2>2
    <3> DEFINE n == Len(event[f])
    <3>1. b.value \in Nat /\ b.event = n
      BY <1>4, <2>2 DEF Event
    <3>2. event[f] \in Seq(Nat) /\ event[f] # <<>> /\ n \in 1 .. Len(event[f])
      BY DEF QueueTypeOK
    <3> DEFINE raised == [event[f] EXCEPT ![n] = b.value]
    <3>3. event' = [event EXCEPT ![f] = raised]
      BY <1>2, <2>2, <3>1
    <3>4. raised \in Seq(Nat) \ {<<>>} /\ Len(raised) = n /\ raised[n] = b.value
      BY <3>1, <3>2
    <3> HIDE DEF n, raised
    <3>5. /\ event' \in [Fences -> Seq(Nat) \ {<<>>}]
          /\ event'[f] = raised
          /\ \A g \in Fences : g # f => event'[g] = event[g]
      BY <3>1, <3>3, <3>4 DEF QueueTypeOK
    <3>6. \A g \in Fences : Event(g)' = Event(g)
      BY <3>4, <3>5 DEF Event, n
    <3>7. completedValue(f)' = b.value
      BY <3>4, <3>5 DEF completedValue, Event
    <3>8. \A g \in Fences : g # f => completedValue(g)' = completedValue(g)
      BY <3>5 DEF completedValue, Event
    <3>9. \A g \in Fences : completedValue(g)' = completedValue(g)
                           \/ (g = f /\ completedValue(g)' = b.value)
      BY <3>7, <3>8
    <3> QED
      BY <2>2, <3>5, <3>6, <3>9
  <2> QED
    BY <2>1, <2>2
<1>7. QueueTypeOK'
  BY <1>1, <1>2, <1>5, <1>6, Shifted DEF QueueTypeOK
<1>8. \A r \in Queues : \A i \in 1 .. Len(queue'[r]) :
        \E k \in 1 .. Len(queue[r]) :
          /\ queue'[r][i] = queue[r][k]
          /\ done \union WorkBefore(r, k) \subseteq done' \union WorkBefore(r, i)'
  <2> SUFFICES ASSUME NEW r \in Queues, NEW i \in 1 .. Len(queue'[r])
               PROVE  \E k \in 1 .. Len(queue[r]) :
                        /\ queue'[r][i] = queue[r][k]
                        /\ done \union WorkBefore(r, k) \subseteq done' \union WorkBefore(r, i)'
    OBVIOUS
  <2>1. CASE r # q
    <3>1. queue'[r] = queue[r]
      BY <1>1, <2>1, Shifted
    <3> QED
      BY <1>5, <3>1 DEF WorkBefore
  <2>2. CASE r = q
    <3>1. i + 1 \in 1 .. Len(queue[q]) /\ queue'[q][i] = queue[q][i + 1]
      BY <1>1, <2>2, Shifted
    <3>2. ASSUME NEW j \in 1 .. (i + 1) - 1, queue[q][j].kind = "work"
          PROVE  queue[q][j].id \in done' \union WorkBefore(q, i)'
      <4>1. CASE j = 1
        BY <1>2, <3>2, <4>1 DEF b
      <4>2. CASE j # 1
        <5>1. j - 1 \in 1 .. i - 1 /\ j - 1 \in 1 .. Len(queue'[q]) /\ (j - 1) + 1 = j
          BY <1>1, <2>2, <3>1, <4>2, Shifted
        <5>2. \A k \in 1 .. Len(queue'[q]) : queue'[q][k] = queue[q][k + 1]
          BY <1>1, Shifted
        <5>3. queue[q][j].id \in WorkBefore(q, i)'
          <6>1. queue'[q][j - 1] = queue[q][j]
            BY <5>1, <5>2
          <6> QED
            BY <3>2, <5>1, <6>1 DEF WorkBefore
        <5> QED
          BY <5>3
      <4> QED
        BY <4>1, <4>2
    <3>3. WorkBefore(q, i + 1) \subseteq done' \union WorkBefore(q, i)'
      BY <3>2 DEF WorkBefore
    <3> QED
      BY <1>5, <2>2, <3>1, <3>3
  <2> QED
    BY <2>1, <2>2
<1>9. BuffersUseCurrentEvent'
  <2> SUFFICES ASSUME NEW r \in Queues, NEW i \in 1 .. Len(queue'[r]),
                      queue'[r][i].kind # "work"
               PROVE  queue'[r][i].event = Len(event'[queue'[r][i].fence])
    BY DEF BuffersUseCurrentEvent, Event
  <2>1. PICK k \in 1 .. Len(queue[r]) : queue'[r][i] = queue[r][k]
    BY <1>8
  <2>2. queue[r][k].fence \in Fences
    BY <2>1 DEF QueueTypeOK, Buffer
  <2>3. queue[r][k].event = Event(queue[r][k].fence)
    BY <2>1 DEF BuffersUseCurrentEvent
  <2>4. Len(event'[queue[r][k].fence]) = Event(queue[r][k].fence)
    BY <1>6, <2>2 DEF Event
  <2> QED
    BY <2>1, <2>3, <2>4
<1>10. WaitsUseCurrentEvent'
  <2>1. \A r \in Threads : thread[r].kind = "event" => thread[r].fence \in Fences
    BY EventWaits
  <2>2. \A h \in handles : h.fence \in Fences
    BY DEF QueueTypeOK, EventWait
  <2> QED
    BY <1>2, <1>6, <2>1, <2>2 DEF WaitsUseCurrentEvent
<1>11. SignalsFollowWork'
  <2> SUFFICES ASSUME NEW r \in Queues, NEW i \in 1 .. Len(queue'[r]),
                      queue'[r][i].kind = "signal"
               PROVE  \E s \in signals[queue'[r][i].fence] :
                        s.value = queue'[r][i].value
                        /\ s.work \subseteq done' \union WorkBefore(r, i)'
    BY <1>2 DEF SignalsFollowWork
  <2>1. PICK k \in 1 .. Len(queue[r]) :
          /\ queue'[r][i] = queue[r][k]
          /\ done \union WorkBefore(r, k) \subseteq done' \union WorkBefore(r, i)'
    BY <1>8
  <2> QED
    BY <2>1 DEF SignalsFollowWork
<1>12. ReachedIsFinished'
  <2> SUFFICES ASSUME NEW f \in Fences, completedValue(f)' # 0
               PROVE  \E s \in signals[f] :
                        s.value >= completedValue(f)' /\ s.work \subseteq done'
    BY <1>2 DEF ReachedIsFinished
  <2>1. CASE completedValue(f)' = completedValue(f)
    BY <1>5, <2>1 DEF ReachedIsFinished
  <2>2. CASE raises /\ f = b.fence /\ completedValue(f)' = b.value
    <3>1. PICK s \in signals[f] :
            s.value = b.value /\ s.work \subseteq done \union WorkBefore(q, 1)
      BY <1>3, <2>2 DEF SignalsFollowWork, b
    <3>2. WorkBefore(q, 1) = {}
      BY DEF WorkBefore
    <3>3. b.value >= b.value
      BY <1>4, <2>2
    <3> QED
      BY <1>5, <2>2, <3>1, <3>2, <3>3
  <2> QED
    BY <1>6, <2>1, <2>2
<1> QED
  BY <1>7, <1>9, <1>10, <1>11, <1>12

-----------------------------------------------------------------------------
(* No step of a thread, of the listener or of the GPU breaks the invariant.*)
LEMMA Preservation == QueueInv /\ [QueueNext]_queue_vars => QueueInv'
<1> SUFFICES ASSUME QueueInv, [QueueNext]_queue_vars PROVE QueueInv'
  OBVIOUS
<1>1. CASE \E t \in Threads, f \in Fences, v \in Values : SignalFence(t, f, v)
  BY <1>1, SignalFenceKeeps
<1>2. CASE \E t \in Threads, f \in Fences, v \in Values, blocks \in BOOLEAN :
             SetEventOnCompletion(t, f, v, blocks)
  BY <1>2, SetEventOnCompletionKeeps
<1>3. CASE \E t \in Threads, f \in Fences, v \in Values, q \in Queues : Signal(t, q, f, v)
  BY <1>3, SignalKeeps
<1>4. CASE \E t \in Threads, f \in Fences, v \in Values, q \in Queues : Wait(t, q, f, v)
  BY <1>4, WaitKeeps
<1>5. CASE \E t \in Threads, q \in Queues : Execute(t, q)
  BY <1>5, ExecuteKeeps
<1>6. CASE \/ \E t \in Threads : Return(t)
           \/ \E h \in handles : Listen(h)
           \/ \E t \in Threads, f \in Fences : SignalAgain(t, f)
           \/ UNCHANGED queue_vars
  BY <1>6, WaitEndKeeps
<1>7. CASE \E q \in Queues : RunBuffer(q)
  BY <1>7, RunBufferKeeps
<1> QED
  BY <1>1, <1>2, <1>3, <1>4, <1>5, <1>6, <1>7 DEF QueueNext

(* A value that the event of a wait has reached is that of a signal, or of *)
(* a higher one, whose work is finished.                                   *)
LEMMA ReachedWaits ==
  ASSUME QueueInv, NEW wait, wait.fence \in Fences, wait.value \in Nat,
         wait.event = Event(wait.fence), IsReached(wait)
  PROVE  IsFinished(wait)
<1> DEFINE f == wait.fence
<1>1. completedValue(f) \in Nat /\ completedValue(f) >= wait.value
  <2>1. event[f] \in Seq(Nat) /\ event[f] # <<>>
    BY DEF QueueInv, QueueTypeOK
  <2>2. event[f][Len(event[f])] \in Nat
    BY <2>1
  <2> QED
    BY <2>2 DEF IsReached, completedValue, Event
<1> HIDE DEF f
<1>2. ASSUME wait.value # 0
      PROVE  \E s \in signals[f] : s.value >= wait.value /\ s.work \subseteq done
  <2>1. completedValue(f) # 0
    BY <1>1, <1>2
  <2>2. PICK s \in signals[f] : s.value >= completedValue(f) /\ s.work \subseteq done
    BY <2>1 DEF QueueInv, ReachedIsFinished, f
  <2>3. s.value \in Nat
    BY <2>2 DEF QueueInv, QueueTypeOK, f
  <2> QED
    BY <1>1, <2>2, <2>3
<1> QED
  BY <1>2 DEF IsFinished, f

(* A thread that waits for an event stays where it is until it returns.    *)
LEMMA OnlyReturnEndsWaits ==
  ASSUME QueueInv, [QueueNext]_queue_vars, NEW r \in Threads, thread[r].kind = "event", thread'[r] = Running
  PROVE  IsReached(thread[r])
<1>1. thread[r] # Running
  BY DEF Running
<1>2. CASE \E t \in Threads : Return(t)
  BY <1>1, <1>2 DEF Return, QueueInv, QueueTypeOK
<1>3. ASSUME NEW t \in Threads, Enters(t)
      PROVE  t # r
  BY <1>1, <1>3 DEF Enters
<1>4. CASE \E t \in Threads, f \in Fences, v \in Values, blocks \in BOOLEAN :
             SetEventOnCompletion(t, f, v, blocks)
  <2>1. PICK t \in Threads : t # r
                          /\ (thread' = thread \/ \E w : thread' = [thread EXCEPT ![t] = w])
    BY <1>3, <1>4 DEF SetEventOnCompletion
  <2> QED
    BY <1>1, <2>1 DEF QueueInv, QueueTypeOK
<1>5. CASE \E t \in Threads, q \in Queues : Execute(t, q)
  <2>1. PICK t \in Threads : t # r /\ \E w : thread' = [thread EXCEPT ![t] = w]
    BY <1>3, <1>5 DEF Execute
  <2> QED
    BY <1>1, <2>1 DEF QueueInv, QueueTypeOK
<1>6. CASE thread' = thread
  BY <1>1, <1>6
<1>7. CASE \E t \in Threads, f \in Fences, v \in Values : SignalFence(t, f, v)
  BY <1>6, <1>7 DEF SignalFence
<1>8. CASE \E t \in Threads, f \in Fences, v \in Values, q \in Queues :
             Signal(t, q, f, v) \/ Wait(t, q, f, v)
  BY <1>6, <1>8 DEF Signal, Wait
<1>9. CASE \/ \E t \in Threads, f \in Fences : SignalAgain(t, f)
           \/ \E h \in handles : Listen(h)
           \/ \E q \in Queues : RunBuffer(q)
           \/ UNCHANGED queue_vars
  BY <1>6, <1>9 DEF SignalAgain, Listen, RunBuffer, queue_vars
<1> QED
  BY <1>2, <1>4, <1>5, <1>7, <1>8, <1>9 DEF QueueNext

(* Nothing is at the front of a queue, and gone after a step, but what the *)
(* GPU has run. A wait can be overtaken only by itself: no action but      *)
(* RunBuffer shortens a queue.                                             *)
LEMMA OnlyTheGPUShortens ==
  ASSUME QueueInv, [QueueNext]_queue_vars, NEW q \in Queues, queue[q] # <<>>,
         queue'[q] = Tail(queue[q])
  PROVE  RunBuffer(q)
<1>1. queue'[q] # queue[q] /\ \A b : queue'[q] # Append(queue[q], b)
  <2>1. queue[q] \in Seq(Buffer)
    BY DEF QueueInv, QueueTypeOK
  <2>2. Len(Tail(queue[q])) = Len(queue[q]) - 1 /\ Len(queue[q]) \in Nat
        /\ \A b : Len(Append(queue[q], b)) = Len(queue[q]) + 1
    BY <2>1
  <2>3. /\ Len(Tail(queue[q])) # Len(queue[q])
        /\ \A b : Len(Tail(queue[q])) # Len(Append(queue[q], b))
    BY <2>2
  <2>4. Tail(queue[q]) # queue[q] /\ \A b : Tail(queue[q]) # Append(queue[q], b)
    BY <2>3, Zenon
  <2> QED
    BY <2>4, Zenon
<1>2. ASSUME NEW r \in Queues, NEW b, queue' = [queue EXCEPT ![r] = Append(@, b)]
      PROVE  FALSE
  BY <1>1, <1>2 DEF QueueInv, QueueTypeOK
<1>3. CASE \E t \in Threads, f \in Fences, v \in Values, r \in Queues :
             Signal(t, r, f, v) \/ Wait(t, r, f, v)
  BY <1>2, <1>3 DEF Signal, Wait
<1>4. CASE \E t \in Threads, r \in Queues : Execute(t, r)
  BY <1>2, <1>4 DEF Execute
<1>5. CASE \E r \in Queues : RunBuffer(r)
  <2>1. PICK r \in Queues : RunBuffer(r)
    BY <1>5
  <2>2. r = q
    BY <1>1, <2>1 DEF RunBuffer, QueueInv, QueueTypeOK
  <2> QED
    BY <2>1, <2>2
<1>6. CASE queue' = queue
  BY <1>1, <1>6
<1> QED
  BY <1>3, <1>4, <1>5, <1>6
     DEF QueueNext, queue_vars, SignalFence, SignalAgain, SetEventOnCompletion, Return, Listen

(* One step lets go on only who may.                                       *)
LEMMA StepOrders ==
  ASSUME QueueInv, [QueueNext]_queue_vars
  PROVE  /\ \A t \in Threads :
              thread[t].kind = "event" /\ thread'[t] = Running => IsFinished(thread[t])
         /\ \A h \in handles \ handles' : IsFinished(h)
         /\ \A q \in Queues :
              queue[q] # <<>> /\ Head(queue[q]).kind = "wait" /\ queue'[q] = Tail(queue[q])
                => IsFinished(Head(queue[q]))
         /\ \A f \in Fences : IsFinished([fence |-> f, value |-> completedValue(f)])
<1>1. ASSUME NEW t \in Threads, thread[t].kind = "event", thread'[t] = Running
      PROVE  IsFinished(thread[t])
  <2>1. IsReached(thread[t])
    BY <1>1, OnlyReturnEndsWaits
  <2>2. thread[t] \in EventWait /\ thread[t].event = Event(thread[t].fence)
    BY <1>1, EventWaits DEF QueueInv, WaitsUseCurrentEvent
  <2> QED
    BY <2>1, <2>2, ReachedWaits DEF EventWait
<1>2. ASSUME NEW h \in handles, h \notin handles'
      PROVE  IsFinished(h)
  <2>1. IsReached(h)
    <3>1. CASE \E g \in handles : Listen(g)
      BY <1>2, <3>1 DEF Listen
    <3>2. CASE \E t \in Threads, f \in Fences, v \in Values, blocks \in BOOLEAN :
                 SetEventOnCompletion(t, f, v, blocks)
      BY <1>2, <3>2 DEF SetEventOnCompletion
    <3>3. CASE handles' = handles
      BY <1>2, <3>3
    <3>4. CASE \E t \in Threads, f \in Fences, v \in Values : SignalFence(t, f, v)
      BY <3>3, <3>4 DEF SignalFence
    <3>6. CASE \E t \in Threads, f \in Fences, v \in Values, q \in Queues :
                 Signal(t, q, f, v) \/ Wait(t, q, f, v)
      BY <3>3, <3>6 DEF Signal, Wait
    <3>5. CASE \/ \E t \in Threads, f \in Fences : SignalAgain(t, f)
               \/ \E t \in Threads : Return(t) \/ \E q \in Queues : Execute(t, q)
               \/ \E q \in Queues : RunBuffer(q)
               \/ UNCHANGED queue_vars
      BY <3>3, <3>5 DEF SignalAgain, Return, Execute, RunBuffer, queue_vars
    <3> QED
      BY <3>1, <3>2, <3>4, <3>5, <3>6 DEF QueueNext
  <2>2. h \in EventWait /\ h.event = Event(h.fence)
    BY DEF QueueInv, QueueTypeOK, WaitsUseCurrentEvent
  <2> QED
    BY <2>1, <2>2, ReachedWaits DEF EventWait
<1>3. ASSUME NEW q \in Queues, queue[q] # <<>>, Head(queue[q]).kind = "wait",
             queue'[q] = Tail(queue[q])
      PROVE  IsFinished(Head(queue[q]))
  <2> DEFINE b == queue[q][1]
  <2>1. RunBuffer(q)
    BY <1>3, OnlyTheGPUShortens
  <2>2. Head(queue[q]) = b /\ b \in Buffer /\ 1 \in 1 .. Len(queue[q])
    BY <2>1, Shifted DEF RunBuffer, QueueInv
  <2>3. IsReached(b) /\ b.kind = "wait"
    BY <1>3, <2>1, <2>2 DEF RunBuffer
  <2>4. b.fence \in Fences /\ b.value \in Nat /\ b.event = Event(b.fence)
    BY <2>2, <2>3 DEF Buffer, QueueInv, BuffersUseCurrentEvent
  <2> QED
    BY <2>2, <2>3, <2>4, ReachedWaits
<1>4. ASSUME NEW f \in Fences
      PROVE  IsFinished([fence |-> f, value |-> completedValue(f)])
  BY DEF QueueInv, ReachedIsFinished, IsFinished
<1> QED
  BY <1>1, <1>2, <1>3, <1>4

-----------------------------------------------------------------------------
(* The types, the current events of all that waits or signals, and the     *)
(* work behind every value reached: for any number of threads, queues,     *)
(* fences and values of d3d12_command_queue.cpp and dxmt_fence.hpp.        *)
THEOREM QueueInvariance == QueueSpec => []QueueInv
<1> QED
  BY Initial, Preservation, PTL DEF QueueSpec

(* Whoever waits for a value of a fence, a thread, a Win32 event or a      *)
(* queue, goes on only when the submissions before a signal of that value  *)
(* or of a higher one are finished, and GetCompletedValue returns no other.*)
THEOREM WaitsOrderWork == QueueSpec => WaitOrders
<1>1. QueueInv /\ [QueueNext]_queue_vars =>
        [/\ \A t \in Threads :
              thread[t].kind = "event" /\ thread'[t] = Running => IsFinished(thread[t])
         /\ \A h \in handles \ handles' : IsFinished(h)
         /\ \A q \in Queues :
              queue[q] # <<>> /\ Head(queue[q]).kind = "wait" /\ queue'[q] = Tail(queue[q])
                => IsFinished(Head(queue[q]))
         /\ \A f \in Fences : IsFinished([fence |-> f, value |-> completedValue(f)])]_queue_vars
  BY StepOrders
<1> QED
  BY <1>1, QueueInvariance, PTL DEF QueueSpec, WaitOrders

=============================================================================
