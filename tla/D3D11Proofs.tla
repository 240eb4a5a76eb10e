----------------------------- MODULE D3D11Proofs -----------------------------
(***************************************************************************)
(* Proofs about what the D3D11 calls rely on: FramePacing, the wait of     *)
(* Present with one presenting thread, for any number of frames and any    *)
(* latencies; and DynamicResource, for any command lists, buffers and      *)
(* number of maps.                                                         *)
(***************************************************************************)
EXTENDS FramePacingInv, DynamicResourceInv, SequenceTheorems, FiniteSetTheorems, TLAPS

-----------------------------------------------------------------------------
(* Present of one thread. The run with two presenters shows that one is    *)
(* needed.                                                                 *)

(* A difference below the modulus is not changed by it.                    *)
LEMMA SmallModulus ==
  ASSUME NEW w \in Nat, NEW n \in Nat, n < w
  PROVE  n % w = n
<1> DEFINE quotient == n \div w
<1>1. n = quotient * w + (n % w) /\ quotient \in Int /\ n % w \in 0 .. w - 1
  OBVIOUS
<1> HIDE DEF quotient
<1>2. quotient >= 1 => quotient * w >= w
  BY <1>1
<1>3. quotient <= -1 => quotient * w <= -w
  BY <1>1
<1>4. quotient = 0
  BY <1>1, <1>2, <1>3
<1> QED
  BY <1>1, <1>4

(* Before the first present nothing is signalled or counted.               *)
LEMMA PacingStarts ==
  ASSUME PacingInit
  PROVE  PacingInv
<1>1. max_latency \in Nat
  BY FramesAssumption, LatencyAssumption DEF PacingInit
<1>2. pc \in [Presenters -> PCs] /\ loaded \in [Presenters -> Nat]
  BY DEF PacingInit, PCs
<1>3. /\ frame_signal = <<>> /\ Len(frame_signal) = 0 /\ DOMAIN frame_signal = {}
      /\ frame_signal \in Seq(Nat)
  BY DEF PacingInit
<1>4. \A p \in Presenters : pc[p] = "idle" /\ Uncounted(p) = 0
  BY DEF PacingInit, Uncounted
<1> QED
  BY <1>1, <1>2, <1>3, <1>4, FramesAssumption DEF PacingInv, Types, Numbers, PacingInit

(* A step of the presenter other than Present.                             *)
LEMMA PresenterKeeps ==
  ASSUME OnePresenter, PacingInv, NEW p \in Presenters,
       PresenterNext(p)
  PROVE  PacingInv'
<1>1. /\ frame_signal \in Seq(Nat) /\ frame_count \in Nat /\ max_latency \in Nat
      /\ pc \in [Presenters -> PCs] /\ loaded \in [Presenters -> Nat]
      /\ Len(frame_signal) <= MaxFrames
      /\ \A i \in DOMAIN frame_signal : frame_signal[i] = i
      /\ Len(frame_signal) = frame_count + Uncounted(p)
      /\ pc[p] = "store" => loaded[p] = frame_count
      /\ pc[p] = "subtract" => frame_count > max_latency
      /\ pc[p] = "wait" => loaded[p] \in 1 .. frame_count
      /\ Len(frame_signal) \in Nat
  BY DEF PacingInv, Types, Numbers
<1>2. UNCHANGED <<frame_signal, max_latency>>
  BY DEF PresenterNext, Unlock, LoadFrameCount, StoreFrameCount,
       CompareLatency, SubtractLatency,
         WaitLatency
<1>3. \A q \in Presenters : q = p
  BY DEF OnePresenter
<1>4. SUFFICES /\ frame_count' \in Nat /\ pc' \in [Presenters -> PCs]
               /\ loaded' \in [Presenters -> Nat]
               /\ Len(frame_signal) = frame_count' + Uncounted(p)'
               /\ pc'[p] = "store" => loaded'[p] = frame_count'
               /\ pc'[p] = "subtract" => frame_count' > max_latency
               /\ pc'[p] = "wait" => loaded'[p] \in 1 .. frame_count'
  BY <1>1, <1>2, <1>3 DEF PacingInv, Types, Numbers, Uncounted
<1>5. CASE Unlock(p)
  BY <1>1, <1>5 DEF Unlock, Goto, PCs, Uncounted
<1>6. CASE LoadFrameCount(p)
  BY <1>1, <1>6 DEF LoadFrameCount, Goto, PCs, Uncounted
<1>7. CASE StoreFrameCount(p)
  BY <1>1, <1>7 DEF StoreFrameCount, Goto, PCs, Uncounted
<1>8. CASE CompareLatency(p)
  BY <1>1, <1>8 DEF CompareLatency, Goto, PCs, Uncounted, IsAhead
<1>9. CASE SubtractLatency(p)
  <2>1. /\ pc[p] = "subtract" /\ pc' = [pc EXCEPT ![p] = "wait"] /\ frame_count' = frame_count
        /\ loaded' = [loaded EXCEPT ![p] = LatencyTarget]
    BY <1>9 DEF SubtractLatency, Goto
  <2>2. Len(frame_signal) = frame_count
    BY <1>1, <2>1 DEF Uncounted
  <2>3. /\ frame_count - max_latency \in Nat /\ frame_count - max_latency < W
        /\ W \in Nat
        /\ frame_count - max_latency \in 1 .. frame_count
    BY <1>1, <2>1, <2>2, FramesAssumption, LatencyAssumption
  <2>4. LatencyTarget = frame_count - max_latency
    BY <2>3, SmallModulus DEF LatencyTarget
  <2> QED
    BY <1>1, <2>1, <2>2, <2>3, <2>4 DEF PCs, Uncounted
<1>10. CASE WaitLatency(p)
  BY <1>1, <1>10 DEF WaitLatency, Goto, PCs, Uncounted
<1> QED
  BY <1>5, <1>6, <1>7, <1>8, <1>9, <1>10 DEF PresenterNext

(* A present: its chunk signals the number that will be counted.           *)
LEMMA PresentKeeps ==
  ASSUME OnePresenter, PacingInv, NEW p \in Presenters,
       Present(p)
  PROVE  PacingInv'
<1>1. /\ frame_signal \in Seq(Nat) /\ frame_count \in Nat /\ max_latency \in Nat
      /\ MaxFrames \in Nat
      /\ pc \in [Presenters -> PCs] /\ loaded \in [Presenters -> Nat]
      /\ \A i \in DOMAIN frame_signal : frame_signal[i] = i
      /\ Len(frame_signal) = frame_count + Uncounted(p)
  BY FramesAssumption DEF PacingInv, Types, Numbers
<1>2. /\ Len(frame_signal) < MaxFrames
      /\ pc[p] = "idle" /\ pc' = [pc EXCEPT ![p] = "commit"]
      /\ frame_signal' = Append(frame_signal, frame_count + 1)
      /\ UNCHANGED <<frame_count, max_latency, loaded>>
  BY DEF Present, Goto, CurrentFrameSeq
<1>3. Len(frame_signal) = frame_count
  BY <1>1, <1>2 DEF Uncounted
<1>4. /\ frame_signal' \in Seq(Nat) /\ Len(frame_signal') = frame_count + 1
      /\ \A i \in DOMAIN frame_signal' : frame_signal'[i] = i
      /\ Len(frame_signal') <= MaxFrames
  BY <1>1, <1>2, <1>3
<1>5. pc' \in [Presenters -> PCs] /\ pc'[p] = "commit" /\ Uncounted(p)' = 1
  BY <1>1, <1>2 DEF PCs, Uncounted
<1>6. \A q \in Presenters : q = p
  BY DEF OnePresenter
<1> QED
  BY <1>1, <1>2, <1>4, <1>5, <1>6 DEF PacingInv, Types, Numbers

(* The latency is set between presents; the queue's threads leave it, and  *)
(* the numbers of frames, alone.                                           *)
LEMMA OthersKeep ==
  ASSUME OnePresenter, PacingInv,
         \/ \E latency \in LatencyRange : SetMaxLatency(latency)
         \/ Submit \/ Retire \/ UNCHANGED pacing_vars
  PROVE  PacingInv'
<1>1. /\ UNCHANGED <<frame_signal, frame_count, pc, loaded>>
  BY DEF SetMaxLatency, Submit, Retire, pacing_vars
<1>2. \/ max_latency' = max_latency
      \/ max_latency' \in Nat /\ \A p \in Presenters : pc[p] = "idle"
  BY FramesAssumption, LatencyAssumption DEF SetMaxLatency, Submit, Retire,
       pacing_vars, OnePresenter
<1> QED
  BY <1>1, <1>2 DEF PacingInv, Types, Numbers, Uncounted

(* One presenter waits only for a frame that a committed chunk signals.    *)
THEOREM OneWaitsForPresented ==
  OnePresenter => (PacingSpec => []WaitsForPresentedFrame)
<1> SUFFICES ASSUME OnePresenter
             PROVE  PacingSpec => []WaitsForPresentedFrame
  OBVIOUS
<1>1. PacingInit => PacingInv
  BY PacingStarts
<1>2. PacingInv /\ [PacingNext]_pacing_vars => PacingInv'
  BY PresenterKeeps, PresentKeeps, OthersKeep DEF PacingNext, Finished
<1>3. PacingInv => WaitsForPresentedFrame
  <2> SUFFICES ASSUME PacingInv, NEW p \in Presenters, pc[p] = "wait"
               PROVE  \E i \in DOMAIN frame_signal : frame_signal[i] >= loaded[p]
    BY DEF WaitsForPresentedFrame
  <2>1. /\ frame_signal \in Seq(Nat) /\ frame_count \in Nat
        /\ loaded[p] \in 1 .. frame_count /\ Len(frame_signal) = frame_count + 0
        /\ \A i \in DOMAIN frame_signal : frame_signal[i] = i
    BY DEF PacingInv, Types, Numbers, Uncounted
  <2>2. loaded[p] \in DOMAIN frame_signal
    BY <2>1
  <2> QED
    BY <2>1, <2>2
<1> QED
  BY <1>1, <1>2, <1>3, PTL DEF PacingSpec

-----------------------------------------------------------------------------
(* Dynamic resources.                                                      *)
USE KindsAssumption, SubsAssumption, ExecutionsAssumption, BoundsAssumption

Entry == [allocation : Allocation, will_free_at : Nat]
Used  == [allocation : Allocation, suballocation : Nat, latest : BOOLEAN]

-----------------------------------------------------------------------------
(* Sequences of entries.                                                   *)

LEMMA TailHolds ==
  ASSUME NEW S, NEW s \in Seq(S), s # <<>>
  PROVE  /\ Tail(s) \in Seq(S) /\ Head(s) \in S
         /\ 1 \in DOMAIN s /\ Head(s) = s[1]
         /\ \A i \in DOMAIN Tail(s) : \E j \in DOMAIN s : Tail(s)[i] = s[j]
         /\ Once(s) => Once(Tail(s))
         /\ Once(s) => \A a : Holds(Tail(s), a) <=> Holds(s, a) /\ a # Head(s).allocation
<1> DEFINE t == Tail(s)
<1>1. /\ t \in Seq(S) /\ Head(s) \in S /\ Len(t) = Len(s) - 1 /\ Len(s) \in Nat \ {0}
      /\ Head(s) = s[1] /\ DOMAIN s = 1 .. Len(s)
      /\ \A i \in 1 .. Len(t) : t[i] = s[i + 1]
  BY HeadTailProperties, EmptySeq, LenProperties
<1> HIDE DEF t
<1>2. Len(t) \in Nat /\ DOMAIN t = 1 .. Len(s) - 1
  BY <1>1
<1>3. \A i \in DOMAIN t : i + 1 \in DOMAIN s /\ t[i] = s[i + 1] /\ i \in Nat
  BY <1>1, <1>2
<1>4. \A j \in DOMAIN s : j = 1 \/ (j - 1 \in DOMAIN t /\ t[j - 1] = s[j])
  <2>1. TAKE j \in DOMAIN s
  <2>2. CASE j # 1
    <3>1. j - 1 \in 1 .. Len(s) - 1 /\ (j - 1) + 1 = j
      BY <1>1, <2>2
    <3>2. QED
      BY <1>1, <1>2, <3>1
  <2>3. QED
    BY <2>2
<1>5. Once(s) => Once(t)
  <2>1. SUFFICES ASSUME Once(s), NEW i \in DOMAIN t, NEW j \in DOMAIN t,
                        t[i].allocation = t[j].allocation
                 PROVE  i = j
    BY DEF Once
  <2>2. i + 1 = j + 1 /\ i \in Nat /\ j \in Nat
    BY <1>3, <2>1 DEF Once
  <2>3. QED
    BY <2>2
<1>6. ASSUME Once(s), NEW a PROVE Holds(t, a) <=> Holds(s, a) /\ a # s[1].allocation
  <2>1. ASSUME NEW i \in DOMAIN t, t[i].allocation = a
        PROVE  Holds(s, a) /\ a # s[1].allocation
    <3>1. i + 1 \in DOMAIN s /\ s[i + 1].allocation = a /\ i + 1 # 1 /\ 1 \in DOMAIN s
      BY <1>1, <1>2, <1>3, <2>1
    <3>2. QED
      BY <1>6, <3>1 DEF Holds, Once
  <2>2. ASSUME NEW j \in DOMAIN s, s[j].allocation = a, a # s[1].allocation
        PROVE  Holds(t, a)
    BY <1>4, <2>2 DEF Holds
  <2>3. QED
    BY <2>1, <2>2 DEF Holds
<1>7. QED
  BY <1>1, <1>3, <1>5, <1>6 DEF t

LEMMA AppendHolds ==
  ASSUME NEW S, NEW s \in Seq(S), NEW e \in S
  PROVE  LET t == Append(s, e) IN
         /\ t \in Seq(S)
         /\ \A i \in DOMAIN t : t[i] = e \/ \E j \in DOMAIN s : t[i] = s[j]
         /\ \A a : Holds(t, a) <=> Holds(s, a) \/ a = e.allocation
         /\ Once(s) /\ ~Holds(s, e.allocation) => Once(t)
<1> DEFINE t == Append(s, e)
           n == Len(s)
<1>1. /\ t \in Seq(S) /\ n \in Nat /\ DOMAIN s = 1 .. n /\ DOMAIN t = 1 .. n + 1
      /\ t[n + 1] = e /\ \A i \in 1 .. n : t[i] = s[i]
  BY AppendProperties, LenProperties
<1> HIDE DEF t, n
<1>2. \A i \in DOMAIN t : (i = n + 1 /\ t[i] = e) \/ (i \in DOMAIN s /\ t[i] = s[i])
  BY <1>1
<1>3. n + 1 \in DOMAIN t /\ \A i \in DOMAIN s : i \in DOMAIN t /\ t[i] = s[i]
  BY <1>1
<1>4. \A a : Holds(t, a) <=> Holds(s, a) \/ a = e.allocation
  BY <1>1, <1>2, <1>3 DEF Holds
<1>5. Once(s) /\ ~Holds(s, e.allocation) => Once(t)
  BY <1>2 DEF Holds, Once
<1>6. QED
  BY <1>1, <1>2, <1>4, <1>5 DEF t

LEMMA RemoveHolds ==
  ASSUME NEW S, NEW s \in Seq(S), NEW k \in DOMAIN s, Once(s)
  PROVE  LET t == RemoveAt(s, k) IN
         /\ t \in Seq(S) /\ Once(t)
         /\ \A a : Holds(t, a) <=> Holds(s, a) /\ a # s[k].allocation
<1> DEFINE t == RemoveAt(s, k)
           n == Len(s)
           u == SubSeq(s, 1, k - 1)
           v == SubSeq(s, k + 1, n)
<1>1. n \in Nat /\ DOMAIN s = 1 .. n /\ k \in 1 .. n /\ \A i \in 1 .. n : s[i] \in S
  BY LenProperties, ElementOfSeq
<1>2. /\ u \in Seq(S) /\ Len(u) = k - 1
      /\ \A i \in 1 .. k - 1 : u[i] = s[i]
  <2>1. \A i \in 1 .. k - 1 : s[i] \in S
    BY <1>1
  <2>2. /\ u \in Seq(S) /\ Len(u) = IF 1 <= k - 1 THEN k - 1 - 1 + 1 ELSE 0
        /\ \A i \in 1 .. k - 1 - 1 + 1 : u[i] = s[1 + i - 1]
    BY <1>1, <2>1, SubSeqProperties
  <2> HIDE DEF u
  <2>3. QED
    BY <1>1, <2>2
<1>3. /\ v \in Seq(S) /\ Len(v) = n - k
      /\ \A i \in 1 .. n - k : v[i] = s[k + i]
  <2>1. \A i \in k + 1 .. n : s[i] \in S
    BY <1>1
  <2>2. /\ v \in Seq(S) /\ Len(v) = IF k + 1 <= n THEN n - (k + 1) + 1 ELSE 0
        /\ \A i \in 1 .. n - (k + 1) + 1 : v[i] = s[(k + 1) + i - 1]
    BY <1>1, <2>1, SubSeqProperties
  <2> HIDE DEF v
  <2>3. n - (k + 1) + 1 = n - k /\ (k + 1 <= n <=> ~(n - k = 0))
    BY <1>1
  <2>4. \A i \in 1 .. n - k : (k + 1) + i - 1 = k + i
    BY <1>1
  <2>5. QED
    BY <1>1, <2>2, <2>3, <2>4
<1>4. t = u \o v
  BY DEF RemoveAt
<1> HIDE DEF t, u, v, n
<1>5. /\ t \in Seq(S) /\ Len(t) = n - 1 /\ DOMAIN t = 1 .. n - 1
      /\ \A i \in 1 .. n - 1 : t[i] = IF i < k THEN s[i] ELSE s[i + 1]
  <2>1. /\ t \in Seq(S) /\ Len(t) = k - 1 + (n - k)
        /\ \A i \in 1 .. k - 1 + (n - k) :
             t[i] = IF i <= k - 1 THEN u[i] ELSE v[i - (k - 1)]
    <3>1. /\ u \o v \in Seq(S) /\ Len(u \o v) = Len(u) + Len(v)
          /\ \A i \in 1 .. Len(u) + Len(v) :
               (u \o v)[i] = IF i <= Len(u) THEN u[i] ELSE v[i - Len(u)]
      <4>1. u \in Seq(S) /\ v \in Seq(S)
        BY <1>2, <1>3
      <4>2. QED
        BY ONLY <4>1, ConcatProperties
    <3>2. QED
      BY <1>2, <1>3, <1>4, <3>1
  <2>2. Len(t) = n - 1 /\ DOMAIN t = 1 .. n - 1
    BY <1>1, <2>1, LenProperties
  <2>3. ASSUME NEW i \in 1 .. n - 1 PROVE t[i] = IF i < k THEN s[i] ELSE s[i + 1]
    <3>1. CASE i < k
      BY <1>1, <1>2, <2>1, <3>1
    <3>2. CASE ~(i < k)
      <4>1. i - (k - 1) \in 1 .. n - k /\ k + (i - (k - 1)) = i + 1
        BY <1>1, <3>2
      <4>2. i \in 1 .. k - 1 + (n - k) /\ ~(i <= k - 1)
        BY <1>1, <3>2
      <4>3. t[i] = v[i - (k - 1)]
        BY <2>1, <4>2
      <4>4. v[i - (k - 1)] = s[k + (i - (k - 1))]
        BY <1>3, <4>1
      <4>5. QED
        BY <3>2, <4>1, <4>3, <4>4
    <3>3. QED
      BY <3>1, <3>2
  <2>4. QED
    BY <2>1, <2>2, <2>3
<1> DEFINE at(i) == IF i < k THEN i ELSE i + 1
<1>6. \A i \in DOMAIN t : at(i) \in DOMAIN s /\ at(i) # k /\ t[i] = s[at(i)]
  BY <1>1, <1>5
<1>7. \A i, j \in DOMAIN t : at(i) = at(j) => i = j
  BY <1>1, <1>5
<1>8. \A j \in DOMAIN s \ {k} : \E i \in DOMAIN t : t[i] = s[j]
  <2>1. TAKE j \in DOMAIN s \ {k}
  <2>2. CASE j < k
    BY <1>1, <1>5, <2>2
  <2>3. CASE ~(j < k)
    <3>1. j - 1 \in 1 .. n - 1 /\ ~(j - 1 < k) /\ (j - 1) + 1 = j
      BY <1>1, <2>3
    <3>2. QED
      BY <1>5, <3>1
  <2>4. QED
    BY <2>2, <2>3
<1> HIDE DEF at
<1>9. Once(t)
  BY <1>6, <1>7 DEF Once
<1>10. \A a : Holds(t, a) <=> Holds(s, a) /\ a # s[k].allocation
  <2>1. TAKE a
  <2>2. Holds(t, a) => Holds(s, a) /\ a # s[k].allocation
    BY <1>6 DEF Holds, Once
  <2>3. Holds(s, a) /\ a # s[k].allocation => Holds(t, a)
    BY <1>8 DEF Holds
  <2>4. QED
    BY <2>2, <2>3
<1>11. QED
  BY <1>5, <1>9, <1>10 DEF t

LEMMA ConcatHolds ==
  ASSUME NEW S, NEW s \in Seq(S), NEW t \in Seq(S)
  PROVE  LET u == s \o t IN
         /\ u \in Seq(S)
         /\ \A i \in DOMAIN u : \/ \E j \in DOMAIN s : u[i] = s[j]
                                \/ \E j \in DOMAIN t : u[i] = t[j]
         /\ \A a : Holds(u, a) <=> Holds(s, a) \/ Holds(t, a)
         /\ Once(s) /\ Once(t) /\ (\A a : ~(Holds(s, a) /\ Holds(t, a))) => Once(u)
<1> DEFINE u == s \o t
           n == Len(s)
           m == Len(t)
<1>1. /\ u \in Seq(S) /\ n \in Nat /\ m \in Nat /\ DOMAIN s = 1 .. n /\ DOMAIN t = 1 .. m
      /\ DOMAIN u = 1 .. n + m
      /\ \A i \in 1 .. n + m : u[i] = IF i <= n THEN s[i] ELSE t[i - n]
  BY ConcatProperties, LenProperties
<1> HIDE DEF u, n, m
<1>2. \A i \in DOMAIN u : \/ i \in DOMAIN s /\ u[i] = s[i]
                          \/ i - n \in DOMAIN t /\ u[i] = t[i - n] /\ i \in Nat
  BY <1>1
<1>3. \A i \in DOMAIN s : i \in DOMAIN u /\ u[i] = s[i]
  BY <1>1
<1>4. \A i \in DOMAIN t : n + i \in DOMAIN u /\ u[n + i] = t[i]
  BY <1>1
<1>5. \A a : Holds(u, a) <=> Holds(s, a) \/ Holds(t, a)
  BY <1>2, <1>3, <1>4 DEF Holds
<1>6. ASSUME Once(s), Once(t), \A a : ~(Holds(s, a) /\ Holds(t, a))
      PROVE  Once(u)
  <2>1. SUFFICES ASSUME NEW i \in DOMAIN u, NEW j \in DOMAIN u,
                        u[i].allocation = u[j].allocation
                 PROVE  i = j
    BY DEF Once
  <2>2. CASE i \in DOMAIN s /\ u[i] = s[i]
    BY <1>2, <1>6, <2>1, <2>2 DEF Once, Holds
  <2>3. CASE i - n \in DOMAIN t /\ u[i] = t[i - n] /\ i \in Nat
    <3>1. j - n \in DOMAIN t /\ u[j] = t[j - n] /\ j \in Nat
      BY <1>2, <1>6, <2>1, <2>3 DEF Holds
    <3>2. i - n = j - n
      BY <1>6, <2>1, <2>3, <3>1 DEF Once
    <3>3. QED
      BY <1>1, <2>3, <3>1, <3>2
  <2>4. QED
    BY <1>2, <2>2, <2>3
<1>7. QED
  BY <1>1, <1>2, <1>5, <1>6 DEF u

(* The entries that recycling a list's allocations puts into the queue.    *)
LEMMA ReversedHolds ==
  ASSUME NEW s \in Seq(Used), NEW seq \in Nat
  PROVE  LET t == [i \in 1 .. Len(s) |->
                     [allocation |-> s[Len(s) + 1 - i].allocation, will_free_at |-> seq]]
         IN
         /\ t \in Seq(Entry)
         /\ \A i \in DOMAIN t : t[i].will_free_at = seq
         /\ \A a : Holds(t, a) <=> Holds(s, a)
         /\ Once(s) => Once(t)
<1> DEFINE n == Len(s)
           t == [i \in 1 .. n |->
                   [allocation |-> s[n + 1 - i].allocation, will_free_at |-> seq]]
<1>1. n \in Nat /\ DOMAIN s = 1 .. n /\ \A i \in 1 .. n : s[i] \in Used
  BY LenProperties, ElementOfSeq
<1> HIDE DEF n
<1>2. \A i \in 1 .. n : n + 1 - i \in 1 .. n /\ n + 1 - (n + 1 - i) = i
  BY <1>1
<1>3. \A i \in 1 .. n : t[i] \in Entry
  BY <1>1, <1>2 DEF Used, Entry
<1>4. t \in Seq(Entry) /\ DOMAIN t = 1 .. n
  <2>1. t \in [1 .. n -> Entry]
    BY <1>3
  <2> HIDE DEF t
  <2>2. QED
    BY <1>1, <2>1, SeqDef
<1>5. \A i \in 1 .. n : /\ t[i].allocation = s[n + 1 - i].allocation
                        /\ t[i].will_free_at = seq
  OBVIOUS
<1> HIDE DEF t
<1>6. \A a : Holds(t, a) <=> Holds(s, a)
  <2>1. TAKE a
  <2>2. Holds(t, a) => Holds(s, a)
    BY <1>1, <1>2, <1>4, <1>5 DEF Holds
  <2>3. ASSUME NEW i \in 1 .. n, s[i].allocation = a PROVE Holds(t, a)
    <3>1. n + 1 - i \in 1 .. n /\ t[n + 1 - i].allocation = s[n + 1 - (n + 1 - i)].allocation
      BY <1>2, <1>5
    <3>2. QED
      BY <1>2, <1>4, <2>3, <3>1 DEF Holds
  <2>4. QED
    BY <1>1, <2>2, <2>3 DEF Holds
<1>7. ASSUME Once(s), NEW i \in 1 .. n, NEW j \in 1 .. n, t[i].allocation = t[j].allocation
      PROVE  i = j
  <2>1. s[n + 1 - i].allocation = s[n + 1 - j].allocation
    BY <1>5, <1>7
  <2>2. n + 1 - i \in DOMAIN s /\ n + 1 - j \in DOMAIN s
    BY <1>1, <1>2
  <2>3. n + 1 - i = n + 1 - j
    BY <1>7, <2>1, <2>2 DEF Once
  <2>4. QED
    BY <1>1, <2>3
<1>8. Once(s) => Once(t)
  BY <1>4, <1>7 DEF Once
<1>9. QED
  BY <1>4, <1>5, <1>6, <1>8 DEF t, n

-----------------------------------------------------------------------------
(* What the operations of DynamicBuffer do to the owners.                  *)

LEMMA Typed ==
  ASSUME TypeOK
  PROVE  /\ fifo \in Seq(Entry)
         /\ \A l \in Lists : list[l] \in ListRecord /\ list[l].used \in Seq(Used)
         /\ name[1] \in Allocation /\ name[2] \in Nat /\ name = <<name[1], name[2]>>
         /\ \A i \in DOMAIN fifo : fifo[i] \in Entry
         /\ \A l \in Lists : \A i \in DOMAIN list[l].used : list[l].used[i] \in Used
<1>1. /\ fifo \in Seq(Entry)
      /\ \A l \in Lists : list[l] \in ListRecord /\ list[l].used \in Seq(Used)
  BY DEF TypeOK, Entry, Used, ListRecord
<1>2. name[1] \in Allocation /\ name[2] \in Nat /\ name = <<name[1], name[2]>>
  BY DEF TypeOK, Memory
<1>3. QED
  BY <1>1, <1>2, ElementOfSeq, LenProperties

(* An allocation comes from the head of the queue, when it is free, or it  *)
(* is new: nobody owns it any more, or yet.                                *)
LEMMA AllocateTakes ==
  ASSUME OwnerInv, maps < MaxMaps, Allocate
  PROVE  /\ Allocated \in Allocation /\ allocated' \in Allocation
         /\ allocated' <= maps + 2
         /\ FifoAfter \in Seq(Entry) /\ Once(FifoAfter)
         /\ \A a \in Allocation : Holds(FifoAfter, a) <=> Queued(a) /\ a # Allocated
         /\ ~Named(Allocated) /\ \A l \in Lists : ~Uses(l, Allocated)
         /\ \A a \in Allocation : a <= allocated' <=> a <= allocated \/ a = Allocated
         /\ \A i \in DOMAIN FifoAfter : \E j \in DOMAIN fifo : FifoAfter[i] = fifo[j]
         /\ \/ allocated < Allocated
            \/ \E j \in DOMAIN fifo : /\ fifo[j].allocation = Allocated
                                      /\ fifo[j].will_free_at <= coherent
<1>1. /\ fifo \in Seq(Entry) /\ Once(fifo) /\ allocated \in Allocation /\ maps \in Nat
      /\ allocated <= maps + 1 /\ MaxMaps \in Nat /\ maps < MaxMaps /\ name[1] \in Allocation
  BY Typed DEF OwnerInv, TypeOK, Bounded, QueuedOnce
<1>2. CASE HasFree
  <2>1. /\ fifo # <<>> /\ Allocated = Head(fifo).allocation /\ FifoAfter = Tail(fifo)
        /\ allocated' = allocated /\ Head(fifo).will_free_at <= coherent
    BY <1>2 DEF Allocated, FifoAfter, Allocate, HasFree
  <2>2. /\ Tail(fifo) \in Seq(Entry) /\ Head(fifo) \in Entry
        /\ 1 \in DOMAIN fifo /\ Head(fifo) = fifo[1]
        /\ \A i \in DOMAIN Tail(fifo) : \E j \in DOMAIN fifo : Tail(fifo)[i] = fifo[j]
        /\ Once(Tail(fifo))
        /\ \A a : Holds(Tail(fifo), a) <=> Holds(fifo, a) /\ a # Head(fifo).allocation
    BY <1>1, <2>1, TailHolds
  <2>3. Allocated \in Allocation /\ Queued(Allocated)
    BY <2>1, <2>2 DEF Entry, Queued, Holds
  <2>4. ~Named(Allocated) /\ (\A l \in Lists : ~Uses(l, Allocated)) /\ Allocated <= allocated
    BY <2>3 DEF OwnerInv, OwnersDiffer, AllocatedIsOwned
  <2>5. allocated' \in Allocation /\ allocated' <= maps + 2
    BY <1>1, <2>1 DEF Allocation
  <2>6. \A a \in Allocation : a <= allocated' <=> a <= allocated \/ a = Allocated
    BY <2>1, <2>4
  <2>7. QED
    BY <2>1, <2>2, <2>3, <2>4, <2>5, <2>6 DEF Queued
<1>3. CASE ~HasFree
  <2>1. Allocated = allocated + 1 /\ FifoAfter = fifo /\ allocated' = allocated + 1
    BY <1>3 DEF Allocated, FifoAfter, Allocate
  <2>2. Allocated \in Allocation /\ ~(Allocated <= allocated) /\ allocated < Allocated
    BY <1>1, <2>1 DEF Allocation
  <2>3. ~Queued(Allocated) /\ ~Named(Allocated) /\ \A l \in Lists : ~Uses(l, Allocated)
    BY <2>2 DEF OwnerInv, AllocatedIsOwned
  <2>4. \A a \in Allocation : a <= allocated' <=> a <= allocated \/ a = Allocated
    BY <1>1, <2>1 DEF Allocation
  <2>5. allocated' <= maps + 2
    BY <1>1, <2>1 DEF Allocation
  <2>6. QED
    BY <1>1, <2>1, <2>2, <2>3, <2>4, <2>5 DEF Queued
<1>4. QED
  BY <1>2, <1>3

(* Recycling queues what the list has collected, but for the immediate     *)
(* name, which is the resource's again.                                    *)
LEMMA RecycleQueues ==
  ASSUME OwnerInv, NEW l \in Lists, NEW seq \in Nat, Recycle(l, seq)
  PROVE  /\ fifo' \in Seq(Entry) /\ Once(fifo')
         /\ owned' \in BOOLEAN /\ (owned' <=> owned /\ ~Uses(l, name[1]))
         /\ \A a \in Allocation :
              Holds(fifo', a) <=> Queued(a) \/ (Uses(l, a) /\ ~(owned /\ a = name[1]))
         /\ \A i \in DOMAIN fifo' :
              \/ \E j \in DOMAIN fifo : fifo'[i] = fifo[j]
              \/ fifo'[i].will_free_at = seq /\ Uses(l, fifo'[i].allocation)
<1> DEFINE used == list[l].used
           names == {i \in DOMAIN used : owned /\ used[i].allocation = name[1]}
           others == IF names = {} THEN used
                     ELSE RemoveAt(used, CHOOSE i \in names : TRUE)
           freed == [i \in 1 .. Len(others) |->
                       [allocation |-> others[Len(others) + 1 - i].allocation,
                        will_free_at |-> seq]]
<1>1. /\ fifo \in Seq(Entry) /\ Once(fifo) /\ used \in Seq(Used) /\ Once(used)
      /\ owned \in BOOLEAN
  BY Typed DEF OwnerInv, TypeOK, QueuedOnce, UsedOnce
<1>2. owned' = (owned /\ names = {}) /\ fifo' = fifo \o freed
  BY DEF Recycle
<1>3. names # {} <=> owned /\ Uses(l, name[1])
  BY DEF Uses, Holds
<1>4. /\ others \in Seq(Used) /\ Once(others)
      /\ \A a : Holds(others, a) <=> Uses(l, a) /\ ~(owned /\ a = name[1])
  <2>1. CASE names = {}
    BY <1>1, <1>3, <2>1 DEF Uses
  <2>2. CASE names # {}
    <3> DEFINE k == CHOOSE i \in names : TRUE
    <3>1. k \in names
      BY <2>2
    <3>2. k \in DOMAIN used /\ used[k].allocation = name[1] /\ owned
      BY <3>1
    <3>3. others = RemoveAt(used, k)
      BY <2>2
    <3> HIDE DEF others, k, names
    <3>4. QED
      BY <1>1, <3>2, <3>3, RemoveHolds DEF Uses
  <2>3. QED
    BY <2>1, <2>2
<1> HIDE DEF names, others
<1>5. /\ freed \in Seq(Entry) /\ Once(freed)
      /\ \A i \in DOMAIN freed : freed[i].will_free_at = seq
      /\ \A a : Holds(freed, a) <=> Uses(l, a) /\ ~(owned /\ a = name[1])
  BY <1>4, ReversedHolds
<1>6. \A a : ~(Holds(fifo, a) /\ Holds(freed, a))
  <2>1. \A a : Holds(fifo, a) => a \in Allocation
    BY Typed DEF OwnerInv, Holds, Entry
  <2>2. \A a \in Allocation : ~(Queued(a) /\ Uses(l, a))
    BY DEF OwnerInv, OwnersDiffer
  <2>3. QED
    BY <1>5, <2>1, <2>2 DEF Queued
<1> HIDE DEF freed
<1>7. /\ fifo' \in Seq(Entry) /\ Once(fifo')
      /\ \A a : Holds(fifo', a) <=> Holds(fifo, a) \/ Holds(freed, a)
      /\ \A i \in DOMAIN fifo' : \/ \E j \in DOMAIN fifo : fifo'[i] = fifo[j]
                                 \/ \E j \in DOMAIN freed : fifo'[i] = freed[j]
  <2>1. fifo \in Seq(Entry) /\ freed \in Seq(Entry) /\ Once(fifo) /\ Once(freed)
    BY <1>1, <1>5
  <2>2. /\ fifo \o freed \in Seq(Entry) /\ Once(fifo \o freed)
        /\ \A a : Holds(fifo \o freed, a) <=> Holds(fifo, a) \/ Holds(freed, a)
        /\ \A i \in DOMAIN (fifo \o freed) :
             \/ \E j \in DOMAIN fifo : (fifo \o freed)[i] = fifo[j]
             \/ \E j \in DOMAIN freed : (fifo \o freed)[i] = freed[j]
    BY ONLY <1>6, <2>1, ConcatHolds
  <2>3. QED
    BY ONLY <1>2, <2>2
<1>8. \A j \in DOMAIN freed : Uses(l, freed[j].allocation)
  BY <1>5 DEF Holds
<1>9. owned' \in BOOLEAN /\ (owned' <=> owned /\ ~Uses(l, name[1]))
  BY <1>1, <1>2, <1>3 DEF OwnerInv, TypeOK
<1>10. \A a \in Allocation :
         Holds(fifo', a) <=> Queued(a) \/ (Uses(l, a) /\ ~(owned /\ a = name[1]))
  BY <1>5, <1>7 DEF Queued
<1>11. \A i \in DOMAIN fifo' :
         \/ \E j \in DOMAIN fifo : fifo'[i] = fifo[j]
         \/ fifo'[i].will_free_at = seq /\ Uses(l, fifo'[i].allocation)
  BY <1>5, <1>7, <1>8
<1>12. QED
  BY <1>7, <1>9, <1>10, <1>11

(* updateImmediateName queues the old name, unless a list owns it.         *)
LEMMA OldNameQueued ==
  ASSUME OwnerInv, NEW free \in Seq(Entry), Once(free), ~owned => ~Holds(free, name[1])
  PROVE  LET queued == FifoWithOldName(free) IN
         /\ queued \in Seq(Entry) /\ Once(queued)
         /\ \A a : Holds(queued, a) <=> Holds(free, a) \/ Named(a)
         /\ \A i \in DOMAIN queued :
              \/ \E j \in DOMAIN free : queued[i] = free[j]
              \/ queued[i].will_free_at = current /\ Named(queued[i].allocation)
<1> DEFINE e == [allocation |-> name[1], will_free_at |-> current]
<1>1. e \in Entry /\ e.allocation = name[1] /\ e.will_free_at = current
  BY Typed DEF OwnerInv, TypeOK, Entry
<1> HIDE DEF e
<1>2. /\ Append(free, e) \in Seq(Entry)
      /\ \A i \in DOMAIN Append(free, e) :
           Append(free, e)[i] = e \/ \E j \in DOMAIN free : Append(free, e)[i] = free[j]
      /\ \A a : Holds(Append(free, e), a) <=> Holds(free, a) \/ a = e.allocation
      /\ Once(free) /\ ~Holds(free, e.allocation) => Once(Append(free, e))
  BY <1>1, AppendHolds
<1>3. FifoWithOldName(free) = IF owned THEN free ELSE Append(free, e)
  BY DEF FifoWithOldName, e
<1>4. QED
  BY <1>1, <1>2, <1>3 DEF Named

-----------------------------------------------------------------------------
(* What the actions do to the lists.                                       *)

LEMMA ListTo ==
  ASSUME TypeOK, NEW l \in Lists, NEW to \in ListRecord, list' = [list EXCEPT ![l] = to]
  PROVE  /\ list' \in [Lists -> ListRecord] /\ list'[l] = to
         /\ \A k \in Lists \ {l} : list'[k] = list[k]
  BY DEF TypeOK

(* The calls that leave alone what every list has collected. *)
KeepsUsed == \A k \in Lists : list'[k].used = list[k].used

LEMMA CreateKeeps ==
  ASSUME TypeOK, NEW l \in Lists, CreateCommandList(l)
  PROVE  list' \in [Lists -> ListRecord] /\ KeepsUsed
<1> DEFINE to == [list[l] EXCEPT !.phase = "recording"]
<1>1. to \in ListRecord /\ to.used = list[l].used
  BY DEF TypeOK, ListRecord, Phases
<1>2. list' = [list EXCEPT ![l] = to]
  BY DEF CreateCommandList
<1> HIDE DEF to
<1>3. QED
  BY <1>1, <1>2, ListTo DEF KeepsUsed

LEMMA FinishKeeps ==
  ASSUME TypeOK, NEW l \in Lists, FinishCommandList(l)
  PROVE  list' \in [Lists -> ListRecord] /\ KeepsUsed
<1> DEFINE to == [list[l] EXCEPT !.phase = "finished"]
<1> list[l] \in ListRecord
  BY DEF TypeOK
<1>1. to \in ListRecord /\ to.used = list[l].used
  BY DEF ListRecord, Phases
<1>2. list' = [list EXCEPT ![l] = to]
  BY DEF FinishCommandList
<1> HIDE DEF to
<1>3. QED
  BY <1>1, <1>2, ListTo DEF KeepsUsed

LEMMA LastUsed ==
  ASSUME TypeOK, NEW l \in Lists, list[l].used # <<>>
  PROVE  /\ Len(list[l].used) \in DOMAIN list[l].used /\ Len(list[l].used) \in Nat
         /\ DOMAIN list[l].used = 1 .. Len(list[l].used)
         /\ Last(list[l].used) = list[l].used[Len(list[l].used)]
         /\ Last(list[l].used) \in Used
<1>1. list[l].used \in Seq(Used)
  BY Typed
<1>2. Len(list[l].used) \in Nat \ {0} /\ DOMAIN list[l].used = 1 .. Len(list[l].used)
  BY <1>1, EmptySeq, LenProperties
<1>3. Len(list[l].used) \in DOMAIN list[l].used
  BY <1>2
<1>4. QED
  BY <1>1, <1>2, <1>3, ElementOfSeq DEF Last

LEMMA DrawKeeps ==
  ASSUME TypeOK, NEW l \in Lists, DeferredDraw(l)
  PROVE  list' \in [Lists -> ListRecord] /\ KeepsUsed
<1> DEFINE entry == Last(list[l].used)
           to == [list[l] EXCEPT !.reads = @ \union {<<entry.allocation, entry.suballocation>>}]
<1>1. <<entry.allocation, entry.suballocation>> \in Memory
  BY LastUsed DEF DeferredDraw, Used, Memory
<1>2. list' = [list EXCEPT ![l] = to]
  BY DEF DeferredDraw
<1> HIDE DEF entry
<1>3. to \in ListRecord /\ to.used = list[l].used
  BY <1>1 DEF TypeOK, ListRecord
<1> HIDE DEF to
<1>4. QED
  BY <1>2, <1>3, ListTo DEF KeepsUsed

LEMMA ExecuteKeeps ==
  ASSUME TypeOK, NEW l \in Lists, ExecuteCommandList(l)
  PROVE  list' \in [Lists -> ListRecord] /\ KeepsUsed
<1> DEFINE executions == list[l].executions + 1
           chunks == list[l].chunks \union {current}
           to == [list[l] EXCEPT !.executions = executions, !.chunks = chunks]
<1>2. list' = [list EXCEPT ![l] = to]
  BY DEF ExecuteCommandList
<1>3. executions \in Nat /\ chunks \in SUBSET Nat
  BY DEF TypeOK, ListRecord
<1> HIDE DEF executions, chunks
<1>1. to \in ListRecord /\ to.used = list[l].used
  BY <1>3 DEF TypeOK, ListRecord
<1> HIDE DEF to
<1>4. QED
  BY <1>1, <1>2, ListTo DEF KeepsUsed

LEMMA ReleaseKeeps ==
  ASSUME TypeOK, NEW l \in Lists, list' = [list EXCEPT ![l].phase = "released"]
  PROVE  list' \in [Lists -> ListRecord] /\ KeepsUsed
<1> DEFINE to == [list[l] EXCEPT !.phase = "released"]
<1>1. to \in ListRecord /\ to.used = list[l].used
  BY DEF TypeOK, ListRecord, Phases
<1>2. list' = [list EXCEPT ![l] = to]
  OBVIOUS
<1> HIDE DEF to
<1>3. QED
  BY <1>1, <1>2, ListTo DEF KeepsUsed

LEMMA ResetChunkKeeps ==
  ASSUME TypeOK, ResetChunk
  PROVE  list' \in [Lists -> ListRecord] /\ KeepsUsed
<1> DEFINE seq == retired + 1
           others(l) == list[l].chunks \ {seq}
           freed(l) == [list[l] EXCEPT !.chunks = {}, !.phase = "resetting",
                                       !.reset_seq = current]
           kept(l) == [list[l] EXCEPT !.chunks = others(l)]
           isFreed(l) == list[l].phase = "released" /\ list[l].chunks = {seq}
<1>1. ASSUME NEW l \in Lists
      PROVE  /\ freed(l) \in ListRecord /\ freed(l).used = list[l].used
             /\ kept(l) \in ListRecord /\ kept(l).used = list[l].used
  <2>1. list[l] \in ListRecord /\ others(l) \in SUBSET Nat /\ current \in Nat
    <3>1. list[l] \in ListRecord /\ current \in Nat
      BY DEF TypeOK
    <3>2. list[l].chunks \in SUBSET Nat
      BY <3>1 DEF ListRecord
    <3>3. QED
      BY <3>1, <3>2
  <2> HIDE DEF others
  <2>2. QED
    BY <2>1 DEF ListRecord, Phases
<1>2. list' = [l \in Lists |-> IF isFreed(l) THEN freed(l) ELSE kept(l)]
  BY DEF ResetChunk
<1> HIDE DEF freed, kept, isFreed
<1>3. QED
  BY <1>1, <1>2 DEF KeepsUsed

(* A map that takes the next suballocation of the list's last allocation.  *)
LEMMA NextSubOf ==
  ASSUME OwnerInv, NEW l \in Lists, DeferredNextSub(l)
  PROVE  LET u == list[l].used
             v == list'[l].used
             n == Len(u)
         IN
         /\ list' \in [Lists -> ListRecord] /\ \A k \in Lists \ {l} : list'[k] = list[k]
         /\ v \in Seq(Used) /\ Len(v) = n /\ n \in Nat \ {0} /\ DOMAIN u = 1 .. n
         /\ DOMAIN v = DOMAIN u
         /\ \A i \in DOMAIN u : v[i].allocation = u[i].allocation /\ v[i].latest = u[i].latest
         /\ \A i \in DOMAIN u : i # n => v[i] = u[i]
         /\ v[n].suballocation = u[n].suballocation + 1 /\ u[n].suballocation + 1 < subs
         /\ list'[l].phase = list[l].phase /\ list'[l].reads = list[l].reads
         /\ list'[l].executions = list[l].executions /\ list'[l].chunks = list[l].chunks
         /\ list'[l].reset_seq = list[l].reset_seq
<1> DEFINE u == list[l].used
           n == Len(u)
           next == u[n].suballocation + 1
           e == [u[n] EXCEPT !.suballocation = next]
           v == [u EXCEPT ![n] = e]
           to == [list[l] EXCEPT !.used = v]
<1>1. TypeOK /\ u # <<>> /\ HasSuballocation(Last(u).suballocation + 1)
  BY DEF OwnerInv, DeferredNextSub, HasNextSub
<1>2. /\ u \in Seq(Used) /\ n \in Nat \ {0} /\ DOMAIN u = 1 .. n /\ n \in DOMAIN u
      /\ u[n] \in Used /\ Last(u) = u[n]
  BY <1>1, Typed, LastUsed, EmptySeq
<1>3. u[n].suballocation + 1 < subs
  BY <1>1, <1>2 DEF HasSuballocation
<1>4. /\ e \in Used /\ e.allocation = u[n].allocation /\ e.latest = u[n].latest
      /\ e.suballocation = u[n].suballocation + 1
  <2>1. next \in Nat
    BY <1>2 DEF Used
  <2> HIDE DEF next
  <2>2. e \in Used /\ e.allocation = u[n].allocation /\ e.latest = u[n].latest
        /\ e.suballocation = next
    BY <1>2, <2>1 DEF Used
  <2>3. QED
    BY <2>2 DEF next
<1>5. list' = [list EXCEPT ![l] = to]
  BY DEF DeferredNextSub
<1> HIDE DEF e
<1>6. /\ v \in Seq(Used) /\ Len(v) = n /\ DOMAIN v = DOMAIN u /\ v[n] = e
      /\ \A i \in DOMAIN u : i # n => v[i] = u[i]
  BY <1>2, <1>4, ExceptSeq
<1> HIDE DEF v
<1>7. /\ to \in ListRecord /\ to.used = v /\ to.phase = list[l].phase
      /\ to.reads = list[l].reads /\ to.executions = list[l].executions
      /\ to.chunks = list[l].chunks /\ to.reset_seq = list[l].reset_seq
  BY <1>1, <1>6 DEF TypeOK, ListRecord, Used
<1> HIDE DEF to
<1>8. /\ list' \in [Lists -> ListRecord] /\ list'[l] = to
      /\ \A k \in Lists \ {l} : list'[k] = list[k]
  BY <1>1, <1>5, <1>7, ListTo
<1> HIDE DEF u, n
<1>9. \A i \in DOMAIN u : v[i].allocation = u[i].allocation /\ v[i].latest = u[i].latest
  BY <1>4, <1>6
<1>10. QED
  BY <1>2, <1>3, <1>4, <1>6, <1>7, <1>8, <1>9 DEF u, n

(* A map that takes a new allocation, which the list collects.             *)
LEMMA RenameOf ==
  ASSUME OwnerInv, NEW l \in Lists, DeferredRename(l), Allocated \in Allocation
  PROVE  LET u == list[l].used
             v == list'[l].used
             n == Len(u)
         IN
         /\ list' \in [Lists -> ListRecord] /\ \A k \in Lists \ {l} : list'[k] = list[k]
         /\ v \in Seq(Used) /\ n \in Nat /\ DOMAIN u = 1 .. n
         /\ DOMAIN v = 1 .. n + 1 /\ Len(v) = n + 1
         /\ \A i \in DOMAIN u :
              /\ v[i].allocation = u[i].allocation /\ v[i].latest = FALSE
              /\ v[i].suballocation = u[i].suballocation
         /\ v[n + 1] = [allocation |-> Allocated, suballocation |-> 0, latest |-> IsLatest]
         /\ list'[l].phase = list[l].phase /\ list'[l].reads = list[l].reads
         /\ list'[l].executions = list[l].executions /\ list'[l].chunks = list[l].chunks
         /\ list'[l].reset_seq = list[l].reset_seq
<1> DEFINE u == list[l].used
           n == Len(u)
           older == [i \in DOMAIN u |-> [u[i] EXCEPT !.latest = FALSE]]
           e == [allocation |-> Allocated, suballocation |-> 0, latest |-> IsLatest]
           v == Append(older, e)
           to == [list[l] EXCEPT !.used = v]
<1>1. TypeOK
  BY DEF OwnerInv
<1>2. u \in Seq(Used) /\ n \in Nat /\ DOMAIN u = 1 .. n /\ \A i \in DOMAIN u : u[i] \in Used
  BY <1>1, Typed, LenProperties
<1>3. e \in Used
  BY DEF Used, IsLatest
<1>4. \A i \in DOMAIN u : /\ older[i] \in Used /\ older[i].latest = FALSE
                          /\ older[i].allocation = u[i].allocation
                          /\ older[i].suballocation = u[i].suballocation
  BY <1>2 DEF Used
<1>5. older \in Seq(Used) /\ Len(older) = n
  <2>1. older \in [1 .. n -> Used] /\ DOMAIN older = 1 .. n
    BY <1>2, <1>4
  <2> HIDE DEF older, n
  <2>2. older \in Seq(Used)
    BY <1>2, <2>1, SeqDef
  <2>3. QED
    BY <1>2, <2>1, <2>2, LenProperties
<1>6. list' = [list EXCEPT ![l] = to]
  BY DEF DeferredRename
<1> HIDE DEF e, older
<1>7. /\ v \in Seq(Used) /\ Len(v) = n + 1 /\ DOMAIN v = 1 .. n + 1
      /\ v[n + 1] = e /\ \A i \in 1 .. n : v[i] = older[i]
  BY <1>2, <1>3, <1>5, AppendProperties, LenProperties
<1> HIDE DEF v
<1>8. /\ to \in ListRecord /\ to.used = v /\ to.phase = list[l].phase
      /\ to.reads = list[l].reads /\ to.executions = list[l].executions
      /\ to.chunks = list[l].chunks /\ to.reset_seq = list[l].reset_seq
  <2>1. list[l] \in ListRecord
    BY <1>1, Typed
  <2>2. ListRecord = [phase : Phases, used : Seq(Used), reads : SUBSET Memory,
                      executions : Nat, chunks : SUBSET Nat, reset_seq : Nat]
    BY DEF ListRecord, Used
  <2>3. QED
    BY <1>7, <2>1, <2>2
<1> HIDE DEF to
<1>9. /\ list' \in [Lists -> ListRecord] /\ list'[l] = to
      /\ \A k \in Lists \ {l} : list'[k] = list[k]
  BY <1>1, <1>6, <1>8, ListTo
<1>10. list'[l].used = v
  BY <1>8, <1>9
<1>11. \A i \in DOMAIN u :
         /\ v[i].allocation = u[i].allocation /\ v[i].latest = FALSE
         /\ v[i].suballocation = u[i].suballocation
  BY <1>2, <1>4, <1>7
<1>12. QED
  BY <1>2, <1>7, <1>8, <1>9, <1>10, <1>11 DEF e

(* A list's Reset.                                                         *)
LEMMA PooledOf ==
  ASSUME TypeOK, NEW l \in Lists, list' = [list EXCEPT ![l] = PooledList]
  PROVE  /\ list' \in [Lists -> ListRecord] /\ list'[l] = PooledList
         /\ \A k \in Lists \ {l} : list'[k] = list[k]
         /\ Once(list'[l].used) /\ \A a : ~Holds(list'[l].used, a)
<1>1. PooledList \in ListRecord /\ PooledList.used = <<>>
  BY DEF PooledList, ListRecord, Phases
<1>2. DOMAIN <<>> = {}
  OBVIOUS
<1>3. QED
  BY <1>1, <1>2, ListTo DEF Once, Holds

-----------------------------------------------------------------------------
(* Every allocation has one owner.                                         *)

OwnersAre == QueuedOnce /\ UsedOnce /\ OwnersDiffer /\ AllocatedIsOwned

(* Nothing moves. *)
LEMMA OwnersStay ==
  ASSUME OwnerInv, fifo' = fifo, owned' = owned, name'[1] = name[1],
         allocated' = allocated,
         \A l \in Lists : /\ Once(list'[l].used)
                          /\ \A a \in Allocation : Holds(list'[l].used, a) <=> Uses(l, a)
  PROVE  OwnersAre'
<1>1. /\ \A a \in Allocation :
           /\ (Queued(a)' <=> Queued(a)) /\ (Named(a)' <=> Named(a))
           /\ \A l \in Lists : Uses(l, a)' <=> Uses(l, a)
      /\ QueuedOnce' /\ UsedOnce'
  BY DEF OwnerInv, Queued, Named, Uses, QueuedOnce, UsedOnce
<1>2. QED
  BY <1>1 DEF OwnerInv, OwnersAre, OwnersDiffer, AllocatedIsOwned

LEMMA OwnersStayWith ==
  ASSUME OwnerInv, fifo' = fifo, owned' = owned, name'[1] = name[1],
         allocated' = allocated, KeepsUsed
  PROVE  OwnersAre' /\ \A l \in Lists : \A i \in DOMAIN list'[l].used :
                         list'[l].used[i].suballocation < subs
<1>1. \A l \in Lists : /\ Once(list'[l].used)
                       /\ \A a \in Allocation : Holds(list'[l].used, a) <=> Uses(l, a)
  BY DEF KeepsUsed, OwnerInv, UsedOnce, Uses
<1>2. QED
  BY <1>1, OwnersStay DEF KeepsUsed, OwnerInv, Bounded

LEMMA OwnersInit == Init => OwnerInv
<1> SUFFICES ASSUME Init PROVE OwnerInv
  OBVIOUS
<1> USE DEF Init
<1>1. /\ subs \in Nat \ {0} /\ 1 \in Allocation /\ <<1, 0>> \in Memory
      /\ <<1, 0>>[1] = 1 /\ <<1, 0>>[2] = 0
  BY DEF Allocation, Memory
<1>2. \A l \in Lists : list[l] = PooledList /\ list[l].used = <<>>
  BY DEF PooledList
<1>3. DOMAIN <<>> = {} /\ <<>> \in Seq(Entry)
  OBVIOUS
<1>4. TypeOK
  <2>1. list \in [Lists -> ListRecord]
    BY DEF PooledList, ListRecord, Phases
  <2>2. reads \in [1 .. MaxSeq -> SUBSET Memory] /\ bound_sub \in [Allocation -> 0 .. subs - 1]
    BY <1>1
  <2>3. name \in Memory /\ name[2] < subs /\ owned \in BOOLEAN
    <3>1. name = <<1, 0>> /\ owned = FALSE
      OBVIOUS
    <3> HIDE DEF Init
    <3>2. name \in Memory
      BY <1>1, <3>1
    <3>3. name[2] = 0
      BY <1>1, <3>1, Zenon
    <3>4. 0 < subs
      BY <1>1
    <3>5. QED
      BY <3>1, <3>2, <3>3, <3>4
  <2>4. fifo \in Seq([allocation : Allocation, will_free_at : Nat])
    BY <1>3 DEF Entry
  <2>5. /\ allocated \in Allocation /\ bound \in Allocation
        /\ current \in 1 .. MaxSeq /\ retired \in 0 .. MaxSeq
        /\ coherent \in 0 .. MaxSeq /\ maps \in 0 .. MaxMaps
    BY <1>1
  <2>6. kind \in Kinds /\ subs \in Nat
    BY <1>1
  <2>7. QED
    BY <2>1, <2>2, <2>3, <2>4, <2>5, <2>6 DEF TypeOK
<1>5. Bounded
  BY <1>2, <1>3 DEF Bounded
<1>6. \A a \in Allocation : /\ ~Queued(a) /\ (Named(a) <=> a = 1)
                            /\ \A l \in Lists : ~Uses(l, a)
  BY <1>1, <1>2, <1>3 DEF Queued, Named, Uses, Holds
<1>7. QueuedOnce /\ UsedOnce
  BY <1>2, <1>3 DEF QueuedOnce, UsedOnce, Once
<1>8. OwnersDiffer /\ AllocatedIsOwned
  BY <1>6 DEF OwnersDiffer, AllocatedIsOwned, Allocation
<1>9. QED
  BY <1>4, <1>5, <1>7, <1>8 DEF OwnerInv

LEMMA Pair == ASSUME NEW a, NEW b PROVE <<a, b>>[1] = a /\ <<a, b>>[2] = b
  OBVIOUS

USE DEF resource, binding, queue

LEMMA DiscardNextSubOwners == ASSUME OwnerInv, DiscardNextSub PROVE OwnerInv'
<1> DEFINE next == name[2] + 1
<1>1. /\ TypeOK /\ name[1] \in Allocation /\ next \in Nat /\ next < subs
      /\ subs \in Nat /\ name' = <<name[1], next>> /\ maps < MaxMaps /\ maps' = maps + 1
      /\ bound_sub' = [bound_sub EXCEPT ![name[1]] = next]
      /\ UNCHANGED <<kind, subs, owned, fifo, allocated, list, bound, current,
                     retired, coherent, reads>>
  <2>1. /\ TypeOK /\ name[1] \in Allocation /\ name[2] \in Nat
    BY Typed DEF OwnerInv
  <2>2. subs \in Nat
    BY <2>1 DEF TypeOK
  <2>3. QED
    BY <2>1, <2>2 DEF DiscardNextSub, CountsMap, HasSuballocation
<1> HIDE DEF next
<1>2. name'[1] = name[1] /\ name'[2] = next /\ name' \in Memory
  BY <1>1, Pair DEF Memory
<1>3. bound_sub' \in [Allocation -> 0 .. subs - 1]
  BY <1>1 DEF TypeOK
<1>4. TypeOK'
  <2>1. name' \in Memory /\ name'[2] < subs' /\ maps' \in 0 .. MaxMaps
    BY <1>1, <1>2, BoundsAssumption DEF TypeOK
  <2>2. QED
    BY <1>1, <1>3, <2>1 DEF TypeOK
<1>5. Bounded'
  BY <1>1 DEF OwnerInv, Bounded, TypeOK, Allocation
<1>6. OwnersAre'
  BY <1>1, <1>2, OwnersStayWith DEF KeepsUsed
<1>7. QED
  BY <1>4, <1>5, <1>6 DEF OwnerInv, OwnersAre

LEMMA DiscardRenameOwners == ASSUME OwnerInv, DiscardRename PROVE OwnerInv'
<1> DEFINE A == Allocated
<1>1. /\ TypeOK /\ maps < MaxMaps /\ maps' = maps + 1 /\ Allocate
      /\ name' = <<A, 0>> /\ owned' = FALSE /\ fifo' = FifoWithOldName(FifoAfter)
      /\ bound' = A /\ bound_sub' = [bound_sub EXCEPT ![A] = 0]
      /\ UNCHANGED <<kind, subs, list, current, retired, coherent, reads>>
  BY DEF OwnerInv, DiscardRename, CountsMap
<1>2. /\ A \in Allocation /\ allocated' \in Allocation /\ allocated' <= maps + 2
      /\ FifoAfter \in Seq(Entry) /\ Once(FifoAfter)
      /\ \A a \in Allocation : Holds(FifoAfter, a) <=> Queued(a) /\ a # A
      /\ ~Named(A) /\ \A l \in Lists : ~Uses(l, A)
      /\ \A a \in Allocation : a <= allocated' <=> a <= allocated \/ a = A
  BY <1>1, AllocateTakes
<1>3. ~owned => ~Holds(FifoAfter, name[1])
  BY <1>1, <1>2, Typed DEF OwnerInv, OwnersDiffer, Named
<1>4. /\ fifo' \in Seq(Entry) /\ Once(fifo')
      /\ \A a : Holds(fifo', a) <=> Holds(FifoAfter, a) \/ Named(a)
  BY <1>1, <1>2, <1>3, OldNameQueued
<1> HIDE DEF A
<1>5. name'[1] = A /\ name'[2] = 0 /\ name' \in Memory
  BY <1>1, <1>2, Pair DEF Memory
<1>6. 0 < subs /\ subs \in Nat
  BY <1>1, Typed DEF TypeOK
<1>7. bound_sub' \in [Allocation -> 0 .. subs - 1]
  <2>1. 0 \in 0 .. subs - 1 /\ bound_sub \in [Allocation -> 0 .. subs - 1]
    BY <1>1, <1>6 DEF TypeOK
  <2>2. QED
    BY <1>1, <1>2, <2>1
<1>8. TypeOK'
  <2>1. name'[2] < subs' /\ bound' \in Allocation /\ owned' \in BOOLEAN
    BY <1>1, <1>2, <1>5, <1>6
  <2>2. fifo' \in Seq([allocation : Allocation, will_free_at : Nat])
    BY <1>4 DEF Entry
  <2>3. maps' \in 0 .. MaxMaps
    BY <1>1 DEF TypeOK
  <2>4. QED
    BY <1>1, <1>2, <1>5, <1>7, <2>1, <2>2, <2>3 DEF TypeOK
<1>9. Bounded'
  BY <1>1, <1>2 DEF OwnerInv, Bounded, TypeOK
<1>10. \A a \in Allocation :
         /\ (Queued(a)' <=> (Queued(a) /\ a # A) \/ Named(a))
         /\ (Named(a)' <=> a = A)
         /\ \A l \in Lists : Uses(l, a)' <=> Uses(l, a)
  BY <1>1, <1>2, <1>4, <1>5 DEF Queued, Named, Uses
<1>11. QueuedOnce' /\ UsedOnce'
  BY <1>1, <1>4 DEF OwnerInv, QueuedOnce, UsedOnce
<1>12. OwnersDiffer' /\ AllocatedIsOwned'
  BY <1>2, <1>10 DEF OwnerInv, OwnersDiffer, AllocatedIsOwned
<1>13. QED
  BY <1>8, <1>9, <1>11, <1>12 DEF OwnerInv

LEMMA DeferredRenameOwners ==
  ASSUME OwnerInv, NEW l \in Lists, DeferredRename(l) PROVE OwnerInv'
<1> DEFINE A == Allocated
           u == list[l].used
           v == list'[l].used
           n == Len(u)
<1>1. /\ TypeOK /\ maps < MaxMaps /\ maps' = maps + 1 /\ Allocate /\ fifo' = FifoAfter
      /\ UNCHANGED <<kind, subs, name, owned, bound, bound_sub, current, retired,
                     coherent, reads>>
  BY DEF OwnerInv, DeferredRename, CountsMap
<1>2. /\ A \in Allocation /\ allocated' \in Allocation /\ allocated' <= maps + 2
      /\ FifoAfter \in Seq(Entry) /\ Once(FifoAfter)
      /\ \A a \in Allocation : Holds(FifoAfter, a) <=> Queued(a) /\ a # A
      /\ ~Named(A) /\ \A k \in Lists : ~Uses(k, A)
      /\ \A a \in Allocation : a <= allocated' <=> a <= allocated \/ a = A
  BY <1>1, AllocateTakes
<1>3. /\ list' \in [Lists -> ListRecord] /\ \A k \in Lists \ {l} : list'[k] = list[k]
      /\ n \in Nat /\ DOMAIN u = 1 .. n /\ DOMAIN v = 1 .. n + 1
      /\ \A i \in DOMAIN u : /\ v[i].allocation = u[i].allocation
                             /\ v[i].suballocation = u[i].suballocation
      /\ v[n + 1].allocation = A /\ v[n + 1].suballocation = 0
  <2>1. v[n + 1] = [allocation |-> A, suballocation |-> 0, latest |-> IsLatest]
    BY <1>2, RenameOf
  <2>2. v[n + 1].allocation = A /\ v[n + 1].suballocation = 0
    BY <2>1
  <2>3. QED
    BY <1>2, <2>2, RenameOf
<1> HIDE DEF A
<1>4. \A i \in DOMAIN u : u[i].suballocation < subs
  BY DEF OwnerInv, Bounded
<1>5. 0 < subs /\ subs \in Nat
  BY <1>1, Typed DEF TypeOK
<1>6. ~Holds(u, A) /\ Once(u)
  BY <1>2 DEF Uses, OwnerInv, UsedOnce
<1>7. \A k \in Lists \ {l} : list'[k].used = list[k].used
  BY <1>3
<1> HIDE DEF u, v, n
<1>8. \A i \in DOMAIN v : i = n + 1 \/ i \in DOMAIN u
  BY <1>3
<1>9. \A i \in DOMAIN u : i \in DOMAIN v
  BY <1>3
<1>10. n + 1 \in DOMAIN v
  BY <1>3
<1>11. \A a : Holds(v, a) <=> Holds(u, a) \/ a = A
  BY <1>3, <1>8, <1>9, <1>10 DEF Holds
<1>12. Once(v)
  BY <1>3, <1>6, <1>8 DEF Holds, Once
<1>13. \A i \in DOMAIN v : v[i].suballocation < subs
  BY <1>3, <1>4, <1>5, <1>8
<1>14. TypeOK'
  BY <1>1, <1>2, <1>3 DEF TypeOK, Entry
<1>15. Bounded'
  <2>1. \A k \in Lists : \A i \in DOMAIN list'[k].used : list'[k].used[i].suballocation < subs
    BY <1>7, <1>13 DEF v, OwnerInv, Bounded
  <2>2. maps \in Nat
    BY <1>1 DEF TypeOK
  <2>3. allocated' <= maps' + 1
    BY ONLY <1>1, <1>2, <2>2
  <2>4. subs' = subs
    BY <1>1
  <2>5. QED
    BY ONLY <2>1, <2>3, <2>4 DEF Bounded
<1>16. \A a \in Allocation :
         /\ (Queued(a)' <=> Queued(a) /\ a # A) /\ (Named(a)' <=> Named(a))
         /\ \A k \in Lists : Uses(k, a)' <=> Uses(k, a) \/ (k = l /\ a = A)
  <2>1. TAKE a \in Allocation
  <2>2. (Queued(a)' <=> Queued(a) /\ a # A) /\ (Named(a)' <=> Named(a))
    BY <1>1, <1>2 DEF Queued, Named
  <2>3. Uses(l, a)' <=> Uses(l, a) \/ a = A
    BY <1>11 DEF u, v, Uses
  <2>4. \A k \in Lists \ {l} : Uses(k, a)' <=> Uses(k, a)
    BY <1>7 DEF Uses
  <2>5. QED
    BY <2>2, <2>3, <2>4
<1>17. QueuedOnce' /\ UsedOnce'
  <2>1. \A k \in Lists : Once(list'[k].used)
    BY <1>7, <1>12 DEF v, OwnerInv, UsedOnce
  <2>2. QED
    BY <1>1, <1>2, <2>1 DEF QueuedOnce, UsedOnce
<1>18. OwnersDiffer' /\ AllocatedIsOwned'
  BY <1>2, <1>16 DEF OwnerInv, OwnersDiffer, AllocatedIsOwned
<1>19. QED
  BY <1>14, <1>15, <1>17, <1>18 DEF OwnerInv

LEMMA DeferredNextSubOwners ==
  ASSUME OwnerInv, NEW l \in Lists, DeferredNextSub(l) PROVE OwnerInv'
<1> DEFINE u == list[l].used
           v == list'[l].used
           n == Len(u)
<1>1. /\ TypeOK /\ maps < MaxMaps /\ maps' = maps + 1
      /\ UNCHANGED <<kind, subs, name, owned, fifo, allocated, bound, bound_sub,
                     current, retired, coherent, reads>>
  BY DEF OwnerInv, DeferredNextSub, CountsMap
<1>2. /\ list' \in [Lists -> ListRecord] /\ \A k \in Lists \ {l} : list'[k] = list[k]
      /\ DOMAIN v = DOMAIN u
      /\ \A i \in DOMAIN u : v[i].allocation = u[i].allocation
      /\ \A i \in DOMAIN u : i # n => v[i] = u[i]
      /\ v[n].suballocation = u[n].suballocation + 1 /\ u[n].suballocation + 1 < subs
  BY NextSubOf
<1>3. \A i \in DOMAIN u : u[i].suballocation < subs
  BY DEF OwnerInv, Bounded
<1>4. \A k \in Lists \ {l} : list'[k].used = list[k].used
  BY <1>2
<1>5. Once(u)
  BY DEF OwnerInv, UsedOnce
<1> HIDE DEF u, v, n
<1>6. Once(v) /\ \A a : Holds(v, a) <=> Holds(u, a)
  BY <1>2, <1>5 DEF Once, Holds
<1>7. \A i \in DOMAIN v : v[i].suballocation < subs
  BY <1>2, <1>3
<1>8. \A k \in Lists :
        /\ Once(list'[k].used) /\ \A a : Holds(list'[k].used, a) <=> Uses(k, a)
        /\ \A i \in DOMAIN list'[k].used : list'[k].used[i].suballocation < subs
  BY <1>4, <1>6, <1>7 DEF u, v, Uses, OwnerInv, UsedOnce, Bounded
<1>9. TypeOK'
  BY <1>1, <1>2 DEF TypeOK
<1>10. Bounded'
  <2>1. allocated \in Nat /\ maps \in Nat /\ allocated <= maps + 1
    BY <1>1 DEF OwnerInv, Bounded, TypeOK, Allocation
  <2>2. allocated' <= maps' + 1 /\ subs' = subs
    BY ONLY <1>1, <2>1
  <2>3. QED
    BY ONLY <1>8, <2>2 DEF Bounded
<1>11. OwnersAre'
  BY <1>1, <1>8, OwnersStay
<1>12. QED
  BY <1>9, <1>10, <1>11 DEF OwnerInv, OwnersAre

(* What was recorded in the list leaves a suballocation bound in each      *)
(* allocation the list has used.                                           *)
LEMMA BindsTyped ==
  ASSUME OwnerInv, NEW l \in Lists, BindsLast(list[l].used)
  PROVE  /\ bound' \in Allocation /\ bound_sub' \in [Allocation -> 0 .. subs - 1]
         /\ \A a \in Allocation : ~Uses(l, a) => bound_sub'[a] = bound_sub[a]
         /\ \A i \in DOMAIN list[l].used :
              bound_sub'[list[l].used[i].allocation] = list[l].used[i].suballocation
<1> DEFINE used == list[l].used
           at(a) == CHOOSE i \in DOMAIN used : used[i].allocation = a
           sub(a) == IF \E i \in DOMAIN used : used[i].allocation = a
                       THEN used[at(a)].suballocation ELSE bound_sub[a]
<1>1. /\ TypeOK /\ Once(used) /\ \A i \in DOMAIN used : used[i].suballocation < subs
      /\ bound_sub \in [Allocation -> 0 .. subs - 1] /\ bound \in Allocation
      /\ subs \in Nat
  BY DEF OwnerInv, UsedOnce, Bounded, TypeOK
<1>2. \A i \in DOMAIN used : used[i] \in Used
  BY <1>1, Typed
<1>3. bound_sub' = [a \in Allocation |-> sub(a)]
  BY DEF BindsLast
<1>4. bound' \in Allocation
  BY <1>1, LastUsed DEF BindsLast, Used
<1>5. \A a : Holds(used, a) => at(a) \in DOMAIN used /\ used[at(a)].allocation = a
  BY DEF Holds
<1>6. ASSUME NEW i \in DOMAIN used
      PROVE  at(used[i].allocation) = i /\ Holds(used, used[i].allocation)
  BY <1>1, <1>5 DEF Holds, Once
<1>7. \A a : sub(a) = IF Holds(used, a) THEN used[at(a)].suballocation ELSE bound_sub[a]
  BY DEF Holds
<1>8. \A i \in DOMAIN used : used[i].suballocation \in 0 .. subs - 1
  BY <1>1, <1>2 DEF Used
<1> HIDE DEF used, at, sub
<1>9. \A a \in Allocation : sub(a) \in 0 .. subs - 1
  BY <1>1, <1>5, <1>7, <1>8
<1>10. \A i \in DOMAIN used : sub(used[i].allocation) = used[i].suballocation
  BY <1>6, <1>7
<1>11. \A a \in Allocation : ~Holds(used, a) => sub(a) = bound_sub[a]
  BY <1>7
<1>12. \A i \in DOMAIN used : used[i].allocation \in Allocation
  BY <1>2 DEF Used
<1>13. QED
  BY <1>3, <1>4, <1>9, <1>10, <1>11, <1>12 DEF used, Uses

(* What TakesName does to name and queue: nothing, or the resource gets    *)
(* the name of an allocation of the list.                                  *)
LEMMA NameTaken ==
  ASSUME OwnerInv, NEW l \in Lists, TakesName(list[l].used)
  PROVE  \/ /\ UNCHANGED <<name, owned, fifo>>
            /\ \A i \in DOMAIN list[l].used : ~list[l].used[i].latest
         \/ /\ owned' = TRUE /\ fifo' = FifoWithOldName(fifo)
            /\ \E i \in DOMAIN list[l].used :
                 /\ list[l].used[i].latest
                 /\ name' = <<list[l].used[i].allocation, list[l].used[i].suballocation>>
<1> DEFINE used == list[l].used
           latest == {i \in DOMAIN used : used[i].latest}
<1>1. CASE latest = {}
  <2>1. UNCHANGED <<name, owned, fifo>>
    BY <1>1 DEF TakesName
  <2>2. QED
    BY <1>1, <2>1
<1>2. CASE latest # {}
  BY <1>2 DEF TakesName
<1>3. QED
  BY <1>1, <1>2

LEMMA ExecuteOwners ==
  ASSUME OwnerInv, NEW l \in Lists, ExecuteCommandList(l) PROVE OwnerInv'
<1> DEFINE used == list[l].used
<1>1. /\ TypeOK /\ TakesName(used) /\ BindsLast(used)
      /\ reads' = [reads EXCEPT ![current] = @ \union list[l].reads]
      /\ UNCHANGED <<kind, subs, allocated, current, retired, coherent, maps>>
  BY DEF OwnerInv, ExecuteCommandList
<1>2. list' \in [Lists -> ListRecord] /\ KeepsUsed
  BY <1>1, ExecuteKeeps
<1>3. /\ bound' \in Allocation /\ bound_sub' \in [Allocation -> 0 .. subs - 1]
  BY <1>1, BindsTyped
<1>4. list[l].reads \in SUBSET Memory /\ current \in 1 .. MaxSeq
  BY <1>1 DEF TypeOK, ListRecord
<1>5. reads' \in [1 .. MaxSeq -> SUBSET Memory]
  BY <1>1, <1>4 DEF TypeOK
<1>6. Bounded'
  BY <1>1, <1>2 DEF OwnerInv, Bounded, KeepsUsed
<1>7. CASE UNCHANGED <<name, owned, fifo>>
  <2>1. TypeOK'
    BY <1>1, <1>2, <1>3, <1>5, <1>7 DEF TypeOK
  <2>2. OwnersAre'
    BY <1>1, <1>2, <1>7, OwnersStayWith
  <2>3. QED
    BY <1>6, <2>1, <2>2 DEF OwnerInv, OwnersAre
<1>8. CASE /\ owned' = TRUE /\ fifo' = FifoWithOldName(fifo)
           /\ \E i \in DOMAIN used :
                name' = <<used[i].allocation, used[i].suballocation>>
  <2>1. PICK i \in DOMAIN used : name' = <<used[i].allocation, used[i].suballocation>>
    BY <1>8
  <2>2. used[i] \in Used /\ used[i].suballocation < subs
    BY <1>1, Typed DEF OwnerInv, Bounded
  <2>3. name' \in Memory /\ name'[2] = used[i].suballocation
    BY <2>1, <2>2, Pair DEF Used, Memory
  <2>4. ~owned => ~Holds(fifo, name[1])
    BY <1>1, Typed DEF OwnerInv, OwnersDiffer, Named, Queued
  <2>5. /\ fifo' \in Seq(Entry) /\ Once(fifo')
        /\ \A a : Holds(fifo', a) <=> Holds(fifo, a) \/ Named(a)
    BY <1>1, <1>8, <2>4, Typed, OldNameQueued DEF OwnerInv, QueuedOnce
  <2>6. TypeOK'
    <3>1. name'[2] < subs' /\ owned' \in BOOLEAN
      BY <1>1, <1>8, <2>2, <2>3
    <3>2. fifo' \in Seq([allocation : Allocation, will_free_at : Nat])
      BY <2>5 DEF Entry
    <3>3. QED
      BY <1>1, <1>2, <1>3, <1>5, <2>3, <3>1, <3>2 DEF TypeOK
  <2>7. \A a \in Allocation :
          /\ (Queued(a)' <=> Queued(a) \/ Named(a)) /\ ~Named(a)'
          /\ \A k \in Lists : Uses(k, a)' <=> Uses(k, a)
    BY <1>2, <1>8, <2>5 DEF Queued, Named, Uses, KeepsUsed
  <2>8. QueuedOnce' /\ UsedOnce'
    BY <1>2, <2>5 DEF QueuedOnce, UsedOnce, KeepsUsed, OwnerInv
  <2>9. OwnersDiffer' /\ AllocatedIsOwned'
    BY <1>1, <2>7 DEF OwnerInv, OwnersDiffer, AllocatedIsOwned
  <2>10. QED
    BY <1>6, <2>6, <2>8, <2>9 DEF OwnerInv
<1>9. QED
  BY <1>1, <1>7, <1>8, NameTaken

(* A list returns to the pool, and what it has used to the queue.          *)
LEMMA PooledOwners ==
  ASSUME OwnerInv, NEW l \in Lists, NEW seq \in Nat, Recycle(l, seq),
         list' = [list EXCEPT ![l] = PooledList],
         UNCHANGED <<resource, name, allocated, binding, queue, reads, maps>>
  PROVE  OwnerInv'
<1>1. /\ TypeOK
      /\ UNCHANGED <<kind, subs, name, allocated, bound, bound_sub, current, retired,
                     coherent, reads, maps>>
  BY DEF OwnerInv
<1>2. /\ list' \in [Lists -> ListRecord]
      /\ \A k \in Lists \ {l} : list'[k].used = list[k].used
      /\ Once(list'[l].used) /\ \A a : ~Holds(list'[l].used, a)
  BY <1>1, PooledOf
<1>3. /\ fifo' \in Seq(Entry) /\ Once(fifo') /\ owned' \in BOOLEAN
      /\ (owned' <=> owned /\ ~Uses(l, name[1]))
      /\ \A a \in Allocation :
           Holds(fifo', a) <=> Queued(a) \/ (Uses(l, a) /\ ~(owned /\ a = name[1]))
  BY RecycleQueues
<1>4. TypeOK'
  BY <1>1, <1>2, <1>3 DEF TypeOK, Entry
<1>5. DOMAIN list'[l].used = {}
  <2>1. list'[l].used = <<>>
    BY <1>1, PooledOf DEF PooledList
  <2>2. QED
    BY <2>1
<1>6. \A k \in Lists : \A i \in DOMAIN list'[k].used : list'[k].used[i].suballocation < subs
  BY <1>2, <1>5 DEF OwnerInv, Bounded
<1>7. Bounded'
  BY <1>1, <1>6 DEF OwnerInv, Bounded
<1>8. \A a \in Allocation :
        /\ (Queued(a)' <=> Queued(a) \/ (Uses(l, a) /\ ~(owned /\ a = name[1])))
        /\ (Named(a)' <=> Named(a) \/ (owned /\ a = name[1] /\ Uses(l, a)))
        /\ \A k \in Lists : Uses(k, a)' <=> Uses(k, a) /\ k # l
  <2>1. TAKE a \in Allocation
  <2>2. Queued(a)' <=> Queued(a) \/ (Uses(l, a) /\ ~(owned /\ a = name[1]))
    BY <1>3 DEF Queued
  <2>3. Named(a)' <=> Named(a) \/ (owned /\ a = name[1] /\ Uses(l, a))
    BY <1>1, <1>3 DEF Named
  <2>4. \A k \in Lists : Uses(k, a)' <=> Uses(k, a) /\ k # l
    BY <1>2 DEF Uses
  <2>5. QED
    BY <2>2, <2>3, <2>4
<1>9. QueuedOnce' /\ UsedOnce'
  BY <1>2, <1>3 DEF OwnerInv, QueuedOnce, UsedOnce
<1>10. AllocatedIsOwned'
  BY <1>1, <1>8 DEF OwnerInv, AllocatedIsOwned
<1>11. OwnersDiffer'
  BY <1>8 DEF OwnerInv, OwnersDiffer
<1>12. QED
  BY <1>4, <1>7, <1>9, <1>10, <1>11 DEF OwnerInv

LEMMA ReleaseOwners ==
  ASSUME OwnerInv, NEW l \in Lists, Release(l) PROVE OwnerInv'
<1>1. TypeOK /\ UNCHANGED <<resource, name, allocated, binding, queue, reads, maps>>
  BY DEF OwnerInv, Release
<1>2. CASE list[l].chunks = {}
  <2>1. list' = [list EXCEPT ![l] = PooledList] /\ Recycle(l, current)
    BY <1>2 DEF Release
  <2>2. current \in Nat
    BY <1>1 DEF TypeOK
  <2>3. QED
    BY <1>1, <2>1, <2>2, PooledOwners
<1>3. CASE list[l].chunks # {}
  <2>1. list' = [list EXCEPT ![l].phase = "released"] /\ UNCHANGED <<owned, fifo>>
    BY <1>3 DEF Release
  <2>2. list' \in [Lists -> ListRecord] /\ KeepsUsed
    BY <1>1, <2>1, ReleaseKeeps
  <2>3. TypeOK'
    BY <1>1, <2>1, <2>2 DEF TypeOK
  <2>4. OwnersAre' /\ Bounded'
    BY <1>1, <2>1, <2>2, OwnersStayWith DEF OwnerInv, Bounded
  <2>5. QED
    BY <2>3, <2>4 DEF OwnerInv, OwnersAre
<1>4. QED
  BY <1>2, <1>3

LEMMA ResetListOwners ==
  ASSUME OwnerInv, NEW l \in Lists, ResetList(l) PROVE OwnerInv'
<1>1. list[l].reset_seq \in Nat
  BY DEF OwnerInv, TypeOK, ListRecord
<1>2. QED
  BY <1>1, PooledOwners DEF ResetList

(* The steps that touch neither owners nor names.                          *)
LEMMA QuietOwners ==
  ASSUME OwnerInv,
         \/ Draw \/ Commit \/ ResetChunk \/ SignalCoherent
         \/ \E l \in Lists : \/ CreateCommandList(l) \/ DeferredDraw(l)
                             \/ FinishCommandList(l)
  PROVE  OwnerInv' /\ KeepsUsed
<1>1. /\ TypeOK
      /\ UNCHANGED <<kind, subs, name, owned, fifo, allocated, bound, bound_sub, maps>>
  BY DEF OwnerInv, Draw, Commit, ResetChunk, SignalCoherent, CreateCommandList,
         DeferredDraw, FinishCommandList
<1>2. list' \in [Lists -> ListRecord] /\ KeepsUsed
  <2>1. CASE UNCHANGED list
    BY <1>1, <2>1 DEF TypeOK, KeepsUsed
  <2>2. CASE \E l \in Lists : CreateCommandList(l) \/ DeferredDraw(l) \/ FinishCommandList(l)
    BY <1>1, <2>2, CreateKeeps, DrawKeeps, FinishKeeps
  <2>3. CASE ResetChunk
    BY <1>1, <2>3, ResetChunkKeeps
  <2>4. QED
    BY <2>1, <2>2, <2>3 DEF Draw, Commit, SignalCoherent
<1>3. /\ current' \in 1 .. MaxSeq /\ retired' \in 0 .. MaxSeq /\ coherent' \in 0 .. MaxSeq
  <2>1. /\ current \in 1 .. MaxSeq /\ retired \in 0 .. MaxSeq
        /\ coherent \in 0 .. MaxSeq /\ MaxSeq \in Nat
    BY <1>1 DEF TypeOK
  <2>2. CASE Commit
    BY <2>1, <2>2 DEF Commit
  <2>3. CASE ResetChunk
    <3>1. /\ retired + 1 < current /\ retired' = retired + 1
          /\ UNCHANGED <<current, coherent>>
      BY <2>3 DEF ResetChunk
    <3>2. QED
      BY <2>1, <3>1
  <2>4. CASE SignalCoherent
    BY <2>1, <2>4 DEF SignalCoherent
  <2>5. CASE UNCHANGED queue
    BY <2>1, <2>5
  <2>6. QED
    BY <2>2, <2>3, <2>4, <2>5 DEF Draw, CreateCommandList, DeferredDraw, FinishCommandList
<1>4. reads' \in [1 .. MaxSeq -> SUBSET Memory]
  <2>1. CASE Draw
    <3>1. current \in 1 .. MaxSeq /\ <<bound, bound_sub[bound]>> \in Memory
      BY <1>1 DEF TypeOK, Memory
    <3>2. QED
      BY <1>1, <2>1, <3>1 DEF TypeOK, Draw
  <2>2. CASE ResetChunk
    BY <1>1, <2>2 DEF TypeOK, ResetChunk
  <2>3. CASE UNCHANGED reads
    BY <1>1, <2>3 DEF TypeOK
  <2>4. QED
    BY <2>1, <2>2, <2>3 DEF Commit, SignalCoherent, CreateCommandList, DeferredDraw,
                            FinishCommandList
<1>5. TypeOK'
  BY <1>1, <1>2, <1>3, <1>4 DEF TypeOK
<1>6. OwnersAre' /\ Bounded'
  BY <1>1, <1>2, OwnersStayWith DEF OwnerInv, Bounded
<1>7. QED
  BY <1>2, <1>5, <1>6 DEF OwnerInv, OwnersAre

(* The allocations are owned as OwnerInv says, for any number of lists and *)
(* maps, in buffers and textures alike.                                    *)
THEOREM OwnerInvariance == Spec => []OwnerInv
<1>1. OwnerInv /\ [Next]_vars => OwnerInv'
  <2>1. SUFFICES ASSUME OwnerInv, [Next]_vars PROVE OwnerInv'
    OBVIOUS
  <2>2. CASE Immediate
    BY <2>1, <2>2, DiscardNextSubOwners, DiscardRenameOwners, QuietOwners DEF Immediate
  <2>3. CASE Finishing
    BY <2>1, <2>3, ResetListOwners, QuietOwners DEF Finishing
  <2>4. ASSUME NEW l \in Lists, ListCall(l) PROVE OwnerInv'
    BY <2>1, <2>4, QuietOwners, DeferredNextSubOwners, DeferredRenameOwners,
       ExecuteOwners, ReleaseOwners DEF ListCall
  <2>5. CASE UNCHANGED vars
    BY <2>1, <2>5 DEF vars, OwnerInv, TypeOK, Bounded, QueuedOnce, UsedOnce, OwnersDiffer,
       AllocatedIsOwned, Queued, Named, Uses, Holds, Once
  <2>6. QED
    BY <2>1, <2>2, <2>3, <2>4, <2>5 DEF Next
<1>2. QED
  BY <1>1, OwnersInit, PTL DEF Spec

-----------------------------------------------------------------------------
(* Counting: a set that has at most one member.                            *)

LEMMA AtMostOne ==
  ASSUME NEW S, \A x, y \in S : x = y
  PROVE  Cardinality(S) = IF S = {} THEN 0 ELSE 1
<1>1. CASE S = {}
  BY <1>1, FS_EmptySet
<1>2. CASE S # {}
  <2>1. PICK x \in S : TRUE
    BY <1>2
  <2>2. S = {x}
    BY <2>1
  <2>3. QED
    BY <1>2, <2>2, FS_Singleton
<1>3. QED
  BY <1>1, <1>2

LEMMA OneOwnerOf == ASSUME OwnerInv, NEW a \in 1 .. allocated PROVE Owners(a) = 1
<1>1. a \in Allocation /\ a <= allocated
  BY DEF OwnerInv, TypeOK, Allocation
<1>2. Queued(a) \/ Named(a) \/ \E l \in Lists : Uses(l, a)
  BY <1>1 DEF OwnerInv, AllocatedIsOwned
<1>3. /\ ~(Queued(a) /\ Named(a))
      /\ \A l \in Lists : ~(Uses(l, a) /\ (Queued(a) \/ Named(a)))
      /\ \A k, l \in Lists : Uses(k, a) /\ Uses(l, a) => k = l
  BY <1>1 DEF OwnerInv, OwnersDiffer
<1> DEFINE Q == {i \in DOMAIN fifo : fifo[i].allocation = a}
           U == {l \in Lists : \E i \in DOMAIN list[l].used : list[l].used[i].allocation = a}
<1>4. Cardinality(Q) = IF Queued(a) THEN 1 ELSE 0
  <2>1. \A x, y \in Q : x = y
    BY DEF OwnerInv, QueuedOnce, Once
  <2>2. Q = {} <=> ~Queued(a)
    BY DEF Queued, Holds
  <2> HIDE DEF Q
  <2>3. QED
    BY <2>1, <2>2, AtMostOne
<1>5. Cardinality(U) = IF \E l \in Lists : Uses(l, a) THEN 1 ELSE 0
  <2>1. \A l : l \in U <=> l \in Lists /\ Uses(l, a)
    BY DEF Uses, Holds
  <2> HIDE DEF U
  <2>2. QED
    BY <1>3, <2>1, AtMostOne
<1>6. Owners(a) = Cardinality(Q) + (IF Named(a) THEN 1 ELSE 0) + Cardinality(U)
  BY DEF Owners, Named
<1> HIDE DEF Q, U
<1>7. QED
  BY <1>2, <1>3, <1>4, <1>5, <1>6

(* Every allocation is in the queue, the name of the resource, or in one   *)
(* list, and only once: however lists are executed, released and recycled. *)
THEOREM AllocationsHaveOneOwner == Spec => []OneOwner
<1>1. OwnerInv => OneOwner
  BY OneOwnerOf DEF OneOwner
<1>2. QED
  BY <1>1, OwnerInvariance, PTL

(* Every variable has its type; no suballocation is mapped that the        *)
(* allocation does not have.                                               *)
THEOREM TypeInvariance == Spec => []TypeOK
<1>1. OwnerInv => TypeOK
  BY DEF OwnerInv
<1>2. QED
  BY <1>1, OwnerInvariance, PTL

-----------------------------------------------------------------------------
(* Bindings.                                                               *)

OnlyBuffers == Kinds = {"buffer"}

LEMMA LatestStays == ASSUME LatestIsLast, KeepsUsed PROVE LatestIsLast'
  BY DEF LatestIsLast, KeepsUsed

LEMMA LatestInitially ==
  ASSUME Init PROVE LatestIsLast /\ NoOverwriteIsBound
<1>1. \A l \in Lists : list[l].used = <<>>
  BY DEF Init, PooledList
<1>2. DOMAIN <<>> = {}
  OBVIOUS
<1>3. LatestIsLast
  BY <1>1, <1>2 DEF LatestIsLast
<1>4. NoOverwriteIsBound
  BY DEF Init, NoOverwriteIsBound, Allocation
<1>5. QED
  BY <1>3, <1>4

LEMMA LatestNextSub ==
  ASSUME BoundInv, NEW l \in Lists, DeferredNextSub(l) PROVE LatestIsLast'
<1> DEFINE u == list[l].used
           v == list'[l].used
<1>1. /\ \A k \in Lists \ {l} : list'[k] = list[k]
      /\ DOMAIN v = DOMAIN u /\ Len(v) = Len(u)
      /\ \A i \in DOMAIN u : v[i].latest = u[i].latest
  BY NextSubOf DEF BoundInv
<1>2. \A i \in DOMAIN u : u[i].latest <=> i = Len(u)
  BY DEF BoundInv, LatestIsLast
<1> HIDE DEF u, v
<1>3. \A i \in DOMAIN v : v[i].latest <=> i = Len(v)
  BY <1>1, <1>2
<1>4. QED
  BY <1>1, <1>3 DEF v, BoundInv, LatestIsLast

LEMMA LatestRename ==
  ASSUME OnlyBuffers, BoundInv, NEW l \in Lists, DeferredRename(l) PROVE LatestIsLast'
<1> DEFINE u == list[l].used
           v == list'[l].used
           n == Len(u)
<1>1. Allocated \in Allocation /\ IsLatest = TRUE
  BY AllocateTakes DEF BoundInv, OwnerInv, TypeOK, OnlyBuffers, IsLatest, DeferredRename,
     CountsMap
<1>2. /\ \A k \in Lists \ {l} : list'[k] = list[k]
      /\ n \in Nat /\ DOMAIN u = 1 .. n /\ DOMAIN v = 1 .. n + 1 /\ Len(v) = n + 1
      /\ \A i \in DOMAIN u : v[i].latest = FALSE
  BY <1>1, RenameOf DEF BoundInv
<1>3. v[n + 1].latest = TRUE
  <2>1. v[n + 1] = [allocation |-> Allocated, suballocation |-> 0, latest |-> IsLatest]
    BY <1>1, RenameOf DEF BoundInv
  <2>2. QED
    BY <1>1, <2>1
<1> HIDE DEF u, v, n
<1>4. \A i \in DOMAIN v : i = n + 1 \/ (i \in DOMAIN u /\ i # n + 1)
  BY <1>2
<1>5. \A i \in DOMAIN v : v[i].latest <=> i = Len(v)
  BY <1>2, <1>3, <1>4
<1>6. QED
  BY <1>2, <1>5 DEF v, BoundInv, LatestIsLast

LEMMA LatestPooled ==
  ASSUME BoundInv, NEW l \in Lists, list' = [list EXCEPT ![l] = PooledList]
  PROVE  LatestIsLast'
<1>1. list'[l].used = <<>> /\ \A k \in Lists \ {l} : list'[k] = list[k]
  BY PooledOf DEF BoundInv, OwnerInv, PooledList
<1>2. DOMAIN <<>> = {}
  OBVIOUS
<1>3. QED
  BY <1>1, <1>2 DEF BoundInv, LatestIsLast

(* A list that has used the resource leaves its last allocation bound, and *)
(* that is the one marked as the latest.                                   *)
LEMMA BoundExecute ==
  ASSUME BoundInv, NEW l \in Lists, TakesName(list[l].used), BindsLast(list[l].used)
  PROVE  NoOverwriteIsBound'
<1> DEFINE used == list[l].used
<1>1. OwnerInv /\ TypeOK /\ \A i \in DOMAIN used : used[i].latest <=> i = Len(used)
  BY DEF BoundInv, OwnerInv, LatestIsLast
<1>2. /\ \A i \in DOMAIN used : bound_sub'[used[i].allocation] = used[i].suballocation
      /\ \A a \in Allocation : ~Uses(l, a) => bound_sub'[a] = bound_sub[a]
  BY <1>1, BindsTyped
<1>3. CASE used = <<>>
  <2>1. DOMAIN used = {} /\ bound' = bound /\ bound \in Allocation
    BY <1>1, <1>3 DEF BindsLast, TypeOK
  <2>2. bound_sub'[bound] = bound_sub[bound]
    BY <1>2, <2>1 DEF Uses, Holds
  <2>3. UNCHANGED name
    BY <1>1, <2>1, NameTaken
  <2>4. QED
    BY <2>1, <2>2, <2>3 DEF BoundInv, NoOverwriteIsBound
<1>4. CASE used # <<>>
  <2>1. Len(used) \in DOMAIN used /\ Last(used) = used[Len(used)]
    BY <1>1, <1>4, LastUsed
  <2>2. bound' = used[Len(used)].allocation
    BY <1>4, <2>1 DEF BindsLast
  <2>3. name' = <<used[Len(used)].allocation, used[Len(used)].suballocation>>
    BY <1>1, <2>1, NameTaken
  <2>4. QED
    BY <1>2, <2>1, <2>2, <2>3 DEF NoOverwriteIsBound
<1>5. QED
  BY <1>3, <1>4

LEMMA BoundStep ==
  ASSUME OnlyBuffers, BoundInv, [Next]_vars, OwnerInv'
  PROVE  BoundInv'
<1>1. OwnerInv /\ LatestIsLast /\ NoOverwriteIsBound /\ TypeOK
  BY DEF BoundInv, OwnerInv
<1>2. CASE Immediate
  <2>1. CASE DiscardNextSub
    <3>1. /\ KeepsUsed /\ bound' = bound /\ name' = <<name[1], name[2] + 1>>
          /\ bound_sub' = [bound_sub EXCEPT ![name[1]] = name[2] + 1]
      BY <2>1 DEF DiscardNextSub, KeepsUsed
    <3>2. name = <<bound, bound_sub[bound]>> /\ bound \in Allocation
          /\ bound_sub \in [Allocation -> 0 .. subs - 1]
      BY <1>1 DEF NoOverwriteIsBound, TypeOK
    <3>3. name[1] = bound
      BY <3>2, Pair
    <3>4. name' = <<bound', bound_sub'[bound']>>
      BY <3>1, <3>2, <3>3
    <3>5. QED
      BY <1>1, <3>1, <3>4, LatestStays DEF BoundInv, NoOverwriteIsBound
  <2>2. CASE DiscardRename
    <3>1. KeepsUsed /\ Allocated \in Allocation
      BY <1>1, <2>2, AllocateTakes DEF DiscardRename, CountsMap, KeepsUsed
    <3>2. name' = <<bound', bound_sub'[bound']>>
      BY <1>1, <2>2, <3>1 DEF DiscardRename, TypeOK
    <3>3. QED
      BY <1>1, <3>1, <3>2, LatestStays DEF BoundInv, NoOverwriteIsBound
  <2>3. CASE Draw \/ Commit
    BY <1>1, <2>3, LatestStays DEF Draw, Commit, KeepsUsed, BoundInv, NoOverwriteIsBound
  <2>4. QED
    BY <1>2, <2>1, <2>2, <2>3 DEF Immediate
<1>3. CASE Finishing
  <2>1. UNCHANGED <<name, bound, bound_sub>>
    BY <1>3 DEF Finishing, ResetChunk, SignalCoherent, ResetList
  <2>2. LatestIsLast'
    BY <1>1, <1>3, QuietOwners, LatestStays, LatestPooled DEF Finishing, ResetList
  <2>3. QED
    BY <1>1, <2>1, <2>2 DEF BoundInv, NoOverwriteIsBound
<1>4. ASSUME NEW l \in Lists, ListCall(l) PROVE BoundInv'
  <2>1. LatestIsLast'
    <3>1. CASE Release(l)
      BY <1>1, <3>1, LatestPooled, ReleaseKeeps, LatestStays DEF Release
    <3>2. CASE ExecuteCommandList(l)
      BY <1>1, <3>2, ExecuteKeeps, LatestStays
    <3>3. CASE CreateCommandList(l) \/ DeferredDraw(l) \/ FinishCommandList(l)
      BY <1>1, <3>3, QuietOwners, LatestStays
    <3>4. QED
      BY <1>4, <3>1, <3>2, <3>3, LatestNextSub, LatestRename DEF ListCall
  <2>2. NoOverwriteIsBound'
    <3>1. CASE ExecuteCommandList(l)
      BY <3>1, BoundExecute DEF ExecuteCommandList
    <3>2. CASE UNCHANGED <<name, bound, bound_sub>>
      BY <1>1, <3>2 DEF NoOverwriteIsBound
    <3>3. QED
      BY <1>4, <3>1, <3>2 DEF ListCall, CreateCommandList, DeferredNextSub, DeferredRename,
         DeferredDraw, FinishCommandList, Release
  <2>3. QED
    BY <2>1, <2>2 DEF BoundInv
<1>5. CASE UNCHANGED vars
  BY <1>1, <1>5 DEF vars, BoundInv, LatestIsLast, NoOverwriteIsBound
<1>6. QED
  BY <1>2, <1>3, <1>4, <1>5 DEF Next

(* In a buffer the last entry of a list is the latest one, and the name    *)
(* that maps return is the one that commands are bound to.                 *)
THEOREM BoundInvariance == OnlyBuffers => (Spec => []BoundInv)
<1> SUFFICES ASSUME OnlyBuffers PROVE Spec => []BoundInv
  OBVIOUS
<1>1. Init => BoundInv
  BY OwnersInit, LatestInitially DEF BoundInv
<1>2. BoundInv /\ [Next]_vars /\ OwnerInv' => BoundInv'
  BY BoundStep
<1>3. QED
  BY <1>1, <1>2, OwnerInvariance, PTL DEF Spec

(* A NO_OVERWRITE map returns the memory that later commands read, for any *)
(* buffer. A list marks the allocation of a linear texture as not the      *)
(* latest, so that it does not hold for textures.                          *)
THEOREM NameIsBound == OnlyBuffers => (Spec => []NoOverwriteIsBound)
<1> SUFFICES ASSUME OnlyBuffers PROVE Spec => []NoOverwriteIsBound
  OBVIOUS
<1>1. BoundInv => NoOverwriteIsBound
  BY DEF BoundInv
<1>2. QED
  BY <1>1, BoundInvariance, PTL

-----------------------------------------------------------------------------
(* Readers.                                                                *)

(* What the run assumes: buffers, whose lists are executed again only if   *)
(* they have one suballocation, and no commit within a list's Reset.       *)
Supported ==
  /\ OnlyBuffers /\ LateRecycle = FALSE
  /\ \A n \in SubCounts : n > 1 => MaxExecutions[n] <= 1

LEMMA ReaderTyped ==
  ASSUME ReaderInv
  PROVE  /\ TypeOK /\ OwnerInv /\ BoundInv /\ subs \in Nat \ {0}
         /\ current \in Nat /\ retired \in Nat /\ coherent \in Nat
         /\ coherent <= retired /\ retired < current /\ current \in 1 .. MaxSeq
         /\ allocated \in Allocation /\ name[1] \in Allocation /\ name[2] \in Nat
         /\ name[2] < subs /\ name = <<name[1], name[2]>>
         /\ \A seq \in 1 .. MaxSeq : \A m \in reads[seq] :
              /\ m[1] \in Allocation /\ m[2] \in Nat /\ m = <<m[1], m[2]>>
              /\ IsReadBy(m, seq)
         /\ \A l \in Lists : list[l] \in ListRecord /\ list[l].executions \in Nat
<1>1. TypeOK /\ OwnerInv /\ BoundInv
  BY DEF ReaderInv, BoundInv, OwnerInv
<1>2. /\ current \in Nat /\ retired \in Nat /\ coherent \in Nat /\ current \in 1 .. MaxSeq
      /\ allocated \in Allocation /\ name[2] < subs
  BY <1>1 DEF TypeOK
<1>3. ASSUME NEW seq \in 1 .. MaxSeq, NEW m \in reads[seq]
      PROVE  m[1] \in Allocation /\ m[2] \in Nat /\ m = <<m[1], m[2]>>
  BY <1>1 DEF TypeOK, Memory
<1>4. \A l \in Lists : list[l] \in ListRecord /\ list[l].executions \in Nat
  BY <1>1 DEF TypeOK, ListRecord
<1>5. subs \in Nat \ {0}
  BY DEF ReaderInv
<1>6. QED
  BY <1>1, <1>2, <1>3, <1>4, <1>5, Typed DEF ReaderInv, Progress, ChunkReads

(* The immediate name is owned by the resource, or by a list that has been *)
(* executed: it is not free.                                               *)
LEMMA NameIsOwned ==
  ASSUME ReaderInv
  PROVE  /\ name[1] <= allocated /\ ~Queued(name[1])
         /\ \A l \in Lists : Uses(l, name[1]) => owned /\ list[l].executions > 0
<1>1. OwnerInv /\ name[1] \in Allocation
  BY ReaderTyped
<1>2. CASE owned
  <2>1. PICK k \in Lists : Uses(k, name[1]) /\ list[k].executions > 0
    BY <1>2 DEF ReaderInv, NameIsExecuted
  <2>2. QED
    BY <1>1, <1>2, <2>1 DEF OwnerInv, OwnersDiffer, AllocatedIsOwned
<1>3. CASE ~owned
  <2>1. Named(name[1])
    BY <1>3 DEF Named
  <2>2. QED
    BY <1>1, <2>1 DEF OwnerInv, OwnersDiffer, AllocatedIsOwned
<1>4. QED
  BY <1>2, <1>3

(* No chunk that is not completed reads a new allocation.                  *)
LEMMA AllocatedIsUnread ==
  ASSUME ReaderInv, maps < MaxMaps, Allocate
  PROVE  \A seq \in 1 .. MaxSeq : \A m \in reads[seq] : m[1] # Allocated
<1> SUFFICES ASSUME NEW seq \in 1 .. MaxSeq, NEW m \in reads[seq], m[1] = Allocated
             PROVE  FALSE
  OBVIOUS
<1>1. /\ retired < seq /\ m[1] <= allocated /\ m[1] \in Allocation
      /\ \A i \in DOMAIN fifo : fifo[i].allocation = m[1] => seq <= fifo[i].will_free_at
      /\ OwnerInv /\ allocated \in Allocation
      /\ coherent \in Nat /\ retired \in Nat /\ coherent <= retired
  BY ReaderTyped DEF IsReadBy
<1>2. \/ allocated < Allocated
      \/ \E j \in DOMAIN fifo : fifo[j].allocation = Allocated /\ fifo[j].will_free_at <= coherent
  BY <1>1, AllocateTakes
<1>3. CASE allocated < Allocated
  BY <1>1, <1>3 DEF Allocation
<1>4. ASSUME NEW j \in DOMAIN fifo, fifo[j].allocation = Allocated,
             fifo[j].will_free_at <= coherent
      PROVE  FALSE
  <2>1. fifo[j].will_free_at \in Nat
    BY <1>1, Typed DEF OwnerInv, Entry
  <2>2. QED
    BY <1>1, <1>4, <2>1
<1>5. QED
  BY <1>2, <1>3, <1>4

(* Chunks read what they have read, while the chunks that are retired, and *)
(* what they read, stay the same.                                          *)
LEMMA ReadsStay ==
  ASSUME ReaderInv, UNCHANGED <<retired, reads, subs>>, current' \in Nat, current <= current',
         allocated' \in Allocation, allocated <= allocated',
         name'[1] \in Allocation, name'[2] \in Nat,
         \A seq \in 1 .. MaxSeq : \A m \in reads[seq] :
           /\ m[1] = name'[1] => m[1] = name[1] /\ name[2] <= name'[2]
           /\ \A k \in Lists : Holds(list'[k].used, m[1]) =>
                Uses(k, m[1]) /\ (list[k].executions > 0 => list'[k].executions > 0),
         \A i \in DOMAIN fifo' :
           (\E j \in DOMAIN fifo : fifo'[i] = fifo[j]) \/ fifo'[i].will_free_at = current
  PROVE  ChunkReads'
<1>1. SUFFICES ASSUME NEW seq \in 1 .. MaxSeq, NEW m \in reads[seq] PROVE IsReadBy(m, seq)'
  BY DEF ChunkReads
<1>2. IsReadBy(m, seq) /\ m[1] \in Allocation /\ m[2] \in Nat
  BY ReaderTyped
<1>3. retired' < seq /\ seq <= current' /\ m[1] <= allocated' /\ m[2] < subs'
  BY <1>2, ReaderTyped DEF IsReadBy, Allocation
<1>4. m[1] = name'[1] => m[2] <= name'[2]
  BY <1>2, ReaderTyped DEF IsReadBy
<1>5. \A i \in DOMAIN fifo' : fifo'[i].allocation = m[1] => seq <= fifo'[i].will_free_at
  BY <1>2 DEF IsReadBy
<1>6. \A k \in Lists : Holds(list'[k].used, m[1]) => list'[k].executions > 0
  BY <1>2 DEF IsReadBy
<1>7. QED
  BY <1>3, <1>4, <1>5, <1>6 DEF IsReadBy, Uses

(* ... or only how the lists have been executed is the same, and these     *)
(* hold what they have held.                                               *)
LEMMA ReadsStayWith ==
  ASSUME ReaderInv, UNCHANGED <<retired, reads, subs, name, fifo, allocated>>,
         current' \in Nat, current <= current', KeepsUsed,
         \A k \in Lists : list'[k].executions = list[k].executions
  PROVE  ChunkReads'
<1>1. /\ allocated' \in Allocation /\ allocated <= allocated'
      /\ name'[1] \in Allocation /\ name'[2] \in Nat
  BY ReaderTyped DEF Allocation
<1>2. \A seq \in 1 .. MaxSeq : \A m \in reads[seq] :
        /\ m[1] = name'[1] => m[1] = name[1] /\ name[2] <= name'[2]
        /\ \A k \in Lists : Holds(list'[k].used, m[1]) =>
             Uses(k, m[1]) /\ (list[k].executions > 0 => list'[k].executions > 0)
  BY ReaderTyped DEF KeepsUsed, Uses
<1>3. \A i \in DOMAIN fifo' : \E j \in DOMAIN fifo : fifo'[i] = fifo[j]
  OBVIOUS
<1>4. QED
  BY <1>1, <1>2, <1>3, ReadsStay

LEMMA ListReadsTyped ==
  ASSUME TypeOK, NEW l \in Lists, NEW m \in list[l].reads
  PROVE  m[1] \in Allocation /\ m[2] \in Nat
<1>1. list[l].reads \in SUBSET Memory
  BY DEF TypeOK, ListRecord
<1>2. QED
  BY <1>1 DEF Memory

(* The lists' parts of the invariant, when lists keep what they have used. *)
LEMMA ListsStayWith ==
  ASSUME ReaderInv, KeepsUsed, UNCHANGED owned, name'[1] = name[1],
         \A k \in Lists : /\ list'[k].executions = list[k].executions
                          /\ list'[k].reads = list[k].reads
  PROVE  NameIsExecuted' /\ ListReads'
  BY DEF ReaderInv, NameIsExecuted, ListReads, KeepsUsed, Uses

Others == NameIsExecuted /\ ListsAre /\ Progress /\ ListReads /\ ChunkReads /\ subs \in SubCounts

LEMMA NextSubReaders == ASSUME ReaderInv, DiscardNextSub PROVE Others'
<1>1. /\ name' = <<name[1], name[2] + 1>>
      /\ UNCHANGED <<kind, subs, owned, fifo, allocated, list, bound, current,
                     retired, coherent, reads>>
  BY DEF DiscardNextSub
<1>2. name'[1] = name[1] /\ name'[2] = name[2] + 1
  BY <1>1, Pair
<1>3. NameIsExecuted' /\ ListReads'
  BY <1>1, <1>2, ListsStayWith DEF KeepsUsed
<1>4. ListsAre' /\ Progress' /\ subs' \in SubCounts
  BY <1>1 DEF ReaderInv, ListsAre, Progress
<1>5. ChunkReads'
  <2>1. /\ current' \in Nat /\ current <= current' /\ allocated' \in Allocation
        /\ allocated <= allocated' /\ name'[1] \in Allocation /\ name'[2] \in Nat
    BY <1>1, <1>2, ReaderTyped DEF Allocation
  <2>2. \A seq \in 1 .. MaxSeq : \A m \in reads[seq] :
          /\ m[1] = name'[1] => m[1] = name[1] /\ name[2] <= name'[2]
          /\ \A k \in Lists : Holds(list'[k].used, m[1]) =>
               Uses(k, m[1]) /\ (list[k].executions > 0 => list'[k].executions > 0)
    BY <1>1, <1>2, ReaderTyped DEF Uses
  <2>3. \A i \in DOMAIN fifo' : \E j \in DOMAIN fifo : fifo'[i] = fifo[j]
    BY <1>1
  <2>4. QED
    BY <1>1, <2>1, <2>2, <2>3, ReadsStay
<1>6. QED
  BY <1>3, <1>4, <1>5 DEF Others

LEMMA RenameReaders == ASSUME ReaderInv, DiscardRename PROVE Others'
<1> DEFINE A == Allocated
<1>1. /\ maps < MaxMaps /\ Allocate /\ name' = <<A, 0>> /\ owned' = FALSE
      /\ fifo' = FifoWithOldName(FifoAfter)
      /\ UNCHANGED <<kind, subs, list, current, retired, coherent, reads>>
  BY DEF DiscardRename, CountsMap
<1>2. OwnerInv
  BY ReaderTyped
<1>3. /\ A \in Allocation /\ allocated' \in Allocation
      /\ FifoAfter \in Seq(Entry) /\ Once(FifoAfter)
      /\ \A a \in Allocation : Holds(FifoAfter, a) <=> Queued(a) /\ a # A
      /\ \A a \in Allocation : a <= allocated' <=> a <= allocated \/ a = A
      /\ \A i \in DOMAIN FifoAfter : \E j \in DOMAIN fifo : FifoAfter[i] = fifo[j]
  BY <1>1, <1>2, AllocateTakes
<1>4. ~owned => ~Holds(FifoAfter, name[1])
  BY <1>3, ReaderTyped, NameIsOwned
<1>5. \A i \in DOMAIN fifo' :
        (\E j \in DOMAIN fifo : fifo'[i] = fifo[j]) \/ fifo'[i].will_free_at = current
  BY <1>1, <1>2, <1>3, <1>4, OldNameQueued
<1>6. \A seq \in 1 .. MaxSeq : \A m \in reads[seq] : m[1] # A
  BY <1>1, AllocatedIsUnread
<1> HIDE DEF A
<1>7. name'[1] = A /\ name'[2] = 0
  BY <1>1, Pair
<1>8. NameIsExecuted' /\ ListReads' /\ ListsAre' /\ Progress' /\ subs' \in SubCounts
  BY <1>1 DEF ReaderInv, NameIsExecuted, ListReads, ListsAre, Progress
<1>9. ChunkReads'
  <2>1. /\ current' \in Nat /\ current <= current' /\ allocated \in Allocation
    BY <1>1, ReaderTyped
  <2>2. allocated <= allocated'
    <3>1. allocated <= allocated
      BY <2>1 DEF Allocation
    <3>2. QED
      BY <1>3, <2>1, <3>1
  <2>3. \A seq \in 1 .. MaxSeq : \A m \in reads[seq] :
          /\ m[1] = name'[1] => m[1] = name[1] /\ name[2] <= name'[2]
          /\ \A k \in Lists : Holds(list'[k].used, m[1]) =>
               Uses(k, m[1]) /\ (list[k].executions > 0 => list'[k].executions > 0)
    BY <1>1, <1>6, <1>7 DEF Uses
  <2>4. QED
    BY <1>1, <1>3, <1>5, <1>7, <2>1, <2>2, <2>3, ReadsStay
<1>10. QED
  BY <1>8, <1>9 DEF Others

LEMMA DrawReaders == ASSUME ReaderInv, Draw PROVE Others'
<1>1. /\ reads' = [reads EXCEPT ![current] = @ \union {name}]
      /\ UNCHANGED <<kind, subs, name, owned, fifo, allocated, list, current, retired,
                     coherent, maps>>
  BY DEF Draw, ReaderInv, BoundInv, NoOverwriteIsBound
<1>2. NameIsExecuted' /\ ListReads' /\ ListsAre' /\ Progress' /\ subs' \in SubCounts
  BY <1>1 DEF ReaderInv, NameIsExecuted, ListReads, ListsAre, Progress, Uses
<1>3. reads \in [1 .. MaxSeq -> SUBSET Memory]
  BY ReaderTyped DEF TypeOK
<1>4. ASSUME NEW seq \in 1 .. MaxSeq, NEW m \in reads'[seq] PROVE IsReadBy(m, seq)
  <2>1. m \in reads[seq] \/ (seq = current /\ m = name)
    BY <1>1, <1>3, <1>4
  <2>2. CASE m \in reads[seq]
    BY <2>2, ReaderTyped
  <2>3. CASE seq = current /\ m = name
    <3>1. /\ retired < seq /\ seq <= current /\ m[1] <= allocated /\ m[2] < subs
          /\ m[2] <= name[2]
      BY <2>3, ReaderTyped, NameIsOwned
    <3>2. \A i \in DOMAIN fifo : fifo[i].allocation # m[1]
      BY <2>3, NameIsOwned DEF Queued, Holds
    <3>3. \A l \in Lists : Uses(l, m[1]) => list[l].executions > 0
      BY <2>3, NameIsOwned
    <3>4. QED
      BY <3>1, <3>2, <3>3 DEF IsReadBy
  <2>4. QED
    BY <2>1, <2>2, <2>3
<1>5. \A seq \in 1 .. MaxSeq : \A m \in reads'[seq] : IsReadBy(m, seq)'
  BY <1>1, <1>4 DEF IsReadBy, Uses
<1>6. ChunkReads'
  BY <1>5 DEF ChunkReads
<1>7. QED
  BY <1>2, <1>6 DEF Others

LEMMA CommitReaders == ASSUME Supported, ReaderInv, Commit PROVE Others'
<1>1. /\ \A l \in Lists : list[l].phase # "resetting"
      /\ current' = current + 1
      /\ UNCHANGED <<kind, subs, name, owned, fifo, allocated, list, retired, coherent, reads>>
  BY DEF Commit, Supported
<1>2. NameIsExecuted' /\ ListReads' /\ subs' \in SubCounts
  BY <1>1 DEF ReaderInv, NameIsExecuted, ListReads, Uses
<1>3. ListsAre' /\ Progress'
  BY <1>1, ReaderTyped DEF ReaderInv, ListsAre, Progress
<1>4. ChunkReads'
  BY <1>1, ReaderTyped, ReadsStayWith DEF KeepsUsed
<1>5. QED
  BY <1>2, <1>3, <1>4 DEF Others

(* A list that begins, or ends, or that its context is done with.          *)
LEMMA PhaseReaders ==
  ASSUME ReaderInv, NEW l \in Lists,
         \/ CreateCommandList(l) \/ FinishCommandList(l)
         \/ Release(l) /\ list[l].chunks # {}
  PROVE  Others'
<1>1. PICK phase \in {"recording", "finished", "released"} :
        /\ list' = [list EXCEPT ![l].phase = phase]
        /\ phase = "recording" => list[l].phase = "pooled"
  BY DEF CreateCommandList, FinishCommandList, Release
<1>2. UNCHANGED <<kind, subs, name, owned, fifo, allocated, current, retired, coherent, reads>>
  BY DEF CreateCommandList, FinishCommandList, Release
<1>3. list \in [Lists -> ListRecord]
  BY ReaderTyped DEF TypeOK
<1>4. \A k \in Lists :
        /\ list'[k].used = list[k].used /\ list'[k].reads = list[k].reads
        /\ list'[k].executions = list[k].executions
        /\ list'[k].reset_seq = list[k].reset_seq
        /\ list'[k].phase = IF k = l THEN phase ELSE list[k].phase
  BY <1>1, <1>3 DEF ListRecord
<1>5. KeepsUsed
  BY <1>4 DEF KeepsUsed
<1>6. NameIsExecuted' /\ ListReads'
  BY <1>2, <1>4, <1>5, ListsStayWith
<1>7. ListsAre' /\ Progress' /\ subs' \in SubCounts
  BY <1>1, <1>2, <1>4 DEF ReaderInv, ListsAre, Progress
<1>8. ChunkReads'
  BY <1>2, <1>4, <1>5, ReaderTyped, ReadsStayWith
<1>9. QED
  BY <1>6, <1>7, <1>8 DEF Others

LEMMA DeferredDrawReaders ==
  ASSUME ReaderInv, NEW l \in Lists, DeferredDraw(l) PROVE Others'
<1> DEFINE entry == Last(list[l].used)
           m0 == <<entry.allocation, entry.suballocation>>
<1>1. /\ list' = [list EXCEPT ![l].reads = @ \union {m0}] /\ list[l].used # <<>>
      /\ UNCHANGED <<kind, subs, name, owned, fifo, allocated, current, retired, coherent, reads>>
  BY DEF DeferredDraw
<1>2. list \in [Lists -> ListRecord] /\ TypeOK
  BY ReaderTyped DEF TypeOK
<1>3. /\ Len(list[l].used) \in DOMAIN list[l].used
      /\ entry = list[l].used[Len(list[l].used)] /\ entry \in Used
  BY <1>1, <1>2, LastUsed
<1>4. m0[1] = entry.allocation /\ m0[2] = entry.suballocation /\ m0[2] \in Nat
  BY <1>3, Pair DEF Used
<1>5. \E i \in DOMAIN list[l].used :
        list[l].used[i].allocation = m0[1] /\ m0[2] <= list[l].used[i].suballocation
  BY <1>3, <1>4
<1> HIDE DEF entry, m0
<1>6. \A k \in Lists :
        /\ list'[k].used = list[k].used
        /\ list'[k].reads = IF k = l THEN list[k].reads \union {m0} ELSE list[k].reads
        /\ list'[k].executions = list[k].executions
        /\ list'[k].reset_seq = list[k].reset_seq
        /\ list'[k].phase = list[k].phase
  BY <1>1, <1>2 DEF ListRecord
<1>7. KeepsUsed
  BY <1>6 DEF KeepsUsed
<1>8. NameIsExecuted' /\ ListsAre' /\ Progress' /\ subs' \in SubCounts
  BY <1>1, <1>6 DEF ReaderInv, NameIsExecuted, ListsAre, Progress, Uses
<1>9. ListReads'
  <2>1. ASSUME NEW k \in Lists, NEW m \in list'[k].reads
        PROVE  \E i \in DOMAIN list'[k].used :
                 list'[k].used[i].allocation = m[1] /\ m[2] <= list'[k].used[i].suballocation
    <3>1. m \in list[k].reads \/ (k = l /\ m = m0)
      BY <1>6, <2>1
    <3>2. \E i \in DOMAIN list[k].used :
            list[k].used[i].allocation = m[1] /\ m[2] <= list[k].used[i].suballocation
      BY <1>5, <3>1 DEF ReaderInv, ListReads
    <3>3. list'[k].used = list[k].used
      BY <1>6
    <3>4. QED
      BY <3>2, <3>3
  <2>2. QED
    BY ONLY <2>1 DEF ListReads
<1>10. ChunkReads'
  BY <1>1, <1>6, <1>7, ReaderTyped, ReadsStayWith
<1>11. QED
  BY <1>8, <1>9, <1>10 DEF Others

LEMMA DeferredNextSubReaders ==
  ASSUME ReaderInv, NEW l \in Lists, DeferredNextSub(l) PROVE Others'
<1> DEFINE u == list[l].used
           v == list'[l].used
           n == Len(u)
<1>1. UNCHANGED <<kind, subs, name, owned, fifo, allocated, current, retired, coherent, reads>>
  BY DEF DeferredNextSub
<1>2. /\ \A k \in Lists \ {l} : list'[k] = list[k]
      /\ n \in Nat \ {0} /\ DOMAIN v = DOMAIN u
      /\ \A i \in DOMAIN u : v[i].allocation = u[i].allocation
      /\ \A i \in DOMAIN u : i # n => v[i] = u[i]
      /\ v[n].suballocation = u[n].suballocation + 1
      /\ list'[l].phase = list[l].phase /\ list'[l].reads = list[l].reads
      /\ list'[l].executions = list[l].executions /\ list'[l].chunks = list[l].chunks
      /\ list'[l].reset_seq = list[l].reset_seq
  BY ReaderTyped, NextSubOf
<1>3. \A k \in Lists : /\ list'[k].phase = list[k].phase /\ list'[k].reads = list[k].reads
                       /\ list'[k].executions = list[k].executions
                       /\ list'[k].reset_seq = list[k].reset_seq
  BY <1>2
<1>4. \A i \in DOMAIN u : u[i].suballocation \in Nat
  BY ReaderTyped, Typed DEF Used
<1>5. \A k \in Lists \ {l} : list'[k].used = list[k].used
  BY <1>2
<1> HIDE DEF u, v, n
<1>6. \A i \in DOMAIN u : u[i].suballocation <= v[i].suballocation /\ v[i].suballocation \in Nat
  BY <1>2, <1>4
<1>7. \A k \in Lists : \A a : Holds(list'[k].used, a) <=> Uses(k, a)
  <2>1. \A a : Holds(v, a) <=> Holds(u, a)
    BY <1>2 DEF Holds
  <2>2. QED
    BY <1>5, <2>1 DEF u, v, Uses
<1>8. NameIsExecuted' /\ ListsAre' /\ Progress' /\ subs' \in SubCounts
  <2>1. NameIsExecuted'
    BY <1>1, <1>3, <1>7 DEF ReaderInv, NameIsExecuted, Uses
  <2>2. QED
    BY <1>1, <1>3, <2>1 DEF ReaderInv, ListsAre, Progress
<1>9. ListReads'
  <2>1. ASSUME NEW m \in list[l].reads
        PROVE  \E i \in DOMAIN v : v[i].allocation = m[1] /\ m[2] <= v[i].suballocation
    <3>1. PICK i \in DOMAIN u : u[i].allocation = m[1] /\ m[2] <= u[i].suballocation
      BY DEF u, ReaderInv, ListReads
    <3>2. m[2] \in Nat
      BY ReaderTyped, ListReadsTyped
    <3>3. QED
      BY <1>2, <1>4, <1>6, <3>1, <3>2
  <2>2. QED
    BY <1>3, <1>5, <2>1 DEF v, ReaderInv, ListReads
<1>10. ChunkReads'
  <2>1. /\ current' \in Nat /\ current <= current' /\ allocated' \in Allocation
        /\ allocated <= allocated' /\ name'[1] \in Allocation /\ name'[2] \in Nat
        /\ name[2] <= name'[2]
    BY <1>1, ReaderTyped DEF Allocation
  <2>2. \A seq \in 1 .. MaxSeq : \A m \in reads[seq] :
          /\ m[1] = name'[1] => m[1] = name[1] /\ name[2] <= name'[2]
          /\ \A k \in Lists : Holds(list'[k].used, m[1]) =>
               Uses(k, m[1]) /\ (list[k].executions > 0 => list'[k].executions > 0)
    BY <1>1, <1>3, <1>7, <2>1
  <2>3. \A i \in DOMAIN fifo' : \E j \in DOMAIN fifo : fifo'[i] = fifo[j]
    BY <1>1
  <2>4. QED
    BY <1>1, <2>1, <2>2, <2>3, ReadsStay
<1>11. QED
  BY <1>8, <1>9, <1>10 DEF Others

LEMMA DeferredRenameReaders ==
  ASSUME ReaderInv, NEW l \in Lists, DeferredRename(l) PROVE Others'
<1> DEFINE A == Allocated
           u == list[l].used
           v == list'[l].used
           n == Len(u)
<1>1. /\ maps < MaxMaps /\ Allocate /\ fifo' = FifoAfter
      /\ UNCHANGED <<kind, subs, name, owned, current, retired, coherent, reads>>
  BY DEF DeferredRename, CountsMap
<1>2. OwnerInv
  BY ReaderTyped
<1>3. /\ A \in Allocation /\ allocated' \in Allocation
      /\ \A a \in Allocation : a <= allocated' <=> a <= allocated \/ a = A
      /\ \A i \in DOMAIN FifoAfter : \E j \in DOMAIN fifo : FifoAfter[i] = fifo[j]
  BY <1>1, <1>2, AllocateTakes
<1>4. \A seq \in 1 .. MaxSeq : \A m \in reads[seq] : m[1] # A
  BY <1>1, AllocatedIsUnread
<1>5. /\ \A k \in Lists \ {l} : list'[k] = list[k]
      /\ n \in Nat /\ DOMAIN u = 1 .. n /\ DOMAIN v = 1 .. n + 1
      /\ \A i \in DOMAIN u : /\ v[i].allocation = u[i].allocation
                             /\ v[i].suballocation = u[i].suballocation
      /\ list'[l].phase = list[l].phase /\ list'[l].reads = list[l].reads
      /\ list'[l].executions = list[l].executions
      /\ list'[l].reset_seq = list[l].reset_seq
  BY <1>2, <1>3, RenameOf
<1>6. v[n + 1].allocation = A
  <2>1. v[n + 1] = [allocation |-> A, suballocation |-> 0, latest |-> IsLatest]
    BY <1>2, <1>3, RenameOf
  <2>2. QED
    BY <2>1
<1>7. \A k \in Lists : /\ list'[k].phase = list[k].phase /\ list'[k].reads = list[k].reads
                       /\ list'[k].executions = list[k].executions
                       /\ list'[k].reset_seq = list[k].reset_seq
  BY <1>5
<1>8. \A k \in Lists \ {l} : list'[k].used = list[k].used
  BY <1>5
<1> HIDE DEF A, u, v, n
<1>9. \A i \in DOMAIN v : i = n + 1 \/ i \in DOMAIN u
  BY <1>5
<1>10. \A i \in DOMAIN u : i \in DOMAIN v
  BY <1>5
<1>11. \A k \in Lists : \A a : /\ Uses(k, a) => Holds(list'[k].used, a)
                               /\ Holds(list'[k].used, a) => Uses(k, a) \/ a = A
  <2>1. \A a : /\ Holds(u, a) => Holds(v, a)
               /\ Holds(v, a) => Holds(u, a) \/ a = A
    BY <1>5, <1>6, <1>9, <1>10 DEF Holds
  <2>2. QED
    BY <1>8, <2>1 DEF u, v, Uses
<1>12. NameIsExecuted' /\ ListsAre' /\ Progress' /\ subs' \in SubCounts
  <2>1. NameIsExecuted'
    BY <1>1, <1>7, <1>11 DEF ReaderInv, NameIsExecuted, Uses
  <2>2. ListsAre' /\ Progress' /\ subs' \in SubCounts
    BY <1>1, <1>7 DEF ReaderInv, ListsAre, Progress
  <2>3. QED
    BY <2>1, <2>2
<1>13. ListReads'
  <2>1. ASSUME NEW m \in list[l].reads
        PROVE  \E i \in DOMAIN v : v[i].allocation = m[1] /\ m[2] <= v[i].suballocation
    <3>1. PICK i \in DOMAIN u : u[i].allocation = m[1] /\ m[2] <= u[i].suballocation
      BY DEF u, ReaderInv, ListReads
    <3>2. QED
      BY <1>5, <1>10, <3>1
  <2>2. QED
    BY <1>7, <1>8, <2>1 DEF v, ReaderInv, ListReads
<1>14. ChunkReads'
  <2>1. /\ current' \in Nat /\ current <= current' /\ allocated \in Allocation
        /\ name'[1] \in Allocation /\ name'[2] \in Nat /\ name[2] <= name'[2]
    BY <1>1, ReaderTyped
  <2>2. allocated <= allocated'
    <3>1. allocated <= allocated
      BY <2>1 DEF Allocation
    <3>2. QED
      BY <1>3, <2>1, <3>1
  <2>3. \A seq \in 1 .. MaxSeq : \A m \in reads[seq] :
          /\ m[1] = name'[1] => m[1] = name[1] /\ name[2] <= name'[2]
          /\ \A k \in Lists : Holds(list'[k].used, m[1]) =>
               Uses(k, m[1]) /\ (list[k].executions > 0 => list'[k].executions > 0)
    BY <1>1, <1>4, <1>7, <1>11, <2>1
  <2>4. \A i \in DOMAIN fifo' : \E j \in DOMAIN fifo : fifo'[i] = fifo[j]
    BY <1>1, <1>3
  <2>5. QED
    BY <1>1, <1>3, <2>1, <2>2, <2>3, <2>4, ReadsStay
<1>15. QED
  BY <1>12, <1>13, <1>14 DEF Others

LEMMA PooledReaders ==
  ASSUME ReaderInv, NEW l \in Lists, Recycle(l, current),
         list' = [list EXCEPT ![l] = PooledList],
         UNCHANGED <<resource, name, allocated, binding, queue, reads, maps>>
  PROVE  Others'
<1>1. UNCHANGED <<kind, subs, name, allocated, current, retired, coherent, reads>>
  OBVIOUS
<1>2. OwnerInv /\ TypeOK /\ current \in Nat
  BY ReaderTyped
<1>3. /\ list'[l] = PooledList /\ \A k \in Lists \ {l} : list'[k] = list[k]
      /\ \A a : ~Holds(list'[l].used, a)
  BY <1>2, PooledOf
<1>4. /\ (owned' <=> owned /\ ~Uses(l, name[1]))
      /\ \A i \in DOMAIN fifo' :
           (\E j \in DOMAIN fifo : fifo'[i] = fifo[j]) \/ fifo'[i].will_free_at = current
  BY <1>2, RecycleQueues
<1>5. /\ list'[l].phase = "pooled" /\ list'[l].reads = {} /\ list'[l].executions = 0
  BY <1>3 DEF PooledList
<1>6. NameIsExecuted'
  <2>1. ASSUME owned'
        PROVE  \E k \in Lists : Holds(list'[k].used, name[1]) /\ list'[k].executions > 0
    <3>1. owned /\ ~Uses(l, name[1])
      BY <1>4, <2>1
    <3>2. PICK k \in Lists : Uses(k, name[1]) /\ list[k].executions > 0
      BY <3>1 DEF ReaderInv, NameIsExecuted
    <3>3. QED
      BY <1>3, <3>1, <3>2 DEF Uses
  <2>2. QED
    BY <1>1, <2>1 DEF NameIsExecuted, Uses
<1>7. ListsAre' /\ Progress' /\ subs' \in SubCounts
  BY <1>1, <1>3, <1>5 DEF ReaderInv, ListsAre, Progress
<1>8. ListReads'
  BY <1>3, <1>5 DEF ReaderInv, ListReads
<1>9. ChunkReads'
  <2>1. /\ current' \in Nat /\ current <= current' /\ allocated' \in Allocation
        /\ allocated <= allocated' /\ name'[1] \in Allocation /\ name'[2] \in Nat
        /\ name[2] <= name'[2]
    BY <1>1, ReaderTyped DEF Allocation
  <2>2. \A k \in Lists : \A a : Holds(list'[k].used, a) =>
          Uses(k, a) /\ (list[k].executions > 0 => list'[k].executions > 0)
    BY <1>3 DEF Uses
  <2>3. QED
    BY <1>1, <1>4, <2>1, <2>2, ReadsStay
<1>10. QED
  BY <1>6, <1>7, <1>8, <1>9 DEF Others

LEMMA SignalReaders == ASSUME ReaderInv, SignalCoherent PROVE Others'
<1>1. /\ coherent' = retired
      /\ UNCHANGED <<kind, subs, name, owned, fifo, allocated, list, current, retired, reads>>
  BY DEF SignalCoherent
<1>2. NameIsExecuted' /\ ListReads' /\ ListsAre' /\ subs' \in SubCounts
  BY <1>1 DEF ReaderInv, NameIsExecuted, ListReads, ListsAre, Uses
<1>3. Progress'
  BY <1>1, ReaderTyped DEF Progress
<1>4. ChunkReads'
  BY <1>1, ReaderTyped, ReadsStayWith DEF KeepsUsed
<1>5. QED
  BY <1>2, <1>3, <1>4 DEF Others

LEMMA ResetChunkReaders == ASSUME ReaderInv, ResetChunk PROVE Others'
<1> DEFINE next == retired + 1
<1>1. /\ next < current /\ retired' = next /\ reads' = [reads EXCEPT ![next] = {}]
      /\ UNCHANGED <<kind, subs, name, owned, fifo, allocated, current, coherent>>
  BY DEF ResetChunk
<1>2. /\ retired \in Nat /\ coherent \in Nat /\ current \in Nat /\ coherent <= retired
      /\ TypeOK /\ list \in [Lists -> ListRecord] /\ reads \in [1 .. MaxSeq -> SUBSET Memory]
  BY ReaderTyped DEF TypeOK
<1>3. KeepsUsed
  BY <1>2, ResetChunkKeeps
<1>4. \A k \in Lists :
        /\ list'[k].reads = list[k].reads /\ list'[k].executions = list[k].executions
        /\ \/ list'[k].phase = list[k].phase /\ list'[k].reset_seq = list[k].reset_seq
           \/ list'[k].phase = "resetting" /\ list'[k].reset_seq = current
  <2> DEFINE isFreed(k) == list[k].phase = "released" /\ list[k].chunks = {next}
             freed(k) == [list[k] EXCEPT !.chunks = {}, !.phase = "resetting",
                                         !.reset_seq = current]
             kept(k) == [list[k] EXCEPT !.chunks = @ \ {next}]
  <2>1. list' = [k \in Lists |-> IF isFreed(k) THEN freed(k) ELSE kept(k)]
    BY DEF ResetChunk
  <2>2. ASSUME NEW k \in Lists
        PROVE  /\ freed(k).reads = list[k].reads /\ freed(k).executions = list[k].executions
               /\ freed(k).phase = "resetting" /\ freed(k).reset_seq = current
               /\ kept(k).reads = list[k].reads /\ kept(k).executions = list[k].executions
               /\ kept(k).phase = list[k].phase /\ kept(k).reset_seq = list[k].reset_seq
    <3>1. list[k] \in ListRecord
      BY <1>2
    <3>2. QED
      BY <3>1 DEF ListRecord
  <2> HIDE DEF freed, kept, isFreed
  <2>3. QED
    BY <2>1, <2>2
<1> HIDE DEF next
<1>5. NameIsExecuted' /\ ListReads'
  BY <1>1, <1>3, <1>4, ListsStayWith
<1>6. Progress' /\ subs' \in SubCounts
  BY <1>1, <1>2 DEF next, ReaderInv, Progress
<1>7. ListsAre'
  BY <1>1, <1>4 DEF ReaderInv, ListsAre
<1>8. ASSUME NEW seq \in 1 .. MaxSeq, NEW m \in reads'[seq] PROVE IsReadBy(m, seq)'
  <2>1. seq # next /\ m \in reads[seq]
    BY <1>1, <1>2, <1>8
  <2>2. IsReadBy(m, seq)
    BY <2>1, ReaderTyped
  <2>3. retired' < seq
    BY <1>1, <1>2, <2>1, <2>2 DEF next, IsReadBy
  <2>4. \A k \in Lists : Holds(list'[k].used, m[1]) => list'[k].executions > 0
    BY <1>3, <1>4, <2>2 DEF KeepsUsed, IsReadBy, Uses
  <2>5. QED
    BY <1>1, <2>2, <2>3, <2>4 DEF IsReadBy, Uses
<1>9. ChunkReads'
  BY <1>8 DEF ChunkReads
<1>10. QED
  BY <1>5, <1>6, <1>7, <1>9 DEF Others

(* An executed list reads at the current chunk what only it has: none of   *)
(* it is free, and the name it sets is the last of what it has mapped.     *)
LEMMA ExecutedReads ==
  ASSUME Supported, ReaderInv, NEW l \in Lists, TakesName(list[l].used)
  PROVE  /\ \A i \in DOMAIN fifo' :
              (\E j \in DOMAIN fifo : fifo'[i] = fifo[j]) \/ fifo'[i].will_free_at = current
         /\ \/ UNCHANGED <<name, owned>> /\ list[l].used = <<>>
            \/ owned' = TRUE /\ \E j \in DOMAIN list[l].used :
                 name'[1] = list[l].used[j].allocation /\ name'[2] = list[l].used[j].suballocation
<1>1. OwnerInv /\ TypeOK /\ BoundInv
  BY ReaderTyped
<1>2. \A i \in DOMAIN list[l].used : list[l].used[i].latest <=> i = Len(list[l].used)
  BY <1>1 DEF BoundInv, LatestIsLast
<1>3. CASE /\ UNCHANGED <<name, owned, fifo>>
           /\ \A i \in DOMAIN list[l].used : ~list[l].used[i].latest
  <2>1. list[l].used = <<>>
    BY <1>1, <1>2, <1>3, LastUsed
  <2>2. QED
    BY <1>3, <2>1
<1>4. CASE /\ owned' = TRUE /\ fifo' = FifoWithOldName(fifo)
           /\ \E i \in DOMAIN list[l].used :
                /\ list[l].used[i].latest
                /\ name' = <<list[l].used[i].allocation, list[l].used[i].suballocation>>
  <2>1. fifo \in Seq(Entry) /\ Once(fifo) /\ (~owned => ~Holds(fifo, name[1]))
    <3>1. name[1] \in Allocation
      BY <1>1, Typed
    <3>2. QED
      BY <1>1, <3>1, Typed DEF OwnerInv, QueuedOnce, OwnersDiffer, Queued, Named
  <2>2. \A i \in DOMAIN fifo' :
          (\E j \in DOMAIN fifo : fifo'[i] = fifo[j]) \/ fifo'[i].will_free_at = current
    BY <1>1, <1>4, <2>1, OldNameQueued
  <2>3. \E j \in DOMAIN list[l].used :
          name'[1] = list[l].used[j].allocation /\ name'[2] = list[l].used[j].suballocation
    BY <1>4, Pair
  <2>4. QED
    BY <1>4, <2>2, <2>3
<1>5. QED
  BY <1>1, <1>3, <1>4, NameTaken

LEMMA ExecuteReaders ==
  ASSUME Supported, ReaderInv, NEW l \in Lists, ExecuteCommandList(l) PROVE Others'
<1> DEFINE u == list[l].used
<1>1. /\ list[l].phase = "finished" /\ list[l].executions < MaxExecutions[subs]
      /\ TakesName(u) /\ reads' = [reads EXCEPT ![current] = @ \union list[l].reads]
      /\ list' = [list EXCEPT ![l].executions = @ + 1, ![l].chunks = @ \union {current}]
      /\ UNCHANGED <<kind, subs, allocated, current, retired, coherent>>
  BY DEF ExecuteCommandList
<1>2. /\ TypeOK /\ OwnerInv /\ list \in [Lists -> ListRecord] /\ subs \in SubCounts
      /\ reads \in [1 .. MaxSeq -> SUBSET Memory] /\ current \in 1 .. MaxSeq
      /\ \A k \in Lists : list[k].executions \in Nat
  BY ReaderTyped DEF TypeOK, ReaderInv
<1>3. /\ \A i \in DOMAIN fifo' :
           (\E j \in DOMAIN fifo : fifo'[i] = fifo[j]) \/ fifo'[i].will_free_at = current
      /\ \/ UNCHANGED <<name, owned>> /\ u = <<>>
         \/ owned' = TRUE /\ \E j \in DOMAIN u :
              name'[1] = u[j].allocation /\ name'[2] = u[j].suballocation
  BY <1>1, ExecutedReads
<1>4. \A k \in Lists :
        /\ list'[k].used = list[k].used /\ list'[k].reads = list[k].reads
        /\ list'[k].executions = IF k = l THEN list[k].executions + 1 ELSE list[k].executions
        /\ list'[k].reset_seq = list[k].reset_seq /\ list'[k].phase = list[k].phase
  <2> DEFINE to == [list[l] EXCEPT !.executions = @ + 1, !.chunks = @ \union {current}]
  <2>1. list' = [list EXCEPT ![l] = to]
    BY <1>1
  <2>2. /\ to.used = list[l].used /\ to.reads = list[l].reads
        /\ to.executions = list[l].executions + 1
        /\ to.reset_seq = list[l].reset_seq /\ to.phase = list[l].phase
    BY <1>2 DEF ListRecord
  <2> HIDE DEF to
  <2>3. QED
    BY <1>2, <2>1, <2>2
<1>5. KeepsUsed
  BY <1>4 DEF KeepsUsed
<1>6. \A k \in Lists : /\ list'[k].executions \in Nat
                       /\ list[k].executions > 0 => list'[k].executions > 0
  BY <1>2, <1>4
<1>7. list'[l].executions > 0
  BY <1>2, <1>4
<1> HIDE DEF u
<1>8. NameIsExecuted'
  <2>1. ASSUME owned'
        PROVE  \E k \in Lists : Holds(list'[k].used, name'[1]) /\ list'[k].executions > 0
    <3>1. CASE UNCHANGED <<name, owned>>
      <4>1. PICK k \in Lists : Uses(k, name[1]) /\ list[k].executions > 0
        BY <2>1, <3>1 DEF ReaderInv, NameIsExecuted
      <4>2. QED
        BY <1>4, <1>6, <3>1, <4>1 DEF Uses
    <3>2. CASE \E j \in DOMAIN u : name'[1] = u[j].allocation
      <4>1. Holds(u, name'[1])
        BY <3>2 DEF Holds
      <4>2. Holds(list'[l].used, name'[1])
        BY <1>4, <4>1 DEF u
      <4>3. QED
        BY <1>7, <4>2
    <3>3. QED
      BY <1>3, <3>1, <3>2
  <2>2. QED
    BY <2>1 DEF NameIsExecuted, Uses
<1>9. ListsAre' /\ Progress' /\ subs' \in SubCounts
  <2>1. ASSUME NEW k \in Lists
        PROVE  /\ list'[k].phase \in {"pooled", "recording"} => list'[k].executions = 0
               /\ list'[k].phase = "resetting" => list'[k].reset_seq = current'
    BY <1>1, <1>4 DEF ReaderInv, ListsAre
  <2>2. QED
    BY <1>1, <2>1 DEF ReaderInv, ListsAre, Progress
<1>10. ListReads'
  BY <1>4 DEF ReaderInv, ListReads
<1>11. ASSUME NEW m \in list[l].reads PROVE IsReadBy(m, current)'
  <2>1. m[1] \in Allocation /\ m[2] \in Nat
    BY <1>2, ListReadsTyped
  <2>2. PICK i \in DOMAIN u : u[i].allocation = m[1] /\ m[2] <= u[i].suballocation
    BY DEF u, ReaderInv, ListReads
  <2>3. Uses(l, m[1])
    BY <2>2 DEF u, Uses, Holds
  <2>4. /\ ~Queued(m[1]) /\ m[1] <= allocated
        /\ \A k \in Lists : Uses(k, m[1]) => k = l
    BY <1>2, <2>1, <2>3 DEF OwnerInv, OwnersDiffer, AllocatedIsOwned
  <2>5. m[2] < subs
    <3>1. u[i].suballocation < subs /\ u[i].suballocation \in Nat /\ subs \in Nat
      BY <1>2, <2>2, Typed DEF u, OwnerInv, Bounded, Used, TypeOK
    <3>2. QED
      BY <2>1, <2>2, <3>1
  <2>6. m[1] = name'[1] => m[2] <= name'[2]
    <3>1. ASSUME NEW j \in DOMAIN u, m[1] = u[j].allocation PROVE j = i
      BY <1>2, <2>2, <3>1 DEF u, OwnerInv, UsedOnce, Once
    <3>2. u # <<>>
      BY <2>2
    <3>3. QED
      BY <1>3, <2>2, <3>1, <3>2
  <2>7. \A j \in DOMAIN fifo' : fifo'[j].allocation = m[1] => current <= fifo'[j].will_free_at
    <3>1. \A j \in DOMAIN fifo : fifo[j].allocation # m[1]
      BY <2>4 DEF Queued, Holds
    <3>2. current <= current
      BY <1>2
    <3>3. QED
      BY <1>3, <3>1, <3>2
  <2>8. \A k \in Lists : Holds(list'[k].used, m[1]) => list'[k].executions > 0
    BY <1>4, <1>7, <2>4 DEF Uses
  <2>9. retired' < current /\ current <= current' /\ m[1] <= allocated' /\ m[2] < subs'
    BY <1>1, <1>2, <2>4, <2>5, ReaderTyped
  <2>10. QED
    BY <1>1, <2>6, <2>7, <2>8, <2>9 DEF IsReadBy, Uses
<1>12. ASSUME NEW seq \in 1 .. MaxSeq, NEW m \in reads[seq] PROVE IsReadBy(m, seq)'
  <2>1. /\ m[1] \in Allocation /\ m[2] \in Nat /\ IsReadBy(m, seq) /\ seq \in Nat
    BY ReaderTyped
  <2>2. m[1] = name'[1] => m[2] <= name'[2]
    <3>1. CASE UNCHANGED name
      BY <2>1, <3>1 DEF IsReadBy
    <3>2. CASE \E j \in DOMAIN u : name'[1] = u[j].allocation /\ name'[2] = u[j].suballocation
      <4>1. SUFFICES ASSUME m[1] = name'[1] PROVE m[2] <= name'[2]
        OBVIOUS
      <4>2. PICK j \in DOMAIN u : m[1] = u[j].allocation /\ name'[2] = u[j].suballocation
        BY <3>2, <4>1
      <4>3. Uses(l, m[1])
        BY <4>2 DEF u, Uses, Holds
      <4>4. list[l].executions > 0 /\ m[2] < subs
        BY <2>1, <4>3 DEF IsReadBy
      <4>5. subs <= 1
        <5>1. MaxExecutions[subs] \in Nat
          BY <1>2, ExecutionsAssumption
        <5>2. subs > 1 => MaxExecutions[subs] <= 1
          BY <1>2 DEF Supported
        <5>3. subs \in Nat
          BY <1>2 DEF TypeOK
        <5>4. QED
          BY <1>1, <1>2, <4>4, <5>1, <5>2, <5>3
      <4>6. u[j].suballocation \in Nat
        BY <1>2, <4>2, Typed DEF u, Used
      <4>7. subs \in Nat
        BY <1>2 DEF TypeOK
      <4>8. QED
        BY <2>1, <4>2, <4>4, <4>5, <4>6, <4>7
    <3>3. QED
      BY <1>3, <3>1, <3>2
  <2>3. \A j \in DOMAIN fifo' : fifo'[j].allocation = m[1] => seq <= fifo'[j].will_free_at
    BY <1>3, <2>1 DEF IsReadBy
  <2>4. \A k \in Lists : Holds(list'[k].used, m[1]) => list'[k].executions > 0
    BY <1>4, <1>6, <2>1 DEF IsReadBy, Uses
  <2>5. QED
    BY <1>1, <2>1, <2>2, <2>3, <2>4 DEF IsReadBy, Uses
<1>13. ChunkReads'
  <2>1. ASSUME NEW seq \in 1 .. MaxSeq, NEW m \in reads'[seq] PROVE IsReadBy(m, seq)'
    <3>1. m \in reads[seq] \/ (seq = current /\ m \in list[l].reads)
      BY <1>1, <1>2, <2>1
    <3>2. CASE m \in reads[seq]
      BY <1>12, <3>2
    <3>3. CASE seq = current /\ m \in list[l].reads
      <4>1. IsReadBy(m, current)'
        BY <1>11, <3>3
      <4>2. current' = current
        BY <1>1
      <4>3. QED
        BY <3>3, <4>1, <4>2 DEF IsReadBy
    <3>4. QED
      BY <3>1, <3>2, <3>3
  <2>2. QED
    BY <2>1 DEF ChunkReads
<1>14. QED
  BY <1>8, <1>9, <1>10, <1>13 DEF Others

LEMMA ReleaseReaders ==
  ASSUME ReaderInv, NEW l \in Lists, Release(l) \/ ResetList(l) PROVE Others'
<1>1. CASE Release(l) /\ list[l].chunks # {}
  BY <1>1, PhaseReaders
<1>2. CASE Release(l) /\ list[l].chunks = {}
  BY <1>2, PooledReaders DEF Release
<1>3. CASE ResetList(l)
  <2>1. list[l].reset_seq = current
    BY <1>3 DEF ResetList, ReaderInv, ListsAre
  <2>2. QED
    BY <1>3, <2>1, PooledReaders DEF ResetList
<1>4. QED
  BY <1>1, <1>2, <1>3

LEMMA ReaderInit ==
  ASSUME OnlyBuffers, Init PROVE Others
<1>1. \A l \in Lists : /\ list[l].phase = "pooled" /\ list[l].reads = {}
                       /\ list[l].executions = 0
  BY DEF Init, PooledList
<1>2. subs \in SubCounts
  BY DEF Init, OnlyBuffers
<1>3. NameIsExecuted /\ ListsAre /\ Progress /\ ListReads
  BY <1>1 DEF Init, NameIsExecuted, ListsAre, Progress, ListReads
<1>4. ChunkReads
  BY DEF Init, ChunkReads
<1>5. QED
  BY <1>2, <1>3, <1>4 DEF Others

LEMMA ReaderStep ==
  ASSUME Supported, ReaderInv, [Next]_vars PROVE Others'
<1>1. CASE Immediate
  BY <1>1, NextSubReaders, RenameReaders, DrawReaders, CommitReaders DEF Immediate
<1>2. CASE Finishing
  BY <1>2, ResetChunkReaders, SignalReaders, ReleaseReaders DEF Finishing
<1>3. ASSUME NEW l \in Lists, ListCall(l) PROVE Others'
  <2>1. CASE CreateCommandList(l) \/ FinishCommandList(l)
    BY <2>1, PhaseReaders
  <2>2. QED
    BY <1>3, <2>1, DeferredNextSubReaders, DeferredRenameReaders, DeferredDrawReaders,
       ExecuteReaders, ReleaseReaders DEF ListCall
<1>4. CASE UNCHANGED vars
  <2>1. /\ UNCHANGED <<kind, subs, name, owned, fifo, allocated, list, current, retired,
                       coherent, reads>>
    BY <1>4 DEF vars
  <2>2. QED
    BY <2>1 DEF ReaderInv, Others, NameIsExecuted, ListsAre, Progress, ListReads, ChunkReads,
       IsReadBy, Uses
<1>5. QED
  BY <1>1, <1>2, <1>3, <1>4 DEF Next

(* What a chunk reads is not free before the chunk is coherent, and is not *)
(* above what has been mapped, whatever the lists' order.                  *)
THEOREM ReaderInvariance == Supported => (Spec => []ReaderInv)
<1> SUFFICES ASSUME Supported PROVE Spec => []ReaderInv
  OBVIOUS
<1>1. OnlyBuffers
  BY DEF Supported
<1>2. Spec => []BoundInv
  BY <1>1, BoundInvariance
<1>3. Init /\ BoundInv => ReaderInv
  BY <1>1, ReaderInit DEF ReaderInv, Others
<1>4. ReaderInv /\ [Next]_vars /\ BoundInv' => ReaderInv'
  BY ReaderStep DEF ReaderInv, Others
<1>5. QED
  BY <1>2, <1>3, <1>4, PTL DEF Spec

-----------------------------------------------------------------------------
(* What a map returns.                                                     *)

(* The memory is read by no chunk, and by no list that may still run.      *)
Unread(m) ==
  /\ \A seq \in 1 .. MaxSeq : m \notin reads[seq]
  /\ \A l \in Lists : Executable(l) => m \notin list[l].reads

LEMMA UnreadIsUnused ==
  ASSUME NEW m, Unread(m) PROVE m \notin InUse
<1> DEFINE C == {reads[seq] : seq \in 1 .. MaxSeq}
           L == {list[l].reads : l \in {x \in Lists : Executable(x)}}
<1>1. InUse = (UNION C) \union (UNION L)
  BY DEF InUse
<1>2. \A r \in C : m \notin r
  BY DEF Unread
<1>3. \A r \in L : m \notin r
  BY DEF Unread
<1> HIDE DEF C, L
<1>4. m \notin UNION C
  BY <1>2
<1>5. m \notin UNION L
  BY <1>3
<1>6. QED
  BY <1>1, <1>4, <1>5

LEMMA NextSubUnread == ASSUME Supported, ReaderInv, DiscardNextSub PROVE Unread(name')
<1>1. name' = <<name[1], name[2] + 1>> /\ name[2] + 1 < subs
  BY DEF DiscardNextSub, HasSuballocation
<1>2. name'[1] = name[1] /\ name'[2] = name[2] + 1 /\ name[2] \in Nat
  BY <1>1, Pair, ReaderTyped
<1>3. \A seq \in 1 .. MaxSeq : name' \notin reads[seq]
  BY <1>2, ReaderTyped DEF IsReadBy
<1>4. ASSUME NEW l \in Lists, Executable(l) PROVE name' \notin list[l].reads
  <2>1. SUFFICES ASSUME name' \in list[l].reads PROVE FALSE
    OBVIOUS
  <2>2. PICK i \in DOMAIN list[l].used : list[l].used[i].allocation = name[1]
    BY <1>2, <2>1 DEF ReaderInv, ListReads
  <2>3. list[l].executions > 0 /\ list[l].executions \in Nat
    BY <2>2, NameIsOwned, ReaderTyped DEF Uses, Holds
  <2>4. list[l].phase # "recording"
    BY <2>3 DEF ReaderInv, ListsAre
  <2>5. list[l].executions < MaxExecutions[subs]
    BY <1>4, <2>4 DEF Executable
  <2>6. MaxExecutions[subs] \in Nat /\ MaxExecutions[subs] <= 1
    <3>1. subs > 1 /\ subs \in SubCounts
      BY <1>1, <1>2, ReaderTyped DEF ReaderInv
    <3>2. QED
      BY <3>1, ExecutionsAssumption DEF Supported
  <2>7. QED
    BY <2>3, <2>5, <2>6
<1>5. QED
  BY <1>3, <1>4 DEF Unread

LEMMA AllocatedUnread ==
  ASSUME ReaderInv, maps < MaxMaps, Allocate, NEW m, m[1] = Allocated
  PROVE  Unread(m)
<1>1. \A seq \in 1 .. MaxSeq : m \notin reads[seq]
  BY AllocatedIsUnread
<1>2. \A l \in Lists : ~Uses(l, Allocated)
  BY AllocateTakes, ReaderTyped
<1>3. \A l \in Lists : m \notin list[l].reads
  BY <1>2 DEF ReaderInv, ListReads, Uses, Holds
<1>4. QED
  BY <1>1, <1>3 DEF Unread

LEMMA DeferredNextSubUnread ==
  ASSUME ReaderInv, NEW l \in Lists, DeferredNextSub(l)
  PROVE  Unread(<<Last(list'[l].used).allocation, Last(list'[l].used).suballocation>>)
<1> DEFINE u == list[l].used
           v == list'[l].used
           n == Len(u)
           m == <<Last(v).allocation, Last(v).suballocation>>
<1>1. /\ n \in Nat \ {0} /\ Len(v) = n /\ v \in Seq(Used)
      /\ DOMAIN u = 1 .. n
      /\ \A i \in DOMAIN u : v[i].allocation = u[i].allocation
      /\ v[n].suballocation = u[n].suballocation + 1
  BY ReaderTyped, NextSubOf
<1>2. u[n].suballocation \in Nat /\ n \in DOMAIN u
  <2>1. n \in DOMAIN u
    BY <1>1
  <2>2. u[n] \in Used
    BY <2>1, ReaderTyped, Typed
  <2>3. QED
    BY <2>1, <2>2 DEF Used
<1>3. Last(v) = v[n]
  BY <1>1 DEF Last
<1>4. list[l].phase = "recording" /\ list[l].executions = 0
  BY DEF DeferredNextSub, ReaderInv, ListsAre
<1> HIDE DEF u, v, n
<1>5. m[1] = u[n].allocation /\ m[2] = u[n].suballocation + 1
  BY <1>1, <1>2, <1>3, Pair
<1> HIDE DEF m
<1>6. Uses(l, m[1])
  BY <1>2, <1>5 DEF u, Uses, Holds
<1>7. \A seq \in 1 .. MaxSeq : m \notin reads[seq]
  BY <1>4, <1>6, ReaderTyped DEF IsReadBy
<1>8. ASSUME NEW k \in Lists PROVE m \notin list[k].reads
  <2>1. SUFFICES ASSUME m \in list[k].reads PROVE FALSE
    OBVIOUS
  <2>2. PICK i \in DOMAIN list[k].used :
          list[k].used[i].allocation = m[1] /\ m[2] <= list[k].used[i].suballocation
    BY <2>1 DEF ReaderInv, ListReads
  <2>3. m[1] \in Allocation
    BY <2>1, ListReadsTyped, ReaderTyped
  <2>4. k = l
    BY <1>6, <2>2, <2>3, ReaderTyped DEF Uses, Holds, OwnerInv, OwnersDiffer
  <2>5. i = n
    BY <1>2, <1>5, <2>2, <2>4, ReaderTyped DEF u, OwnerInv, UsedOnce, Once
  <2>6. u[n].suballocation + 1 <= u[n].suballocation
    BY <1>5, <2>2, <2>4, <2>5 DEF u
  <2>7. QED
    BY <1>2, <2>6
<1>9. QED
  BY <1>7, <1>8 DEF m, v, Unread

LEMMA DeferredRenameUnread ==
  ASSUME ReaderInv, NEW l \in Lists, DeferredRename(l)
  PROVE  Unread(<<Last(list'[l].used).allocation, Last(list'[l].used).suballocation>>)
<1> DEFINE v == list'[l].used
           n == Len(list[l].used)
           m == <<Last(v).allocation, Last(v).suballocation>>
<1>1. maps < MaxMaps /\ Allocate
  BY DEF DeferredRename, CountsMap
<1>2. Allocated \in Allocation
  BY <1>1, AllocateTakes, ReaderTyped
<1>3. /\ v \in Seq(Used) /\ Len(v) = n + 1
      /\ v[n + 1] = [allocation |-> Allocated, suballocation |-> 0, latest |-> IsLatest]
  BY <1>2, RenameOf, ReaderTyped
<1>4. Last(v) = v[n + 1]
  BY <1>3 DEF Last
<1>5. m[1] = Allocated
  BY <1>3, <1>4, Pair
<1>6. QED
  BY <1>1, <1>5, AllocatedUnread

(* The steps that map, and what they return.                               *)
LEMMA ReturnedIsUnread ==
  ASSUME Supported, ReaderInv, [Next]_vars, maps' # maps
  PROVE  \A m \in Returned : Unread(m)
<1>1. CASE DiscardNextSub
  <2>1. Unread(name')
    BY <1>1, NextSubUnread
  <2>2. name' # name
    <3>1. name'[2] = name[2] + 1 /\ name[2] \in Nat
      BY <1>1, Pair, ReaderTyped DEF DiscardNextSub
    <3>2. QED
      BY <3>1
  <2>3. QED
    BY <2>1, <2>2 DEF Returned
<1>2. CASE DiscardRename
  <2>1. maps < MaxMaps /\ Allocate /\ name' = <<Allocated, 0>> /\ list' = list
    BY <1>2 DEF DiscardRename, CountsMap
  <2>2. Unread(name')
    BY <2>1, Pair, AllocatedUnread
  <2>3. QED
    BY <2>1, <2>2 DEF Returned
<1>3. ASSUME NEW l \in Lists, DeferredNextSub(l) \/ DeferredRename(l)
      PROVE  \A m \in Returned : Unread(m)
  <2>1. name' = name /\ \E to : list' = [list EXCEPT ![l] = to]
    BY <1>3 DEF DeferredNextSub, DeferredRename
  <2>2. \A k \in Lists \ {l} : list'[k] = list[k]
    BY <2>1, ReaderTyped DEF TypeOK
  <2>3. \A m \in Returned :
          m = <<Last(list'[l].used).allocation, Last(list'[l].used).suballocation>>
    BY <2>1, <2>2 DEF Returned
  <2>4. QED
    BY <1>3, <2>3, DeferredNextSubUnread, DeferredRenameUnread
<1>4. QED
  <2>1. CASE Immediate
    BY <1>1, <1>2, <2>1 DEF Immediate, Draw, Commit
  <2>2. CASE Finishing
    BY <2>2 DEF Finishing, ResetChunk, SignalCoherent, ResetList
  <2>3. ASSUME NEW l \in Lists, ListCall(l) PROVE \A m \in Returned : Unread(m)
    BY <1>3, <2>3 DEF ListCall, CreateCommandList, DeferredDraw, FinishCommandList,
       ExecuteCommandList, Release
  <2>4. CASE UNCHANGED vars
    BY <2>4 DEF vars
  <2>5. QED
    BY <2>1, <2>2, <2>3, <2>4 DEF Next

(* A DISCARD map of any buffer, on the immediate context or on a deferred  *)
(* one, returns memory that no command still to be completed and no list   *)
(* still to be executed reads, for any number of lists, maps and chunks.   *)
THEOREM DiscardReturnsUnread == Supported => (Spec => DiscardIsExclusive)
<1> SUFFICES ASSUME Supported PROVE Spec => DiscardIsExclusive
  OBVIOUS
<1>1. ReaderInv /\ [Next]_vars => [maps' # maps => Returned \cap InUse = {}]_vars
  <2>1. SUFFICES ASSUME ReaderInv, [Next]_vars, maps' # maps, NEW m \in Returned, m \in InUse
                 PROVE  FALSE
    OBVIOUS
  <2>2. Unread(m)
    BY <2>1, ReturnedIsUnread
  <2>3. m \in InUse
    BY <2>1
  <2>4. QED
    BY <2>2, <2>3, UnreadIsUnused
<1>2. Spec => []ReaderInv
  BY ReaderInvariance
<1>3. QED
  BY <1>1, <1>2, PTL DEF Spec, DiscardIsExclusive

=============================================================================
