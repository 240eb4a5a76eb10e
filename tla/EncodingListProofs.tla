------------------------- MODULE EncodingListProofs -------------------------
(***************************************************************************)
(* Theorems about the list of passes of EncodingContext: what flushCommands*)
(* leaves of a list has the effect of the list, if the list is sound; and  *)
(* the list that is recorded is sound, by the fences its passes wait for.  *)
(***************************************************************************)
EXTENDS EncodingContextProofs

-----------------------------------------------------------------------------
(* A move in the list: the order it keeps, and what makes a list sound.    *)

(* What a pass that carries another waits for and clashes with.            *)
LEMMA MovesLive ==
  ASSUME NEW list, NEW after, NEW from, NEW into, Moves(list, after, from, into)
  PROVE  /\ Live(after) = Live(list) \ {from}
         /\ \A i \in Live(after) : i # into => after[i] = list[i]
         /\ into \in Live(after)
<1>1. /\ from \in Live(list) /\ into \in Live(list) /\ from # into
      /\ DOMAIN after = DOMAIN list
      /\ after[from].type = "null" /\ after[into].type = list[into].type
      /\ \A i \in DOMAIN list \ {from, into} : after[i] = list[i]
  BY DEF Moves
<1>2. \A i : i \in Live(after) <=> i \in Live(list) \ {from}
  BY <1>1 DEF Live
<1> QED
  BY <1>1, <1>2 DEF Live

LEMMA CarriesIs ==
  ASSUME NEW e, NEW a, NEW b, Carries(e, a, b)
  PROVE  /\ \A x : WaitsFor(x, e) <=> WaitsFor(x, a) \/ WaitsFor(x, b)
         /\ \A x : WaitsFor(e, x) => WaitsFor(a, x) \/ WaitsFor(b, x)
         /\ \A x : Updated(x) \intersect Updated(b) = {} =>
                     (WaitsFor(e, x) <=> WaitsFor(a, x) \/ WaitsFor(b, x))
         /\ \A x : Clash(x, e) <=> Clash(x, a) \/ Clash(x, b)
         /\ \A x : Clash(e, x) <=> Clash(a, x) \/ Clash(b, x)
<1>1. /\ Updated(e) = Updated(a) \union Updated(b)
      /\ (Waited(a) \union Waited(b)) \ Updated(b) \subseteq Waited(e)
      /\ Waited(e) \subseteq Waited(a) \union Waited(b)
      /\ ResourcesUsed(e) = ResourcesUsed(a) \union ResourcesUsed(b)
      /\ Alters(e) = Alters(a) \union Alters(b)
  BY DEF Carries
<1>2. \A x : WaitsFor(x, e) <=> WaitsFor(x, a) \/ WaitsFor(x, b)
  BY <1>1 DEF WaitsFor
<1>3. \A x : WaitsFor(e, x) => WaitsFor(a, x) \/ WaitsFor(b, x)
  BY <1>1 DEF WaitsFor
<1>4. ASSUME NEW x, Updated(x) \intersect Updated(b) = {}
      PROVE  WaitsFor(e, x) <=> WaitsFor(a, x) \/ WaitsFor(b, x)
  BY <1>1, <1>4 DEF WaitsFor
<1>5. \A x : Clash(x, e) <=> Clash(x, a) \/ Clash(x, b)
  BY <1>1 DEF Clash
<1>6. \A x : Clash(e, x) <=> Clash(a, x) \/ Clash(b, x)
  BY <1>1 DEF Clash
<1> QED
  BY <1>2, <1>3, <1>4, <1>5, <1>6

LEMMA MovesKeepsApart ==
  ASSUME NEW list, NEW after, NEW from, NEW into, Moves(list, after, from, into),
         AreSeparate(list)
  PROVE  AreSeparate(after)
<1>1. /\ Live(after) = Live(list) \ {from} /\ into \in Live(list) /\ from \in Live(list)
      /\ \A i \in Live(after) : i # into => after[i] = list[i]
      /\ Carries(after[into], list[into], list[from])
  BY MovesLive DEF Moves
<1> DEFINE e == after[into]
           a == list[into]
           b == list[from]
<1>2. /\ \A x : WaitsFor(x, e) <=> WaitsFor(x, a) \/ WaitsFor(x, b)
      /\ \A x : WaitsFor(e, x) => WaitsFor(a, x) \/ WaitsFor(b, x)
      /\ \A x : Clash(x, e) <=> Clash(x, a) \/ Clash(x, b)
      /\ \A x : Clash(e, x) <=> Clash(a, x) \/ Clash(b, x)
      /\ Updated(e) = Updated(a) \union Updated(b)
  BY <1>1, CarriesIs DEF Carries
<1> SUFFICES ASSUME NEW i \in Live(after), NEW k \in Live(after), i # k
             PROVE  /\ Updated(after[i]) \intersect Updated(after[k]) = {}
                    /\ WaitsFor(after[k], after[i]) => Clash(after[i], after[k])
  BY DEF AreSeparate
<1>3. \A m, n \in Live(list) : m # n =>
        /\ Updated(list[m]) \intersect Updated(list[n]) = {}
        /\ WaitsFor(list[n], list[m]) => Clash(list[m], list[n])
  BY DEF AreSeparate
<1> HIDE DEF e, a, b
<1>4. CASE i # into /\ k # into
  BY <1>1, <1>3, <1>4
<1>5. CASE i = into
  <2>1. after[i] = e /\ after[k] = list[k] /\ k # into /\ k # from /\ k \in Live(list)
    BY <1>1, <1>5 DEF e
  <2>2. /\ Updated(a) \intersect Updated(list[k]) = {}
        /\ Updated(b) \intersect Updated(list[k]) = {}
        /\ WaitsFor(list[k], a) => Clash(a, list[k])
        /\ WaitsFor(list[k], b) => Clash(b, list[k])
    BY <1>1, <1>3, <2>1 DEF a, b
  <2> QED
    BY <1>2, <2>1, <2>2
<1>6. CASE k = into
  <2>1. after[k] = e /\ after[i] = list[i] /\ i # into /\ i # from /\ i \in Live(list)
    BY <1>1, <1>6 DEF e
  <2>2. /\ Updated(list[i]) \intersect Updated(a) = {}
        /\ Updated(list[i]) \intersect Updated(b) = {}
        /\ WaitsFor(a, list[i]) => Clash(list[i], a)
        /\ WaitsFor(b, list[i]) => Clash(list[i], b)
    BY <1>1, <1>3, <2>1 DEF a, b
  <2> QED
    BY <1>2, <2>1, <2>2
<1> QED
  BY <1>4, <1>5, <1>6

(* A chain that leads from a pass to another starts with one that waits    *)
(* for it.                                                                 *)
LEMMA ChainStarts ==
  ASSUME NEW list, NEW order, Chains(list, order), DOMAIN list \subseteq Nat,
         NEW i \in Live(list), NEW k \in order[i]
  PROVE  \E m \in Live(list) : i < m /\ m <= k /\ WaitsFor(list[m], list[i])
<1>1. \A b \in order[i] :
        /\ b \in Live(list) /\ i < b
        /\ \/ WaitsFor(list[b], list[i])
           \/ \E m \in order[i] : m < b
  BY DEF Chains
<1>2. Live(list) \subseteq Nat
  BY DEF Live
<1> DEFINE met == order[i] \intersect Nat
<1>3. k \in met /\ met \subseteq Nat
  BY <1>1, <1>2
<1>4. PICK m \in met : \A y \in met : ~(<<y, m>> \in OpToRel(<, Nat))
  BY <1>3, NatLessThanWellFounded, WFMin
<1>5. \A y \in met : ~ (y < m)
  BY <1>3, <1>4 DEF OpToRel
<1>6. m \in order[i] /\ m \in Live(list) /\ i < m
  BY <1>1, <1>4
<1>7. m <= k
  <2>1. m \in Nat /\ k \in Nat /\ ~ (k < m)
    BY <1>3, <1>4, <1>5
  <2> QED
    BY <2>1
<1>8. WaitsFor(list[m], list[i])
  BY <1>1, <1>2, <1>5, <1>6
<1> QED
  BY <1>6, <1>7, <1>8

(* What the pass clashes with next, waits for it.                          *)
LEMMA MeetsWaiting ==
  ASSUME NEW list, NEW j \in Live(list), NEW i \in Live(list), j < i,
         DOMAIN list \subseteq Nat, AreSeparate(list), HasOrder(list, j + 1),
         Apart(list, j, i), Clash(list[j], list[i])
  PROVE  WaitsFor(list[i], list[j])
<1>1. j \in Nat /\ i \in Nat /\ Live(list) \subseteq Nat
  BY DEF Live
<1>2. PICK order : IsOrder(list, j + 1, order)
  BY DEF HasOrder
<1>3. i \in order[j] /\ Chains(list, order)
  BY <1>1, <1>2 DEF IsOrder
<1>4. PICK m \in Live(list) : j < m /\ m <= i /\ WaitsFor(list[m], list[j])
  BY <1>3, ChainStarts
<1>5. Clash(list[j], list[m])
  BY <1>1, <1>4 DEF AreSeparate
<1>6. m = i
  BY <1>1, <1>4, <1>5 DEF Apart
<1> QED
  BY <1>4, <1>6

(* A pass that becomes part of another: what waited for what still does.   *)
LEMMA MovesKeepsWaits ==
  ASSUME NEW list, NEW after, NEW from, NEW into, Moves(list, after, from, into),
         AreSeparate(list)
  PROVE  /\ \A x, y \in Live(after) :
              x # y /\ WaitsFor(list[y], list[x]) => WaitsFor(after[y], after[x])
         /\ \A x \in Live(after) :
              x # into /\ WaitsFor(list[from], list[x]) => WaitsFor(after[into], after[x])
         /\ \A y \in Live(after) :
              y # into /\ WaitsFor(list[y], list[from]) => WaitsFor(after[y], after[into])
<1>1. /\ Live(after) = Live(list) \ {from} /\ into \in Live(list) /\ from \in Live(list)
      /\ \A i \in Live(after) : i # into => after[i] = list[i]
      /\ Carries(after[into], list[into], list[from])
  BY MovesLive DEF Moves
<1> DEFINE e == after[into]
           a == list[into]
           b == list[from]
<1>2. /\ \A x : WaitsFor(x, e) <=> WaitsFor(x, a) \/ WaitsFor(x, b)
      /\ \A x : Updated(x) \intersect Updated(b) = {} =>
                  (WaitsFor(e, x) <=> WaitsFor(a, x) \/ WaitsFor(b, x))
  BY <1>1, CarriesIs
<1>3. \A m \in Live(list) : m # from => Updated(list[m]) \intersect Updated(b) = {}
  BY <1>1 DEF AreSeparate
<1> HIDE DEF e, a, b
<1>4. ASSUME NEW x \in Live(after), NEW y \in Live(after), x # y, WaitsFor(list[y], list[x])
      PROVE  WaitsFor(after[y], after[x])
  <2>1. CASE x # into /\ y # into
    BY <1>1, <1>4, <2>1
  <2>2. CASE x = into
    BY <1>1, <1>2, <1>4, <2>2 DEF a, e
  <2>3. CASE y = into
    BY <1>1, <1>2, <1>3, <1>4, <2>3 DEF a, e
  <2> QED
    BY <2>1, <2>2, <2>3
<1>5. ASSUME NEW x \in Live(after), x # into, WaitsFor(list[from], list[x])
      PROVE  WaitsFor(after[into], after[x])
  BY <1>1, <1>2, <1>3, <1>5 DEF b, e
<1>6. ASSUME NEW y \in Live(after), y # into, WaitsFor(list[y], list[from])
      PROVE  WaitsFor(after[y], after[into])
  BY <1>1, <1>2, <1>6 DEF b, e
<1> QED
  BY <1>4, <1>5, <1>6

(* A pass that becomes part of a later one keeps the order of those before *)
(* it, and of all resolves.                                                *)
LEMMA DownOrdered ==
  ASSUME NEW list, NEW after, NEW j, NEW t, Moves(list, after, j, t), j < t,
         DOMAIN list \subseteq Nat, AreSeparate(list), HasOrder(list, j + 1),
         Apart(list, j, t), list[j].type # "resolve", list[t].type # "resolve"
  PROVE  HasOrder(after, j)
<1>1. /\ Live(after) = Live(list) \ {j} /\ t \in Live(list) /\ j \in Live(list)
      /\ \A i \in Live(after) : i # t => after[i] = list[i]
      /\ Carries(after[t], list[t], list[j]) /\ after[t].type = list[t].type
      /\ Live(list) \subseteq Nat /\ j \in Nat /\ t \in Nat /\ t \in Live(after)
  BY MovesLive DEF Moves, Live
<1> DEFINE a == list[t]
           b == list[j]
<1>2. \A x : Clash(x, after[t]) <=> Clash(x, a) \/ Clash(x, b)
  BY <1>1, CarriesIs
<1>3. \A m, n \in Live(list) : m # n /\ WaitsFor(list[n], list[m]) => Clash(list[m], list[n])
  BY DEF AreSeparate
<1>4. PICK order : IsOrder(list, j + 1, order)
  BY DEF HasOrder
<1>5. /\ \A i \in Live(list) : \A k \in order[i] :
           /\ k \in Live(list) /\ i < k
           /\ \/ WaitsFor(list[k], list[i])
              \/ \E m \in order[i] : m < k /\ WaitsFor(list[k], list[m])
      /\ \A i, k \in Live(list) :
           (i < j + 1 \/ list[i].type = "resolve") /\ i < k /\ Clash(list[i], list[k])
           => k \in order[i]
  BY <1>4 DEF IsOrder, Chains
<1>6. \A m \in Live(list) : j < m /\ m < t => ~ Clash(b, list[m])
  BY DEF Apart
<1>7. \A m \in Live(list) : j < m /\ WaitsFor(list[m], b) => m >= t
  BY <1>1, <1>3, <1>6
<1> HIDE DEF a, b
<1>8. /\ \A x, y \in Live(after) :
           x # y /\ WaitsFor(list[y], list[x]) => WaitsFor(after[y], after[x])
      /\ \A x \in Live(after) : x # t /\ WaitsFor(b, list[x]) => WaitsFor(after[t], after[x])
      /\ \A y \in Live(after) : y # t /\ WaitsFor(list[y], b) => WaitsFor(after[y], after[t])
  BY MovesKeepsWaits DEF b
<1> DEFINE new == [i \in Live(list) |-> (order[i] \ {j}) \union (IF j \in order[i] THEN {t} ELSE {})]
<1>9. \A i \in Live(list) : \A k :
        k \in new[i] <=> (k \in order[i] /\ k # j) \/ (k = t /\ j \in order[i])
  OBVIOUS
<1> HIDE DEF new
<1>10. ASSUME NEW i \in Live(after), j \in order[i]
       PROVE  /\ i < t
              /\ \/ WaitsFor(after[t], after[i])
                 \/ \E m \in new[i] : m < t /\ WaitsFor(after[t], after[m])
  <2>1. /\ i \in Live(list) /\ i < j /\ i # t /\ i < t
        /\ \/ WaitsFor(b, list[i])
           \/ \E m \in order[i] : m < j /\ m \in Live(list) /\ WaitsFor(b, list[m])
    BY <1>1, <1>5, <1>10 DEF b
  <2>2. CASE WaitsFor(b, list[i])
    BY <1>8, <2>1, <2>2
  <2>3. CASE \E m \in order[i] : m < j /\ m \in Live(list) /\ WaitsFor(b, list[m])
    <3>1. PICK m \in order[i] : m < j /\ m \in Live(list) /\ WaitsFor(b, list[m])
      BY <2>3
    <3>2. m \in Live(after) /\ m # t /\ m < t /\ m \in new[i]
      BY <1>1, <1>9, <2>1, <3>1
    <3> QED
      BY <1>8, <2>1, <3>1, <3>2
  <2> QED
    BY <2>1, <2>2, <2>3
<1>11. ASSUME NEW i \in Live(after), NEW k \in new[i]
       PROVE  /\ k \in Live(after) /\ i < k
              /\ \/ WaitsFor(after[k], after[i])
                 \/ \E m \in new[i] : m < k /\ WaitsFor(after[k], after[m])
  <2>1. CASE k = t /\ j \in order[i]
    BY <1>1, <1>10, <2>1
  <2>2. CASE k \in order[i] /\ k # j
    <3>1. /\ i \in Live(list) /\ k \in Live(after) /\ i < k /\ i # k
          /\ \/ WaitsFor(list[k], list[i])
             \/ \E m \in order[i] : m < k /\ m \in Live(list) /\ WaitsFor(list[k], list[m])
      BY <1>1, <1>5, <2>2
    <3>2. CASE WaitsFor(list[k], list[i])
      BY <1>8, <3>1, <3>2
    <3>3. CASE \E m \in order[i] : m < k /\ m \in Live(list) /\ WaitsFor(list[k], list[m])
      <4>1. PICK m \in order[i] : m < k /\ m \in Live(list) /\ WaitsFor(list[k], list[m])
        BY <3>3
      <4>2. CASE m # j
        <5>1. m \in Live(after) /\ m # k /\ m \in new[i]
          BY <1>1, <1>9, <3>1, <4>1, <4>2
        <5> QED
          BY <1>8, <3>1, <4>1, <5>1
      <4>3. CASE m = j
        <5>1. k >= t /\ j \in order[i] /\ WaitsFor(list[k], b) /\ t \in new[i]
          BY <1>1, <1>7, <1>9, <3>1, <4>1, <4>3 DEF b
        <5>2. CASE k = t
          BY <1>10, <3>1, <5>1, <5>2
        <5>3. CASE k # t
          BY <1>1, <1>8, <3>1, <5>1, <5>3
        <5> QED
          BY <5>2, <5>3
      <4> QED
        BY <4>2, <4>3
    <3> QED
      BY <3>1, <3>2, <3>3
  <2> QED
    BY <1>1, <1>9, <1>11, <2>1, <2>2
<1>12. ASSUME NEW i \in Live(after), NEW k \in Live(after),
              i < j \/ after[i].type = "resolve", i < k, Clash(after[i], after[k])
       PROVE  k \in new[i]
  <2>1. /\ i # t /\ i # j /\ after[i] = list[i] /\ i \in Live(list) /\ k \in Live(list) /\ k # j
        /\ i < j + 1 \/ list[i].type = "resolve"
    BY <1>1, <1>12
  <2>2. CASE k # t
    BY <1>1, <1>5, <1>9, <1>12, <2>1, <2>2
  <2>3. CASE k = t
    <3>1. Clash(list[i], a) \/ Clash(list[i], b)
      BY <1>2, <1>12, <2>1, <2>3
    <3>2. CASE Clash(list[i], a)
      BY <1>1, <1>5, <1>9, <1>12, <2>1, <2>3, <3>2 DEF a
    <3>3. CASE Clash(list[i], b)
      <4>1. Clash(b, list[i])
        BY <3>3 DEF Clash
      <4>2. i < j
        BY <1>1, <1>6, <1>12, <2>1, <2>3, <4>1
      <4>3. j \in order[i]
        BY <1>1, <1>5, <2>1, <3>3, <4>2 DEF b
      <4> QED
        BY <1>9, <2>1, <2>3, <4>3
    <3> QED
      BY <3>1, <3>2, <3>3
  <2> QED
    BY <2>2, <2>3
<1>13. IsOrder(after, j, new)
  BY <1>11, <1>12 DEF IsOrder, Chains
<1> QED
  BY <1>13 DEF HasOrder

LEMMA ClashCommutes == \A a, b : Clash(a, b) <=> Clash(b, a)
  BY DEF Clash

LEMMA AltersUsed ==
  ASSUME NEW e, IsWhole(e)
  PROVE  Alters(e) \subseteq ResourcesUsed(e) /\ ResourcesWritten(e) \subseteq Alters(e)
<1>1. ResourcesWritten(e) \subseteq ResourcesUsed(e) /\ ResourcesWritten(e) \subseteq Alters(e)
  BY DEF ResourcesWritten, ResourcesUsed, Alters
<1>2. \A p \in DOMAIN e.attachments : ResourceOf(p) \in ResourcesUsed(e)
  <2>1. CASE e.type = "render"
    BY <2>1 DEF IsWhole, IsAttachment
  <2>2. CASE e.type # "render"
    BY <2>2 DEF IsWhole, NoAttachments
  <2> QED
    BY <2>1, <2>2
<1> QED
  BY <1>1, <1>2 DEF Alters, ClearLoads, ResourcesOf

(* A resolve that becomes part of an earlier render.                       *)
LEMMA UpApart ==
  ASSUME NEW list, NEW j \in Live(list), NEW t \in Live(list), j < t,
         Apart(list, j, t), TargetsAreUnused(list),
         list[t].type = "resolve", IsWhole(list[t]),
         ResourceOf(list[t].src) \in ResourcesWritten(list[j]),
         NEW m \in Live(list), IsWhole(list[m]), j < m, m < t
  PROVE  ~ Clash(list[m], list[t]) /\ ~ Clash(list[j], list[m])
<1>1. /\ ResourcesUsed(list[t]) = {ResourceOf(list[t].src), ResourceOf(list[t].dst)}
      /\ Alters(list[t]) \subseteq ResourcesUsed(list[t])
      /\ Alters(list[m]) \subseteq ResourcesUsed(list[m])
  BY AltersUsed DEF IsWhole
<1>2. ResourceOf(list[t].dst) \notin ResourcesUsed(list[m])
  BY DEF TargetsAreUnused
<1>3. ~ Clash(list[j], list[m])
  BY DEF Apart
<1>4. ResourceOf(list[t].src) \in Alters(list[j])
  BY DEF Alters
<1>5. ResourceOf(list[t].src) \notin ResourcesUsed(list[m])
  BY <1>3, <1>4 DEF Clash
<1>6. ~ Clash(list[m], list[t])
  BY <1>1, <1>2, <1>5 DEF Clash
<1> QED
  BY <1>3, <1>6

LEMMA UpOrdered ==
  ASSUME NEW list, NEW after, NEW j, NEW t, Moves(list, after, t, j), j < t,
         DOMAIN list \subseteq Nat, AreSeparate(list), HasOrder(list, j + 1),
         list[t].type = "resolve",
         \A m \in Live(list) : j < m /\ m < t => ~ Clash(list[m], list[t])
  PROVE  HasOrder(after, j + 1)
<1>1. /\ Live(after) = Live(list) \ {t} /\ t \in Live(list) /\ j \in Live(list)
      /\ \A i \in Live(after) : i # j => after[i] = list[i]
      /\ Carries(after[j], list[j], list[t]) /\ after[j].type = list[j].type
      /\ Live(list) \subseteq Nat /\ j \in Nat /\ t \in Nat /\ j \in Live(after)
  BY MovesLive DEF Moves, Live
<1> DEFINE a == list[j]
           b == list[t]
<1>2. /\ \A x : Clash(x, after[j]) <=> Clash(x, a) \/ Clash(x, b)
      /\ \A x : Clash(after[j], x) <=> Clash(a, x) \/ Clash(b, x)
  BY <1>1, CarriesIs
<1>3. \A m, n \in Live(list) : m # n /\ WaitsFor(list[n], list[m]) => Clash(list[m], list[n])
  BY DEF AreSeparate
<1>4. PICK order : IsOrder(list, j + 1, order)
  BY DEF HasOrder
<1>5. /\ \A i \in Live(list) : \A k \in order[i] :
           /\ k \in Live(list) /\ i < k
           /\ \/ WaitsFor(list[k], list[i])
              \/ \E m \in order[i] : m < k /\ WaitsFor(list[k], list[m])
      /\ \A i, k \in Live(list) :
           (i < j + 1 \/ list[i].type = "resolve") /\ i < k /\ Clash(list[i], list[k])
           => k \in order[i]
  BY <1>4 DEF IsOrder, Chains
<1>6. \A m \in Live(list) : j < m /\ m < t => ~ Clash(list[m], b) /\ ~ Clash(b, list[m])
  BY ClashCommutes
<1>7. \A m \in Live(list) : m < t /\ WaitsFor(b, list[m]) => m <= j
  BY <1>1, <1>3, <1>6
<1> HIDE DEF a, b
<1>8. /\ \A x, y \in Live(after) :
           x # y /\ WaitsFor(list[y], list[x]) => WaitsFor(after[y], after[x])
      /\ \A x \in Live(after) : x # j /\ WaitsFor(b, list[x]) => WaitsFor(after[j], after[x])
      /\ \A y \in Live(after) : y # j /\ WaitsFor(list[y], b) => WaitsFor(after[y], after[j])
  BY MovesKeepsWaits DEF b
<1> DEFINE new == [i \in Live(list) |->
                     (order[i] \ {t}) \union
                     (IF i = j THEN order[t]
                      ELSE IF i < j /\ t \in order[i] THEN {j} ELSE {})]
<1>9. \A i \in Live(list) : \A k :
        k \in new[i] <=> \/ k \in order[i] /\ k # t
                         \/ i = j /\ k \in order[t]
                         \/ i # j /\ i < j /\ t \in order[i] /\ k = j
  OBVIOUS
<1> HIDE DEF new
(* No chain to the resolve starts between. *)
<1>10. ASSUME NEW i \in Live(list), t \in order[i]
       PROVE  i <= j
  <2>1. /\ i < t
        /\ \/ WaitsFor(b, list[i])
           \/ \E m \in order[i] : m < t /\ i < m /\ m \in Live(list) /\ WaitsFor(b, list[m])
    BY <1>5, <1>10 DEF b
  <2> QED
    BY <1>1, <1>7, <2>1
<1>11. ASSUME NEW i \in Live(after), NEW k \in order[i], k # t
       PROVE  /\ k \in Live(after) /\ i < k
              /\ \/ WaitsFor(after[k], after[i])
                 \/ \E m \in new[i] : m < k /\ WaitsFor(after[k], after[m])
  <2>1. /\ i \in Live(list) /\ k \in Live(after) /\ i < k /\ i # k
        /\ \/ WaitsFor(list[k], list[i])
           \/ \E m \in order[i] : m < k /\ m \in Live(list) /\ WaitsFor(list[k], list[m])
    BY <1>1, <1>5, <1>11
  <2>2. CASE WaitsFor(list[k], list[i])
    BY <1>8, <2>1, <2>2
  <2>3. CASE \E m \in order[i] : m < k /\ m \in Live(list) /\ WaitsFor(list[k], list[m])
    <3>1. PICK m \in order[i] : m < k /\ m \in Live(list) /\ WaitsFor(list[k], list[m])
      BY <2>3
    <3>2. CASE m # t
      <4>1. m \in Live(after) /\ m # k /\ m \in new[i]
        BY <1>1, <1>9, <2>1, <3>1, <3>2
      <4> QED
        BY <1>8, <2>1, <3>1, <4>1
    <3>3. CASE m = t
      <4>1. /\ t < k /\ t \in order[i] /\ WaitsFor(list[k], b) /\ i <= j /\ k # j /\ j < k
        BY <1>1, <1>10, <2>1, <3>1, <3>3 DEF b
      <4>2. WaitsFor(after[k], after[j])
        BY <1>8, <2>1, <4>1
      <4>3. CASE i = j
        BY <2>1, <4>2, <4>3
      <4>4. CASE i # j
        <5>1. j \in new[i]
          BY <1>1, <1>9, <2>1, <4>1, <4>4
        <5> QED
          BY <2>1, <4>1, <4>2, <5>1
      <4> QED
        BY <4>3, <4>4
    <3> QED
      BY <3>2, <3>3
  <2> QED
    BY <2>1, <2>2, <2>3
<1>12. ASSUME NEW i \in Live(after), i < j, t \in order[i]
       PROVE  \/ WaitsFor(after[j], after[i])
              \/ \E m \in new[i] : m < j /\ WaitsFor(after[j], after[m])
  <2>1. /\ i \in Live(list) /\ i # j
        /\ \/ WaitsFor(b, list[i])
           \/ \E m \in order[i] : m < t /\ m \in Live(list) /\ WaitsFor(b, list[m])
    BY <1>1, <1>5, <1>12 DEF b
  <2>2. CASE WaitsFor(b, list[i])
    BY <1>8, <2>1, <2>2
  <2>3. CASE \E m \in order[i] : m < t /\ m \in Live(list) /\ WaitsFor(b, list[m])
    <3>1. PICK m \in order[i] : m < t /\ m \in Live(list) /\ WaitsFor(b, list[m])
      BY <2>3
    <3>2. m <= j /\ m # t /\ m \in Live(after) /\ m \in new[i]
      BY <1>1, <1>7, <1>9, <2>1, <3>1
    <3>3. CASE m = j
      BY <1>1, <1>11, <3>1, <3>2, <3>3
    <3>4. CASE m # j
      BY <1>1, <1>8, <3>1, <3>2, <3>4
    <3> QED
      BY <3>3, <3>4
  <2> QED
    BY <2>1, <2>2, <2>3
<1>13. ASSUME NEW k \in order[t]
       PROVE  /\ k \in Live(after) /\ j < k
              /\ \/ WaitsFor(after[k], after[j])
                 \/ \E m \in new[j] : m < k /\ WaitsFor(after[k], after[m])
  <2>1. /\ k \in Live(list) /\ t < k /\ j < k /\ k # j /\ k # t /\ k \in Live(after)
        /\ \/ WaitsFor(list[k], b)
           \/ \E m \in order[t] : m < k /\ m \in Live(list) /\ t < m /\ WaitsFor(list[k], list[m])
    BY <1>1, <1>5, <1>13 DEF b
  <2>2. CASE WaitsFor(list[k], b)
    BY <1>8, <2>1, <2>2
  <2>3. CASE \E m \in order[t] : m < k /\ m \in Live(list) /\ t < m /\ WaitsFor(list[k], list[m])
    <3>1. PICK m \in order[t] : m < k /\ m \in Live(list) /\ t < m /\ WaitsFor(list[k], list[m])
      BY <2>3
    <3>2. m # t /\ m # k /\ m \in Live(after) /\ m \in new[j]
      BY <1>1, <1>9, <2>1, <3>1
    <3> QED
      BY <1>8, <2>1, <3>1, <3>2
  <2> QED
    BY <2>1, <2>2, <2>3
<1>14. ASSUME NEW i \in Live(after), NEW k \in new[i]
       PROVE  /\ k \in Live(after) /\ i < k
              /\ \/ WaitsFor(after[k], after[i])
                 \/ \E m \in new[i] : m < k /\ WaitsFor(after[k], after[m])
  <2>1. CASE k \in order[i] /\ k # t
    BY <1>11, <2>1
  <2>2. CASE i = j /\ k \in order[t]
    BY <1>13, <2>2
  <2>3. CASE i < j /\ t \in order[i] /\ k = j
    BY <1>1, <1>12, <2>3
  <2> QED
    BY <1>1, <1>9, <1>14, <2>1, <2>2, <2>3
<1>15. ASSUME NEW i \in Live(after), NEW k \in Live(after),
              i < j + 1 \/ after[i].type = "resolve", i < k, Clash(after[i], after[k])
       PROVE  k \in new[i]
  <2>1. i \in Live(list) /\ k \in Live(list) /\ i # t /\ k # t /\ i \in Nat /\ k \in Nat
    BY <1>1
  <2>2. CASE i # j /\ k # j
    BY <1>1, <1>5, <1>9, <1>15, <2>1, <2>2
  <2>3. CASE k = j
    <3>1. i # j /\ i < j /\ i < j + 1 /\ after[i] = list[i] /\ i < t
      BY <1>1, <1>15, <2>1, <2>3
    <3>2. Clash(list[i], a) \/ Clash(list[i], b)
      BY <1>2, <1>15, <2>3, <3>1
    <3>3. CASE Clash(list[i], a)
      BY <1>1, <1>5, <1>9, <2>1, <2>3, <3>1, <3>3 DEF a
    <3>4. CASE Clash(list[i], b)
      BY <1>1, <1>5, <1>9, <2>1, <2>3, <3>1, <3>4 DEF b
    <3> QED
      BY <3>2, <3>3, <3>4
  <2>4. CASE i = j
    <3>1. k # j /\ j < k /\ j < j + 1 /\ after[k] = list[k]
      BY <1>1, <1>15, <2>1, <2>4
    <3>2. Clash(a, list[k]) \/ Clash(b, list[k])
      BY <1>2, <1>15, <2>4, <3>1
    <3>3. CASE Clash(a, list[k])
      BY <1>1, <1>5, <1>9, <2>1, <2>4, <3>1, <3>3 DEF a
    <3>4. CASE Clash(b, list[k])
      <4>1. t < k
        BY <1>1, <1>6, <2>1, <3>1, <3>4
      <4>2. k \in order[t]
        BY <1>1, <1>5, <2>1, <3>4, <4>1 DEF b
      <4> QED
        BY <1>9, <2>1, <2>4, <4>2
    <3> QED
      BY <3>2, <3>3, <3>4
  <2> QED
    BY <2>2, <2>3, <2>4
<1>16. IsOrder(after, j + 1, new)
  BY <1>14, <1>15 DEF IsOrder, Chains
<1> QED
  BY <1>16 DEF HasOrder

LEMMA SoundIs ==
  ASSUME NEW list, NEW end, IsSound(list, end)
  PROVE  /\ Len(list) \in Nat /\ DOMAIN list = 1 .. Len(list) /\ Live(list) \subseteq 1 .. Len(list)
         /\ \A i \in Live(list) : IsWhole(list[i]) /\ (i < end => IsRecorded(list[i]))
<1>1. IsList(list) /\ AreWhole(list, end)
  BY DEF IsSound, AreListed
<1>2. Len(list) \in Nat /\ DOMAIN list = 1 .. Len(list)
  BY <1>1 DEF IsList
<1> QED
  BY <1>1, <1>2 DEF AreWhole, Live

(* The passes before "end" may be fewer. *)
LEMMA SoundBefore ==
  ASSUME NEW list, NEW j \in Nat, IsSound(list, j + 1)
  PROVE  IsSound(list, j)
<1>1. /\ Live(list) \subseteq Nat
      /\ \A i \in Live(list) : i < j => i < j + 1
  BY SoundIs
<1>2. AreWhole(list, j)
  BY <1>1 DEF IsSound, AreWhole
<1>3. HasOrder(list, j)
  <2>1. PICK order : IsOrder(list, j + 1, order)
    BY DEF IsSound, HasOrder
  <2>2. IsOrder(list, j, order)
    BY <1>1, <2>1 DEF IsOrder
  <2> QED
    BY <2>2 DEF HasOrder
<1>4. ReadonlyStays(list, j)
  BY <1>1 DEF IsSound, ReadonlyStays
<1>5. StoresAreCleared(list, j)
  BY <1>1 DEF IsSound, StoresAreCleared, IsCleared
<1> QED
  BY <1>2, <1>3, <1>4, <1>5 DEF IsSound

(* A store that may be left out is not of a pass before "end".             *)
LEMMA ClearedLater ==
  ASSUME NEW list, NEW end \in Nat, IsSound(list, end), NEW i \in Live(list),
         NEW p \in DOMAIN list[i].attachments, list[i].attachments[p].store = "dont_care"
  PROVE  i >= end /\ IsCleared(list, end, i, p) /\ ResourceOf(p) \in ResourcesUsed(list[i])
<1>1. ~ (i < end) /\ i \in Nat
  BY SoundIs DEF IsRecorded
<1>2. IsCleared(list, end, i, p)
  BY DEF IsSound, StoresAreCleared
<1>3. ResourceOf(p) \in ResourcesUsed(list[i])
  <2>1. IsWhole(list[i])
    BY SoundIs
  <2>2. list[i].type = "render"
    BY <2>1 DEF IsWhole, NoAttachments
  <2> QED
    BY <2>1, <2>2 DEF IsWhole, IsAttachment
<1> QED
  BY <1>1, <1>2, <1>3

LEMMA DownSound ==
  ASSUME NEW list, NEW after, NEW j \in Nat, NEW t \in Nat, IsSound(list, j + 1),
         Moves(list, after, j, t), j < t, Apart(list, j, t),
         list[j].type # "resolve", list[t].type = "render",
         AreListed(after), IsWhole(after[t]),
         \A p \in DOMAIN after[t].attachments :
           after[t].attachments[p].store = "dont_care" =>
             p \in DOMAIN list[t].attachments /\ list[t].attachments[p].store = "dont_care"
  PROVE  IsSound(after, j)
<1>1. /\ Live(after) = Live(list) \ {j} /\ t \in Live(list) /\ j \in Live(list)
      /\ \A i \in Live(after) : i # t => after[i] = list[i]
      /\ Carries(after[t], list[t], list[j]) /\ after[t].type = "render" /\ t \in Live(after)
  BY MovesLive DEF Moves
<1>2. /\ Live(list) \subseteq Nat /\ DOMAIN list \subseteq Nat
      /\ \A i \in Live(list) : IsWhole(list[i]) /\ (i < j + 1 => IsRecorded(list[i]))
      /\ AreSeparate(list) /\ HasOrder(list, j + 1)
  BY SoundIs DEF IsSound
<1>3. /\ ResourcesUsed(after[t]) = ResourcesUsed(list[t]) \union ResourcesUsed(list[j])
      /\ ResourcesWritten(after[t]) = ResourcesWritten(list[t]) \union ResourcesWritten(list[j])
      /\ \A x : Clash(x, after[t]) <=> Clash(x, list[t]) \/ Clash(x, list[j])
  BY <1>1, CarriesIs DEF Carries
<1>4. AreWhole(after, j)
  <2> SUFFICES ASSUME NEW i \in Live(after)
               PROVE  IsWhole(after[i]) /\ (i < j => IsRecorded(after[i]))
    BY DEF AreWhole
  <2>1. CASE i = t
    BY <1>2, <2>1
  <2>2. CASE i # t
    <3>1. after[i] = list[i] /\ i \in Live(list) /\ i \in Nat /\ (i < j => i < j + 1)
      BY <1>1, <1>2, <2>2
    <3> QED
      BY <1>2, <3>1
  <2> QED
    BY <2>1, <2>2
<1>5. AreSeparate(after)
  BY <1>2, MovesKeepsApart
<1>6. HasOrder(after, j)
  BY <1>1, <1>2, DownOrdered
<1>7. TargetsAreUnused(after)
  <2> SUFFICES ASSUME NEW i \in Live(after), NEW k \in Live(after), i < k,
                      after[k].type = "resolve"
               PROVE  ResourceOf(after[k].dst) \notin ResourcesUsed(after[i])
    BY DEF TargetsAreUnused
  <2>1. k # t /\ after[k] = list[k] /\ k \in Live(list) /\ i \in Live(list) /\ k \in Nat /\ i \in Nat
    BY <1>1, <1>2
  <2>2. \A m \in Live(list) : m < k => ResourceOf(list[k].dst) \notin ResourcesUsed(list[m])
    BY <2>1 DEF IsSound, TargetsAreUnused
  <2>3. CASE i # t
    BY <1>1, <2>1, <2>2, <2>3
  <2>4. CASE i = t
    <3>1. j < k
      BY <2>1, <2>4
    <3> QED
      BY <1>1, <1>3, <2>1, <2>2, <2>4, <3>1
  <2> QED
    BY <2>3, <2>4
<1>8. ReadonlyStays(after, j)
  <2> SUFFICES ASSUME NEW i \in Live(after), NEW k \in Live(after), NEW m \in Live(after),
                      i < j, i < k, m < k, m # i, after[k].type = "clear",
                      NEW p \in after[k].planes, IsReadonly(after[i], p)
               PROVE  ResourceOf(p) \notin ResourcesUsed(after[m]) \ ResourcesWritten(after[m])
    BY DEF ReadonlyStays
  <2>1. /\ i # t /\ k # t /\ after[i] = list[i] /\ after[k] = list[k] /\ i < j + 1 /\ i # j
        /\ i \in Live(list) /\ k \in Live(list) /\ m \in Live(list) /\ m \in Nat /\ k \in Nat
    BY <1>1, <1>2
  <2>2. \A n \in Live(list) : n < k /\ n # i =>
          ResourceOf(p) \notin ResourcesUsed(list[n]) \ ResourcesWritten(list[n])
    BY <2>1 DEF IsSound, ReadonlyStays
  <2>3. CASE m # t
    BY <1>1, <2>1, <2>2, <2>3
  <2>4. CASE m = t
    <3>1. j < k
      BY <2>1, <2>4
    <3>2. /\ ResourceOf(p) \notin ResourcesUsed(list[t]) \ ResourcesWritten(list[t])
          /\ ResourceOf(p) \notin ResourcesUsed(list[j]) \ ResourcesWritten(list[j])
      BY <1>1, <2>1, <2>2, <2>4, <3>1
    <3> QED
      BY <1>3, <2>4, <3>2
  <2> QED
    BY <2>3, <2>4
<1>9. StoresAreCleared(after, j)
  <2> SUFFICES ASSUME NEW i \in Live(after), NEW p \in DOMAIN after[i].attachments,
                      after[i].attachments[p].store = "dont_care"
               PROVE  IsCleared(after, j, i, p)
    BY DEF StoresAreCleared
  <2>1. /\ i \in Live(list) /\ p \in DOMAIN list[i].attachments
        /\ list[i].attachments[p].store = "dont_care"
    BY <1>1
  <2>2. i >= j + 1 /\ IsCleared(list, j + 1, i, p) /\ i \in Nat
    BY <1>2, <2>1, ClearedLater
  <2>3. PICK k \in Live(list) :
          /\ i < k /\ list[k].type = "clear" /\ p \in list[k].planes
          /\ \A m \in Live(list) : i < m /\ m < k => ResourceOf(p) \notin ResourcesUsed(list[m])
    BY <2>2 DEF IsCleared
  <2>4. \A m \in Live(list) :
          m < j + 1 /\ m < i /\ ResourceOf(p) \in ResourcesUsed(list[m]) => Clash(list[m], list[i])
    BY <2>2 DEF IsCleared
  <2>5. k # t /\ k # j /\ k \in Live(after) /\ after[k] = list[k] /\ k \in Nat
    BY <1>1, <1>2, <2>2, <2>3
  <2>6. ASSUME NEW m \in Live(after), i < m, m < k
        PROVE  ResourceOf(p) \notin ResourcesUsed(after[m])
    <3>1. CASE m # t
      BY <1>1, <2>3, <2>6, <3>1
    <3>2. CASE m = t
      <4>1. ResourceOf(p) \notin ResourcesUsed(list[t])
        BY <1>1, <2>3, <2>6, <3>2
      <4>2. ~ Clash(list[j], list[i])
        BY <2>1, <2>2, <2>6, <3>2 DEF Apart
      <4>3. ResourceOf(p) \notin ResourcesUsed(list[j])
        BY <1>1, <2>2, <2>4, <4>2
      <4> QED
        BY <1>3, <3>2, <4>1, <4>3
    <3> QED
      BY <3>1, <3>2
  <2>7. ASSUME NEW m \in Live(after), m < j, m < i, ResourceOf(p) \in ResourcesUsed(after[m])
        PROVE  Clash(after[m], after[i])
    <3>1. m # t /\ after[m] = list[m] /\ m \in Live(list) /\ m < j + 1 /\ m \in Nat
      BY <1>1, <1>2, <2>7
    <3>2. Clash(list[m], list[i])
      BY <2>4, <2>7, <3>1
    <3> QED
      BY <1>1, <1>3, <3>1, <3>2
  <2> QED
    BY <2>3, <2>5, <2>6, <2>7 DEF IsCleared
<1> QED
  BY <1>4, <1>5, <1>6, <1>7, <1>8, <1>9 DEF IsSound

LEMMA UpSound ==
  ASSUME NEW list, NEW after, NEW j \in Nat, NEW t \in Nat, IsSound(list, j + 1),
         Moves(list, after, t, j), j < t, Apart(list, j, t),
         list[t].type = "resolve", list[j].type = "render",
         ResourceOf(list[t].src) \in ResourcesWritten(list[j]),
         AreListed(after), IsWhole(after[j]), IsRecorded(after[j]),
         \A p : IsReadonly(after[j], p) => IsReadonly(list[j], p)
  PROVE  IsSound(after, j + 1) /\ Apart(after, j, t + 1)
<1>1. /\ Live(after) = Live(list) \ {t} /\ t \in Live(list) /\ j \in Live(list)
      /\ \A i \in Live(after) : i # j => after[i] = list[i]
      /\ Carries(after[j], list[j], list[t]) /\ after[j].type = "render" /\ j \in Live(after)
  BY MovesLive DEF Moves
<1>2. /\ Live(list) \subseteq Nat /\ DOMAIN list \subseteq Nat
      /\ \A i \in Live(list) : IsWhole(list[i]) /\ (i < j + 1 => IsRecorded(list[i]))
      /\ AreSeparate(list) /\ HasOrder(list, j + 1) /\ TargetsAreUnused(list)
  BY SoundIs DEF IsSound
<1>3. /\ ResourcesUsed(after[j]) = ResourcesUsed(list[j]) \union ResourcesUsed(list[t])
      /\ ResourcesWritten(after[j]) = ResourcesWritten(list[j]) \union ResourcesWritten(list[t])
      /\ Alters(after[j]) = Alters(list[j]) \union Alters(list[t])
      /\ \A x : Clash(after[j], x) <=> Clash(list[j], x) \/ Clash(list[t], x)
  <2>1. Carries(after[j], list[j], list[t])
    BY <1>1
  <2>2. \A x : Clash(after[j], x) <=> Clash(list[j], x) \/ Clash(list[t], x)
    BY ONLY <2>1, CarriesIs
  <2> QED
    BY <2>1, <2>2 DEF Carries
<1> DEFINE src == ResourceOf(list[t].src)
           dst == ResourceOf(list[t].dst)
<1>4. /\ ResourcesUsed(list[t]) = {src, dst} /\ ResourcesWritten(list[t]) = {dst}
      /\ src \in ResourcesWritten(list[j]) /\ src \in ResourcesUsed(list[j])
      /\ dst \in Alters(list[t])
      /\ \A i \in Live(list) : i < t => dst \notin ResourcesUsed(list[i])
  <2>1. IsWhole(list[t]) /\ IsWhole(list[j])
    BY <1>1, <1>2
  <2>2. ResourcesUsed(list[t]) = {src, dst} /\ ResourcesWritten(list[t]) = {dst}
    BY <2>1 DEF IsWhole
  <2>3. src \in ResourcesUsed(list[j]) /\ dst \in Alters(list[t])
    BY <2>1, <2>2, AltersUsed
  <2> QED
    BY <1>1, <1>2, <2>2, <2>3 DEF TargetsAreUnused
<1> HIDE DEF src, dst
<1>5. ASSUME NEW m \in Live(list), j < m, m < t
      PROVE  ~ Clash(list[m], list[t]) /\ ~ Clash(list[j], list[m])
  <2>1. IsWhole(list[t]) /\ IsWhole(list[m])
    BY <1>1, <1>2
  <2> QED
    BY <1>1, <1>2, <1>5, <2>1, UpApart
<1>6. AreWhole(after, j + 1)
  <2> SUFFICES ASSUME NEW i \in Live(after)
               PROVE  IsWhole(after[i]) /\ (i < j + 1 => IsRecorded(after[i]))
    BY DEF AreWhole
  <2>1. CASE i = j
    BY <2>1
  <2>2. CASE i # j
    BY <1>1, <1>2, <2>2
  <2> QED
    BY <2>1, <2>2
<1>7. AreSeparate(after)
  BY <1>2, MovesKeepsApart
<1>8. HasOrder(after, j + 1)
  BY <1>1, <1>2, <1>5, UpOrdered
<1>9. TargetsAreUnused(after)
  <2> SUFFICES ASSUME NEW i \in Live(after), NEW k \in Live(after), i < k,
                      after[k].type = "resolve"
               PROVE  ResourceOf(after[k].dst) \notin ResourcesUsed(after[i])
    BY DEF TargetsAreUnused
  <2>1. /\ k # j /\ k # t /\ after[k] = list[k] /\ k \in Live(list) /\ i \in Live(list)
        /\ k \in Nat /\ i \in Nat /\ IsWhole(list[k])
    BY <1>1, <1>2
  <2>2. \A m \in Live(list) : m < k => ResourceOf(list[k].dst) \notin ResourcesUsed(list[m])
    BY <1>2, <2>1 DEF TargetsAreUnused
  <2>3. CASE i # j
    BY <1>1, <2>1, <2>2, <2>3
  <2>4. CASE i = j
    <3>1. ResourceOf(list[k].dst) \notin ResourcesUsed(list[j]) /\ j < k
      BY <1>1, <2>2, <2>4
    <3>2. ResourceOf(list[k].dst) # dst
      <4>1. CASE t < k
        BY <1>1, <1>4, <2>2, <4>1
      <4>2. CASE k < t
        <5>1. ResourceOf(list[k].dst) \in ResourcesUsed(list[k])
          BY <2>1 DEF IsWhole
        <5> QED
          BY <1>4, <2>1, <4>2, <5>1
      <4> QED
        BY <2>1, <4>1, <4>2
    <3> QED
      BY <1>3, <1>4, <2>1, <2>4, <3>1, <3>2
  <2> QED
    BY <2>3, <2>4
<1>10. ReadonlyStays(after, j + 1)
  <2> SUFFICES ASSUME NEW i \in Live(after), NEW k \in Live(after), NEW m \in Live(after),
                      i < j + 1, i < k, m < k, m # i, after[k].type = "clear",
                      NEW p \in after[k].planes, IsReadonly(after[i], p)
               PROVE  ResourceOf(p) \notin ResourcesUsed(after[m]) \ ResourcesWritten(after[m])
    BY DEF ReadonlyStays
  <2>1. /\ k # j /\ after[k] = list[k] /\ IsReadonly(list[i], p)
        /\ i \in Live(list) /\ k \in Live(list) /\ m \in Live(list)
    BY <1>1
  <2>2. ResourceOf(p) \notin ResourcesUsed(list[m]) \ ResourcesWritten(list[m])
    BY <2>1 DEF IsSound, ReadonlyStays
  <2>3. CASE m # j
    BY <1>1, <2>2, <2>3
  <2>4. CASE m = j
    BY <1>3, <1>4, <2>2, <2>4
  <2> QED
    BY <2>3, <2>4
<1>11. StoresAreCleared(after, j + 1)
  <2> SUFFICES ASSUME NEW i \in Live(after), NEW p \in DOMAIN after[i].attachments,
                      after[i].attachments[p].store = "dont_care"
               PROVE  IsCleared(after, j + 1, i, p)
    BY DEF StoresAreCleared
  <2>1. i # j /\ i \in Live(list) /\ after[i] = list[i] /\ i \in Nat
    BY <1>1, <1>2 DEF IsRecorded
  <2>2. /\ i >= j + 1 /\ IsCleared(list, j + 1, i, p) /\ ResourceOf(p) \in ResourcesUsed(list[i])
    BY <1>2, <2>1, ClearedLater
  <2>3. PICK k \in Live(list) :
          /\ i < k /\ list[k].type = "clear" /\ p \in list[k].planes
          /\ \A m \in Live(list) : i < m /\ m < k => ResourceOf(p) \notin ResourcesUsed(list[m])
    BY <2>2 DEF IsCleared
  <2>4. \A m \in Live(list) :
          m < j + 1 /\ m < i /\ ResourceOf(p) \in ResourcesUsed(list[m]) => Clash(list[m], list[i])
    BY <2>2 DEF IsCleared
  <2>5. k # t /\ k # j /\ k \in Live(after) /\ after[k] = list[k] /\ k \in Nat
    BY <1>1, <1>2, <2>1, <2>2, <2>3
  <2>6. ASSUME NEW m \in Live(after), i < m, m < k
        PROVE  ResourceOf(p) \notin ResourcesUsed(after[m])
    <3>1. m # j /\ m \in Live(list) /\ after[m] = list[m]
      BY <1>1, <1>2, <2>1, <2>2, <2>6
    <3> QED
      BY <2>3, <2>6, <3>1
  <2>7. ASSUME NEW m \in Live(after), m < j + 1, m < i, ResourceOf(p) \in ResourcesUsed(after[m])
        PROVE  Clash(after[m], after[i])
    <3>1. CASE m # j
      BY <1>1, <2>1, <2>4, <2>7, <3>1
    <3>2. CASE m = j /\ ResourceOf(p) \in ResourcesUsed(list[j])
      BY <1>1, <1>3, <2>1, <2>4, <2>7, <3>2
    <3>3. CASE m = j /\ ResourceOf(p) \notin ResourcesUsed(list[j])
      <4>1. ResourceOf(p) = dst
        BY <1>3, <1>4, <2>7, <3>3
      <4>2. Clash(list[t], list[i])
        BY <1>4, <2>2, <4>1 DEF Clash
      <4> QED
        BY <1>3, <2>1, <3>3, <4>2
    <3> QED
      BY <3>1, <3>2, <3>3
  <2> QED
    BY <2>3, <2>5, <2>6, <2>7 DEF IsCleared
<1>12. Apart(after, j, t + 1)
  <2> SUFFICES ASSUME NEW m \in Live(after), j < m, m < t + 1
               PROVE  ~ Clash(after[j], after[m])
    BY DEF Apart
  <2>1. m \in Live(list) /\ m < t /\ after[m] = list[m] /\ m # j
    BY <1>1, <1>2
  <2>2. ~ Clash(list[m], list[t]) /\ ~ Clash(list[j], list[m])
    BY <1>5, <2>1
  <2>3. ~ Clash(list[t], list[m])
    BY <2>2, ClashCommutes
  <2> QED
    BY <1>3, <2>1, <2>2, <2>3
<1> QED
  BY <1>6, <1>7, <1>8, <1>9, <1>10, <1>11, <1>12 DEF IsSound

LEMMA LikeIs ==
  ASSUME NEW list, NEW after, DOMAIN after = DOMAIN list,
         \A i \in Live(list) : IsLike(after[i], list[i]),
         \A i \in DOMAIN list \ Live(list) : after[i] = list[i]
  PROVE  /\ Live(after) = Live(list)
         /\ \A x, y \in Live(list) : WaitsFor(after[y], after[x]) <=> WaitsFor(list[y], list[x])
         /\ \A i \in Live(list) :
              /\ after[i].type = list[i].type /\ Updated(after[i]) = Updated(list[i])
              /\ ResourcesUsed(after[i]) = ResourcesUsed(list[i])
              /\ ResourcesWritten(after[i]) = ResourcesWritten(list[i])
<1>1. \A i : i \in Live(after) <=> i \in Live(list)
  BY DEF Live, IsLike
<1>2. \A i \in Live(list) :
        /\ after[i].type = list[i].type /\ Updated(after[i]) = Updated(list[i])
        /\ Waited(after[i]) = Waited(list[i])
        /\ ResourcesUsed(after[i]) = ResourcesUsed(list[i])
        /\ ResourcesWritten(after[i]) = ResourcesWritten(list[i])
  BY DEF IsLike
<1> QED
  BY <1>1, <1>2 DEF WaitsFor

(* A clear that becomes part of a render in part.                          *)
LEMMA PartSound ==
  ASSUME NEW list, NEW after, NEW j \in Live(list), NEW t \in Live(list), j < t,
         IsSound(list, j + 1), Apart(list, j, t), Clash(list[j], list[t]),
         DOMAIN after = DOMAIN list, \A i \in DOMAIN list \ {j, t} : after[i] = list[i],
         list[j].type = "clear", list[t].type = "render",
         IsLike(after[j], list[j]), IsLike(after[t], list[t]),
         Alters(after[j]) = Alters(list[j]),
         Alters(list[t]) \subseteq Alters(after[t]),
         Alters(after[t]) \subseteq Alters(list[t]) \union Alters(list[j]),
         AreListed(after), IsWhole(after[j]), IsWhole(after[t]),
         after[j].planes \subseteq list[j].planes,
         \A p \in DOMAIN after[t].attachments :
           after[t].attachments[p].store = "dont_care" =>
             p \in DOMAIN list[t].attachments /\ list[t].attachments[p].store = "dont_care"
  PROVE  IsSound(after, j)
<1>1. /\ Live(list) \subseteq Nat /\ DOMAIN list \subseteq Nat /\ j \in Nat /\ t \in Nat
      /\ \A i \in Live(list) : IsWhole(list[i]) /\ (i < j + 1 => IsRecorded(list[i]))
      /\ AreSeparate(list) /\ HasOrder(list, j + 1)
  BY SoundIs DEF IsSound
<1>2. \A i \in Live(list) : IsLike(after[i], list[i])
  BY DEF IsLike, Live
<1>3. /\ Live(after) = Live(list)
      /\ \A x, y \in Live(list) : WaitsFor(after[y], after[x]) <=> WaitsFor(list[y], list[x])
      /\ \A i \in Live(list) :
           /\ after[i].type = list[i].type /\ Updated(after[i]) = Updated(list[i])
           /\ ResourcesUsed(after[i]) = ResourcesUsed(list[i])
           /\ ResourcesWritten(after[i]) = ResourcesWritten(list[i])
  <2>1. \A i \in DOMAIN list \ Live(list) : after[i] = list[i]
    OBVIOUS
  <2> QED
    BY <1>2, <2>1, LikeIs
<1>4. \A i \in Live(list) : i # t => Alters(after[i]) = Alters(list[i])
  BY DEF Live
<1>5. \A x, y \in Live(list) : Clash(list[x], list[y]) => Clash(after[x], after[y])
  <2>1. \A i \in Live(list) :
          Alters(list[i]) \subseteq Alters(after[i]) /\ ResourcesUsed(after[i]) = ResourcesUsed(list[i])
    BY <1>3, <1>4
  <2> QED
    BY <2>1 DEF Clash
<1>6. \A x \in Live(list) :
        x # t /\ Clash(after[x], after[t]) => Clash(list[x], list[t]) \/ Clash(list[x], list[j])
  BY <1>3, <1>4 DEF Clash
<1>7. \A x, y \in Live(list) :
        x # t /\ y # t /\ Clash(after[x], after[y]) => Clash(list[x], list[y])
  BY <1>3, <1>4 DEF Clash
<1>8. WaitsFor(list[t], list[j])
  BY <1>1, MeetsWaiting
<1>9. AreWhole(after, j)
  <2> SUFFICES ASSUME NEW i \in Live(list)
               PROVE  IsWhole(after[i]) /\ (i < j => IsRecorded(after[i]))
    BY <1>3 DEF AreWhole
  <2>1. i # j /\ i # t => after[i] = list[i]
    BY DEF Live
  <2>2. i < j => i < j + 1 /\ i # t /\ i # j
    BY <1>1
  <2> QED
    BY <1>1, <2>1, <2>2
<1>10. AreSeparate(after)
  BY <1>1, <1>3, <1>5 DEF AreSeparate
<1>11. HasOrder(after, j)
  <2>1. PICK order : IsOrder(list, j + 1, order)
    BY <1>1 DEF HasOrder
  <2>2. /\ \A i \in Live(list) : \A k \in order[i] :
             /\ k \in Live(list) /\ i < k
             /\ \/ WaitsFor(list[k], list[i])
                \/ \E m \in order[i] : m < k /\ WaitsFor(list[k], list[m])
        /\ \A i, k \in Live(list) :
             (i < j + 1 \/ list[i].type = "resolve") /\ i < k /\ Clash(list[i], list[k])
             => k \in order[i]
    BY <2>1 DEF IsOrder, Chains
  <2> DEFINE new == [i \in Live(list) |-> order[i] \union (IF j \in order[i] THEN {t} ELSE {})]
  <2>3. \A i \in Live(list) : \A k :
          k \in new[i] <=> k \in order[i] \/ (k = t /\ j \in order[i])
    OBVIOUS
  <2> HIDE DEF new
  <2>4. ASSUME NEW i \in Live(list), NEW k \in new[i]
        PROVE  /\ k \in Live(list) /\ i < k
               /\ \/ WaitsFor(after[k], after[i])
                  \/ \E m \in new[i] : m < k /\ WaitsFor(after[k], after[m])
    <3>1. CASE k \in order[i]
      BY <1>3, <2>2, <2>3, <3>1
    <3>2. CASE k = t /\ j \in order[i]
      <4>1. i < j /\ i < t
        BY <1>1, <2>2, <3>2
      <4> QED
        BY <1>3, <1>8, <2>3, <3>2, <4>1
    <3> QED
      BY <2>3, <2>4, <3>1, <3>2
  <2>5. ASSUME NEW i \in Live(list), NEW k \in Live(list),
               i < j \/ after[i].type = "resolve", i < k, Clash(after[i], after[k])
        PROVE  k \in new[i]
    <3>1. /\ i # t /\ i # j /\ (i < j + 1 \/ list[i].type = "resolve")
          /\ i \in Nat /\ k \in Nat
      BY <1>1, <1>3, <2>5
    <3>2. CASE Clash(list[i], list[k])
      BY <2>2, <2>3, <2>5, <3>1, <3>2
    <3>3. CASE k = t /\ Clash(list[i], list[j])
      <4>1. i < j
        <5>1. CASE j < i
          BY <2>5, <3>1, <3>3, <5>1, ClashCommutes DEF Apart
        <5> QED
          BY <1>1, <3>1, <5>1
      <4> QED
        BY <2>2, <2>3, <3>1, <3>3, <4>1
    <3> QED
      BY <1>6, <1>7, <2>5, <3>1, <3>2, <3>3
  <2>6. IsOrder(after, j, new)
    BY <1>3, <2>4, <2>5 DEF IsOrder, Chains
  <2> QED
    BY <2>6 DEF HasOrder
<1>12. TargetsAreUnused(after)
  <2>1. \A k \in Live(list) : list[k].type = "resolve" => after[k] = list[k]
    BY DEF Live
  <2> QED
    BY <1>3, <2>1 DEF IsSound, TargetsAreUnused
<1>13. ReadonlyStays(after, j)
  <2> SUFFICES ASSUME NEW i \in Live(list), NEW k \in Live(list), NEW m \in Live(list),
                      i < j, i < k, m < k, m # i, after[k].type = "clear",
                      NEW p \in after[k].planes, IsReadonly(after[i], p)
               PROVE  ResourceOf(p) \notin ResourcesUsed(after[m]) \ ResourcesWritten(after[m])
    BY <1>3 DEF ReadonlyStays
  <2>1. i # j /\ i # t /\ after[i] = list[i] /\ i < j + 1
    BY <1>1 DEF Live
  <2>2. k # t /\ list[k].type = "clear" /\ p \in list[k].planes
    BY <1>3 DEF Live
  <2>3. ResourceOf(p) \notin ResourcesUsed(list[m]) \ ResourcesWritten(list[m])
    BY <2>1, <2>2 DEF IsSound, ReadonlyStays
  <2> QED
    BY <1>3, <2>3
<1>14. StoresAreCleared(after, j)
  <2> SUFFICES ASSUME NEW i \in Live(list), NEW p \in DOMAIN after[i].attachments,
                      after[i].attachments[p].store = "dont_care"
               PROVE  IsCleared(after, j, i, p)
    BY <1>3 DEF StoresAreCleared
  <2>1. i # j
    BY <1>3 DEF IsWhole, NoAttachments
  <2>2. p \in DOMAIN list[i].attachments /\ list[i].attachments[p].store = "dont_care"
    BY <2>1 DEF Live
  <2>3. i >= j + 1 /\ IsCleared(list, j + 1, i, p) /\ i \in Nat
    BY <1>1, <2>2, ClearedLater
  <2>4. PICK k \in Live(list) :
          /\ i < k /\ list[k].type = "clear" /\ p \in list[k].planes
          /\ \A m \in Live(list) : i < m /\ m < k => ResourceOf(p) \notin ResourcesUsed(list[m])
    BY <2>3 DEF IsCleared
  <2>5. \A m \in Live(list) :
          m < j + 1 /\ m < i /\ ResourceOf(p) \in ResourcesUsed(list[m]) => Clash(list[m], list[i])
    BY <2>3 DEF IsCleared
  <2>6. k # t /\ k # j /\ after[k] = list[k] /\ k \in Nat
    BY <1>1, <2>3, <2>4 DEF Live
  <2>7. ASSUME NEW m \in Live(list), m < j, m < i, ResourceOf(p) \in ResourcesUsed(after[m])
        PROVE  Clash(after[m], after[i])
    <3>1. m < j + 1 /\ ResourceOf(p) \in ResourcesUsed(list[m])
      BY <1>1, <1>3, <2>7
    <3> QED
      BY <1>5, <2>5, <2>7, <3>1
  <2> QED
    BY <1>3, <2>4, <2>6, <2>7 DEF IsCleared
<1> QED
  BY <1>9, <1>10, <1>11, <1>12, <1>13, <1>14 DEF IsSound

(* A render that need not store what the clear after it clears.            *)
LEMMA NotStoredSound ==
  ASSUME NEW list, NEW after, NEW j \in Live(list), NEW t \in Live(list), j < t,
         IsSound(list, j + 1), Apart(list, j, t),
         DOMAIN after = DOMAIN list, \A i \in DOMAIN list \ {j} : after[i] = list[i],
         list[j].type = "render", list[t].type = "clear",
         IsLike(after[j], list[j]), Alters(after[j]) = Alters(list[j]),
         AreListed(after), IsWhole(after[j]),
         DOMAIN after[j].attachments = DOMAIN list[j].attachments,
         \A p \in DOMAIN after[j].attachments :
           after[j].attachments[p].store = "dont_care" => p \in list[t].planes
  PROVE  IsSound(after, j)
<1>1. /\ Live(list) \subseteq Nat /\ DOMAIN list \subseteq Nat /\ j \in Nat /\ t \in Nat
      /\ \A i \in Live(list) : IsWhole(list[i]) /\ (i < j + 1 => IsRecorded(list[i]))
      /\ AreSeparate(list) /\ HasOrder(list, j + 1)
  BY SoundIs DEF IsSound
<1>2. \A i \in Live(list) : IsLike(after[i], list[i])
  BY DEF IsLike, Live
<1>3. /\ Live(after) = Live(list)
      /\ \A x, y \in Live(list) : WaitsFor(after[y], after[x]) <=> WaitsFor(list[y], list[x])
      /\ \A i \in Live(list) :
           /\ after[i].type = list[i].type /\ Updated(after[i]) = Updated(list[i])
           /\ ResourcesUsed(after[i]) = ResourcesUsed(list[i])
           /\ ResourcesWritten(after[i]) = ResourcesWritten(list[i])
  <2>1. \A i \in DOMAIN list \ Live(list) : after[i] = list[i]
    OBVIOUS
  <2> QED
    BY <1>2, <2>1, LikeIs
<1>4. \A x, y \in Live(list) : Clash(list[x], list[y]) <=> Clash(after[x], after[y])
  <2>1. \A i \in Live(list) :
          Alters(list[i]) = Alters(after[i]) /\ ResourcesUsed(after[i]) = ResourcesUsed(list[i])
    BY <1>3 DEF Live
  <2> QED
    BY <2>1 DEF Clash
<1>5. \A i \in Live(list) : i # j => after[i] = list[i]
  BY DEF Live
<1>6. AreWhole(after, j)
  <2>1. \A i \in Live(list) : i < j => i < j + 1 /\ i # j
    BY <1>1
  <2> QED
    BY <1>1, <1>3, <1>5, <2>1 DEF AreWhole
<1>7. AreSeparate(after)
  BY <1>1, <1>3, <1>4 DEF AreSeparate
<1>8. HasOrder(after, j)
  <2>1. PICK order : IsOrder(list, j + 1, order)
    BY <1>1 DEF HasOrder
  <2>2. Chains(after, order)
    <3>1. \A i \in Live(list) : \A k \in order[i] : k \in Live(list)
      BY <2>1 DEF IsOrder, Chains
    <3> QED
      BY <1>3, <2>1, <3>1 DEF IsOrder, Chains
  <2>3. \A i \in Live(list) : i < j => i < j + 1
    BY <1>1
  <2>4. IsOrder(after, j, order)
    BY <1>3, <1>4, <2>1, <2>2, <2>3 DEF IsOrder
  <2> QED
    BY <2>4 DEF HasOrder
<1>9. TargetsAreUnused(after)
  <2>1. \A k \in Live(list) : list[k].type = "resolve" => after[k] = list[k]
    BY <1>5
  <2> QED
    BY <1>3, <2>1 DEF IsSound, TargetsAreUnused
<1>10. ReadonlyStays(after, j)
  <2> SUFFICES ASSUME NEW i \in Live(list), NEW k \in Live(list), NEW m \in Live(list),
                      i < j, i < k, m < k, m # i, after[k].type = "clear",
                      NEW p \in after[k].planes, IsReadonly(after[i], p)
               PROVE  ResourceOf(p) \notin ResourcesUsed(after[m]) \ ResourcesWritten(after[m])
    BY <1>3 DEF ReadonlyStays
  <2>1. i # j /\ after[i] = list[i] /\ i < j + 1 /\ k # j /\ after[k] = list[k]
    BY <1>1, <1>3, <1>5
  <2>2. ResourceOf(p) \notin ResourcesUsed(list[m]) \ ResourcesWritten(list[m])
    BY <2>1 DEF IsSound, ReadonlyStays
  <2> QED
    BY <1>3, <2>2
<1>11. ASSUME NEW p \in DOMAIN after[j].attachments, p \in list[t].planes
       PROVE  IsCleared(after, j, j, p)
  <2>1. /\ p \in DOMAIN list[j].attachments /\ ResourceOf(p) \in ResourcesUsed(list[j])
        /\ list[j].attachments[p].readonly \/ ResourceOf(p) \in ResourcesWritten(list[j])
        /\ ResourcesWritten(list[j]) \subseteq Alters(list[j])
    <3>1. IsWhole(list[j])
      BY <1>1
    <3> QED
      BY <1>11, <3>1, AltersUsed DEF IsWhole, IsAttachment
  <2>2. ASSUME NEW m \in Live(list), m # j, m < t, ~ Clash(list[j], list[m])
        PROVE  ResourceOf(p) \notin ResourcesUsed(list[m])
    <3>1. CASE ResourceOf(p) \in ResourcesWritten(list[j])
      BY <2>1, <2>2, <3>1 DEF Clash
    <3>2. CASE list[j].attachments[p].readonly
      <4>1. IsReadonly(list[j], p)
        BY <2>1, <3>2 DEF IsReadonly
      <4>2. ReadonlyStays(list, j + 1) /\ j < j + 1
        BY <1>1 DEF IsSound
      <4>3. ResourceOf(p) \notin ResourcesUsed(list[m]) \ ResourcesWritten(list[m])
        BY <1>11, <2>2, <4>1, <4>2 DEF ReadonlyStays
      <4>4. ResourcesWritten(list[m]) \subseteq Alters(list[m])
        BY <1>1, AltersUsed
      <4> QED
        BY <2>1, <2>2, <4>3, <4>4 DEF Clash
    <3> QED
      BY <2>1, <3>1, <3>2
  <2>3. ASSUME NEW m \in Live(list), j < m, m < t
        PROVE  ResourceOf(p) \notin ResourcesUsed(after[m])
    <3>1. ~ Clash(list[j], list[m]) /\ m # j
      BY <1>1, <2>3 DEF Apart
    <3> QED
      BY <1>3, <2>2, <2>3, <3>1
  <2>4. ASSUME NEW m \in Live(list), m < j, ResourceOf(p) \in ResourcesUsed(after[m])
        PROVE  Clash(after[m], after[j])
    <3>1. m # j /\ m < t /\ ResourceOf(p) \in ResourcesUsed(list[m])
      BY <1>1, <1>3, <2>4
    <3>2. Clash(list[j], list[m])
      BY <2>2, <3>1
    <3> QED
      BY <1>4, <3>2, ClashCommutes
  <2>5. t # j /\ after[t].type = "clear" /\ p \in after[t].planes
    BY <1>1, <1>5, <1>11
  <2> QED
    BY <1>3, <2>3, <2>4, <2>5 DEF IsCleared
<1>12. StoresAreCleared(after, j)
  <2> SUFFICES ASSUME NEW i \in Live(list), NEW p \in DOMAIN after[i].attachments,
                      after[i].attachments[p].store = "dont_care"
               PROVE  IsCleared(after, j, i, p)
    BY <1>3 DEF StoresAreCleared
  <2>1. CASE i = j
    BY <1>11, <2>1
  <2>2. CASE i # j
    <3>1. after[i] = list[i]
      BY <1>5, <2>2
    <3>2. i >= j + 1 /\ IsCleared(list, j + 1, i, p) /\ i \in Nat
      BY <1>1, <3>1, ClearedLater
    <3>3. PICK k \in Live(list) :
            /\ i < k /\ list[k].type = "clear" /\ p \in list[k].planes
            /\ \A m \in Live(list) : i < m /\ m < k => ResourceOf(p) \notin ResourcesUsed(list[m])
      BY <3>2 DEF IsCleared
    <3>4. \A m \in Live(list) :
            m < j + 1 /\ m < i /\ ResourceOf(p) \in ResourcesUsed(list[m]) => Clash(list[m], list[i])
      BY <3>2 DEF IsCleared
    <3>5. k # j /\ after[k] = list[k]
      BY <1>5, <3>3
    <3>6. ASSUME NEW m \in Live(list), m < j, m < i, ResourceOf(p) \in ResourcesUsed(after[m])
          PROVE  Clash(after[m], after[i])
      <4>1. m < j + 1 /\ ResourceOf(p) \in ResourcesUsed(list[m])
        BY <1>1, <1>3, <3>6
      <4> QED
        BY <1>4, <3>4, <3>6, <4>1
    <3> QED
      BY <1>3, <3>3, <3>5, <3>6 DEF IsCleared
  <2> QED
    BY <2>1, <2>2
<1> QED
  BY <1>6, <1>7, <1>8, <1>9, <1>10, <1>12 DEF IsSound

-----------------------------------------------------------------------------
(* The passes that the optimizer makes of two: their fences, their         *)
(* accesses and their attachments.                                         *)

(* The fields of what the merges make.                                     *)
LEMMA AbsorbedFields ==
  ASSUME NEW e, NEW from, IsEncoder(e), NEW u, u = Absorbed(e, from)
  PROVE  /\ IsEncoder(u) /\ u.type = e.type /\ u.id = e.id
         /\ u.update = e.update \union from.update /\ u.update_vertex = e.update_vertex
         /\ u.wait = (e.wait \union from.wait) \ { Fence(id) : id \in from.update }
         /\ u.wait_vertex = e.wait_vertex /\ u.uses = e.uses \union from.uses
         /\ u.attachments = e.attachments /\ u.cmds = e.cmds /\ u.planes = e.planes
<1> DEFINE own == { Fence(id) : id \in from.update }
<1>1. u = [e EXCEPT !.update = @ \union from.update, !.wait = (@ \union from.wait) \ own,
                    !.uses = @ \union from.uses]
  BY DEF Absorbed
<1> HIDE DEF own
<1>2. /\ IsEncoder(u) /\ u.type = e.type /\ u.id = e.id
      /\ u.update = e.update \union from.update /\ u.update_vertex = e.update_vertex
      /\ u.wait = (e.wait \union from.wait) \ own
      /\ u.wait_vertex = e.wait_vertex /\ u.uses = e.uses \union from.uses
      /\ u.attachments = e.attachments /\ u.cmds = e.cmds /\ u.planes = e.planes
  BY <1>1 DEF IsEncoder
<1> QED
  BY <1>2 DEF own

HasUsesOf(u, e, from) == u.uses = e.uses \union from.uses

LEMMA UnionUses ==
  ASSUME NEW u, NEW e, NEW from, HasUsesOf(u, e, from)
  PROVE  /\ ResourcesUsed(u) = ResourcesUsed(e) \union ResourcesUsed(from)
         /\ ResourcesWritten(u) = ResourcesWritten(e) \union ResourcesWritten(from)
<1>1. ResourcesUsed(u) = ResourcesUsed(e) \union ResourcesUsed(from)
  BY DEF ResourcesUsed, HasUsesOf
<1>2. \A r : r \in ResourcesWritten(u) <=> \E x \in u.uses : IsWrite(x.mode) /\ x.res = r
  BY DEF ResourcesWritten
<1>3. \A r : r \in ResourcesWritten(e) <=> \E x \in e.uses : IsWrite(x.mode) /\ x.res = r
  BY DEF ResourcesWritten
<1>4. \A r : r \in ResourcesWritten(from) <=> \E x \in from.uses : IsWrite(x.mode) /\ x.res = r
  BY DEF ResourcesWritten
<1> QED
  BY <1>1, <1>2, <1>3, <1>4 DEF HasUsesOf

LEMMA UpdatedIs ==
  /\ \A e, f : f \in Updated(e) <=> \E id \in e.update \union e.update_vertex : f = Fence(id)
  /\ \A e : e.update_vertex = {} => Updated(e) = { Fence(id) : id \in e.update }
  BY DEF Updated

(* A clear or a resolve has no vertex stage.                               *)
LEMMA AbsorbedWaits ==
  ASSUME NEW e, NEW from, IsEncoder(e), NEW u, u = Absorbed(e, from),
         from.update_vertex = {}, from.wait_vertex = {}
  PROVE  /\ Updated(u) = Updated(e) \union Updated(from)
         /\ (Waited(e) \union Waited(from)) \ Updated(from) \subseteq Waited(u)
         /\ Waited(u) \subseteq Waited(e) \union Waited(from)
<1>1. /\ u.update = e.update \union from.update /\ u.update_vertex = e.update_vertex
      /\ u.wait = (e.wait \union from.wait) \ { Fence(id) : id \in from.update }
      /\ u.wait_vertex = e.wait_vertex
  BY AbsorbedFields
<1>2. Updated(from) = { Fence(id) : id \in from.update }
  BY UpdatedIs
<1>3. Updated(u) = Updated(e) \union Updated(from)
  BY <1>1 DEF Updated
<1> QED
  BY <1>1, <1>2, <1>3 DEF Waited

(* A clear becomes the load action of a render.                            *)
Loads(e, a, clear) ==
  /\ e.attachments = [p \in DOMAIN e.attachments |-> e.attachments[p]]
  /\ DOMAIN e.attachments = DOMAIN a.attachments
  /\ \A p \in DOMAIN a.attachments :
       e.attachments[p] =
         IF p \in clear.planes /\ a.attachments[p].load = "load"
         THEN [a.attachments[p] EXCEPT !.load = "clear", !.clear = clear.id]
         ELSE a.attachments[p]

LEMMA ClearedFields ==
  ASSUME NEW e, NEW clear, IsEncoder(e), NEW u, u = ClearedBy(e, clear)
  PROVE  /\ IsEncoder(u) /\ u.type = e.type /\ u.id = e.id
         /\ u.update = e.update /\ u.update_vertex = e.update_vertex
         /\ u.wait = e.wait /\ u.wait_vertex = e.wait_vertex /\ u.uses = e.uses
         /\ u.cmds = e.cmds /\ Loads(u, e, clear)
<1> DEFINE all == [p \in DOMAIN e.attachments |->
                     IF p \in clear.planes /\ e.attachments[p].load = "load"
                     THEN [e.attachments[p] EXCEPT !.load = "clear", !.clear = clear.id]
                     ELSE e.attachments[p]]
<1>1. u = [e EXCEPT !.attachments = all]
  BY DEF ClearedBy
<1>2. /\ all = [p \in DOMAIN all |-> all[p]]
      /\ DOMAIN all = DOMAIN e.attachments
      /\ \A p \in DOMAIN e.attachments :
           all[p] = IF p \in clear.planes /\ e.attachments[p].load = "load"
                    THEN [e.attachments[p] EXCEPT !.load = "clear", !.clear = clear.id]
                    ELSE e.attachments[p]
  OBVIOUS
<1> HIDE DEF all
<1>3. u.attachments = all /\ IsEncoder(u) /\ u.type = e.type /\ u.id = e.id
         /\ u.update = e.update /\ u.update_vertex = e.update_vertex
         /\ u.wait = e.wait /\ u.wait_vertex = e.wait_vertex /\ u.uses = e.uses
         /\ u.cmds = e.cmds
  BY <1>1 DEF IsEncoder
<1> QED
  BY <1>2, <1>3 DEF Loads

(* The attachments of a cleared render.                                    *)
LEMMA LoadsIs ==
  ASSUME NEW e, NEW a, NEW clear, Loads(e, a, clear), IsWhole(a), a.type = "render",
         NEW p \in DOMAIN a.attachments
  PROVE  /\ p \in DOMAIN e.attachments
         /\ e.attachments[p].store = a.attachments[p].store
         /\ e.attachments[p].resolve = a.attachments[p].resolve
         /\ e.attachments[p].resolver = a.attachments[p].resolver
         /\ e.attachments[p].readonly = a.attachments[p].readonly
         /\ p \in clear.planes /\ a.attachments[p].load = "load" =>
              e.attachments[p].load = "clear" /\ e.attachments[p].clear = clear.id
         /\ ~ (p \in clear.planes /\ a.attachments[p].load = "load") =>
              e.attachments[p] = a.attachments[p]
<1> DEFINE x == a.attachments[p]
           y == e.attachments[p]
<1>1. x = [load |-> x.load, clear |-> x.clear, store |-> x.store, resolve |-> x.resolve,
           resolver |-> x.resolver, readonly |-> x.readonly]
  BY DEF IsWhole, IsAttachment
<1>2. y = (IF p \in clear.planes /\ x.load = "load"
           THEN [x EXCEPT !.load = "clear", !.clear = clear.id] ELSE x)
      /\ p \in DOMAIN e.attachments
  BY DEF Loads
<1> HIDE DEF x, y
<1>3. CASE p \in clear.planes /\ x.load = "load"
  <2>1. y = [x EXCEPT !.load = "clear", !.clear = clear.id]
    BY <1>2, <1>3
  <2>2. /\ y.store = x.store /\ y.resolve = x.resolve /\ y.resolver = x.resolver
        /\ y.readonly = x.readonly /\ y.load = "clear" /\ y.clear = clear.id
    BY <1>1, <2>1
  <2> QED
    BY <1>2, <1>3, <2>2 DEF x, y
<1>4. CASE ~ (p \in clear.planes /\ x.load = "load")
  BY <1>2, <1>4 DEF x, y
<1> QED
  BY <1>3, <1>4

LEMMA LoadsAlters ==
  ASSUME NEW e, NEW a, NEW clear, Loads(e, a, clear), IsWhole(a), a.type = "render"
  PROVE  /\ ClearLoads(a) \subseteq ClearLoads(e)
         /\ ClearLoads(e) \subseteq ClearLoads(a) \union clear.planes
<1>1. DOMAIN e.attachments = DOMAIN a.attachments
  BY DEF Loads
<1>2. \A p \in DOMAIN a.attachments :
        /\ p \in clear.planes /\ a.attachments[p].load = "load" => e.attachments[p].load = "clear"
        /\ ~ (p \in clear.planes /\ a.attachments[p].load = "load") =>
              e.attachments[p] = a.attachments[p]
  BY LoadsIs
<1> QED
  BY <1>1, <1>2 DEF ClearLoads

(* A render that has loaded a clear, with its own or also the accesses of  *)
(* the clear, is whole.                                                    *)
LEMMA LoadedWhole ==
  ASSUME NEW e, NEW a, NEW clear, Loads(e, a, clear), IsWhole(a), a.type = "render",
         clear.id \in Nat, IsEncoder(e), e.type = "render", e.cmds = a.cmds,
         IdsOf(e) \subseteq Nat, IdsOf(a) \subseteq IdsOf(e),
         \A u \in e.uses : u.res \in Resources /\ u.id \in IdsOf(e),
         ResourcesUsed(a) \subseteq ResourcesUsed(e),
         ResourcesWritten(a) \subseteq ResourcesWritten(e)
  PROVE  IsWhole(e)
<1>1. DOMAIN e.attachments = DOMAIN a.attachments
  BY DEF Loads
<1>2. /\ \A p \in DOMAIN a.attachments : IsAttachment(a, p)
      /\ a.cmds \in Seq(Nat)
      /\ \A p, q \in DOMAIN a.attachments :
            a.attachments[p].resolve # None /\ a.attachments[p].resolve = a.attachments[q].resolve
            => p = q
  BY DEF IsWhole
<1>3. ASSUME NEW p \in DOMAIN e.attachments
      PROVE  IsAttachment(e, p)
  <2> DEFINE x == a.attachments[p]
             y == e.attachments[p]
  <2>1. p \in DOMAIN a.attachments
    BY <1>1
  <2>2. /\ x = [load |-> x.load, clear |-> x.clear, store |-> x.store, resolve |-> x.resolve,
                resolver |-> x.resolver, readonly |-> x.readonly]
        /\ p \in Planes /\ ResourceOf(p) \in ResourcesUsed(a)
        /\ x.load \in {"load", "clear"} /\ (x.load = "clear" => x.clear \in Nat)
        /\ x.readonly => IsDepthStencil(p)
        /\ ~ x.readonly => ResourceOf(p) \in ResourcesWritten(a)
        /\ x.store \in {"store", "resolve", "dont_care"}
        /\ x.store = "dont_care" => IsDepthStencil(p)
        /\ x.resolve = None => x.store # "resolve"
        /\ x.resolve # None =>
             /\ x.store = "resolve" /\ ~ IsDepthStencil(p)
             /\ x.resolve \in Planes \ DOMAIN a.attachments
             /\ ResourceOf(x.resolve) \in ResourcesWritten(a)
             /\ x.resolver \in IdsOf(a)
    BY <1>2, <2>1 DEF IsAttachment
  <2>3. /\ y.store = x.store /\ y.resolve = x.resolve /\ y.resolver = x.resolver
        /\ y.readonly = x.readonly
        /\ p \in clear.planes /\ x.load = "load" => y.load = "clear" /\ y.clear = clear.id
        /\ ~ (p \in clear.planes /\ x.load = "load") => y = x
    BY <2>1, LoadsIs
  <2>4. y = [load |-> y.load, clear |-> y.clear, store |-> y.store, resolve |-> y.resolve,
             resolver |-> y.resolver, readonly |-> y.readonly]
    <3>1. y = IF p \in clear.planes /\ x.load = "load"
              THEN [x EXCEPT !.load = "clear", !.clear = clear.id] ELSE x
      BY <2>1 DEF Loads
    <3> HIDE DEF x, y
    <3> QED
      BY <2>2, <3>1
  <2>5. y.load \in {"load", "clear"} /\ (y.load = "clear" => y.clear \in Nat)
    BY <2>2, <2>3
  <2> HIDE DEF x, y
  <2>6. /\ p \in Planes /\ ResourceOf(p) \in ResourcesUsed(e)
        /\ IF y.readonly THEN IsDepthStencil(p) ELSE ResourceOf(p) \in ResourcesWritten(e)
        /\ y.store \in {"store", "resolve", "dont_care"}
        /\ y.store = "dont_care" => IsDepthStencil(p)
    BY <2>2, <2>3
  <2>7. IF y.resolve = None THEN y.store # "resolve"
         ELSE /\ y.store = "resolve" /\ ~ IsDepthStencil(p)
              /\ y.resolve \in Planes \ DOMAIN e.attachments
              /\ ResourceOf(y.resolve) \in ResourcesWritten(e)
              /\ y.resolver \in IdsOf(e)
    BY <1>1, <2>2, <2>3
  <2> QED
    BY <2>4, <2>5, <2>6, <2>7 DEF IsAttachment, y
<1>4. ASSUME NEW p \in DOMAIN e.attachments, NEW q \in DOMAIN e.attachments,
             e.attachments[p].resolve # None, e.attachments[p].resolve = e.attachments[q].resolve
      PROVE  p = q
  <2>1. /\ p \in DOMAIN a.attachments /\ q \in DOMAIN a.attachments
        /\ e.attachments[p].resolve = a.attachments[p].resolve
        /\ e.attachments[q].resolve = a.attachments[q].resolve
    BY <1>1, LoadsIs
  <2> QED
    BY <1>2, <1>4, <2>1
<1>5. e.attachments = [p \in DOMAIN e.attachments |-> e.attachments[p]]
  BY DEF Loads
<1> QED
  BY <1>2, <1>3, <1>4, <1>5 DEF IsWhole

IsChanged(after, list, a, x, b, y) == after = [list EXCEPT ![a] = x, ![b] = y]

LEMMA ExceptListed ==
  ASSUME NEW list, AreListed(list), NEW a \in DOMAIN list, NEW b \in DOMAIN list, a # b,
         NEW x, NEW y, IsListed(x), IsListed(y),
         NEW after, IsChanged(after, list, a, x, b, y)
  PROVE  /\ AreListed(after) /\ DOMAIN after = DOMAIN list /\ Len(after) = Len(list)
         /\ after[a] = x /\ after[b] = y
         /\ \A i \in DOMAIN list \ {a, b} : after[i] = list[i]
<1> DEFINE n == Len(list)
<1>1. n \in Nat /\ DOMAIN list = 1 .. n
  BY ListIs DEF AreListed
<1>2. /\ DOMAIN after = 1 .. n /\ after[a] = x /\ after[b] = y
      /\ \A k \in 1 .. n : k # a /\ k # b => after[k] = list[k]
      /\ after = [k \in 1 .. n |-> after[k]]
  BY <1>1 DEF IsChanged
<1> HIDE DEF n
<1>3. \A k \in 1 .. n : IsListed(after[k])
  BY <1>1, <1>2 DEF AreListed
<1>4. IsList(after) /\ Len(after) = n
  <2> DEFINE S == { after[i] : i \in DOMAIN after }
  <2>1. \A k \in 1 .. n : after[k] \in S
    BY <1>2
  <2> HIDE DEF S
  <2>2. after \in Seq(S) /\ Len(after) = n
    BY ONLY <1>1, <1>2, <2>1
  <2> QED
    BY <2>2 DEF S, IsList
<1> QED
  BY <1>1, <1>2, <1>3, <1>4 DEF AreListed, n

(* A clear that is dropped.                                                *)
LEMMA ClearCarried ==
  ASSUME NEW a, NEW b, IsWhole(a), IsWhole(b), a.type = "clear", b.type = "render",
         NEW y, y = Absorbed(ClearedBy(b, a), a)
  PROVE  /\ IsListed(y) /\ y.type = "render" /\ IsWhole(y) /\ Carries(y, b, a)
         /\ Loads(y, b, a) /\ y.cmds = b.cmds /\ y.uses = b.uses \union a.uses
<1> DEFINE c == ClearedBy(b, a)
<1>1. /\ IsEncoder(a) /\ IsEncoder(b) /\ a.update_vertex = {} /\ a.wait_vertex = {}
      /\ a.attachments = NoAttachments /\ a.id \in Nat
      /\ \A p \in a.planes : ResourceOf(p) \in ResourcesWritten(a)
      /\ IdsOf(a) \subseteq Nat /\ IdsOf(b) \subseteq Nat
      /\ \A u \in a.uses : u.res \in Resources /\ u.id \in IdsOf(a)
      /\ \A u \in b.uses : u.res \in Resources /\ u.id \in IdsOf(b)
  BY DEF IsWhole
<1>2. /\ IsEncoder(c) /\ c.type = b.type /\ c.id = b.id
      /\ c.update = b.update /\ c.update_vertex = b.update_vertex
      /\ c.wait = b.wait /\ c.wait_vertex = b.wait_vertex /\ c.uses = b.uses
      /\ c.cmds = b.cmds /\ Loads(c, b, a)
  BY <1>1, ClearedFields
<1> HIDE DEF c
<1>3. y = Absorbed(c, a)
  BY DEF c
<1>4. /\ IsEncoder(y) /\ y.type = c.type /\ y.update = c.update \union a.update
      /\ y.update_vertex = c.update_vertex /\ y.uses = c.uses \union a.uses
      /\ y.attachments = c.attachments /\ y.cmds = c.cmds
  BY <1>2, <1>3, AbsorbedFields
<1>5. /\ Updated(y) = Updated(c) \union Updated(a)
      /\ (Waited(c) \union Waited(a)) \ Updated(a) \subseteq Waited(y)
      /\ Waited(y) \subseteq Waited(c) \union Waited(a)
  BY <1>1, <1>2, <1>3, AbsorbedWaits
<1>6. Updated(c) = Updated(b) /\ Waited(c) = Waited(b)
  BY <1>2 DEF Updated, Waited
<1>7. Loads(y, b, a)
  BY <1>2, <1>4 DEF Loads
<1>8. y.uses = b.uses \union a.uses
  BY <1>2, <1>4
<1>9. /\ ResourcesUsed(y) = ResourcesUsed(b) \union ResourcesUsed(a)
      /\ ResourcesWritten(y) = ResourcesWritten(b) \union ResourcesWritten(a)
  <2>1. HasUsesOf(y, b, a)
    BY <1>8 DEF HasUsesOf
  <2> QED
    BY <2>1, UnionUses
<1>10. Alters(y) = Alters(b) \union Alters(a)
  <2>1. ClearLoads(b) \subseteq ClearLoads(y) /\ ClearLoads(y) \subseteq ClearLoads(b) \union a.planes
    BY <1>7, LoadsAlters
  <2>2. ClearLoads(a) = {}
    BY <1>1 DEF ClearLoads, NoAttachments
  <2>3. ResourcesOf(a.planes) \subseteq ResourcesWritten(a)
    BY <1>1 DEF ResourcesOf
  <2>4. Alters(a) = ResourcesWritten(a)
    BY <2>2 DEF Alters, ResourcesOf
  <2>5. /\ ResourcesOf(ClearLoads(b)) \subseteq ResourcesOf(ClearLoads(y))
        /\ ResourcesOf(ClearLoads(y)) \subseteq ResourcesOf(ClearLoads(b)) \union ResourcesOf(a.planes)
    BY <2>1 DEF ResourcesOf
  <2> QED
    BY <1>9, <2>3, <2>4, <2>5 DEF Alters
<1>11. IdsOf(y) = IdsOf(b) \union IdsOf(a)
  BY <1>1, <1>2, <1>4 DEF IdsOf
<1>12. IsWhole(y)
  <2>1. /\ IdsOf(y) \subseteq Nat /\ IdsOf(b) \subseteq IdsOf(y)
        /\ \A u \in y.uses : u.res \in Resources /\ u.id \in IdsOf(y)
        /\ y.type = "render" /\ y.cmds = b.cmds
    BY <1>1, <1>2, <1>4, <1>8, <1>11
  <2>2. ResourcesUsed(b) \subseteq ResourcesUsed(y) /\ ResourcesWritten(b) \subseteq ResourcesWritten(y)
    BY <1>9
  <2> QED
    BY <1>1, <1>4, <1>7, <2>1, <2>2, LoadedWhole
<1> QED
  BY <1>2, <1>4, <1>5, <1>6, <1>7, <1>8, <1>9, <1>10, <1>12 DEF Carries, IsListed

(* A clear that is left in part.                                           *)
LEMMA ClearLeft ==
  ASSUME NEW a, NEW b, IsWhole(a), IsWhole(b), a.type = "clear", b.type = "render",
         NEW x, x = Unmatched(a, b), NEW y, y = ClearedBy(b, a)
  PROVE  /\ IsListed(x) /\ IsWhole(x) /\ IsLike(x, a) /\ Alters(x) = Alters(a)
         /\ x.planes = a.planes \ DOMAIN b.attachments /\ x.id = a.id /\ x.uses = a.uses
         /\ IsListed(y) /\ IsWhole(y) /\ IsLike(y, b)
         /\ Alters(b) \subseteq Alters(y) /\ Alters(y) \subseteq Alters(b) \union Alters(a)
         /\ Loads(y, b, a) /\ y.cmds = b.cmds /\ y.uses = b.uses
<1>1. /\ IsEncoder(a) /\ IsEncoder(b) /\ a.update_vertex = {} /\ a.wait_vertex = {}
      /\ a.attachments = NoAttachments /\ a.id \in Nat /\ a.planes \subseteq Planes
      /\ \A p \in a.planes : ResourceOf(p) \in ResourcesWritten(a)
      /\ \A u \in a.uses : IsWrite(u.mode)
      /\ IdsOf(a) \subseteq Nat /\ IdsOf(b) \subseteq Nat
      /\ \A u \in a.uses : u.res \in Resources /\ u.id \in IdsOf(a)
      /\ \A u \in b.uses : u.res \in Resources /\ u.id \in IdsOf(b)
  BY DEF IsWhole
<1>2. /\ IsEncoder(y) /\ y.type = b.type /\ y.id = b.id
      /\ y.update = b.update /\ y.update_vertex = b.update_vertex
      /\ y.wait = b.wait /\ y.wait_vertex = b.wait_vertex /\ y.uses = b.uses
      /\ y.cmds = b.cmds /\ Loads(y, b, a)
  BY <1>1, ClearedFields
<1>3. x = [a EXCEPT !.planes = a.planes \ DOMAIN b.attachments]
  BY DEF Unmatched
<1>4. /\ IsEncoder(x) /\ x.type = a.type /\ x.id = a.id
      /\ x.update = a.update /\ x.update_vertex = a.update_vertex
      /\ x.wait = a.wait /\ x.wait_vertex = a.wait_vertex /\ x.uses = a.uses
      /\ x.attachments = a.attachments /\ x.planes = a.planes \ DOMAIN b.attachments
  BY <1>1, <1>3 DEF IsEncoder
<1>5. IsLike(x, a) /\ ClearLoads(x) = ClearLoads(a) /\ IdsOf(x) = IdsOf(a)
  BY <1>4 DEF IsLike, Updated, Waited, ResourcesUsed, ResourcesWritten, ClearLoads, IdsOf
<1>6. Alters(x) = Alters(a)
  BY <1>5 DEF Alters, IsLike
<1>7. IsWhole(x)
  <2>1. \A p \in x.planes : p \in Planes /\ ResourceOf(p) \in ResourcesWritten(x)
    BY <1>1, <1>4, <1>5 DEF IsLike
  <2> QED
    BY <1>1, <1>4, <1>5, <2>1 DEF IsWhole
<1>8. IsLike(y, b) /\ IdsOf(y) = IdsOf(b)
  BY <1>2 DEF IsLike, Updated, Waited, ResourcesUsed, ResourcesWritten, IdsOf
<1>9. IsWhole(y)
  <2>1. /\ IdsOf(y) \subseteq Nat /\ IdsOf(b) \subseteq IdsOf(y)
        /\ \A u \in y.uses : u.res \in Resources /\ u.id \in IdsOf(y)
        /\ ResourcesUsed(b) \subseteq ResourcesUsed(y)
        /\ ResourcesWritten(b) \subseteq ResourcesWritten(y)
    BY <1>1, <1>2, <1>8 DEF IsLike
  <2> QED
    BY <1>1, <1>2, <2>1, LoadedWhole
<1>10. Alters(b) \subseteq Alters(y) /\ Alters(y) \subseteq Alters(b) \union Alters(a)
  <2>1. ClearLoads(b) \subseteq ClearLoads(y) /\ ClearLoads(y) \subseteq ClearLoads(b) \union a.planes
    BY <1>2, LoadsAlters
  <2>2. ResourcesOf(a.planes) \subseteq ResourcesWritten(a)
    BY <1>1 DEF ResourcesOf
  <2>3. ResourcesWritten(a) \subseteq Alters(a)
    BY DEF Alters
  <2>4. /\ ResourcesOf(ClearLoads(b)) \subseteq ResourcesOf(ClearLoads(y))
        /\ ResourcesOf(ClearLoads(y)) \subseteq ResourcesOf(ClearLoads(b)) \union ResourcesOf(a.planes)
    BY <2>1 DEF ResourcesOf
  <2>5. ResourcesWritten(y) = ResourcesWritten(b)
    BY <1>8 DEF IsLike
  <2> QED
    BY <2>2, <2>3, <2>4, <2>5 DEF Alters
<1> QED
  BY <1>1, <1>2, <1>4, <1>5, <1>6, <1>7, <1>8, <1>9, <1>10 DEF IsListed

(* What does not match, changes nothing.                                   *)
LEMMA NoneMatches ==
  ASSUME NEW a, NEW b, IsWhole(a), IsWhole(b), a.type = "clear", b.type = "render",
         a.planes \intersect DOMAIN b.attachments = {}
  PROVE  Unmatched(a, b) = a /\ ClearedBy(b, a) = b
<1>1. /\ IsEncoder(a) /\ IsEncoder(b)
      /\ b.attachments = [p \in DOMAIN b.attachments |-> b.attachments[p]]
  BY DEF IsWhole
<1>2. a.planes \ DOMAIN b.attachments = a.planes
  OBVIOUS
<1>3. Unmatched(a, b) = a
  BY <1>1, <1>2 DEF Unmatched, IsEncoder
<1> DEFINE all == [p \in DOMAIN b.attachments |->
                     IF p \in a.planes /\ b.attachments[p].load = "load"
                     THEN [b.attachments[p] EXCEPT !.load = "clear", !.clear = a.id]
                     ELSE b.attachments[p]]
<1>4. all = b.attachments
  <2>1. \A p \in DOMAIN b.attachments : p \notin a.planes
    OBVIOUS
  <2>2. all = [p \in DOMAIN b.attachments |-> b.attachments[p]]
    BY <2>1
  <2> QED
    BY <1>1, <2>2
<1>5. ClearedBy(b, a) = [b EXCEPT !.attachments = all]
  BY DEF ClearedBy
<1> HIDE DEF all
<1>6. ClearedBy(b, a) = b
  BY <1>1, <1>4, <1>5 DEF IsEncoder
<1> QED
  BY <1>3, <1>6

(* A render that has not stored what is cleared next.                      *)
Drops(e, a, planes) ==
  /\ e.attachments = [p \in DOMAIN e.attachments |-> e.attachments[p]]
  /\ DOMAIN e.attachments = DOMAIN a.attachments
  /\ \A p \in DOMAIN a.attachments :
       /\ p \in planes => e.attachments[p] = [a.attachments[p] EXCEPT !.store = "dont_care"]
       /\ p \notin planes => e.attachments[p] = a.attachments[p]

LEMMA DropsIs ==
  ASSUME NEW e, NEW a, NEW planes, Drops(e, a, planes), IsWhole(a), a.type = "render",
         NEW p \in DOMAIN a.attachments
  PROVE  /\ p \in DOMAIN e.attachments
         /\ e.attachments[p] =
              [load |-> a.attachments[p].load, clear |-> a.attachments[p].clear,
               store |-> IF p \in planes THEN "dont_care" ELSE a.attachments[p].store,
               resolve |-> a.attachments[p].resolve, resolver |-> a.attachments[p].resolver,
               readonly |-> a.attachments[p].readonly]
<1> DEFINE x == a.attachments[p]
           y == e.attachments[p]
<1>1. x = [load |-> x.load, clear |-> x.clear, store |-> x.store, resolve |-> x.resolve,
           resolver |-> x.resolver, readonly |-> x.readonly]
  BY DEF IsWhole, IsAttachment
<1>2. /\ p \in DOMAIN e.attachments
      /\ p \in planes => y = [x EXCEPT !.store = "dont_care"]
      /\ p \notin planes => y = x
  BY DEF Drops
<1> HIDE DEF x, y
<1>3. CASE p \in planes
  BY <1>1, <1>2, <1>3 DEF x, y
<1>4. CASE p \notin planes
  BY <1>1, <1>2, <1>4 DEF x, y
<1> QED
  BY <1>3, <1>4

LEMMA DropsFields ==
  ASSUME NEW e, NEW a, NEW planes, Drops(e, a, planes), IsWhole(a), a.type = "render",
         NEW p \in DOMAIN a.attachments
  PROVE  /\ p \in DOMAIN e.attachments
         /\ e.attachments[p].load = a.attachments[p].load
         /\ e.attachments[p].clear = a.attachments[p].clear
         /\ e.attachments[p].resolve = a.attachments[p].resolve
         /\ e.attachments[p].resolver = a.attachments[p].resolver
         /\ e.attachments[p].readonly = a.attachments[p].readonly
         /\ p \notin planes => e.attachments[p].store = a.attachments[p].store
         /\ p \in planes => e.attachments[p].store = "dont_care"
<1>1. /\ p \in DOMAIN e.attachments
      /\ e.attachments[p] =
           [load |-> a.attachments[p].load, clear |-> a.attachments[p].clear,
            store |-> IF p \in planes THEN "dont_care" ELSE a.attachments[p].store,
            resolve |-> a.attachments[p].resolve, resolver |-> a.attachments[p].resolver,
            readonly |-> a.attachments[p].readonly]
  BY DropsIs
<1> QED
  BY <1>1

LEMMA DroppedFields ==
  ASSUME NEW e, NEW clear, IsWhole(e), e.type = "render", NEW u, u = NotStored(e, clear)
  PROVE  /\ IsEncoder(u) /\ u.type = e.type /\ u.id = e.id
         /\ u.update = e.update /\ u.update_vertex = e.update_vertex
         /\ u.wait = e.wait /\ u.wait_vertex = e.wait_vertex /\ u.uses = e.uses
         /\ u.cmds = e.cmds /\ Drops(u, e, DepthStencil(clear.planes))
         /\ DepthStencil(clear.planes) \intersect DOMAIN e.attachments = {} => u = e
<1> DEFINE all == [p \in DOMAIN e.attachments |->
                     IF p \in DepthStencil(clear.planes)
                     THEN [e.attachments[p] EXCEPT !.store = "dont_care"]
                     ELSE e.attachments[p]]
<1>1. u = [e EXCEPT !.attachments = all]
  BY DEF NotStored
<1>2. /\ all = [p \in DOMAIN all |-> all[p]]
      /\ DOMAIN all = DOMAIN e.attachments
      /\ \A p \in DOMAIN e.attachments :
           /\ p \in DepthStencil(clear.planes) =>
                all[p] = [e.attachments[p] EXCEPT !.store = "dont_care"]
           /\ p \notin DepthStencil(clear.planes) => all[p] = e.attachments[p]
  OBVIOUS
<1>3. DepthStencil(clear.planes) \intersect DOMAIN e.attachments = {} => all = e.attachments
  <2>1. SUFFICES ASSUME DepthStencil(clear.planes) \intersect DOMAIN e.attachments = {}
                 PROVE  all = e.attachments
    OBVIOUS
  <2>2. \A p \in DOMAIN e.attachments : p \notin DepthStencil(clear.planes)
    BY <2>1
  <2>3. all = [p \in DOMAIN e.attachments |-> e.attachments[p]]
    BY <2>2
  <2> QED
    BY <2>3 DEF IsWhole
<1> HIDE DEF all
<1>4. IsEncoder(e)
  BY DEF IsWhole
<1>5. u.attachments = all /\ IsEncoder(u) /\ u.type = e.type /\ u.id = e.id
         /\ u.update = e.update /\ u.update_vertex = e.update_vertex
         /\ u.wait = e.wait /\ u.wait_vertex = e.wait_vertex /\ u.uses = e.uses
         /\ u.cmds = e.cmds /\ (all = e.attachments => u = e)
  BY <1>1, <1>4 DEF IsEncoder
<1> QED
  BY <1>2, <1>3, <1>5 DEF Drops

LEMMA RenderDropped ==
  ASSUME NEW a, NEW b, IsWhole(a), IsRecorded(a), a.type = "render",
         NEW x, x = NotStored(a, b)
  PROVE  /\ IsListed(x) /\ IsWhole(x) /\ IsLike(x, a) /\ Alters(x) = Alters(a)
         /\ DOMAIN x.attachments = DOMAIN a.attachments
         /\ \A p \in DOMAIN x.attachments :
              x.attachments[p].store = "dont_care" => p \in b.planes
<1> DEFINE planes == DepthStencil(b.planes)
<1>1. /\ IsEncoder(a) /\ IdsOf(a) \subseteq Nat
      /\ \A u \in a.uses : u.res \in Resources /\ u.id \in IdsOf(a)
      /\ a.cmds \in Seq(Nat)
      /\ \A p \in DOMAIN a.attachments : IsAttachment(a, p)
      /\ \A p, q \in DOMAIN a.attachments :
            a.attachments[p].resolve # None /\ a.attachments[p].resolve = a.attachments[q].resolve
            => p = q
  BY DEF IsWhole
<1>2. /\ IsEncoder(x) /\ x.type = a.type /\ x.id = a.id
      /\ x.update = a.update /\ x.update_vertex = a.update_vertex
      /\ x.wait = a.wait /\ x.wait_vertex = a.wait_vertex /\ x.uses = a.uses
      /\ x.cmds = a.cmds /\ Drops(x, a, planes)
  BY DroppedFields
<1>3. /\ DOMAIN x.attachments = DOMAIN a.attachments
      /\ x.attachments = [p \in DOMAIN x.attachments |-> x.attachments[p]]
  BY <1>2 DEF Drops
<1>4. \A p \in planes : IsDepthStencil(p) /\ p \in b.planes
  BY DEF DepthStencil, IsDepthStencil
<1> HIDE DEF planes
<1>5. IsLike(x, a) /\ IdsOf(x) = IdsOf(a)
  BY <1>2 DEF IsLike, Updated, Waited, ResourcesUsed, ResourcesWritten, IdsOf
<1>6. ASSUME NEW p \in DOMAIN a.attachments
      PROVE  /\ x.attachments[p].load = a.attachments[p].load
             /\ x.attachments[p].resolve = a.attachments[p].resolve
             /\ IsAttachment(x, p)
             /\ x.attachments[p].store = "dont_care" => p \in planes
  <2> DEFINE y == x.attachments[p]
             w == a.attachments[p]
  <2>1. y = [load |-> w.load, clear |-> w.clear,
             store |-> IF p \in planes THEN "dont_care" ELSE w.store,
             resolve |-> w.resolve, resolver |-> w.resolver, readonly |-> w.readonly]
    BY <1>2, DropsIs
  <2>2. /\ p \in Planes /\ ResourceOf(p) \in ResourcesUsed(a)
        /\ w.load \in {"load", "clear"} /\ (w.load = "clear" => w.clear \in Nat)
        /\ w.readonly => IsDepthStencil(p)
        /\ ~ w.readonly => ResourceOf(p) \in ResourcesWritten(a)
        /\ w.store \in {"store", "resolve", "dont_care"}
        /\ w.store = "dont_care" => IsDepthStencil(p)
        /\ w.resolve = None => w.store # "resolve"
        /\ w.resolve # None =>
             /\ w.store = "resolve" /\ ~ IsDepthStencil(p)
             /\ w.resolve \in Planes \ DOMAIN a.attachments
             /\ ResourceOf(w.resolve) \in ResourcesWritten(a)
             /\ w.resolver \in IdsOf(a)
    BY <1>1 DEF IsAttachment
  <2>3. w.store # "dont_care"
    BY DEF IsRecorded
  <2> HIDE DEF y, w
  <2>4. /\ y.load = w.load /\ y.clear = w.clear /\ y.resolve = w.resolve
        /\ y.resolver = w.resolver /\ y.readonly = w.readonly
        /\ p \in planes => y.store = "dont_care"
        /\ p \notin planes => y.store = w.store
        /\ y = [load |-> y.load, clear |-> y.clear, store |-> y.store, resolve |-> y.resolve,
                resolver |-> y.resolver, readonly |-> y.readonly]
    BY <2>1
  <2>5. ResourcesUsed(x) = ResourcesUsed(a) /\ ResourcesWritten(x) = ResourcesWritten(a)
    BY <1>5 DEF IsLike
  <2>6. /\ p \in Planes /\ ResourceOf(p) \in ResourcesUsed(x)
        /\ y.load \in {"load", "clear"} /\ (y.load = "clear" => y.clear \in Nat)
        /\ IF y.readonly THEN IsDepthStencil(p) ELSE ResourceOf(p) \in ResourcesWritten(x)
        /\ y.store \in {"store", "resolve", "dont_care"}
        /\ y.store = "dont_care" => IsDepthStencil(p)
    BY <1>4, <2>2, <2>4, <2>5
  <2>7. IF y.resolve = None THEN y.store # "resolve"
         ELSE /\ y.store = "resolve" /\ ~ IsDepthStencil(p)
              /\ y.resolve \in Planes \ DOMAIN x.attachments
              /\ ResourceOf(y.resolve) \in ResourcesWritten(x)
              /\ y.resolver \in IdsOf(x)
    BY <1>3, <1>4, <1>5, <2>2, <2>4, <2>5
  <2>8. IsAttachment(x, p)
    BY <2>4, <2>6, <2>7 DEF IsAttachment, y
  <2> QED
    BY <2>3, <2>4, <2>8 DEF y, w
<1>7. ClearLoads(x) = ClearLoads(a)
  BY <1>3, <1>6 DEF ClearLoads
<1>8. Alters(x) = Alters(a)
  BY <1>5, <1>7 DEF Alters, IsLike
<1>9. \A p, q \in DOMAIN x.attachments :
        x.attachments[p].resolve # None /\ x.attachments[p].resolve = x.attachments[q].resolve
        => p = q
  BY <1>1, <1>3, <1>6
<1>10. IsWhole(x)
  BY <1>1, <1>2, <1>3, <1>5, <1>6, <1>9 DEF IsWhole
<1> QED
  BY <1>2, <1>3, <1>4, <1>5, <1>6, <1>8, <1>10 DEF IsListed

(* A render that has taken over a resolve.                                 *)
TakesOver(e, a, resolve) ==
  /\ e.attachments = [p \in DOMAIN e.attachments |-> e.attachments[p]]
  /\ DOMAIN e.attachments = DOMAIN a.attachments
  /\ \A p \in DOMAIN a.attachments : p # resolve.src => e.attachments[p] = a.attachments[p]
  /\ e.attachments[resolve.src] =
       [load |-> a.attachments[resolve.src].load, clear |-> a.attachments[resolve.src].clear,
        store |-> "resolve", resolve |-> resolve.dst, resolver |-> resolve.id,
        readonly |-> a.attachments[resolve.src].readonly]

LEMMA ResolvedFields ==
  ASSUME NEW e, NEW resolve, IsWhole(e), e.type = "render", MayResolve(e, resolve),
         NEW u, u = ResolvedBy(e, resolve)
  PROVE  /\ IsEncoder(u) /\ u.type = e.type /\ u.id = e.id
         /\ u.update = e.update /\ u.update_vertex = e.update_vertex
         /\ u.wait = e.wait /\ u.wait_vertex = e.wait_vertex /\ u.uses = e.uses
         /\ u.cmds = e.cmds /\ TakesOver(u, e, resolve)
<1> DEFINE x == e.attachments[resolve.src]
           y == [x EXCEPT !.store = "resolve", !.resolve = resolve.dst,
                          !.resolver = resolve.id]
           all == [e.attachments EXCEPT ![resolve.src] = y]
<1>1. u = [e EXCEPT !.attachments = all]
  BY DEF ResolvedBy
<1>2. /\ IsEncoder(e) /\ resolve.src \in DOMAIN e.attachments
      /\ e.attachments = [p \in DOMAIN e.attachments |-> e.attachments[p]]
      /\ x = [load |-> x.load, clear |-> x.clear, store |-> x.store, resolve |-> x.resolve,
              resolver |-> x.resolver, readonly |-> x.readonly]
  BY DEF IsWhole, IsAttachment, MayResolve
<1>3. /\ all = [p \in DOMAIN all |-> all[p]]
      /\ DOMAIN all = DOMAIN e.attachments
      /\ \A p \in DOMAIN e.attachments : p # resolve.src => all[p] = e.attachments[p]
      /\ all[resolve.src] = y
  <2> HIDE DEF y
  <2> QED
    BY <1>2
<1> HIDE DEF x
<1>4. y = [load |-> x.load, clear |-> x.clear, store |-> "resolve", resolve |-> resolve.dst,
           resolver |-> resolve.id, readonly |-> x.readonly]
  <2>1. /\ y = [x EXCEPT !.store = "resolve", !.resolve = resolve.dst,
                         !.resolver = resolve.id]
        /\ x = [load |-> x.load, clear |-> x.clear, store |-> x.store, resolve |-> x.resolve,
                resolver |-> x.resolver, readonly |-> x.readonly]
    BY <1>2
  <2> HIDE DEF y
  <2> QED
    BY ONLY <2>1
<1> HIDE DEF all
<1>5. u.attachments = all /\ IsEncoder(u) /\ u.type = e.type /\ u.id = e.id
         /\ u.update = e.update /\ u.update_vertex = e.update_vertex
         /\ u.wait = e.wait /\ u.wait_vertex = e.wait_vertex /\ u.uses = e.uses
         /\ u.cmds = e.cmds
  BY <1>1, <1>2 DEF IsEncoder
<1> HIDE DEF y
<1>6. TakesOver(u, e, resolve)
  BY <1>3, <1>4, <1>5 DEF TakesOver, x
<1> QED
  BY <1>5, <1>6

LEMMA RenderResolved ==
  ASSUME NEW a, NEW b, IsWhole(a), IsWhole(b), IsRecorded(a), a.type = "render",
         b.type = "resolve", MayResolve(a, b), ResourceOf(b.dst) \notin ResourcesUsed(a),
         NEW x, x = Absorbed(ResolvedBy(a, b), b)
  PROVE  /\ IsListed(x) /\ x.type = "render" /\ IsWhole(x) /\ IsRecorded(x)
         /\ Carries(x, a, b) /\ TakesOver(x, a, b)
         /\ x.cmds = a.cmds /\ x.uses = a.uses \union b.uses
         /\ ResourceOf(b.src) \in ResourcesWritten(a)
         /\ \A p : IsReadonly(x, p) => IsReadonly(a, p)
<1> DEFINE c == ResolvedBy(a, b)
<1>1. /\ IsEncoder(a) /\ IsEncoder(b) /\ b.update_vertex = {} /\ b.wait_vertex = {}
      /\ b.attachments = NoAttachments
      /\ IdsOf(a) \subseteq Nat /\ IdsOf(b) \subseteq Nat
      /\ \A u \in a.uses : u.res \in Resources /\ u.id \in IdsOf(a)
      /\ \A u \in b.uses : u.res \in Resources /\ u.id \in IdsOf(b)
      /\ b.id \in IdsOf(b) /\ b.src \in Planes /\ b.dst \in Planes /\ ~ IsDepthStencil(b.src)
      /\ ResourcesWritten(b) = {ResourceOf(b.dst)}
      /\ a.cmds \in Seq(Nat)
      /\ \A p \in DOMAIN a.attachments : IsAttachment(a, p)
      /\ \A p, q \in DOMAIN a.attachments :
            a.attachments[p].resolve # None /\ a.attachments[p].resolve = a.attachments[q].resolve
            => p = q
  BY DEF IsWhole
<1>2. b.src \in DOMAIN a.attachments /\ a.attachments[b.src].resolve = None
  BY DEF MayResolve
<1>3. /\ IsEncoder(c) /\ c.type = a.type /\ c.id = a.id
      /\ c.update = a.update /\ c.update_vertex = a.update_vertex
      /\ c.wait = a.wait /\ c.wait_vertex = a.wait_vertex /\ c.uses = a.uses
      /\ c.cmds = a.cmds /\ TakesOver(c, a, b)
  BY ResolvedFields
<1> HIDE DEF c
<1>4. x = Absorbed(c, b)
  BY DEF c
<1>5. /\ IsEncoder(x) /\ x.type = c.type /\ x.update = c.update \union b.update
      /\ x.update_vertex = c.update_vertex /\ x.uses = c.uses \union b.uses
      /\ x.attachments = c.attachments /\ x.cmds = c.cmds
  BY <1>3, <1>4, AbsorbedFields
<1>6. /\ Updated(x) = Updated(c) \union Updated(b)
      /\ (Waited(c) \union Waited(b)) \ Updated(b) \subseteq Waited(x)
      /\ Waited(x) \subseteq Waited(c) \union Waited(b)
  BY <1>1, <1>3, <1>4, AbsorbedWaits
<1>7. Updated(c) = Updated(a) /\ Waited(c) = Waited(a)
  BY <1>3 DEF Updated, Waited
<1>8. TakesOver(x, a, b)
  BY <1>3, <1>5 DEF TakesOver
<1>9. /\ x.attachments = [p \in DOMAIN x.attachments |-> x.attachments[p]]
      /\ DOMAIN x.attachments = DOMAIN a.attachments
      /\ \A p \in DOMAIN a.attachments : p # b.src => x.attachments[p] = a.attachments[p]
      /\ x.attachments[b.src] =
           [load |-> a.attachments[b.src].load, clear |-> a.attachments[b.src].clear,
            store |-> "resolve", resolve |-> b.dst, resolver |-> b.id,
            readonly |-> a.attachments[b.src].readonly]
  BY <1>8 DEF TakesOver
<1>10. x.uses = a.uses \union b.uses
  BY <1>3, <1>5
<1>11. /\ ResourcesUsed(x) = ResourcesUsed(a) \union ResourcesUsed(b)
       /\ ResourcesWritten(x) = ResourcesWritten(a) \union ResourcesWritten(b)
  <2>1. HasUsesOf(x, a, b)
    BY <1>10 DEF HasUsesOf
  <2> QED
    BY <2>1, UnionUses
<1>12. IdsOf(x) = IdsOf(a) \union IdsOf(b)
  BY <1>1, <1>3, <1>5 DEF IdsOf
<1>13. /\ x.attachments[b.src].load = a.attachments[b.src].load
       /\ x.attachments[b.src].clear = a.attachments[b.src].clear
       /\ x.attachments[b.src].readonly = a.attachments[b.src].readonly
       /\ x.attachments[b.src].store = "resolve"
       /\ x.attachments[b.src].resolve = b.dst
       /\ x.attachments[b.src].resolver = b.id
       /\ LET y == x.attachments[b.src]
          IN  y = [load |-> y.load, clear |-> y.clear, store |-> y.store, resolve |-> y.resolve,
                   resolver |-> y.resolver, readonly |-> y.readonly]
  BY <1>9
<1>14. \A p \in DOMAIN a.attachments :
         /\ x.attachments[p].load = a.attachments[p].load
         /\ x.attachments[p].readonly = a.attachments[p].readonly
         /\ p # b.src => x.attachments[p] = a.attachments[p]
  BY <1>9, <1>13
<1>15. ClearLoads(x) = ClearLoads(a)
  BY <1>9, <1>14 DEF ClearLoads
<1>16. Alters(x) = Alters(a) \union Alters(b)
  <2>1. ClearLoads(b) = {}
    BY <1>1 DEF ClearLoads, NoAttachments
  <2>2. Alters(b) = ResourcesWritten(b)
    BY <2>1 DEF Alters, ResourcesOf
  <2> QED
    BY <1>11, <1>15, <2>2 DEF Alters
<1>17. \A p \in DOMAIN a.attachments : ResourceOf(p) \in ResourcesUsed(a)
  BY <1>1 DEF IsAttachment
<1>18. b.dst \notin DOMAIN a.attachments
  BY <1>17
<1>19. ResourceOf(b.src) \in ResourcesWritten(a)
  BY <1>1, <1>2 DEF IsAttachment
<1>20. ASSUME NEW p \in DOMAIN a.attachments
       PROVE  IsAttachment(x, p)
  <2>1. CASE p # b.src
    <3>1. IsAttachment(a, p) /\ x.attachments[p] = a.attachments[p]
      BY <1>1, <1>14, <2>1
    <3> QED
      BY <1>9, <1>11, <1>12, <3>1 DEF IsAttachment
  <2>2. CASE p = b.src
    <3> DEFINE w == a.attachments[b.src]
               y == x.attachments[b.src]
    <3>1. /\ p \in Planes /\ ResourceOf(p) \in ResourcesUsed(a)
          /\ w.load \in {"load", "clear"} /\ (w.load = "clear" => w.clear \in Nat)
          /\ ~ w.readonly
      BY <1>1, <1>2, <2>2 DEF IsAttachment
    <3>2. /\ y.load = w.load /\ y.clear = w.clear /\ y.readonly = w.readonly
          /\ y.store = "resolve" /\ y.resolve = b.dst /\ y.resolver = b.id
          /\ y = [load |-> y.load, clear |-> y.clear, store |-> y.store, resolve |-> y.resolve,
                  resolver |-> y.resolver, readonly |-> y.readonly]
      BY <1>13
    <3> HIDE DEF w, y
    <3>3. b.dst # None
      BY <1>1, PlanesAssumption
    <3>4. /\ ResourceOf(p) \in ResourcesUsed(x) /\ ResourceOf(p) \in ResourcesWritten(x)
          /\ ResourceOf(b.dst) \in ResourcesWritten(x) /\ b.id \in IdsOf(x)
          /\ b.dst \in Planes \ DOMAIN x.attachments /\ ~ IsDepthStencil(p)
      BY <1>1, <1>9, <1>11, <1>12, <1>18, <1>19, <2>2, <3>1
    <3> QED
      BY <2>2, <3>1, <3>2, <3>3, <3>4 DEF IsAttachment, y
  <2> QED
    BY <2>1, <2>2
<1>21. ASSUME NEW p \in DOMAIN x.attachments, NEW q \in DOMAIN x.attachments,
              x.attachments[p].resolve # None,
              x.attachments[p].resolve = x.attachments[q].resolve
       PROVE  p = q
  <2>1. \A m \in DOMAIN a.attachments : a.attachments[m].resolve # b.dst
    <3> SUFFICES ASSUME NEW m \in DOMAIN a.attachments, a.attachments[m].resolve = b.dst
                 PROVE  FALSE
      OBVIOUS
    <3>1. b.dst # None
      BY <1>1, PlanesAssumption
    <3>2. ResourceOf(b.dst) \in ResourcesWritten(a)
      BY <1>1, <3>1 DEF IsAttachment
    <3>3. ResourcesWritten(a) \subseteq ResourcesUsed(a)
      BY DEF ResourcesWritten, ResourcesUsed
    <3> QED
      BY <3>2, <3>3
  <2>2. CASE p = b.src /\ q # b.src
    BY <1>9, <1>13, <1>14, <1>21, <2>1, <2>2
  <2>3. CASE p # b.src /\ q = b.src
    BY <1>9, <1>13, <1>14, <1>21, <2>1, <2>3
  <2>4. CASE p # b.src /\ q # b.src
    BY <1>1, <1>9, <1>14, <1>21, <2>4
  <2> QED
    BY <2>2, <2>3, <2>4
<1>22. IsWhole(x)
  <2>1. /\ IdsOf(x) \subseteq Nat /\ \A u \in x.uses : u.res \in Resources /\ u.id \in IdsOf(x)
    BY <1>1, <1>10, <1>12
  <2> QED
    BY <1>1, <1>3, <1>5, <1>9, <1>20, <1>21, <2>1 DEF IsWhole
<1>23. IsRecorded(x)
  BY <1>9, <1>13, <1>14 DEF IsRecorded
<1>24. \A p : IsReadonly(x, p) => IsReadonly(a, p)
  BY <1>9, <1>14 DEF IsReadonly
<1>25. Carries(x, a, b)
  BY <1>6, <1>7, <1>11, <1>16 DEF Carries
<1> QED
  BY <1>3, <1>5, <1>8, <1>10, <1>19, <1>22, <1>23, <1>24, <1>25 DEF IsListed

(* Two renders that have become one.                                       *)
Joins(e, a, b) ==
  /\ e.attachments = [p \in DOMAIN e.attachments |-> e.attachments[p]]
  /\ DOMAIN e.attachments = DOMAIN b.attachments /\ DOMAIN a.attachments = DOMAIN b.attachments
  /\ \A p \in DOMAIN b.attachments :
       /\ a.attachments[p].load = "load" /\ b.attachments[p].load = "load"
       /\ a.attachments[p].store = "store" /\ a.attachments[p].resolve = None
       /\ a.attachments[p].readonly = b.attachments[p].readonly
       /\ e.attachments[p] =
            [load |-> "load", clear |-> a.attachments[p].clear,
             store |-> IF IsDepthStencil(p) THEN "store" ELSE b.attachments[p].store,
             resolve |-> b.attachments[p].resolve, resolver |-> b.attachments[p].resolver,
             readonly |-> b.attachments[p].readonly]

FencesOf(ids) == { Fence(id) : id \in ids }

JoinedAttachments(a, b) ==
  [p \in DOMAIN b.attachments |->
     [b.attachments[p] EXCEPT
        !.load = a.attachments[p].load, !.clear = a.attachments[p].clear,
        !.store = IF p \in DepthStencil({p}) THEN a.attachments[p].store ELSE @]]

AreMerged(u, a, b) ==
  /\ IsEncoder(u) /\ u.type = b.type
  /\ u.update = b.update \union a.update
  /\ u.update_vertex = b.update_vertex \union a.update_vertex
  /\ u.wait = ((b.wait \union a.wait) \ FencesOf(a.update)) \ FencesOf(a.update_vertex)
  /\ u.wait_vertex = (b.wait_vertex \union a.wait_vertex) \ FencesOf(a.update_vertex)
  /\ u.uses = b.uses \union a.uses /\ u.cmds = a.cmds \o b.cmds
  /\ u.attachments = JoinedAttachments(a, b)

LEMMA MergedFields ==
  ASSUME NEW a, NEW b, IsEncoder(a), IsEncoder(b), NEW u, u = Merged(a, b)
  PROVE  AreMerged(u, a, b)
<1> DEFINE all == Absorbed(b, a)
           atts == JoinedAttachments(a, b)
           vertex == { Fence(id) : id \in a.update_vertex }
           own == { Fence(id) : id \in a.update }
<1>1. /\ IsEncoder(all) /\ all.type = b.type /\ all.id = b.id
      /\ all.update = b.update \union a.update /\ all.update_vertex = b.update_vertex
      /\ all.wait = (b.wait \union a.wait) \ own
      /\ all.wait_vertex = b.wait_vertex /\ all.uses = b.uses \union a.uses
      /\ all.attachments = b.attachments /\ all.cmds = b.cmds
  BY AbsorbedFields
<1>2. u = [all EXCEPT !.attachments = [p \in DOMAIN all.attachments |->
              [b.attachments[p] EXCEPT
                 !.load = a.attachments[p].load, !.clear = a.attachments[p].clear,
                 !.store = IF p \in DepthStencil({p}) THEN a.attachments[p].store ELSE @]],
                    !.cmds = a.cmds \o all.cmds,
                    !.update_vertex = all.update_vertex \union a.update_vertex,
                    !.wait_vertex = (all.wait_vertex \union a.wait_vertex) \ vertex,
                    !.wait = all.wait \ vertex]
  BY DEF Merged
<1> HIDE DEF all
<1>3. u = [all EXCEPT !.attachments = atts,
                    !.cmds = a.cmds \o b.cmds,
                    !.update_vertex = b.update_vertex \union a.update_vertex,
                    !.wait_vertex = (b.wait_vertex \union a.wait_vertex) \ vertex,
                    !.wait = ((b.wait \union a.wait) \ own) \ vertex]
  BY <1>1, <1>2 DEF JoinedAttachments
<1> HIDE DEF atts, vertex, own
<1>4. /\ IsEncoder(u) /\ u.type = b.type
      /\ u.update = b.update \union a.update
      /\ u.update_vertex = b.update_vertex \union a.update_vertex
      /\ u.wait = ((b.wait \union a.wait) \ own) \ vertex
      /\ u.wait_vertex = (b.wait_vertex \union a.wait_vertex) \ vertex
      /\ u.uses = b.uses \union a.uses /\ u.cmds = a.cmds \o b.cmds
      /\ u.attachments = atts
  BY <1>1, <1>3 DEF IsEncoder
<1> QED
  BY <1>4 DEF atts, vertex, own, FencesOf, AreMerged

MergesInto(y, a, b) ==
  /\ IsListed(y) /\ y.type = "render" /\ IsWhole(y) /\ Carries(y, b, a)
  /\ Joins(y, a, b) /\ y.cmds = a.cmds \o b.cmds /\ y.uses = b.uses \union a.uses
  /\ \A p \in DOMAIN y.attachments :
       y.attachments[p].store = "dont_care" =>
         p \in DOMAIN b.attachments /\ b.attachments[p].store = "dont_care"

LEMMA RenderMerged ==
  ASSUME NEW a, NEW b, IsWhole(a), IsWhole(b), IsRecorded(a), a.type = "render",
         b.type = "render", MayMerge(a, b), NEW y, y = Merged(a, b)
  PROVE  MergesInto(y, a, b)
<1>1. /\ IsEncoder(a) /\ IsEncoder(b)
      /\ IdsOf(a) \subseteq Nat /\ IdsOf(b) \subseteq Nat
      /\ \A u \in a.uses : u.res \in Resources /\ u.id \in IdsOf(a)
      /\ \A u \in b.uses : u.res \in Resources /\ u.id \in IdsOf(b)
      /\ a.cmds \in Seq(Nat) /\ b.cmds \in Seq(Nat)
      /\ \A p \in DOMAIN a.attachments : IsAttachment(a, p)
      /\ \A p \in DOMAIN b.attachments : IsAttachment(b, p)
      /\ \A p, q \in DOMAIN b.attachments :
            b.attachments[p].resolve # None /\ b.attachments[p].resolve = b.attachments[q].resolve
            => p = q
  BY DEF IsWhole
<1>2. /\ IsEncoder(y) /\ y.type = b.type
      /\ y.update = b.update \union a.update
      /\ y.update_vertex = b.update_vertex \union a.update_vertex
      /\ y.wait = ((b.wait \union a.wait) \ FencesOf(a.update))
                  \ FencesOf(a.update_vertex)
      /\ y.wait_vertex = (b.wait_vertex \union a.wait_vertex)
                         \ FencesOf(a.update_vertex)
      /\ y.uses = b.uses \union a.uses /\ y.cmds = a.cmds \o b.cmds
      /\ y.attachments = JoinedAttachments(a, b)
  <2>1. AreMerged(y, a, b)
    BY <1>1, MergedFields
  <2> QED
    BY <2>1 DEF AreMerged
<1>3. /\ DOMAIN a.attachments = DOMAIN b.attachments
      /\ \A p \in DOMAIN b.attachments :
           LET u == a.attachments[p]
               v == b.attachments[p]
           IN  /\ u.readonly = v.readonly
               /\ IF u.readonly THEN v.load # "clear" ELSE u.store = "store" /\ v.load = "load"
  BY DEF MayMerge, IsEncoderSignatureMatched
<1>4. ASSUME NEW p \in DOMAIN b.attachments
      PROVE  /\ a.attachments[p].load = "load" /\ b.attachments[p].load = "load"
             /\ a.attachments[p].store = "store" /\ a.attachments[p].resolve = None
             /\ a.attachments[p].readonly = b.attachments[p].readonly
             /\ y.attachments[p] =
                  [load |-> "load", clear |-> a.attachments[p].clear,
                   store |-> IF IsDepthStencil(p) THEN "store" ELSE b.attachments[p].store,
                   resolve |-> b.attachments[p].resolve,
                   resolver |-> b.attachments[p].resolver,
                   readonly |-> b.attachments[p].readonly]
  <2> DEFINE u == a.attachments[p]
             v == b.attachments[p]
             w == y.attachments[p]
  <2>1. /\ v = [load |-> v.load, clear |-> v.clear, store |-> v.store, resolve |-> v.resolve,
                resolver |-> v.resolver, readonly |-> v.readonly]
        /\ v.load \in {"load", "clear"}
    BY <1>1 DEF IsAttachment
  <2>2. /\ u.load \in {"load", "clear"} /\ u.store \in {"store", "resolve", "dont_care"}
        /\ u.readonly => IsDepthStencil(p)
        /\ u.resolve # None => u.store = "resolve" /\ ~ IsDepthStencil(p)
        /\ u.resolve = None => u.store # "resolve"
    BY <1>1, <1>3 DEF IsAttachment
  <2>3. u.load = "load" /\ u.store # "dont_care"
    BY <1>3 DEF IsRecorded
  <2>4. /\ u.readonly = v.readonly /\ u.readonly => v.load # "clear"
        /\ ~ u.readonly => u.store = "store" /\ v.load = "load"
    BY <1>3
  <2>5. w = [v EXCEPT !.load = u.load, !.clear = u.clear,
                      !.store = IF p \in DepthStencil({p}) THEN u.store ELSE @]
    BY <1>2 DEF JoinedAttachments
  <2>6. p \in DepthStencil({p}) <=> IsDepthStencil(p)
    BY DEF DepthStencil, IsDepthStencil
  <2>7. u.readonly = v.readonly
    BY <1>3
  <2> HIDE DEF u, v, w
  <2>8. u.store = "store" /\ u.resolve = None /\ v.load = "load"
    BY <1>3, <2>1, <2>2, <2>3, <2>4 DEF u, v
  <2>9. w = [load |-> u.load, clear |-> u.clear,
             store |-> IF p \in DepthStencil({p}) THEN u.store ELSE v.store,
             resolve |-> v.resolve, resolver |-> v.resolver, readonly |-> v.readonly]
    BY ONLY <2>1, <2>5
  <2>10. w = [load |-> "load", clear |-> u.clear,
             store |-> IF IsDepthStencil(p) THEN "store" ELSE v.store,
             resolve |-> v.resolve, resolver |-> v.resolver, readonly |-> v.readonly]
    BY ONLY <2>3, <2>6, <2>8, <2>9
  <2> QED
    BY <2>3, <2>7, <2>8, <2>10 DEF u, v, w
<1>5. Joins(y, a, b)
  <2>1. /\ y.attachments = [p \in DOMAIN y.attachments |-> y.attachments[p]]
        /\ DOMAIN y.attachments = DOMAIN b.attachments
    BY <1>2 DEF JoinedAttachments
  <2> QED
    BY <1>3, <1>4, <2>1 DEF Joins
<1>6. /\ y.attachments = [p \in DOMAIN y.attachments |-> y.attachments[p]]
      /\ DOMAIN y.attachments = DOMAIN b.attachments
      /\ DOMAIN a.attachments = DOMAIN b.attachments
  BY <1>5 DEF Joins
<1>7. ASSUME NEW p \in DOMAIN b.attachments
      PROVE  LET w == y.attachments[p]
             IN  /\ w.load = "load" /\ w.clear = a.attachments[p].clear
                 /\ IsDepthStencil(p) => w.store = "store"
                 /\ ~ IsDepthStencil(p) => w.store = b.attachments[p].store
                 /\ w.resolve = b.attachments[p].resolve
                 /\ w.resolver = b.attachments[p].resolver
                 /\ w.readonly = b.attachments[p].readonly
                 /\ w = [load |-> w.load, clear |-> w.clear, store |-> w.store,
                         resolve |-> w.resolve, resolver |-> w.resolver,
                         readonly |-> w.readonly]
  <2> DEFINE v == b.attachments[p]
             w == y.attachments[p]
             u == a.attachments[p].clear
  <2>1. w = [load |-> "load", clear |-> u,
             store |-> IF IsDepthStencil(p) THEN "store" ELSE v.store,
             resolve |-> v.resolve, resolver |-> v.resolver, readonly |-> v.readonly]
    BY <1>4
  <2> HIDE DEF u, v, w
  <2>2. /\ w.load = "load" /\ w.clear = u
        /\ IsDepthStencil(p) => w.store = "store"
        /\ ~ IsDepthStencil(p) => w.store = v.store
        /\ w.resolve = v.resolve /\ w.resolver = v.resolver /\ w.readonly = v.readonly
        /\ w = [load |-> w.load, clear |-> w.clear, store |-> w.store,
                resolve |-> w.resolve, resolver |-> w.resolver, readonly |-> w.readonly]
    BY ONLY <2>1
  <2> QED
    BY <2>2 DEF u, v, w
<1>8. /\ ResourcesUsed(y) = ResourcesUsed(b) \union ResourcesUsed(a)
      /\ ResourcesWritten(y) = ResourcesWritten(b) \union ResourcesWritten(a)
  <2>1. HasUsesOf(y, b, a)
    BY <1>2 DEF HasUsesOf
  <2> QED
    BY <2>1, UnionUses
<1>9. IdsOf(y) = IdsOf(b) \union IdsOf(a)
  BY <1>2 DEF IdsOf
<1>10. ClearLoads(y) = {} /\ ClearLoads(b) = {} /\ ClearLoads(a) = {}
  BY <1>4, <1>6, <1>7 DEF ClearLoads
<1>11. Alters(y) = Alters(b) \union Alters(a)
  BY <1>8, <1>10 DEF Alters, ResourcesOf
<1>12. ASSUME NEW p \in DOMAIN b.attachments
       PROVE  IsAttachment(y, p)
  <2> DEFINE v == b.attachments[p]
             w == y.attachments[p]
  <2>1. /\ p \in Planes /\ ResourceOf(p) \in ResourcesUsed(b)
        /\ v.readonly => IsDepthStencil(p)
        /\ ~ v.readonly => ResourceOf(p) \in ResourcesWritten(b)
        /\ v.store \in {"store", "resolve", "dont_care"}
        /\ v.store = "dont_care" => IsDepthStencil(p)
        /\ v.resolve = None => v.store # "resolve"
        /\ v.resolve # None =>
             /\ v.store = "resolve" /\ ~ IsDepthStencil(p)
             /\ v.resolve \in Planes \ DOMAIN b.attachments
             /\ ResourceOf(v.resolve) \in ResourcesWritten(b)
             /\ v.resolver \in IdsOf(b)
    BY <1>1 DEF IsAttachment
  <2>2. /\ w.load = "load"
        /\ IsDepthStencil(p) => w.store = "store"
        /\ ~ IsDepthStencil(p) => w.store = v.store
        /\ w.resolve = v.resolve /\ w.resolver = v.resolver /\ w.readonly = v.readonly
        /\ w = [load |-> w.load, clear |-> w.clear, store |-> w.store,
                resolve |-> w.resolve, resolver |-> w.resolver, readonly |-> w.readonly]
    BY <1>7
  <2> HIDE DEF v, w
  <2>3. /\ ResourceOf(p) \in ResourcesUsed(y)
        /\ IF w.readonly THEN IsDepthStencil(p) ELSE ResourceOf(p) \in ResourcesWritten(y)
        /\ w.store \in {"store", "resolve", "dont_care"}
        /\ w.store = "dont_care" => IsDepthStencil(p)
    BY <1>8, <2>1, <2>2
  <2>4. IF w.resolve = None THEN w.store # "resolve"
         ELSE /\ w.store = "resolve" /\ ~ IsDepthStencil(p)
              /\ w.resolve \in Planes \ DOMAIN y.attachments
              /\ ResourceOf(w.resolve) \in ResourcesWritten(y)
              /\ w.resolver \in IdsOf(y)
    BY <1>6, <1>8, <1>9, <2>1, <2>2
  <2> QED
    BY <2>1, <2>2, <2>3, <2>4 DEF IsAttachment, w
<1>13. \A p, q \in DOMAIN y.attachments :
         y.attachments[p].resolve # None /\ y.attachments[p].resolve = y.attachments[q].resolve
         => p = q
  <2>1. \A p \in DOMAIN b.attachments : y.attachments[p].resolve = b.attachments[p].resolve
    BY <1>7
  <2> QED
    BY <1>1, <1>6, <2>1
<1>14. IsWhole(y)
  <2>1. /\ IdsOf(y) \subseteq Nat /\ \A u \in y.uses : u.res \in Resources /\ u.id \in IdsOf(y)
    BY <1>1, <1>2, <1>9
  <2>2. y.cmds \in Seq(Nat)
    <3>1. \A x, z \in Seq(Nat) : x \o z \in Seq(Nat)
      OBVIOUS
    <3> QED
      BY <1>1, <1>2, <3>1
  <2> QED
    BY <1>2, <1>6, <1>12, <1>13, <2>1, <2>2 DEF IsWhole
<1>15. Carries(y, b, a)
  <2>1. Updated(y) = Updated(b) \union Updated(a)
    BY <1>2 DEF Updated
  <2>2. \A f : f \in Updated(a) <=> f \in FencesOf(a.update) \/ f \in FencesOf(a.update_vertex)
    BY DEF Updated, FencesOf
  <2>3. /\ (Waited(b) \union Waited(a)) \ Updated(a) \subseteq Waited(y)
        /\ Waited(y) \subseteq Waited(b) \union Waited(a)
    BY <1>2, <2>2 DEF Waited
  <2> QED
    BY <1>8, <1>11, <2>1, <2>3 DEF Carries
<1>16. \A p \in DOMAIN y.attachments :
         y.attachments[p].store = "dont_care" =>
           p \in DOMAIN b.attachments /\ b.attachments[p].store = "dont_care"
  BY <1>6, <1>7
<1> QED
  BY <1>2, <1>5, <1>14, <1>15, <1>16 DEF IsListed, MergesInto

-----------------------------------------------------------------------------
(* The contents of planes, and what passes see of them.                    *)

LEMMA PlaneOwner ==
  /\ \A r \in Resources : \A p \in PlanesOf[r] : p \in Planes /\ ResourceOf(p) = r
  /\ \A p \in Planes : ResourceOf(p) \in Resources /\ p \in PlanesOf[ResourceOf(p)]
<1>1. ASSUME NEW r \in Resources, NEW p \in PlanesOf[r]
      PROVE  p \in Planes /\ ResourceOf(p) = r
  <2>1. p \in Planes
    BY PlanesAssumption
  <2>2. \A s \in Resources : p \in PlanesOf[s] => s = r
    BY PlanesAssumption
  <2> QED
    BY <2>1, <2>2 DEF ResourceOf
<1>2. ASSUME NEW p \in Planes
      PROVE  ResourceOf(p) \in Resources /\ p \in PlanesOf[ResourceOf(p)]
  BY PlanesAssumption DEF ResourceOf
<1> QED
  BY <1>1, <1>2

(* What a pass does to one plane.                                          *)
LEMMA ContentsAt ==
  ASSUME NEW c, NEW e, NEW p \in Planes
  PROVE  /\ e.type = "null" => ContentsAfter(c, e)[p] = c[p]
         /\ e.type = "clear" /\ p \in e.planes => ContentsAfter(c, e)[p] = <<e.id>>
         /\ e.type = "clear" /\ p \notin e.planes => ContentsAfter(c, e)[p] = c[p]
         /\ e.type = "resolve" /\ p = e.dst => ContentsAfter(c, e)[p] = <<e.id>>
         /\ e.type = "resolve" /\ p # e.dst => ContentsAfter(c, e)[p] = c[p]
         /\ e.type = "render" /\ p \in ResolveTargets(e) =>
              ContentsAfter(c, e)[p] = << ResolverOf(e, p) >>
         /\ e.type = "render" /\ p \notin ResolveTargets(e) =>
              ContentsAfter(c, e)[p] = DrawnAt(c, e, p)
         /\ e.type \notin {"null", "clear", "resolve", "render"} /\ p \in PlaneWrites(e, e.uses) =>
              ContentsAfter(c, e)[p] = Append(c[p], e.id)
         /\ e.type \notin {"null", "clear", "resolve", "render"} /\ p \notin PlaneWrites(e, e.uses) =>
              ContentsAfter(c, e)[p] = c[p]
  BY DEF ContentsAfter

LEMMA ContentsDomain ==
  ASSUME NEW c, NEW e, NEW d, NEW e2,
         \A p \in Planes : ContentsAfter(c, e)[p] = ContentsAfter(d, e2)[p]
  PROVE  ContentsAfter(c, e) = ContentsAfter(d, e2)
<1>1. \A x, y : DOMAIN ContentsAfter(x, y) = Planes
                /\ ContentsAfter(x, y) = [p \in Planes |-> ContentsAfter(x, y)[p]]
  BY DEF ContentsAfter
<1>2. [p \in Planes |-> ContentsAfter(c, e)[p]] = [p \in Planes |-> ContentsAfter(d, e2)[p]]
  OBVIOUS
<1> QED
  BY <1>1, <1>2

(* What is in the place of a null pass, or whole.                          *)
IsDone(e) == e.type = "null" \/ IsWhole(e)

LEMMA WritesAre ==
  ASSUME NEW e, IsDone(e), e.type # "null"
  PROVE  /\ \A p \in PlaneWrites(e, e.uses) : ResourceOf(p) \in ResourcesWritten(e)
         /\ e.type = "event" => PlaneWrites(e, e.uses) = {}
<1>1. IsWhole(e)
  BY DEF IsDone
<1>2. ASSUME NEW p \in PlaneWrites(e, e.uses)
      PROVE  ResourceOf(p) \in ResourcesWritten(e)
  <2>1. PICK u \in e.uses : IsWrite(u.mode) /\ p \in PlanesOf[u.res]
    BY <1>2 DEF PlaneWrites
  <2>2. u.res \in Resources
    BY <1>1 DEF IsWhole
  <2>3. ResourceOf(p) = u.res
    BY <2>1, <2>2, PlaneOwner
  <2> QED
    BY <2>1, <2>3 DEF ResourcesWritten
<1>3. e.type = "event" => e.uses = {}
  BY <1>1 DEF IsWhole
<1>4. e.uses = {} => PlaneWrites(e, e.uses) = {}
  BY DEF PlaneWrites
<1> QED
  BY <1>2, <1>3, <1>4

(* The resolver of a plane.                                                *)
LEMMA ResolverIs ==
  ASSUME NEW e, IsWhole(e), e.type = "render"
  PROVE  /\ \A q \in ResolvedAt(e) :
              /\ q \in DOMAIN e.attachments
              /\ e.attachments[q].resolve \in Planes \ DOMAIN e.attachments
              /\ ResourceOf(e.attachments[q].resolve) \in ResourcesWritten(e)
              /\ e.attachments[q].resolver \in IdsOf(e) /\ e.attachments[q].resolver \in Nat
              /\ ResolverOf(e, e.attachments[q].resolve) = e.attachments[q].resolver
         /\ \A p : p \in ResolveTargets(e) <=>
                     \E q \in ResolvedAt(e) : e.attachments[q].resolve = p
<1>1. /\ \A p \in DOMAIN e.attachments : IsAttachment(e, p)
      /\ \A p, q \in DOMAIN e.attachments :
            e.attachments[p].resolve # None /\ e.attachments[p].resolve = e.attachments[q].resolve
            => p = q
      /\ IdsOf(e) \subseteq Nat
  BY DEF IsWhole
<1>2. ASSUME NEW q \in ResolvedAt(e)
      PROVE  /\ q \in DOMAIN e.attachments
             /\ e.attachments[q].resolve \in Planes \ DOMAIN e.attachments
             /\ ResourceOf(e.attachments[q].resolve) \in ResourcesWritten(e)
             /\ e.attachments[q].resolver \in IdsOf(e) /\ e.attachments[q].resolver \in Nat
             /\ ResolverOf(e, e.attachments[q].resolve) = e.attachments[q].resolver
  <2>1. q \in DOMAIN e.attachments /\ e.attachments[q].resolve # None
    BY DEF ResolvedAt
  <2>2. /\ e.attachments[q].resolve \in Planes \ DOMAIN e.attachments
        /\ ResourceOf(e.attachments[q].resolve) \in ResourcesWritten(e)
        /\ e.attachments[q].resolver \in IdsOf(e)
    BY <1>1, <2>1 DEF IsAttachment
  <2> DEFINE p == e.attachments[q].resolve
             w == CHOOSE x \in ResolvedAt(e) : e.attachments[x].resolve = p
  <2>3. w \in ResolvedAt(e) /\ e.attachments[w].resolve = p
    OBVIOUS
  <2>4. w \in DOMAIN e.attachments /\ e.attachments[w].resolve # None
    BY <2>3 DEF ResolvedAt
  <2>5. ResolverOf(e, p) = e.attachments[w].resolver
    BY DEF ResolverOf
  <2> HIDE DEF w
  <2>6. w = q
    BY <1>1, <2>1, <2>3, <2>4
  <2> QED
    BY <1>1, <2>1, <2>2, <2>5, <2>6
<1>3. \A p : p \in ResolveTargets(e) <=> \E q \in ResolvedAt(e) : e.attachments[q].resolve = p
  BY DEF ResolveTargets
<1> QED
  BY <1>2, <1>3

LEMMA DrawnIs ==
  ASSUME NEW c, NEW e, NEW p
  PROVE  /\ p \notin DOMAIN e.attachments => DrawnAt(c, e, p) = c[p]
         /\ p \in DOMAIN e.attachments =>
              DrawnAt(c, e, p) = IF e.attachments[p].readonly THEN LoadedAt(c, e, p)
                                 ELSE LoadedAt(c, e, p) \o e.cmds
  BY DEF DrawnAt

LEMMA DrawnTyped ==
  ASSUME NEW e, IsWhole(e), e.type = "render", NEW c \in AreContents, NEW p \in Planes
  PROVE  DrawnAt(c, e, p) \in Seq(Nat)
<1>1. c[p] \in Seq(Nat) /\ e.cmds \in Seq(Nat)
  BY DEF AreContents, IsWhole
<1>2. \A x, z \in Seq(Nat) : x \o z \in Seq(Nat)
  OBVIOUS
<1>3. CASE p \notin DOMAIN e.attachments
  BY <1>1, <1>3, DrawnIs
<1>4. CASE p \in DOMAIN e.attachments
  <2>1. e.attachments[p].load = "clear" => e.attachments[p].clear \in Nat
    BY <1>4 DEF IsWhole, IsAttachment
  <2>2. \A x \in Nat : << x >> \in Seq(Nat)
    OBVIOUS
  <2>3. LoadedAt(c, e, p) \in Seq(Nat)
    BY <1>1, <2>1, <2>2 DEF LoadedAt
  <2>4. LoadedAt(c, e, p) \o e.cmds \in Seq(Nat)
    BY <1>1, <1>2, <2>3
  <2> QED
    BY <1>4, <2>3, <2>4, DrawnIs
<1> QED
  BY <1>3, <1>4

LEMMA ContentsTyped ==
  ASSUME NEW e, IsDone(e), NEW c \in AreContents
  PROVE  ContentsAfter(c, e) \in AreContents
<1>1. \A p \in Planes : c[p] \in Seq(Nat)
  BY DEF AreContents
<1>2. \A x \in Nat : << x >> \in Seq(Nat)
  OBVIOUS
<1>3. \A s \in Seq(Nat), x \in Nat : Append(s, x) \in Seq(Nat)
  OBVIOUS
<1>4. ASSUME NEW p \in Planes
      PROVE  ContentsAfter(c, e)[p] \in Seq(Nat)
  <2>1. CASE e.type = "null"
    BY <1>1, <2>1, ContentsAt
  <2>2. CASE e.type = "clear"
    <3>1. e.id \in Nat
      BY <2>2 DEF IsDone, IsWhole
    <3> QED
      BY <1>1, <1>2, <2>2, <3>1, ContentsAt
  <2>3. CASE e.type = "resolve"
    <3>1. e.id \in Nat
      BY <2>3 DEF IsDone, IsWhole
    <3> QED
      BY <1>1, <1>2, <2>3, <3>1, ContentsAt
  <2>4. CASE e.type = "render"
    <3>1. IsWhole(e)
      BY <2>4 DEF IsDone
    <3>2. p \in ResolveTargets(e) => ResolverOf(e, p) \in Nat
      BY <2>4, <3>1, ResolverIs
    <3>3. DrawnAt(c, e, p) \in Seq(Nat)
      BY <2>4, <3>1, DrawnTyped
    <3>4. CASE p \in ResolveTargets(e)
      <4>1. ContentsAfter(c, e)[p] = << ResolverOf(e, p) >>
        BY <2>4, <3>4, ContentsAt
      <4> QED
        BY <1>2, <3>2, <3>4, <4>1
    <3>5. CASE p \notin ResolveTargets(e)
      BY <2>4, <3>3, <3>5, ContentsAt
    <3> QED
      BY <3>4, <3>5
  <2>5. CASE e.type \notin {"null", "clear", "resolve", "render"}
    <3>1. CASE e.type = "event"
      <4>1. PlaneWrites(e, e.uses) = {}
        BY <3>1, WritesAre
      <4> QED
        BY <1>1, <2>5, <4>1, ContentsAt
    <3>2. CASE e.type # "event"
      <4>1. e.id \in Nat
        BY <2>5, <3>2 DEF IsDone, IsWhole
      <4> QED
        BY <1>1, <1>3, <2>5, <4>1, ContentsAt
    <3> QED
      BY <3>1, <3>2
  <2> QED
    BY <2>1, <2>2, <2>3, <2>4, <2>5
<1>5. DOMAIN ContentsAfter(c, e) = Planes
      /\ ContentsAfter(c, e) = [p \in Planes |-> ContentsAfter(c, e)[p]]
  BY DEF ContentsAfter
<1> QED
  BY <1>4, <1>5 DEF AreContents

(* A plane depends on what was in it.                                      *)
LEMMA SamePlane ==
  ASSUME NEW e, NEW c, NEW d, NEW p \in Planes, c[p] = d[p]
  PROVE  ContentsAfter(c, e)[p] = ContentsAfter(d, e)[p]
<1>1. LoadedAt(c, e, p) = LoadedAt(d, e, p)
  BY DEF LoadedAt
<1>2. DrawnAt(c, e, p) = DrawnAt(d, e, p)
  BY <1>1 DEF DrawnAt
<1> QED
  BY <1>2 DEF ContentsAfter

LEMMA Unaltered ==
  ASSUME NEW e, IsDone(e), NEW c, NEW p \in Planes,
         e.type # "null" => ResourceOf(p) \notin Alters(e)
  PROVE  ContentsAfter(c, e)[p] = c[p]
<1>1. CASE e.type = "null"
  BY <1>1, ContentsAt
<1>2. CASE e.type # "null"
  <2>1. IsWhole(e) /\ ResourceOf(p) \notin ResourcesWritten(e) /\ p \notin ClearLoads(e)
    BY <1>2 DEF IsDone, Alters, ResourcesOf
  <2>2. CASE e.type = "clear"
    <3>1. p \notin e.planes
      BY <2>1, <2>2 DEF IsWhole
    <3> QED
      BY <2>2, <3>1, ContentsAt
  <2>3. CASE e.type = "resolve"
    <3>1. p # e.dst
      BY <2>1, <2>3 DEF IsWhole
    <3> QED
      BY <2>3, <3>1, ContentsAt
  <2>4. CASE e.type = "render"
    <3>1. p \notin ResolveTargets(e)
      BY <2>1, <2>4, ResolverIs
    <3>2. DrawnAt(c, e, p) = c[p]
      <4>1. CASE p \in DOMAIN e.attachments
        <5>1. e.attachments[p].load # "clear" /\ e.attachments[p].readonly
          BY <2>1, <2>4, <4>1 DEF IsWhole, IsAttachment, ClearLoads
        <5> QED
          BY <4>1, <5>1, DrawnIs DEF LoadedAt
      <4>2. CASE p \notin DOMAIN e.attachments
        BY <4>2, DrawnIs
      <4> QED
        BY <4>1, <4>2
    <3> QED
      BY <2>4, <3>1, <3>2, ContentsAt
  <2>5. CASE e.type \notin {"null", "clear", "resolve", "render"}
    <3>1. p \notin PlaneWrites(e, e.uses)
      BY <1>2, <2>1, WritesAre
    <3> QED
      BY <2>5, <3>1, ContentsAt
  <2> QED
    BY <1>2, <2>2, <2>3, <2>4, <2>5
<1> QED
  BY <1>1, <1>2

(* What is read of a plane.                                                *)
LEMMA SeenOfIs ==
  ASSUME NEW c, NEW e, NEW d, NEW e2, Readers(e) = Readers(e2),
         DOMAIN e.attachments = DOMAIN e2.attachments,
         \A u \in Readers(e) : \A p \in PlanesRead(e, u) : c[p] = d[p]
  PROVE  SeenOf(c, e) = SeenOf(d, e2)
<1>1. \A u : PlanesRead(e, u) = PlanesRead(e2, u)
  BY DEF PlanesRead
<1>2. \A u \in Readers(e) :
        { <<u.id, p, c[p]>> : p \in PlanesRead(e, u) } = { <<u.id, p, d[p]>> : p \in PlanesRead(e2, u) }
  <2> SUFFICES ASSUME NEW u \in Readers(e)
               PROVE  { <<u.id, p, c[p]>> : p \in PlanesRead(e, u) }
                      = { <<u.id, p, d[p]>> : p \in PlanesRead(e2, u) }
    OBVIOUS
  <2>1. \A p \in PlanesRead(e, u) : <<u.id, p, c[p]>> = <<u.id, p, d[p]>>
    OBVIOUS
  <2> QED
    BY <1>1, <2>1
<1> QED
  BY <1>2 DEF SeenOf

LEMMA ReadPlanes ==
  ASSUME NEW e, IsWhole(e), NEW u \in e.uses, NEW p \in PlanesRead(e, u)
  PROVE  /\ p \in Planes /\ ResourceOf(p) = u.res /\ u.res \in ResourcesUsed(e)
         /\ p \notin DOMAIN e.attachments
<1>1. u.res \in Resources /\ p \in PlanesOf[u.res] /\ p \notin DOMAIN e.attachments
  BY DEF IsWhole, PlanesRead
<1> QED
  BY <1>1, PlaneOwner DEF ResourcesUsed

LEMMA SeenSame ==
  ASSUME NEW e, IsDone(e), NEW c, NEW d,
         e.type # "null" => \A p \in Planes : ResourceOf(p) \in ResourcesUsed(e) => c[p] = d[p]
  PROVE  SeenBy(c, e) = SeenBy(d, e)
<1>1. CASE e.type \in {"null", "clear"}
  BY <1>1 DEF SeenBy
<1>2. CASE e.type \notin {"null", "clear"}
  <2>1. IsWhole(e) /\ \A p \in Planes : ResourceOf(p) \in ResourcesUsed(e) => c[p] = d[p]
    BY <1>2 DEF IsDone
  <2>2. SeenOf(c, e) = SeenOf(d, e)
    <3>1. \A u \in Readers(e) : \A p \in PlanesRead(e, u) : c[p] = d[p]
      BY <2>1, ReadPlanes DEF Readers
    <3> QED
      BY <3>1, SeenOfIs
  <2>3. CASE e.type = "resolve"
    <3>1. e.src \in Planes /\ ResourceOf(e.src) \in ResourcesUsed(e)
      BY <2>1, <2>3 DEF IsWhole
    <3> QED
      BY <2>1, <2>3, <3>1 DEF SeenBy
  <2>4. CASE e.type = "render"
    <3>1. ASSUME NEW q \in ResolvedAt(e)
          PROVE  DrawnAt(c, e, q) = DrawnAt(d, e, q)
      <4>1. q \in DOMAIN e.attachments /\ q \in Planes /\ ResourceOf(q) \in ResourcesUsed(e)
        BY <2>1, <2>4 DEF ResolvedAt, IsWhole, IsAttachment
      <4>2. c[q] = d[q]
        BY <2>1, <4>1
      <4> QED
        BY <4>2 DEF DrawnAt, LoadedAt
    <3>2. { << e.attachments[q].resolver, q, DrawnAt(c, e, q) >> : q \in ResolvedAt(e) }
          = { << e.attachments[q].resolver, q, DrawnAt(d, e, q) >> : q \in ResolvedAt(e) }
      BY <3>1
    <3> QED
      BY <2>2, <2>4, <3>2 DEF SeenBy
  <2>5. CASE e.type \notin {"null", "clear", "resolve", "render"}
    BY <2>2, <2>5 DEF SeenBy
  <2> QED
    BY <1>2, <2>3, <2>4, <2>5
<1> QED
  BY <1>1, <1>2

-----------------------------------------------------------------------------
(* What a list does.                                                       *)
LEMMA ContentsIs ==
  ASSUME NEW list, Len(list) \in Nat
  PROVE  /\ Contents(list)[0] = InitialContents
         /\ \A k \in 1 .. Len(list) :
              Contents(list)[k] = ContentsAfter(Contents(list)[k - 1], list[k])
<1> DEFINE n == Len(list)
           Is(f) == f = [k \in 0 .. n |-> IF k = 0 THEN InitialContents
                                          ELSE ContentsAfter(f[k - 1], list[k])]
           f == CHOOSE f : Is(f)
<1>1. \E g : Is(g)
  <2>1. n \in Nat
    OBVIOUS
  <2>2. PICK g : Iterates(g, "contents", list, n, InitialContents, n)
    BY <2>1, IteratesExists
  <2>3. \A k, t : Step("contents", list, n, k, t) = ContentsAfter(t, list[k])
    BY StepIs
  <2> HIDE DEF n
  <2>4. g = [k \in 0 .. n |-> IF k = 0 THEN InitialContents
                              ELSE ContentsAfter(g[k - 1], list[k])]
    BY <2>2, <2>3 DEF Iterates
  <2> QED
    BY <2>4
<1>2. Is(f)
  BY <1>1
<1>3. Contents(list) = f
  BY DEF Contents
<1> HIDE DEF f
<1>4. \A k \in 0 .. n : f[k] = IF k = 0 THEN InitialContents ELSE ContentsAfter(f[k - 1], list[k])
  BY <1>2
<1>5. 0 \in 0 .. n /\ \A k \in 1 .. n : k \in 0 .. n /\ k # 0
  OBVIOUS
<1> HIDE DEF n
<1> QED
  BY <1>3, <1>4, <1>5 DEF n

AreDone(list) ==
  Len(list) \in Nat /\ DOMAIN list = 1 .. Len(list) /\ \A i \in DOMAIN list : IsDone(list[i])

LEMMA ContentsAreTyped ==
  ASSUME NEW list, AreDone(list)
  PROVE  \A k \in 0 .. Len(list) : Contents(list)[k] \in AreContents
<1> DEFINE n == Len(list)
           f == Contents(list)
           T == { k \in 0 .. n : f[k] \in AreContents }
<1>1. /\ n \in Nat /\ \A i \in 1 .. n : IsDone(list[i])
      /\ f[0] = InitialContents
      /\ \A k \in 1 .. n : f[k] = ContentsAfter(f[k - 1], list[k])
  BY ContentsIs DEF AreDone
<1> HIDE DEF n, f
<1>2. 0 \in T
  <2>1. << 0 >> \in Seq(Nat)
    OBVIOUS
  <2>2. InitialContents \in AreContents
    BY <2>1 DEF InitialContents, AreContents
  <2> QED
    BY <1>1, <2>2
<1>3. ASSUME NEW k \in 0 .. n - 1, k \in T
      PROVE  k + 1 \in T
  <2>1. k + 1 \in 1 .. n /\ k + 1 \in 0 .. n /\ (k + 1) - 1 = k
    BY <1>1
  <2>2. f[k + 1] = ContentsAfter(f[k], list[k + 1]) /\ IsDone(list[k + 1]) /\ f[k] \in AreContents
    BY <1>1, <1>3, <2>1
  <2>3. ContentsAfter(f[k], list[k + 1]) \in AreContents
    BY <2>2, ContentsTyped
  <2> QED
    BY <2>1, <2>2, <2>3
<1> HIDE DEF T
<1>4. 0 .. n \subseteq T
  BY ONLY <1>1, <1>2, <1>3, Induction
<1> QED
  BY <1>4 DEF T, n, f

IsRunOf(f, list, n) == \A k \in 1 .. n : f[k] = ContentsAfter(f[k - 1], list[k])

(* From the same contents, the same passes make the same.                  *)
LEMMA SameFrom ==
  ASSUME NEW f, NEW g, NEW list, NEW after, NEW n \in Nat, NEW m \in 0 .. n,
         IsRunOf(f, list, n), IsRunOf(g, after, n), NEW i \in 0 .. m, f[i] = g[i],
         \A k \in 1 .. n : i < k /\ k <= m => after[k] = list[k]
  PROVE  \A k \in i .. m : f[k] = g[k]
<1> DEFINE T == { k \in 0 .. m - i : f[i + k] = g[i + k] }
<1>1. 0 \in T
  <2>1. i + 0 = i /\ 0 \in 0 .. m - i
    OBVIOUS
  <2> QED
    BY <2>1
<1>2. ASSUME NEW k \in 0 .. (m - i) - 1, k \in T
      PROVE  k + 1 \in T
  <2> DEFINE x == i + (k + 1)
  <2>1. /\ x \in 1 .. n /\ x - 1 = i + k /\ k + 1 \in 0 .. m - i /\ x \in i + 1 .. m
    OBVIOUS
  <2> HIDE DEF x
  <2>2. f[x] = ContentsAfter(f[i + k], list[x]) /\ g[x] = ContentsAfter(g[i + k], after[x])
        /\ after[x] = list[x] /\ f[i + k] = g[i + k]
    BY <1>2, <2>1 DEF IsRunOf
  <2>3. f[x] = g[x]
    BY <2>2
  <2> QED
    BY <2>1, <2>3 DEF x
<1> HIDE DEF T
<1>3. m - i \in Nat
  OBVIOUS
<1>4. 0 .. m - i \subseteq T
  BY ONLY <1>1, <1>2, <1>3, Induction
<1> SUFFICES ASSUME NEW k \in i .. m PROVE f[k] = g[k]
  OBVIOUS
<1>5. k - i \in 0 .. m - i /\ i + (k - i) = k
  OBVIOUS
<1>6. k - i \in T
  BY <1>4, <1>5
<1> QED
  BY <1>5, <1>6 DEF T

AreKept(list, after, n, j, t, kept) ==
  \A k \in 1 .. n : j < k /\ k < t =>
    /\ after[k] = list[k] /\ IsDone(list[k])
    /\ list[k].type # "null" =>
         \A p \in Planes : p \in kept => ResourceOf(p) \notin Alters(list[k])

AgreeOutside(c, d, moved) == \A p \in Planes \ moved : d[p] = c[p]
AgreeIn(c, d, kept) == \A p \in Planes : p \in kept => c[p] = d[p]

(* Between the two places the planes that differ stay.                     *)
LEMMA BetweenStays ==
  ASSUME NEW f, NEW g, NEW list, NEW after, NEW n \in Nat,
         IsRunOf(f, list, n), IsRunOf(g, after, n),
         NEW j \in 1 .. n, NEW t \in 1 .. n, j < t, NEW moved, NEW kept,
         AgreeOutside(f[j], g[j], moved), AreKept(list, after, n, j, t, kept)
  PROVE  \A k \in j .. t - 1 :
           /\ AgreeOutside(f[k], g[k], moved)
           /\ AgreeIn(f[k], f[j], kept) /\ AgreeIn(g[k], g[j], kept)
<1> USE DEF AgreeOutside, AgreeIn
<1> DEFINE P(k) == /\ \A p \in Planes \ moved : g[k][p] = f[k][p]
                   /\ \A p \in Planes : p \in kept => f[k][p] = f[j][p] /\ g[k][p] = g[j][p]
           m == t - 1 - j
           T == { k \in 0 .. m : P(j + k) }
<1>1. m \in Nat /\ j \in Nat /\ t \in Nat
  OBVIOUS
<1>2. 0 \in T
  <2>1. j + 0 = j /\ 0 \in 0 .. m
    BY <1>1
  <2>2. P(j)
    OBVIOUS
  <2> HIDE DEF P
  <2> QED
    BY <2>1, <2>2
<1>3. ASSUME NEW k \in 0 .. m - 1, k \in T
      PROVE  k + 1 \in T
  <2> DEFINE x == j + (k + 1)
             y == j + k
  <2>1. /\ x \in 1 .. n /\ x - 1 = y /\ k + 1 \in 0 .. m /\ j < x /\ x < t
    BY <1>1
  <2>2. P(y)
    BY <1>3
  <2> HIDE DEF x, y
  <2>3. /\ f[x] = ContentsAfter(f[y], list[x]) /\ g[x] = ContentsAfter(g[y], list[x])
        /\ IsDone(list[x])
        /\ list[x].type # "null" =>
             \A p \in Planes : p \in kept => ResourceOf(p) \notin Alters(list[x])
    BY <2>1 DEF IsRunOf, AreKept
  <2>4. ASSUME NEW p \in Planes \ moved
        PROVE  g[x][p] = f[x][p]
    <3>1. g[y][p] = f[y][p]
      BY <2>2
    <3>2. ContentsAfter(g[y], list[x])[p] = ContentsAfter(f[y], list[x])[p]
      BY <3>1, SamePlane
    <3> QED
      BY <2>3, <3>2
  <2>5. ASSUME NEW p \in Planes, p \in kept
        PROVE  f[x][p] = f[j][p] /\ g[x][p] = g[j][p]
    <3>1. list[x].type # "null" => ResourceOf(p) \notin Alters(list[x])
      BY <2>3, <2>5
    <3>2. ContentsAfter(f[y], list[x])[p] = f[y][p] /\ ContentsAfter(g[y], list[x])[p] = g[y][p]
      BY <2>3, <3>1, Unaltered
    <3> QED
      BY <2>2, <2>3, <2>5, <3>2
  <2>6. P(x)
    BY <2>4, <2>5
  <2> HIDE DEF P
  <2> QED
    BY <2>1, <2>6 DEF x
<1> HIDE DEF T, m, P
<1>4. 0 .. m \subseteq T
  BY ONLY <1>1, <1>2, <1>3, Induction
<1> SUFFICES ASSUME NEW k \in j .. t - 1 PROVE P(k)
  BY DEF P
<1>5. k - j \in 0 .. m /\ j + (k - j) = k
  BY <1>1 DEF m
<1>6. k - j \in T
  BY <1>4, <1>5
<1> QED
  BY <1>5, <1>6 DEF T

(* Two passes change places with others, or become one.                    *)
LEMMA ExchangeEffect ==
  ASSUME NEW list, AreDone(list), NEW after, AreDone(after), Len(after) = Len(list),
         NEW j \in DOMAIN list, NEW t \in DOMAIN list, j < t, NEW moved,
         \A i \in DOMAIN list \ {j, t} : after[i] = list[i],
         Exchange(list[j], list[t], after[j], after[t], moved),
         \A k \in Live(list) : j < k /\ k < t =>
           \A p \in Planes :
             /\ p \in moved => ResourceOf(p) \notin ResourcesUsed(list[k])
             /\ p \in moved \/ ResourceOf(p) \in ResourcesUsed(list[j]) =>
                  ResourceOf(p) \notin Alters(list[k])
  PROVE  SameEffect(list, after)
<1> DEFINE n == Len(list)
           f == Contents(list)
           g == Contents(after)
           a == list[j]
           b == list[t]
           x == after[j]
           y == after[t]
           kept == { p \in Planes : p \in moved \/ ResourceOf(p) \in ResourcesUsed(a) }
<1>1. /\ n \in Nat /\ DOMAIN list = 1 .. n /\ j \in 1 .. n /\ t \in 1 .. n /\ DOMAIN after = 1 .. n
      /\ \A i \in 1 .. n : IsDone(list[i]) /\ IsDone(after[i])
      /\ f[0] = InitialContents /\ g[0] = InitialContents
      /\ IsRunOf(f, list, n) /\ IsRunOf(g, after, n)
      /\ j \in Nat /\ t \in Nat
  <2>1. /\ n \in Nat /\ DOMAIN list = 1 .. n /\ DOMAIN after = 1 .. n /\ Len(after) = n
        /\ \A i \in 1 .. n : IsDone(list[i]) /\ IsDone(after[i])
    BY DEF AreDone
  <2>2. f[0] = InitialContents /\ IsRunOf(f, list, n)
    BY <2>1, ContentsIs DEF IsRunOf
  <2>3. g[0] = InitialContents /\ IsRunOf(g, after, n)
    BY <2>1, ContentsIs DEF IsRunOf
  <2> QED
    BY <2>1, <2>2, <2>3
<1>2. \A k \in 0 .. n : f[k] \in AreContents /\ g[k] \in AreContents
  BY ContentsAreTyped
<1> HIDE DEF n, f, g
<1>3. \A k \in 0 .. j - 1 : f[k] = g[k]
  <2> DEFINE m == j - 1
  <2>1. /\ m \in 0 .. n /\ 0 \in 0 .. m
        /\ \A k \in 1 .. n : 0 < k /\ k <= m => k # j /\ k # t
    BY <1>1
  <2>2. \A k \in 1 .. n : 0 < k /\ k <= m => after[k] = list[k]
    BY <1>1, <2>1
  <2> HIDE DEF m
  <2>3. /\ n \in Nat /\ IsRunOf(f, list, n) /\ IsRunOf(g, after, n) /\ f[0] = g[0]
    BY <1>1
  <2>4. \A k \in 0 .. m : f[k] = g[k]
    BY ONLY <2>1, <2>2, <2>3, SameFrom
  <2> QED
    BY <2>4 DEF m
<1> DEFINE c == f[j - 1]
<1>4. c \in AreContents /\ g[j - 1] = c /\ f[j] = ContentsAfter(c, a) /\ g[j] = ContentsAfter(c, x)
  <2>1. j - 1 \in 0 .. j - 1 /\ j - 1 \in 0 .. n
    BY <1>1
  <2> QED
    BY <1>1, <1>2, <1>3, <2>1 DEF IsRunOf
<1>5. AgreeOutside(f[j], g[j], moved)
  BY <1>4 DEF Exchange, AgreeOutside
<1>6. AreKept(list, after, n, j, t, kept)
  <2> SUFFICES ASSUME NEW k \in 1 .. n, j < k, k < t
               PROVE  /\ after[k] = list[k] /\ IsDone(list[k])
                      /\ list[k].type # "null" =>
                           \A p \in Planes : p \in kept => ResourceOf(p) \notin Alters(list[k])
    BY DEF AreKept
  <2>1. k # j /\ k # t
    BY <1>1
  <2> QED
    BY <1>1, <2>1 DEF Live
<1> HIDE DEF c, kept, a, b, x, y
<1>7a. \A k \in j .. t - 1 :
        /\ AgreeOutside(f[k], g[k], moved)
        /\ AgreeIn(f[k], f[j], kept) /\ AgreeIn(g[k], g[j], kept)
  <2>1. /\ n \in Nat /\ IsRunOf(f, list, n) /\ IsRunOf(g, after, n)
        /\ j \in 1 .. n /\ t \in 1 .. n /\ j < t
    BY <1>1
  <2> QED
    BY ONLY <2>1, <1>5, <1>6, BetweenStays
<1>7. \A k \in j .. t - 1 :
        /\ \A p \in Planes \ moved : g[k][p] = f[k][p]
        /\ \A p \in Planes : p \in kept => f[k][p] = f[j][p] /\ g[k][p] = g[j][p]
  BY <1>7a DEF AgreeOutside, AgreeIn
<1> DEFINE c2 == f[t - 1]
           d2 == g[t - 1]
<1>8. /\ c2 \in AreContents /\ d2 \in AreContents
      /\ f[t] = ContentsAfter(c2, b) /\ g[t] = ContentsAfter(d2, y)
      /\ \A p \in Planes \ moved : d2[p] = c2[p]
      /\ \A p \in Planes : p \in kept => c2[p] = f[j][p] /\ d2[p] = g[j][p]
  <2>1. t - 1 \in 0 .. n /\ t - 1 \in j .. t - 1
    BY <1>1
  <2> QED
    BY <1>1, <1>2, <1>7, <2>1 DEF b, y, IsRunOf
<1> HIDE DEF c2, d2
<1>9. /\ ContentsAfter(d2, y) = ContentsAfter(c2, b)
      /\ SeenBy(c, x) \union SeenBy(d2, y) = SeenBy(c, a) \union SeenBy(c2, b)
  <2>1. \A p \in Planes : p \in moved \/ ResourceOf(p) \in ResourcesUsed(a) =>
          c2[p] = ContentsAfter(c, a)[p] /\ d2[p] = ContentsAfter(c, x)[p]
    BY <1>4, <1>8 DEF kept
  <2> QED
    BY <1>4, <1>8, <2>1 DEF Exchange, a, b, x, y
<1>10. \A k \in t .. n : f[k] = g[k]
  <2>1. /\ n \in 0 .. n /\ t \in 0 .. n
        /\ \A k \in 1 .. n : t < k /\ k <= n => k # j /\ k # t
    BY <1>1
  <2>2. \A k \in 1 .. n : t < k /\ k <= n => after[k] = list[k]
    BY <1>1, <2>1
  <2>3. /\ n \in Nat /\ IsRunOf(f, list, n) /\ IsRunOf(g, after, n) /\ f[t] = g[t]
    BY <1>1, <1>8, <1>9
  <2> QED
    BY ONLY <2>1, <2>2, <2>3, SameFrom
<1>11. f[n] = g[n]
  BY <1>1, <1>10
<1>12. ASSUME NEW k \in 1 .. n, k # j, k # t
       PROVE  after[k] = list[k] /\ SeenBy(g[k - 1], after[k]) = SeenBy(f[k - 1], list[k])
  <2>1. after[k] = list[k] /\ k - 1 \in 0 .. n
    BY <1>1, <1>12
  <2>2. CASE k < j
    <3>1. k - 1 \in 0 .. j - 1
      BY <1>1, <2>2
    <3> QED
      BY <1>3, <2>1, <3>1
  <2>3. CASE t < k
    <3>1. k - 1 \in t .. n
      BY <1>1, <2>3
    <3> QED
      BY <1>10, <2>1, <3>1
  <2>4. CASE j < k /\ k < t
    <3>1. k - 1 \in j .. t - 1
      BY <1>1, <2>4
    <3>2. ASSUME NEW p \in Planes, list[k].type # "null", ResourceOf(p) \in ResourcesUsed(list[k])
          PROVE  g[k - 1][p] = f[k - 1][p]
      <4>1. k \in Live(list)
        BY <1>1, <3>2 DEF Live
      <4>2. p \notin moved
        BY <2>4, <3>2, <4>1
      <4> QED
        BY <1>7, <3>1, <4>2
    <3>3. IsDone(list[k])
      BY <1>1
    <3>4. SeenBy(g[k - 1], list[k]) = SeenBy(f[k - 1], list[k])
      BY <3>2, <3>3, SeenSame
    <3> QED
      BY <2>1, <3>4
  <2> QED
    BY <1>1, <1>12, <2>2, <2>3, <2>4
<1>13. SeenIn(after) = SeenIn(list)
  <2>1. \A s : s \in SeenIn(list) <=> \E k \in 1 .. n : s \in SeenBy(f[k - 1], list[k])
    BY <1>1 DEF SeenIn, f
  <2>2. \A s : s \in SeenIn(after) <=> \E k \in 1 .. n : s \in SeenBy(g[k - 1], after[k])
    BY <1>1 DEF SeenIn, g
  <2>3. /\ SeenBy(g[j - 1], after[j]) = SeenBy(c, x) /\ SeenBy(f[j - 1], list[j]) = SeenBy(c, a)
        /\ SeenBy(g[t - 1], after[t]) = SeenBy(d2, y) /\ SeenBy(f[t - 1], list[t]) = SeenBy(c2, b)
    BY <1>4 DEF a, b, x, y, c, c2, d2
  <2>4. ASSUME NEW s, s \in SeenIn(list)
        PROVE  s \in SeenIn(after)
    <3>1. PICK k \in 1 .. n : s \in SeenBy(f[k - 1], list[k])
      BY <2>1, <2>4
    <3>2. CASE k # j /\ k # t
      BY <1>12, <2>2, <3>1, <3>2
    <3>3. CASE k = j \/ k = t
      <4>1. s \in SeenBy(c, a) \union SeenBy(c2, b)
        BY <2>3, <3>1, <3>3
      <4>2. s \in SeenBy(g[j - 1], after[j]) \/ s \in SeenBy(g[t - 1], after[t])
        BY <1>9, <2>3, <4>1
      <4> QED
        BY <1>1, <2>2, <4>2
    <3> QED
      BY <3>2, <3>3
  <2>5. ASSUME NEW s, s \in SeenIn(after)
        PROVE  s \in SeenIn(list)
    <3>1. PICK k \in 1 .. n : s \in SeenBy(g[k - 1], after[k])
      BY <2>2, <2>5
    <3>2. CASE k # j /\ k # t
      BY <1>12, <2>1, <3>1, <3>2
    <3>3. CASE k = j \/ k = t
      <4>1. s \in SeenBy(c, x) \union SeenBy(d2, y)
        BY <2>3, <3>1, <3>3
      <4>2. s \in SeenBy(f[j - 1], list[j]) \/ s \in SeenBy(f[t - 1], list[t])
        BY <1>9, <2>3, <4>1
      <4> QED
        BY <1>1, <2>1, <4>2
    <3> QED
      BY <3>2, <3>3
  <2> QED
    BY <2>4, <2>5
<1> QED
  BY <1>11, <1>13 DEF SameEffect, n, f, g

(* Each pass makes and sees the same.                                      *)
LEMMA SameEach ==
  ASSUME NEW list, AreDone(list), NEW after, AreDone(after), Len(after) = Len(list),
         \A i \in DOMAIN list : \A c \in AreContents :
           ContentsAfter(c, after[i]) = ContentsAfter(c, list[i])
           /\ SeenBy(c, after[i]) = SeenBy(c, list[i])
  PROVE  SameEffect(list, after)
<1> DEFINE n == Len(list)
           f == Contents(list)
           g == Contents(after)
           T == { k \in 0 .. n : f[k] = g[k] }
<1>1. /\ n \in Nat /\ DOMAIN list = 1 .. n /\ DOMAIN after = 1 .. n
      /\ f[0] = InitialContents /\ g[0] = InitialContents
      /\ \A k \in 1 .. n : f[k] = ContentsAfter(f[k - 1], list[k])
      /\ \A k \in 1 .. n : g[k] = ContentsAfter(g[k - 1], after[k])
  BY ContentsIs DEF AreDone
<1>2. \A k \in 0 .. n : f[k] \in AreContents
  BY ContentsAreTyped
<1> HIDE DEF n, f, g
<1>3. 0 \in T
  BY <1>1
<1>4. ASSUME NEW k \in 0 .. n - 1, k \in T
      PROVE  k + 1 \in T
  <2>1. k + 1 \in 1 .. n /\ k + 1 \in 0 .. n /\ (k + 1) - 1 = k /\ k \in 0 .. n
    BY <1>1
  <2>2. /\ f[k + 1] = ContentsAfter(f[k], list[k + 1])
        /\ g[k + 1] = ContentsAfter(g[k], after[k + 1])
    BY <1>1, <2>1
  <2>3. ContentsAfter(f[k], after[k + 1]) = ContentsAfter(f[k], list[k + 1])
    BY <1>1, <1>2, <2>1
  <2> QED
    BY <1>4, <2>1, <2>2, <2>3
<1> HIDE DEF T
<1>5. 0 .. n \subseteq T
  BY ONLY <1>1, <1>3, <1>4, Induction
<1>6. \A k \in 0 .. n : f[k] = g[k]
  BY <1>5 DEF T
<1>7. \A k \in 1 .. n : SeenBy(g[k - 1], after[k]) = SeenBy(f[k - 1], list[k])
  <2> SUFFICES ASSUME NEW k \in 1 .. n
               PROVE  SeenBy(g[k - 1], after[k]) = SeenBy(f[k - 1], list[k])
    OBVIOUS
  <2>1. k - 1 \in 0 .. n
    BY <1>1
  <2> QED
    BY <1>1, <1>2, <1>6, <2>1
<1>8. SeenIn(after) = SeenIn(list)
  BY <1>1, <1>7 DEF SeenIn, f, g
<1> QED
  BY <1>1, <1>6, <1>8 DEF SameEffect, n, f, g

LEMMA EffectThen ==
  ASSUME NEW a, NEW b, NEW c, SameEffect(a, b), SameEffect(b, c)
  PROVE  SameEffect(a, c)
  BY DEF SameEffect

(* What a render sees of what it resolves.                                 *)
SeenResolved(c, e) ==
  { << e.attachments[q].resolver, q, DrawnAt(c, e, q) >> : q \in ResolvedAt(e) }

LEMMA RenderSees ==
  ASSUME NEW c, NEW e, e.type = "render"
  PROVE  SeenBy(c, e) = SeenOf(c, e) \union SeenResolved(c, e)
BY DEF SeenBy, SeenResolved

(* The same resolves.                                                      *)
ResolvesAlike(e, a) ==
  /\ DOMAIN e.attachments = DOMAIN a.attachments
  /\ \A p \in DOMAIN a.attachments :
       /\ e.attachments[p].resolve = a.attachments[p].resolve
       /\ e.attachments[p].resolver = a.attachments[p].resolver

LEMMA ResolvesAre ==
  ASSUME NEW e, NEW a, IsWhole(e), IsWhole(a), e.type = "render", a.type = "render",
         ResolvesAlike(e, a)
  PROVE  /\ ResolvedAt(e) = ResolvedAt(a) /\ ResolveTargets(e) = ResolveTargets(a)
         /\ Resolvers(e) = Resolvers(a)
         /\ \A p \in ResolveTargets(a) : ResolverOf(e, p) = ResolverOf(a, p)
<1>1. ResolvedAt(e) = ResolvedAt(a)
  BY DEF ResolvesAlike, ResolvedAt
<1>2. \A q \in ResolvedAt(a) : /\ e.attachments[q].resolve = a.attachments[q].resolve
                               /\ e.attachments[q].resolver = a.attachments[q].resolver
  BY DEF ResolvesAlike, ResolvedAt
<1>3. ResolveTargets(e) = ResolveTargets(a)
  BY <1>1, <1>2 DEF ResolveTargets
<1>4. Resolvers(e) = Resolvers(a)
  BY <1>1, <1>2 DEF Resolvers
<1>5. ASSUME NEW p \in ResolveTargets(a)
      PROVE  ResolverOf(e, p) = ResolverOf(a, p)
  <2>1. PICK q \in ResolvedAt(a) : a.attachments[q].resolve = p
    BY <1>5 DEF ResolveTargets
  <2>2. ResolverOf(a, p) = a.attachments[q].resolver
    BY <2>1, ResolverIs
  <2>3. q \in ResolvedAt(e) /\ e.attachments[q].resolve = p
    BY <1>1, <1>2, <2>1
  <2>4. ResolverOf(e, p) = e.attachments[q].resolver
    BY <2>3, ResolverIs
  <2> QED
    BY <1>2, <2>1, <2>2, <2>4
<1> QED
  BY <1>1, <1>3, <1>4, <1>5

(* What a plane is drawn to.                                               *)
LEMMA DrawnFrom ==
  ASSUME NEW e, NEW a, NEW c, NEW d, NEW p, p \in DOMAIN e.attachments,
         p \in DOMAIN a.attachments, e.cmds = a.cmds,
         e.attachments[p].readonly = a.attachments[p].readonly,
         LoadedAt(d, e, p) = LoadedAt(c, a, p)
  PROVE  DrawnAt(d, e, p) = DrawnAt(c, a, p)
<1>1. DrawnAt(d, e, p) = IF e.attachments[p].readonly THEN LoadedAt(d, e, p)
                         ELSE LoadedAt(d, e, p) \o e.cmds
  BY ONLY p \in DOMAIN e.attachments, DrawnIs
<1>2. DrawnAt(c, a, p) = IF a.attachments[p].readonly THEN LoadedAt(c, a, p)
                         ELSE LoadedAt(c, a, p) \o a.cmds
  BY ONLY p \in DOMAIN a.attachments, DrawnIs
<1> QED
  BY ONLY <1>1, <1>2, e.cmds = a.cmds, e.attachments[p].readonly = a.attachments[p].readonly,
          LoadedAt(d, e, p) = LoadedAt(c, a, p)

LEMMA RenderSame ==
  ASSUME NEW e, NEW a, IsWhole(e), IsWhole(a), e.type = "render", a.type = "render",
         ResolvesAlike(e, a), NEW c, NEW d,
         \A p \in Planes : DrawnAt(d, e, p) = DrawnAt(c, a, p)
  PROVE  /\ ContentsAfter(d, e) = ContentsAfter(c, a)
         /\ SeenResolved(d, e) = SeenResolved(c, a)
<1>1. /\ ResolvedAt(e) = ResolvedAt(a) /\ ResolveTargets(e) = ResolveTargets(a)
      /\ \A p \in ResolveTargets(a) : ResolverOf(e, p) = ResolverOf(a, p)
  BY ResolvesAre
<1>2. \A p \in Planes : ContentsAfter(d, e)[p] = ContentsAfter(c, a)[p]
  <2> SUFFICES ASSUME NEW p \in Planes
               PROVE  ContentsAfter(d, e)[p] = ContentsAfter(c, a)[p]
    OBVIOUS
  <2>1. CASE p \in ResolveTargets(a)
    <3>1. ContentsAfter(d, e)[p] = << ResolverOf(e, p) >>
      BY <1>1, <2>1, ContentsAt
    <3>2. ContentsAfter(c, a)[p] = << ResolverOf(a, p) >>
      BY <1>1, <2>1, ContentsAt
    <3> QED
      BY <1>1, <2>1, <3>1, <3>2
  <2>2. CASE p \notin ResolveTargets(a)
    <3>1. ContentsAfter(d, e)[p] = DrawnAt(d, e, p)
      BY <1>1, <2>2, ContentsAt
    <3>2. ContentsAfter(c, a)[p] = DrawnAt(c, a, p)
      BY <1>1, <2>2, ContentsAt
    <3> QED
      BY <3>1, <3>2
  <2> QED
    BY <2>1, <2>2
<1>3. \A q \in ResolvedAt(a) :
        << e.attachments[q].resolver, q, DrawnAt(d, e, q) >>
        = << a.attachments[q].resolver, q, DrawnAt(c, a, q) >>
  <2> SUFFICES ASSUME NEW q \in ResolvedAt(a)
               PROVE  /\ e.attachments[q].resolver = a.attachments[q].resolver
                      /\ DrawnAt(d, e, q) = DrawnAt(c, a, q)
    OBVIOUS
  <2>1. q \in DOMAIN a.attachments /\ q \in Planes
    BY DEF ResolvedAt, IsWhole, IsAttachment
  <2> QED
    BY <2>1 DEF ResolvesAlike
<1>4. SeenResolved(d, e) = SeenResolved(c, a)
  BY <1>1, <1>3 DEF SeenResolved
<1> QED
  BY <1>2, <1>4, ContentsDomain

(* Nothing of a render changes but what it stores.                         *)
LEMMA DroppedSame ==
  ASSUME NEW e, NEW a, NEW planes, Drops(e, a, planes), IsWhole(a), IsWhole(e),
         a.type = "render", e.type = "render", e.cmds = a.cmds, e.uses = a.uses, NEW c
  PROVE  ContentsAfter(c, e) = ContentsAfter(c, a) /\ SeenBy(c, e) = SeenBy(c, a)
<1>1. ResolvesAlike(e, a)
  <2>1. DOMAIN e.attachments = DOMAIN a.attachments
    BY DEF Drops
  <2>2. ASSUME NEW p \in DOMAIN a.attachments
        PROVE  /\ e.attachments[p].resolve = a.attachments[p].resolve
               /\ e.attachments[p].resolver = a.attachments[p].resolver
    BY DropsFields
  <2> QED
    BY <2>1, <2>2 DEF ResolvesAlike
<1>2. \A p \in Planes : DrawnAt(c, e, p) = DrawnAt(c, a, p)
  <2> SUFFICES ASSUME NEW p \in Planes PROVE DrawnAt(c, e, p) = DrawnAt(c, a, p)
    OBVIOUS
  <2>1. DOMAIN e.attachments = DOMAIN a.attachments
    BY DEF Drops
  <2>2. CASE p \in DOMAIN a.attachments
    <3>1. /\ e.attachments[p].load = a.attachments[p].load
          /\ e.attachments[p].clear = a.attachments[p].clear
          /\ e.attachments[p].readonly = a.attachments[p].readonly
      BY <2>2, DropsFields
    <3>2. LoadedAt(c, e, p) = LoadedAt(c, a, p)
      BY <3>1 DEF LoadedAt
    <3> QED
      BY <2>1, <2>2, <3>1, <3>2, DrawnFrom
  <2>3. CASE p \notin DOMAIN a.attachments
    BY <2>1, <2>3, DrawnIs
  <2> QED
    BY <2>2, <2>3
<1>3. Readers(e) = Readers(a) /\ DOMAIN e.attachments = DOMAIN a.attachments
  <2>1. Resolvers(e) = Resolvers(a)
    BY <1>1, ResolvesAre
  <2> QED
    BY <2>1 DEF Readers, Drops
<1>4. SeenOf(c, e) = SeenOf(c, a)
  BY <1>3, SeenOfIs
<1>5. ContentsAfter(c, e) = ContentsAfter(c, a) /\ SeenResolved(c, e) = SeenResolved(c, a)
  BY <1>1, <1>2, RenderSame
<1> QED
  BY <1>4, <1>5, RenderSees

-----------------------------------------------------------------------------
(* A clear that a render takes in, and two renders that become one.        *)

(* A clear and the render that loads it.                                   *)
IsLeft(x, a, b) ==
  \/ x.type = "null" /\ a.planes \subseteq DOMAIN b.attachments
  \/ x.type = "clear" /\ x.id = a.id /\ x.planes = a.planes \ DOMAIN b.attachments

LEMMA LoadsAlike ==
  ASSUME NEW a, NEW b, IsWhole(b), b.type = "render", NEW y, Loads(y, b, a)
  PROVE  ResolvesAlike(y, b)
<1>1. DOMAIN y.attachments = DOMAIN b.attachments
  BY DEF Loads
<1>2. ASSUME NEW p \in DOMAIN b.attachments
      PROVE  /\ y.attachments[p].resolve = b.attachments[p].resolve
             /\ y.attachments[p].resolver = b.attachments[p].resolver
  BY LoadsIs
<1> QED
  BY <1>1, <1>2 DEF ResolvesAlike

LEMMA ClearExchange ==
  ASSUME NEW a, NEW b, IsWhole(a), IsWhole(b), a.type = "clear", b.type = "render",
         NEW x, IsLeft(x, a, b), NEW y, IsWhole(y), y.type = "render",
         Loads(y, b, a), y.cmds = b.cmds, Readers(y) = Readers(b)
  PROVE  Exchange(a, b, x, y, a.planes \intersect DOMAIN b.attachments)
<1> DEFINE moved == a.planes \intersect DOMAIN b.attachments
<1>1. ASSUME NEW c, NEW p \in Planes \ moved
      PROVE  ContentsAfter(c, x)[p] = ContentsAfter(c, a)[p]
  <2>1. CASE x.type = "null"
    <3>1. p \notin a.planes
      BY <2>1 DEF IsLeft
    <3> QED
      BY <2>1, <3>1, ContentsAt
  <2>2. CASE x.type # "null"
    <3>1. x.type = "clear" /\ x.id = a.id /\ (p \in x.planes <=> p \in a.planes)
      BY <2>2 DEF IsLeft
    <3> QED
      BY <3>1, ContentsAt
  <2> QED
    BY <2>1, <2>2
<1>2. ASSUME NEW c
      PROVE  SeenBy(c, x) = {} /\ SeenBy(c, a) = {}
  BY DEF SeenBy, IsLeft
<1>3. ResolvesAlike(y, b) /\ DOMAIN y.attachments = DOMAIN b.attachments
  BY LoadsAlike DEF ResolvesAlike
<1>4. ASSUME NEW c, NEW c2, NEW d2,
             \A p \in Planes \ moved : d2[p] = c2[p],
             \A p \in Planes : p \in moved => c2[p] = ContentsAfter(c, a)[p]
      PROVE  /\ ContentsAfter(d2, y) = ContentsAfter(c2, b)
             /\ SeenBy(d2, y) = SeenBy(c2, b)
  <2>1. ASSUME NEW p \in Planes
        PROVE  DrawnAt(d2, y, p) = DrawnAt(c2, b, p)
    <3>1. CASE p \notin DOMAIN b.attachments
      <4>1. d2[p] = c2[p]
        BY <1>4, <3>1
      <4> QED
        BY <1>3, <3>1, <4>1, DrawnIs
    <3>2. CASE p \in DOMAIN b.attachments
      <4>1. y.attachments[p].readonly = b.attachments[p].readonly
        BY <3>2, LoadsIs
      <4>2. LoadedAt(d2, y, p) = LoadedAt(c2, b, p)
        <5>1. CASE p \in a.planes /\ b.attachments[p].load = "load"
          <6>1. y.attachments[p].load = "clear" /\ y.attachments[p].clear = a.id
            BY <3>2, <5>1, LoadsIs
          <6>2. c2[p] = ContentsAfter(c, a)[p]
            BY <1>4, <3>2, <5>1
          <6>3. c2[p] = << a.id >>
            BY <5>1, <6>2, ContentsAt
          <6> QED
            BY <5>1, <6>1, <6>3 DEF LoadedAt
        <5>2. CASE ~ (p \in a.planes /\ b.attachments[p].load = "load")
          <6>1. y.attachments[p] = b.attachments[p]
            BY <3>2, <5>2, LoadsIs
          <6>2. b.attachments[p].load = "clear" \/ p \notin moved
            BY <3>2, <5>2 DEF IsWhole, IsAttachment
          <6>3. b.attachments[p].load = "clear" \/ d2[p] = c2[p]
            BY <1>4, <6>2
          <6> QED
            BY <6>1, <6>3 DEF LoadedAt
        <5> QED
          BY <5>1, <5>2
      <4> QED
        BY <1>3, <3>2, <4>1, <4>2, DrawnFrom
    <3> QED
      BY <3>1, <3>2
  <2>2. ContentsAfter(d2, y) = ContentsAfter(c2, b) /\ SeenResolved(d2, y) = SeenResolved(c2, b)
    BY <1>3, <2>1, RenderSame
  <2>3. ASSUME NEW u \in Readers(y), NEW p \in PlanesRead(y, u)
        PROVE  d2[p] = c2[p]
    <3>1. u \in y.uses
      BY DEF Readers
    <3>2. p \in Planes /\ p \notin moved
      BY <1>3, <3>1, ReadPlanes
    <3> QED
      BY <1>4, <3>2
  <2>4. SeenOf(d2, y) = SeenOf(c2, b)
    BY <1>3, <2>3, SeenOfIs
  <2> QED
    BY <2>2, <2>4, RenderSees
<1> HIDE DEF moved
<1> QED
  BY <1>1, <1>2, <1>4 DEF Exchange, moved

(* What all clears use they write.                                         *)
LEMMA ClearReaders ==
  ASSUME NEW a, IsWhole(a), a.type = "clear", NEW b, IsWhole(b), b.type = "render",
         NEW y, IsWhole(y), y.type = "render", Loads(y, b, a),
         y.uses = b.uses \/ y.uses = b.uses \union a.uses
  PROVE  Readers(y) = Readers(b)
<1>1. Resolvers(y) = Resolvers(b)
  BY LoadsAlike, ResolvesAre
<1>2. \A u \in a.uses : IsWrite(u.mode)
  BY DEF IsWhole
<1> QED
  BY <1>1, <1>2 DEF Readers

(* Two passes have ids of their own.                                       *)
LEMMA OtherIds ==
  ASSUME NEW a, NEW b, Updated(a) \intersect Updated(b) = {}
  PROVE  IdsOf(a) \intersect IdsOf(b) = {}
<1> SUFFICES ASSUME NEW i, i \in IdsOf(a), i \in IdsOf(b)
             PROVE  FALSE
  OBVIOUS
<1>1. Fence(i) \in Updated(a) /\ Fence(i) \in Updated(b)
  BY DEF Updated, IdsOf
<1> QED
  BY <1>1

-----------------------------------------------------------------------------
(* Two renders.                                                            *)
MovedBy(a) == { p \in DOMAIN a.attachments : ~ a.attachments[p].readonly }

LEMMA JoinsAlike ==
  ASSUME NEW a, NEW b, NEW y, Joins(y, a, b)
  PROVE  /\ DOMAIN y.attachments = DOMAIN b.attachments
         /\ DOMAIN a.attachments = DOMAIN b.attachments
         /\ ResolvesAlike(y, b) /\ ResolvedAt(a) = {} /\ Resolvers(a) = {}
         /\ ResolveTargets(a) = {}
         /\ \A p \in DOMAIN b.attachments :
              /\ a.attachments[p].load = "load" /\ b.attachments[p].load = "load"
              /\ y.attachments[p].load = "load"
              /\ a.attachments[p].readonly = b.attachments[p].readonly
              /\ y.attachments[p].readonly = b.attachments[p].readonly
<1>1. /\ DOMAIN y.attachments = DOMAIN b.attachments
      /\ DOMAIN a.attachments = DOMAIN b.attachments
  BY DEF Joins
<1>2. ASSUME NEW p \in DOMAIN b.attachments
      PROVE  /\ a.attachments[p].load = "load" /\ b.attachments[p].load = "load"
             /\ a.attachments[p].resolve = None
             /\ a.attachments[p].readonly = b.attachments[p].readonly
             /\ y.attachments[p].load = "load"
             /\ y.attachments[p].readonly = b.attachments[p].readonly
             /\ y.attachments[p].resolve = b.attachments[p].resolve
             /\ y.attachments[p].resolver = b.attachments[p].resolver
  <2>1. /\ a.attachments[p].load = "load" /\ b.attachments[p].load = "load"
        /\ a.attachments[p].resolve = None
        /\ a.attachments[p].readonly = b.attachments[p].readonly
        /\ y.attachments[p] =
            [load |-> "load", clear |-> a.attachments[p].clear,
             store |-> IF IsDepthStencil(p) THEN "store" ELSE b.attachments[p].store,
             resolve |-> b.attachments[p].resolve, resolver |-> b.attachments[p].resolver,
             readonly |-> b.attachments[p].readonly]
    BY DEF Joins
  <2>2. /\ y.attachments[p].load = "load"
        /\ y.attachments[p].readonly = b.attachments[p].readonly
        /\ y.attachments[p].resolve = b.attachments[p].resolve
        /\ y.attachments[p].resolver = b.attachments[p].resolver
    BY ONLY <2>1
  <2> QED
    BY <2>1, <2>2
<1>3. ResolvesAlike(y, b)
  BY <1>1, <1>2 DEF ResolvesAlike
<1>4. ResolvedAt(a) = {}
  BY <1>1, <1>2 DEF ResolvedAt
<1>5. Resolvers(a) = {} /\ ResolveTargets(a) = {}
  BY <1>4 DEF Resolvers, ResolveTargets
<1> QED
  BY <1>1, <1>2, <1>3, <1>4, <1>5

LEMMA JoinedReaders ==
  ASSUME NEW a, NEW b, IsWhole(a), IsWhole(b), a.type = "render", b.type = "render",
         IdsOf(a) \intersect IdsOf(b) = {},
         NEW y, IsWhole(y), y.type = "render", Joins(y, a, b), y.uses = b.uses \union a.uses
  PROVE  Readers(y) = Readers(a) \union Readers(b)
<1>1. Resolvers(y) = Resolvers(b) /\ Resolvers(a) = {}
  BY JoinsAlike, ResolvesAre
<1>2. \A q \in ResolvedAt(b) : b.attachments[q].resolver \in IdsOf(b)
  BY ResolverIs
<1>3. Resolvers(b) \subseteq IdsOf(b)
  BY <1>2 DEF Resolvers
<1>4. \A u \in a.uses : u.id \in IdsOf(a)
  BY DEF IsWhole
<1>5. \A u \in a.uses : u.id \notin Resolvers(b)
  BY <1>3, <1>4
<1>6. Readers(a) = { u \in a.uses : ~ IsWrite(u.mode) }
  BY <1>1 DEF Readers
<1> QED
  BY <1>1, <1>5, <1>6 DEF Readers

(* What is seen of the planes outside of the attachments.                  *)
LEMMA SeenOfBoth ==
  ASSUME NEW y, NEW a, NEW b, NEW c, NEW c2, NEW d2,
         DOMAIN y.attachments = DOMAIN b.attachments,
         DOMAIN a.attachments = DOMAIN b.attachments,
         Readers(y) = Readers(a) \union Readers(b),
         \A u \in Readers(a) : \A p \in PlanesRead(a, u) : d2[p] = c[p],
         \A u \in Readers(b) : \A p \in PlanesRead(b, u) : d2[p] = c2[p]
  PROVE  SeenOf(d2, y) = SeenOf(c, a) \union SeenOf(c2, b)
<1>1. \A u : PlanesRead(y, u) = PlanesRead(a, u) /\ PlanesRead(y, u) = PlanesRead(b, u)
  BY DEF PlanesRead
<1> DEFINE From(u, e, k) == { <<u.id, p, k[p]>> : p \in PlanesRead(e, u) }
<1>2. ASSUME NEW u \in Readers(a)
      PROVE  From(u, y, d2) = From(u, a, c)
  <2>1. \A p \in PlanesRead(a, u) : <<u.id, p, d2[p]>> = <<u.id, p, c[p]>>
    OBVIOUS
  <2> QED
    BY <1>1, <2>1
<1>3. ASSUME NEW u \in Readers(b)
      PROVE  From(u, y, d2) = From(u, b, c2)
  <2>1. \A p \in PlanesRead(b, u) : <<u.id, p, d2[p]>> = <<u.id, p, c2[p]>>
    OBVIOUS
  <2> QED
    BY <1>1, <2>1
<1>4. /\ SeenOf(d2, y) = UNION { From(u, y, d2) : u \in Readers(y) }
      /\ SeenOf(c, a) = UNION { From(u, a, c) : u \in Readers(a) }
      /\ SeenOf(c2, b) = UNION { From(u, b, c2) : u \in Readers(b) }
  BY DEF SeenOf
<1> HIDE DEF From
<1>5. \A s : s \in SeenOf(d2, y) <=> \E u \in Readers(y) : s \in From(u, y, d2)
  BY <1>4
<1>6. \A s : s \in SeenOf(c, a) <=> \E u \in Readers(a) : s \in From(u, a, c)
  BY <1>4
<1>7. \A s : s \in SeenOf(c2, b) <=> \E u \in Readers(b) : s \in From(u, b, c2)
  BY <1>4
<1>8. \A s : s \in SeenOf(d2, y) <=> s \in SeenOf(c, a) \/ s \in SeenOf(c2, b)
  BY <1>2, <1>3, <1>5, <1>6, <1>7
<1> QED
  BY <1>8

LEMMA MergeExchange ==
  ASSUME NEW a, NEW b, IsWhole(a), IsWhole(b), a.type = "render", b.type = "render",
         IdsOf(a) \intersect IdsOf(b) = {}, NEW x, x.type = "null",
         NEW y, IsWhole(y), y.type = "render", Joins(y, a, b),
         y.uses = b.uses \union a.uses, y.cmds = a.cmds \o b.cmds
  PROVE  Exchange(a, b, x, y, MovedBy(a))
<1> DEFINE moved == MovedBy(a)
<1>1. /\ DOMAIN y.attachments = DOMAIN b.attachments
      /\ DOMAIN a.attachments = DOMAIN b.attachments
      /\ ResolvesAlike(y, b) /\ ResolvedAt(a) = {} /\ ResolveTargets(a) = {}
      /\ \A p \in DOMAIN b.attachments :
              /\ a.attachments[p].load = "load" /\ b.attachments[p].load = "load"
              /\ y.attachments[p].load = "load"
              /\ a.attachments[p].readonly = b.attachments[p].readonly
              /\ y.attachments[p].readonly = b.attachments[p].readonly
  BY JoinsAlike
<1>2. Readers(y) = Readers(a) \union Readers(b)
  BY JoinedReaders
<1>3. \A c : \A p \in DOMAIN b.attachments :
        LoadedAt(c, a, p) = c[p] /\ LoadedAt(c, b, p) = c[p] /\ LoadedAt(c, y, p) = c[p]
  BY <1>1 DEF LoadedAt
<1>4. ASSUME NEW c, NEW p \in Planes
      PROVE  /\ ContentsAfter(c, x)[p] = c[p]
             /\ p \notin moved => ContentsAfter(c, a)[p] = c[p]
             /\ p \in moved => ContentsAfter(c, a)[p] = c[p] \o a.cmds
  <2>1. ContentsAfter(c, x)[p] = c[p]
    BY ContentsAt
  <2>2. ContentsAfter(c, a)[p] = DrawnAt(c, a, p)
    BY <1>1, ContentsAt
  <2>3. p \notin DOMAIN b.attachments => DrawnAt(c, a, p) = c[p]
    BY <1>1, DrawnIs
  <2>4. ASSUME p \in DOMAIN b.attachments, a.attachments[p].readonly
        PROVE  DrawnAt(c, a, p) = c[p]
    <3>1. DrawnAt(c, a, p) = LoadedAt(c, a, p)
      BY <1>1, <2>4, DrawnIs
    <3> QED
      BY <1>3, <2>4, <3>1
  <2>5. ASSUME p \in DOMAIN b.attachments, ~ a.attachments[p].readonly
        PROVE  DrawnAt(c, a, p) = c[p] \o a.cmds
    <3>1. DrawnAt(c, a, p) = LoadedAt(c, a, p) \o a.cmds
      BY <1>1, <2>5, DrawnIs
    <3>2. LoadedAt(c, a, p) = c[p]
      BY <1>3, <2>5
    <3> QED
      BY <3>1, <3>2
  <2>6. p \in moved <=> p \in DOMAIN b.attachments /\ ~ a.attachments[p].readonly
    BY <1>1 DEF MovedBy
  <2> QED
    BY <2>1, <2>2, <2>3, <2>4, <2>5, <2>6
<1>5. ASSUME NEW c
      PROVE  SeenBy(c, x) = {} /\ SeenBy(c, a) = SeenOf(c, a)
  <2>1. SeenResolved(c, a) = {}
    BY <1>1 DEF SeenResolved
  <2> QED
    BY <2>1, RenderSees DEF SeenBy
<1>6. ASSUME NEW c \in AreContents, NEW c2, NEW d2,
             \A p \in Planes \ moved : d2[p] = c2[p],
             \A p \in Planes : p \in moved \/ ResourceOf(p) \in ResourcesUsed(a) =>
               c2[p] = ContentsAfter(c, a)[p] /\ d2[p] = ContentsAfter(c, x)[p]
      PROVE  /\ ContentsAfter(d2, y) = ContentsAfter(c2, b)
             /\ SeenBy(d2, y) = SeenOf(c, a) \union SeenBy(c2, b)
  <2>1. ASSUME NEW p \in Planes
        PROVE  DrawnAt(d2, y, p) = DrawnAt(c2, b, p)
    <3>1. CASE p \notin DOMAIN b.attachments
      <4>1. p \notin moved
        BY <1>1, <3>1 DEF MovedBy
      <4>2. d2[p] = c2[p]
        BY <1>6, <4>1
      <4> QED
        BY <1>1, <3>1, <4>2, DrawnIs
    <3>2. CASE p \in DOMAIN b.attachments /\ b.attachments[p].readonly
      <4>1. p \notin moved
        BY <1>1, <3>2 DEF MovedBy
      <4>2. d2[p] = c2[p]
        BY <1>6, <4>1
      <4>3. DrawnAt(d2, y, p) = LoadedAt(d2, y, p) /\ DrawnAt(c2, b, p) = LoadedAt(c2, b, p)
        BY <1>1, <3>2, DrawnIs
      <4> QED
        BY <1>3, <3>2, <4>2, <4>3
    <3>3. CASE p \in DOMAIN b.attachments /\ ~ b.attachments[p].readonly
      <4>1. p \in moved
        BY <1>1, <3>3 DEF MovedBy
      <4>2. c2[p] = c[p] \o a.cmds /\ d2[p] = c[p]
        BY <1>4, <1>6, <4>1
      <4>3. DrawnAt(d2, y, p) = LoadedAt(d2, y, p) \o y.cmds
        <5>1. p \in DOMAIN y.attachments /\ ~ y.attachments[p].readonly
          BY <1>1, <3>3
        <5> QED
          BY ONLY <5>1 DEF DrawnAt
      <4>4. DrawnAt(c2, b, p) = LoadedAt(c2, b, p) \o b.cmds
        BY <1>1, <3>3, DrawnIs
      <4>5. LoadedAt(d2, y, p) = d2[p] /\ LoadedAt(c2, b, p) = c2[p]
        BY <1>3, <3>3
      <4>6. c[p] \in Seq(Nat) /\ a.cmds \in Seq(Nat) /\ b.cmds \in Seq(Nat)
        BY DEF AreContents, IsWhole
      <4>7. c[p] \o (a.cmds \o b.cmds) = (c[p] \o a.cmds) \o b.cmds
        <5>1. \A s, t, v \in Seq(Nat) : s \o (t \o v) = (s \o t) \o v
          OBVIOUS
        <5> QED
          BY <4>6, <5>1
      <4>8. DrawnAt(d2, y, p) = c[p] \o (a.cmds \o b.cmds)
        BY ONLY <4>2, <4>3, <4>5, y.cmds = a.cmds \o b.cmds
      <4>9. DrawnAt(c2, b, p) = (c[p] \o a.cmds) \o b.cmds
        BY ONLY <4>2, <4>4, <4>5
      <4> QED
        BY ONLY <4>7, <4>8, <4>9
    <3> QED
      BY <3>1, <3>2, <3>3
  <2>2. ContentsAfter(d2, y) = ContentsAfter(c2, b) /\ SeenResolved(d2, y) = SeenResolved(c2, b)
    BY <1>1, <2>1, RenderSame
  <2>3. ASSUME NEW u \in Readers(a), NEW p \in PlanesRead(a, u)
        PROVE  d2[p] = c[p]
    <3>1. p \in Planes /\ ResourceOf(p) \in ResourcesUsed(a)
      BY ReadPlanes DEF Readers
    <3> QED
      BY <1>4, <1>6, <3>1
  <2>4. ASSUME NEW u \in Readers(b), NEW p \in PlanesRead(b, u)
        PROVE  d2[p] = c2[p]
    <3>1. p \in Planes /\ p \notin DOMAIN b.attachments
      BY ReadPlanes DEF Readers
    <3>2. p \notin moved
      BY <1>1, <3>1 DEF MovedBy
    <3> QED
      BY <1>6, <3>1, <3>2
  <2>5. SeenOf(d2, y) = SeenOf(c, a) \union SeenOf(c2, b)
    BY <1>1, <1>2, <2>3, <2>4, SeenOfBoth
  <2>6. SeenBy(d2, y) = SeenOf(d2, y) \union SeenResolved(d2, y)
        /\ SeenBy(c2, b) = SeenOf(c2, b) \union SeenResolved(c2, b)
    BY RenderSees
  <2> QED
    BY ONLY <2>2, <2>5, <2>6
<1> HIDE DEF moved
<1>7. ASSUME NEW c \in AreContents, NEW p \in Planes \ moved
      PROVE  ContentsAfter(c, x)[p] = ContentsAfter(c, a)[p]
  <2>1. p \in Planes /\ p \notin moved
    BY <1>7
  <2>2. ContentsAfter(c, x)[p] = c[p] /\ ContentsAfter(c, a)[p] = c[p]
    BY ONLY <1>4, <2>1
  <2> QED
    BY <2>2
<1>8. ASSUME NEW c \in AreContents, NEW c2, NEW d2,
             \A p \in Planes \ moved : d2[p] = c2[p],
             \A p \in Planes : p \in moved \/ ResourceOf(p) \in ResourcesUsed(a) =>
               c2[p] = ContentsAfter(c, a)[p] /\ d2[p] = ContentsAfter(c, x)[p]
      PROVE  /\ ContentsAfter(d2, y) = ContentsAfter(c2, b)
             /\ SeenBy(c, x) \union SeenBy(d2, y) = SeenBy(c, a) \union SeenBy(c2, b)
  <2>1. /\ ContentsAfter(d2, y) = ContentsAfter(c2, b)
        /\ SeenBy(d2, y) = SeenOf(c, a) \union SeenBy(c2, b)
    BY <1>6, <1>8
  <2>2. SeenBy(c, x) = {} /\ SeenBy(c, a) = SeenOf(c, a)
    BY <1>5
  <2> QED
    BY ONLY <2>1, <2>2
<1> QED
  BY <1>7, <1>8 DEF Exchange, moved

-----------------------------------------------------------------------------
(* A resolve that a render takes over.                                     *)

(* A render and the resolve it takes over.                                 *)
LEMMA TakesOverIs ==
  ASSUME NEW a, NEW b, IsWhole(a), IsWhole(b), a.type = "render", b.type = "resolve",
         b.src \in DOMAIN a.attachments, a.attachments[b.src].resolve = None,
         NEW x, IsWhole(x), x.type = "render", TakesOver(x, a, b)
  PROVE  /\ DOMAIN x.attachments = DOMAIN a.attachments
         /\ ResolvedAt(x) = ResolvedAt(a) \union {b.src} /\ b.src \notin ResolvedAt(a)
         /\ x.attachments[b.src].resolve = b.dst /\ x.attachments[b.src].resolver = b.id
         /\ Resolvers(x) = Resolvers(a) \union {b.id}
         /\ ResolveTargets(x) = ResolveTargets(a) \union {b.dst}
         /\ ResolverOf(x, b.dst) = b.id
         /\ \A p \in ResolveTargets(a) : ResolverOf(x, p) = ResolverOf(a, p)
         /\ \A p \in DOMAIN a.attachments :
              /\ x.attachments[p].load = a.attachments[p].load
              /\ x.attachments[p].clear = a.attachments[p].clear
              /\ x.attachments[p].readonly = a.attachments[p].readonly
<1>1. /\ DOMAIN x.attachments = DOMAIN a.attachments
      /\ \A p \in DOMAIN a.attachments : p # b.src => x.attachments[p] = a.attachments[p]
      /\ x.attachments[b.src] =
           [load |-> a.attachments[b.src].load, clear |-> a.attachments[b.src].clear,
            store |-> "resolve", resolve |-> b.dst, resolver |-> b.id,
            readonly |-> a.attachments[b.src].readonly]
  BY DEF TakesOver
<1>2. /\ x.attachments[b.src].load = a.attachments[b.src].load
      /\ x.attachments[b.src].clear = a.attachments[b.src].clear
      /\ x.attachments[b.src].resolve = b.dst /\ x.attachments[b.src].resolver = b.id
      /\ x.attachments[b.src].readonly = a.attachments[b.src].readonly
  BY ONLY <1>1
<1>3. b.dst # None
  BY PlanesAssumption DEF IsWhole
<1>4. ResolvedAt(x) = ResolvedAt(a) \union {b.src} /\ b.src \notin ResolvedAt(a)
  BY <1>1, <1>2, <1>3 DEF ResolvedAt
<1>5. \A q \in ResolvedAt(a) : x.attachments[q] = a.attachments[q]
  BY <1>1, <1>4 DEF ResolvedAt
<1>6. Resolvers(x) = Resolvers(a) \union {b.id}
  BY <1>2, <1>4, <1>5 DEF Resolvers
<1>7. ResolveTargets(x) = ResolveTargets(a) \union {b.dst}
  BY <1>2, <1>4, <1>5 DEF ResolveTargets
<1>8. ResolverOf(x, b.dst) = b.id
  BY <1>2, <1>4, ResolverIs
<1>9. ASSUME NEW p \in ResolveTargets(a)
      PROVE  ResolverOf(x, p) = ResolverOf(a, p)
  <2>1. PICK q \in ResolvedAt(a) : a.attachments[q].resolve = p
    BY <1>9 DEF ResolveTargets
  <2>2. ResolverOf(a, p) = a.attachments[q].resolver
    BY <2>1, ResolverIs
  <2>3. q \in ResolvedAt(x) /\ x.attachments[q].resolve = p
    BY <1>4, <1>5, <2>1
  <2>4. ResolverOf(x, p) = x.attachments[q].resolver
    BY <2>3, ResolverIs
  <2> QED
    BY <1>5, <2>1, <2>2, <2>4
<1>10. \A p \in DOMAIN a.attachments :
              /\ x.attachments[p].load = a.attachments[p].load
              /\ x.attachments[p].clear = a.attachments[p].clear
              /\ x.attachments[p].readonly = a.attachments[p].readonly
  BY <1>1, <1>2
<1> QED
  BY <1>1, <1>2, <1>4, <1>6, <1>7, <1>8, <1>9, <1>10

LEMMA ResolveExchange ==
  ASSUME NEW a, NEW b, IsWhole(a), IsWhole(b), a.type = "render", b.type = "resolve",
         IdsOf(a) \intersect IdsOf(b) = {}, b.src \in DOMAIN a.attachments,
         a.attachments[b.src].resolve = None, ~ a.attachments[b.src].readonly,
         NEW x, IsWhole(x), x.type = "render", TakesOver(x, a, b), x.cmds = a.cmds,
         x.uses = a.uses \union b.uses, NEW y, y.type = "null"
  PROVE  Exchange(a, b, x, y, {b.dst})
<1> DEFINE moved == {b.dst}
<1>1. /\ DOMAIN x.attachments = DOMAIN a.attachments
      /\ ResolvedAt(x) = ResolvedAt(a) \union {b.src} /\ b.src \notin ResolvedAt(a)
      /\ x.attachments[b.src].resolver = b.id
      /\ Resolvers(x) = Resolvers(a) \union {b.id}
      /\ ResolveTargets(x) = ResolveTargets(a) \union {b.dst}
      /\ ResolverOf(x, b.dst) = b.id
      /\ \A p \in ResolveTargets(a) : ResolverOf(x, p) = ResolverOf(a, p)
      /\ \A p \in DOMAIN a.attachments :
              /\ x.attachments[p].load = a.attachments[p].load
              /\ x.attachments[p].clear = a.attachments[p].clear
              /\ x.attachments[p].readonly = a.attachments[p].readonly
  BY TakesOverIs
<1>2. /\ b.id \in IdsOf(b) /\ b.src \in Planes /\ b.dst \in Planes
      /\ \A u \in b.uses : u.id = b.id
      /\ \A u \in a.uses : u.id \in IdsOf(a)
  BY DEF IsWhole
<1>3. b.src \notin ResolveTargets(a)
  BY ResolverIs
<1>4. Readers(x) = Readers(a)
  <2>1. \A u \in b.uses : u.id \in Resolvers(x)
    BY <1>1, <1>2
  <2>2. \A u \in a.uses : u.id # b.id
    BY <1>2
  <2> QED
    BY <1>1, <2>1, <2>2 DEF Readers
<1>5. ASSUME NEW c, NEW p \in Planes
      PROVE  DrawnAt(c, x, p) = DrawnAt(c, a, p)
  <2>1. CASE p \in DOMAIN a.attachments
    <3>1. LoadedAt(c, x, p) = LoadedAt(c, a, p)
      BY <1>1, <2>1 DEF LoadedAt
    <3> QED
      BY <1>1, <2>1, <3>1, DrawnFrom
  <2>2. CASE p \notin DOMAIN a.attachments
    BY <1>1, <2>2, DrawnIs
  <2> QED
    BY <2>1, <2>2
<1>6. ASSUME NEW c, NEW p \in Planes \ moved
      PROVE  ContentsAfter(c, x)[p] = ContentsAfter(c, a)[p]
  <2>1. CASE p \in ResolveTargets(a)
    <3>1. ContentsAfter(c, x)[p] = << ResolverOf(x, p) >>
      BY <1>1, <2>1, ContentsAt
    <3>2. ContentsAfter(c, a)[p] = << ResolverOf(a, p) >>
      BY <2>1, ContentsAt
    <3> QED
      BY <1>1, <2>1, <3>1, <3>2
  <2>2. CASE p \notin ResolveTargets(a)
    <3>1. ContentsAfter(c, x)[p] = DrawnAt(c, x, p)
      BY <1>1, <1>6, <2>2, ContentsAt
    <3>2. ContentsAfter(c, a)[p] = DrawnAt(c, a, p)
      BY <2>2, ContentsAt
    <3> QED
      BY <1>5, <3>1, <3>2
  <2> QED
    BY <2>1, <2>2
<1>7. ASSUME NEW c, NEW c2, NEW d2,
             \A p \in Planes \ moved : d2[p] = c2[p],
             \A p \in Planes : p \in moved \/ ResourceOf(p) \in ResourcesUsed(a) =>
               c2[p] = ContentsAfter(c, a)[p] /\ d2[p] = ContentsAfter(c, x)[p]
      PROVE  /\ ContentsAfter(d2, y) = ContentsAfter(c2, b)
             /\ SeenBy(c, x) \union SeenBy(d2, y) = SeenBy(c, a) \union SeenBy(c2, b)
  <2>1. d2[b.dst] = << b.id >>
    <3>1. d2[b.dst] = ContentsAfter(c, x)[b.dst]
      BY <1>2, <1>7
    <3>2. ContentsAfter(c, x)[b.dst] = << ResolverOf(x, b.dst) >>
      BY <1>1, <1>2, ContentsAt
    <3> QED
      BY <1>1, <3>1, <3>2
  <2>2. \A p \in Planes : ContentsAfter(d2, y)[p] = ContentsAfter(c2, b)[p]
    <3> SUFFICES ASSUME NEW p \in Planes
                 PROVE  ContentsAfter(d2, y)[p] = ContentsAfter(c2, b)[p]
      OBVIOUS
    <3>1. ContentsAfter(d2, y)[p] = d2[p]
      BY ContentsAt
    <3>2. CASE p = b.dst
      <4>1. ContentsAfter(c2, b)[p] = << b.id >>
        BY <3>2, ContentsAt
      <4> QED
        BY <2>1, <3>1, <3>2, <4>1
    <3>3. CASE p # b.dst
      <4>1. ContentsAfter(c2, b)[p] = c2[p]
        BY <3>3, ContentsAt
      <4>2. d2[p] = c2[p]
        BY <1>7, <3>3
      <4> QED
        BY <3>1, <4>1, <4>2
    <3> QED
      BY <3>2, <3>3
  <2>3. ContentsAfter(d2, y) = ContentsAfter(c2, b)
    BY <2>2, ContentsDomain
  <2>4. SeenBy(d2, y) = {} /\ SeenBy(c2, b) = { << b.id, b.src, c2[b.src] >> }
    BY DEF SeenBy
  <2>5. c2[b.src] = DrawnAt(c, a, b.src)
    <3>1. ResourceOf(b.src) \in ResourcesUsed(a)
      BY DEF IsWhole, IsAttachment
    <3>2. c2[b.src] = ContentsAfter(c, a)[b.src]
      BY <1>2, <1>7, <3>1
    <3> QED
      BY <1>2, <1>3, <3>2, ContentsAt
  <2>6. SeenOf(c, x) = SeenOf(c, a)
    BY <1>1, <1>4, SeenOfIs
  <2>7. SeenResolved(c, x) = SeenResolved(c, a) \union { << b.id, b.src, c2[b.src] >> }
    <3> DEFINE S(e, q) == << e.attachments[q].resolver, q, DrawnAt(c, e, q) >>
    <3>1. /\ SeenResolved(c, x) = { S(x, q) : q \in ResolvedAt(x) }
          /\ SeenResolved(c, a) = { S(a, q) : q \in ResolvedAt(a) }
      BY DEF SeenResolved
    <3>2. S(x, b.src) = << b.id, b.src, c2[b.src] >>
      BY <1>1, <1>2, <1>5, <2>5
    <3>3. ASSUME NEW q \in ResolvedAt(a)
          PROVE  S(x, q) = S(a, q)
      <4>1. q \in DOMAIN a.attachments /\ q # b.src /\ q \in Planes
        BY <1>1 DEF ResolvedAt, IsWhole, IsAttachment
      <4>2. x.attachments[q] = a.attachments[q]
        BY <4>1 DEF TakesOver
      <4> QED
        BY <1>5, <4>1, <4>2
    <3> HIDE DEF S
    <3> QED
      BY ONLY <1>1, <3>1, <3>2, <3>3
  <2>8. SeenBy(c, x) = SeenOf(c, x) \union SeenResolved(c, x)
        /\ SeenBy(c, a) = SeenOf(c, a) \union SeenResolved(c, a)
    BY RenderSees
  <2>9. SeenBy(c, x) = SeenBy(c, a) \union SeenBy(c2, b)
    BY ONLY <2>4, <2>6, <2>7, <2>8
  <2> QED
    BY ONLY <2>3, <2>4, <2>9
<1> HIDE DEF moved
<1> QED
  BY <1>6, <1>7 DEF Exchange, moved

-----------------------------------------------------------------------------
(* Two passes of a sound list, with none between that the first must       *)
(* precede.                                                                *)

(* Two passes of a list that a loop has come to.                           *)
IsPair(list, j, i) ==
  /\ j \in Live(list) /\ i \in Live(list) /\ j < i
  /\ IsSound(list, j + 1) /\ Apart(list, j, i)

LEMMA SoundDone ==
  ASSUME NEW list, NEW end, IsSound(list, end)
  PROVE  AreDone(list)
<1>1. /\ Len(list) \in Nat /\ DOMAIN list = 1 .. Len(list)
      /\ \A i \in Live(list) : IsWhole(list[i])
  BY SoundIs
<1> QED
  BY <1>1 DEF AreDone, IsDone, Live

LEMMA PairIs ==
  ASSUME NEW list, NEW j, NEW i, IsPair(list, j, i)
  PROVE  /\ j \in DOMAIN list /\ i \in DOMAIN list /\ j # i /\ j \in Nat /\ i \in Nat
         /\ Live(list) \subseteq Nat /\ DOMAIN list \subseteq Nat /\ AreListed(list)
         /\ IsWhole(list[j]) /\ IsWhole(list[i]) /\ IsRecorded(list[j])
         /\ IsListed(list[j]) /\ IsListed(list[i])
         /\ Updated(list[j]) \intersect Updated(list[i]) = {}
         /\ IdsOf(list[j]) \intersect IdsOf(list[i]) = {}
<1>1. /\ j \in Live(list) /\ i \in Live(list) /\ j < i /\ IsSound(list, j + 1)
  BY DEF IsPair
<1>2. /\ Len(list) \in Nat /\ DOMAIN list = 1 .. Len(list) /\ Live(list) \subseteq 1 .. Len(list)
      /\ \A k \in Live(list) : IsWhole(list[k]) /\ (k < j + 1 => IsRecorded(list[k]))
  BY <1>1, SoundIs
<1>3. AreListed(list) /\ AreSeparate(list)
  BY <1>1 DEF IsSound
<1>4. /\ j \in 1 .. Len(list) /\ i \in 1 .. Len(list) /\ j \in Nat /\ i \in Nat /\ j # i
      /\ j < j + 1
  BY <1>1, <1>2
<1>5. Updated(list[j]) \intersect Updated(list[i]) = {}
  BY <1>1, <1>3, <1>4 DEF AreSeparate
<1>6. IdsOf(list[j]) \intersect IdsOf(list[i]) = {}
  BY <1>5, OtherIds
<1>7. IsListed(list[j]) /\ IsListed(list[i])
  BY <1>2, <1>3, <1>4 DEF AreListed
<1> QED
  BY <1>1, <1>2, <1>3, <1>4, <1>5, <1>6, <1>7

(* What the exchange leaves between the two passes.                        *)
MayMove(list, j, i, moved) ==
  \A p \in Planes : p \in moved =>
    \/ ResourceOf(p) \in Alters(list[j])
    \/ \A k \in Live(list) : j < k /\ k < i => ResourceOf(p) \notin ResourcesUsed(list[k])

OnlyChanges(list, after, j, i) ==
  Len(after) = Len(list) /\ \A k \in DOMAIN list \ {j, i} : after[k] = list[k]

LEMMA PairEffect ==
  ASSUME NEW list, NEW j, NEW i, IsPair(list, j, i), NEW after, AreDone(after),
         OnlyChanges(list, after, j, i),
         NEW moved, Exchange(list[j], list[i], after[j], after[i], moved),
         MayMove(list, j, i, moved)
  PROVE  SameEffect(list, after)
<1>1. /\ j \in DOMAIN list /\ i \in DOMAIN list /\ j < i /\ Apart(list, j, i)
      /\ IsSound(list, j + 1) /\ IsWhole(list[j])
  BY PairIs DEF IsPair
<1>2. AreDone(list) /\ \A k \in Live(list) : IsWhole(list[k])
  BY <1>1, SoundDone, SoundIs
<1>3. ASSUME NEW k \in Live(list), j < k, k < i, NEW p \in Planes
      PROVE  /\ p \in moved => ResourceOf(p) \notin ResourcesUsed(list[k])
             /\ p \in moved \/ ResourceOf(p) \in ResourcesUsed(list[j]) =>
                  ResourceOf(p) \notin Alters(list[k])
  <2>1. ~ Clash(list[j], list[k])
    BY <1>1, <1>3 DEF Apart
  <2>2. p \in moved => ResourceOf(p) \notin ResourcesUsed(list[k])
    BY <1>3, <2>1 DEF Clash, MayMove
  <2>3. Alters(list[k]) \subseteq ResourcesUsed(list[k])
    BY <1>2, AltersUsed
  <2> QED
    BY <2>1, <2>2, <2>3 DEF Clash
<1> QED
  BY <1>1, <1>2, <1>3, ExchangeEffect DEF OnlyChanges

LEMMA LoadedStores ==
  ASSUME NEW y, NEW b, NEW a, IsWhole(b), b.type = "render", Loads(y, b, a)
  PROVE  \A p \in DOMAIN y.attachments :
           y.attachments[p].store = "dont_care" =>
             p \in DOMAIN b.attachments /\ b.attachments[p].store = "dont_care"
<1>1. DOMAIN y.attachments = DOMAIN b.attachments
  BY DEF Loads
<1>2. \A p \in DOMAIN b.attachments : y.attachments[p].store = b.attachments[p].store
  BY LoadsIs
<1> QED
  BY <1>1, <1>2

-----------------------------------------------------------------------------
(* The cases of the comparison.                                            *)
LEMMA ChecksClear ==
  ASSUME NEW list, NEW j, NEW i, IsPair(list, j, i),
         list[j].type = "clear", list[i].type = "render",
         Unmatched(list[j], list[i]).planes = {}, NEW after,
         after = [list EXCEPT ![j] = Null(list[j]),
                              ![i] = Absorbed(ClearedBy(list[i], list[j]), list[j])]
  PROVE  Len(after) = Len(list) /\ IsSound(after, j) /\ SameEffect(list, after)
<1> DEFINE a == list[j]
           b == list[i]
           x == Null(a)
           y == Absorbed(ClearedBy(b, a), a)
<1>1. /\ j \in DOMAIN list /\ i \in DOMAIN list /\ j # i /\ j \in Nat /\ i \in Nat
      /\ AreListed(list) /\ IsWhole(a) /\ IsWhole(b) /\ IsRecorded(a) /\ IsEncoder(a)
      /\ j \in Live(list) /\ i \in Live(list) /\ j < i /\ IsSound(list, j + 1)
      /\ Apart(list, j, i) /\ a.type = "clear" /\ b.type = "render"
  BY PairIs DEF IsPair, IsListed
<1>2. IsListed(x) /\ x.type = "null"
  BY <1>1, NullIs
<1>3. /\ IsListed(y) /\ y.type = "render" /\ IsWhole(y) /\ Carries(y, b, a)
      /\ Loads(y, b, a) /\ y.cmds = b.cmds /\ y.uses = b.uses \union a.uses
  BY <1>1, ClearCarried
<1>4. a.planes \subseteq DOMAIN b.attachments
  <2>1. Unmatched(a, b) = [a EXCEPT !.planes = a.planes \ DOMAIN b.attachments]
    BY DEF Unmatched
  <2>2. Unmatched(a, b).planes = a.planes \ DOMAIN b.attachments
    BY <1>1, <2>1 DEF IsEncoder
  <2> QED
    BY <2>2
<1>5. IsChanged(after, list, j, x, i, y)
  BY DEF IsChanged
<1>6. \A p \in a.planes : ResourceOf(p) \in Alters(a)
  BY <1>1, AltersUsed DEF IsWhole
<1> HIDE DEF x, y
<1>7. /\ AreListed(after) /\ DOMAIN after = DOMAIN list /\ Len(after) = Len(list)
      /\ after[j] = x /\ after[i] = y
      /\ \A k \in DOMAIN list \ {j, i} : after[k] = list[k]
  BY ONLY <1>1, <1>2, <1>3, <1>5, ExceptListed
<1>8. Moves(list, after, j, i)
  BY <1>1, <1>2, <1>3, <1>7 DEF Moves
<1>9. \A p \in DOMAIN y.attachments :
        y.attachments[p].store = "dont_care" =>
          p \in DOMAIN b.attachments /\ b.attachments[p].store = "dont_care"
  BY <1>1, <1>3, LoadedStores
<1>10. IsSound(after, j)
  <2>1. /\ IsWhole(after[i]) /\ list[j].type # "resolve" /\ list[i].type = "render"
        /\ \A p \in DOMAIN after[i].attachments :
             after[i].attachments[p].store = "dont_care" =>
               p \in DOMAIN list[i].attachments /\ list[i].attachments[p].store = "dont_care"
    BY <1>1, <1>3, <1>7, <1>9
  <2> QED
    BY <1>1, <1>7, <1>8, <2>1, DownSound
<1>11. Readers(y) = Readers(b)
  BY <1>1, <1>3, ClearReaders
<1>12. Exchange(a, b, x, y, a.planes \intersect DOMAIN b.attachments)
  BY <1>1, <1>2, <1>3, <1>4, <1>11, ClearExchange DEF IsLeft
<1> DEFINE moved == a.planes \intersect DOMAIN b.attachments
<1>13. Exchange(list[j], list[i], after[j], after[i], moved)
  BY <1>7, <1>12
<1>14. MayMove(list, j, i, moved) /\ OnlyChanges(list, after, j, i)
  BY <1>6, <1>7 DEF MayMove, OnlyChanges
<1> HIDE DEF moved, a, b
<1>15. AreDone(after)
  BY <1>10, SoundDone
<1>16. SameEffect(list, after)
  BY <1>13, <1>14, <1>15, PairEffect
<1> QED
  BY <1>7, <1>10, <1>16

(* What is left of the comparison when it goes on.                         *)
GoesOn(list, j, i) ==
  IsSound(list, j + 1) /\ Apart(list, j, i + 1) /\ list[j].type \in {"clear", "render"}

(* Two passes that do not clash.                                           *)
LEMMA ApartNext ==
  ASSUME NEW list, NEW j, NEW i, DOMAIN list \subseteq Nat, i \in Nat,
         Apart(list, j, i), i \in Live(list) => ~ Clash(list[j], list[i])
  PROVE  Apart(list, j, i + 1)
<1>1. \A m \in Live(list) : m < i + 1 => m < i \/ m = i
  BY DEF Live
<1> QED
  BY <1>1 DEF Apart

LEMMA IndependentGoesOn ==
  ASSUME NEW list, NEW j, NEW i, IsPair(list, j, i), list[j].type \in {"clear", "render"},
         ~ HasDataDependency(list[j], list[i])
  PROVE  GoesOn(list, j, i)
<1>1. /\ j \in Live(list) /\ i \in Live(list) /\ j < i /\ DOMAIN list \subseteq Nat /\ i \in Nat
      /\ IsSound(list, j + 1) /\ Apart(list, j, i)
  BY PairIs DEF IsPair
<1>2. AreSeparate(list) /\ HasOrder(list, j + 1)
  BY <1>1 DEF IsSound
<1>3. ~ WaitsFor(list[i], list[j])
  BY DEF HasDataDependency, WaitsFor
<1>4. ~ Clash(list[j], list[i])
  BY <1>1, <1>2, <1>3, MeetsWaiting
<1> QED
  BY <1>1, <1>4, ApartNext DEF GoesOn

LEMMA ClashStops ==
  ASSUME NEW list, NEW j, NEW i, IsPair(list, j, i), Clash(list[j], list[i])
  PROVE  HasDataDependency(list[j], list[i])
<1>1. /\ j \in Live(list) /\ i \in Live(list) /\ j < i /\ DOMAIN list \subseteq Nat
      /\ IsSound(list, j + 1) /\ Apart(list, j, i)
  BY PairIs DEF IsPair
<1>2. AreSeparate(list) /\ HasOrder(list, j + 1)
  BY <1>1 DEF IsSound
<1>3. WaitsFor(list[i], list[j])
  BY <1>1, <1>2, MeetsWaiting
<1> QED
  BY <1>3 DEF HasDataDependency, WaitsFor

(* A plane that both have makes them clash.                                *)
LEMMA PlaneClashes ==
  ASSUME NEW a, NEW b, IsWhole(a), IsWhole(b), a.type = "clear", b.type = "render",
         a.planes \intersect DOMAIN b.attachments # {}
  PROVE  Clash(a, b) /\ Clash(b, a)
<1>1. PICK p \in a.planes : p \in DOMAIN b.attachments
  OBVIOUS
<1>2. ResourceOf(p) \in Alters(a)
  BY <1>1, AltersUsed DEF IsWhole
<1>3. ResourceOf(p) \in ResourcesUsed(b)
  BY <1>1 DEF IsWhole, IsAttachment
<1> QED
  BY <1>2, <1>3 DEF Clash

LEMMA EffectSelf == \A list : SameEffect(list, list)
  BY DEF SameEffect

(* An entry that is replaced by itself.                                    *)
LEMMA ExceptSelf ==
  ASSUME NEW list, AreListed(list), NEW j \in DOMAIN list, NEW i \in DOMAIN list, NEW after
  PROVE  /\ after = [list EXCEPT ![j] = list[j], ![i] = list[i]] => after = list
         /\ after = [list EXCEPT ![j] = list[j]] => after = list
<1>1. list = [k \in 1 .. Len(list) |-> list[k]] /\ DOMAIN list = 1 .. Len(list)
  <2> DEFINE S == { list[k] : k \in DOMAIN list }
  <2>1. list \in Seq(S)
    BY DEF AreListed, IsList
  <2> HIDE DEF S
  <2> QED
    BY <2>1
<1>2. ASSUME after = [list EXCEPT ![j] = list[j], ![i] = list[i]]
      PROVE  after = list
  BY <1>1, <1>2
<1>3. ASSUME after = [list EXCEPT ![j] = list[j]]
      PROVE  after = list
  BY <1>1, <1>3
<1> QED
  BY <1>2, <1>3

LEMMA ChecksPart ==
  ASSUME NEW list, NEW j, NEW i, IsPair(list, j, i),
         list[j].type = "clear", list[i].type = "render", NEW after,
         after = [list EXCEPT ![j] = Unmatched(list[j], list[i]),
                              ![i] = ClearedBy(list[i], list[j])]
  PROVE  /\ Len(after) = Len(list) /\ SameEffect(list, after)
         /\ HasDataDependency(list[j], list[i]) => IsSound(after, j)
         /\ ~ HasDataDependency(list[j], list[i]) => GoesOn(after, j, i)
<1> DEFINE a == list[j]
           b == list[i]
           x == Unmatched(a, b)
           y == ClearedBy(b, a)
<1>1. /\ j \in DOMAIN list /\ i \in DOMAIN list /\ j # i /\ j \in Nat /\ i \in Nat
      /\ AreListed(list) /\ IsWhole(a) /\ IsWhole(b)
      /\ j \in Live(list) /\ i \in Live(list) /\ j < i /\ IsSound(list, j + 1)
      /\ Apart(list, j, i) /\ a.type = "clear" /\ b.type = "render"
  BY PairIs DEF IsPair
<1>2. CASE a.planes \intersect DOMAIN b.attachments = {}
  <2>1. x = a /\ y = b
    BY <1>1, <1>2, NoneMatches
  <2>2. after = list
    <3>1. after = [list EXCEPT ![j] = list[j], ![i] = list[i]]
      BY <2>1
    <3>2. AreListed(list) /\ j \in DOMAIN list /\ i \in DOMAIN list
      BY <1>1
    <3> QED
      BY ONLY <3>1, <3>2, ExceptSelf
  <2>3. IsSound(list, j)
    BY <1>1, SoundBefore
  <2> QED
    BY <1>1, <2>2, <2>3, EffectSelf, IndependentGoesOn
<1>3. CASE a.planes \intersect DOMAIN b.attachments # {}
  <2> DEFINE moved == a.planes \intersect DOMAIN b.attachments
  <2>1. Clash(list[j], list[i])
    BY <1>1, <1>3, PlaneClashes
  <2>2. HasDataDependency(list[j], list[i])
    BY <2>1, ClashStops
  <2>3. /\ IsListed(x) /\ IsWhole(x) /\ IsLike(x, a) /\ Alters(x) = Alters(a)
        /\ x.planes = a.planes \ DOMAIN b.attachments /\ x.id = a.id /\ x.uses = a.uses
        /\ IsListed(y) /\ IsWhole(y) /\ IsLike(y, b)
        /\ Alters(b) \subseteq Alters(y) /\ Alters(y) \subseteq Alters(b) \union Alters(a)
        /\ Loads(y, b, a) /\ y.cmds = b.cmds /\ y.uses = b.uses
    BY <1>1, ClearLeft
  <2>4. IsChanged(after, list, j, x, i, y)
    BY DEF IsChanged
  <2>5. \A p \in a.planes : ResourceOf(p) \in Alters(a)
    BY <1>1, AltersUsed DEF IsWhole
  <2> HIDE DEF x, y
  <2>6. /\ AreListed(after) /\ DOMAIN after = DOMAIN list /\ Len(after) = Len(list)
        /\ after[j] = x /\ after[i] = y
        /\ \A k \in DOMAIN list \ {j, i} : after[k] = list[k]
    BY ONLY <1>1, <2>3, <2>4, ExceptListed
  <2>7. \A p \in DOMAIN y.attachments :
          y.attachments[p].store = "dont_care" =>
            p \in DOMAIN b.attachments /\ b.attachments[p].store = "dont_care"
    BY <1>1, <2>3, LoadedStores
  <2>8. IsSound(after, j)
    <3>1. /\ IsLike(after[j], list[j]) /\ IsLike(after[i], list[i])
          /\ Alters(after[j]) = Alters(list[j])
          /\ Alters(list[i]) \subseteq Alters(after[i])
          /\ Alters(after[i]) \subseteq Alters(list[i]) \union Alters(list[j])
          /\ IsWhole(after[j]) /\ IsWhole(after[i])
          /\ after[j].planes \subseteq list[j].planes
          /\ \A p \in DOMAIN after[i].attachments :
               after[i].attachments[p].store = "dont_care" =>
                 p \in DOMAIN list[i].attachments /\ list[i].attachments[p].store = "dont_care"
      BY <2>3, <2>6, <2>7
    <3> QED
      BY <1>1, <2>1, <2>6, <3>1, PartSound
  <2>9. Readers(y) = Readers(b)
    BY <1>1, <2>3, ClearReaders DEF IsLike
  <2>10. Exchange(a, b, x, y, moved)
    <3>1. IsLeft(x, a, b) /\ y.type = "render"
      BY <1>1, <2>3 DEF IsLeft, IsLike
    <3> QED
      BY <1>1, <2>3, <2>9, <3>1, ClearExchange
  <2>11. Exchange(list[j], list[i], after[j], after[i], moved)
    BY <2>6, <2>10
  <2>12. MayMove(list, j, i, moved) /\ OnlyChanges(list, after, j, i)
    BY <2>5, <2>6 DEF MayMove, OnlyChanges
  <2> HIDE DEF moved, a, b
  <2>13. AreDone(after)
    BY <2>8, SoundDone
  <2>14. SameEffect(list, after)
    BY <2>11, <2>12, <2>13, PairEffect
  <2> QED
    BY <2>2, <2>6, <2>8, <2>14
<1> QED
  BY <1>2, <1>3

LEMMA ChecksNotStored ==
  ASSUME NEW list, NEW j, NEW i, IsPair(list, j, i),
         list[j].type = "render", list[i].type = "clear", NEW after,
         after = [list EXCEPT ![j] = NotStored(list[j], list[i])]
  PROVE  /\ Len(after) = Len(list) /\ SameEffect(list, after)
         /\ HasDataDependency(list[j], list[i]) => IsSound(after, j)
         /\ ~ HasDataDependency(list[j], list[i]) => GoesOn(after, j, i)
<1> DEFINE a == list[j]
           b == list[i]
           x == NotStored(a, b)
<1>1. /\ j \in DOMAIN list /\ i \in DOMAIN list /\ j # i /\ j \in Nat /\ i \in Nat
      /\ AreListed(list) /\ IsWhole(a) /\ IsWhole(b) /\ IsRecorded(a) /\ IsListed(b)
      /\ j \in Live(list) /\ i \in Live(list) /\ j < i /\ IsSound(list, j + 1)
      /\ Apart(list, j, i) /\ a.type = "render" /\ b.type = "clear"
  BY PairIs DEF IsPair
<1>2. /\ x.uses = a.uses /\ x.cmds = a.cmds /\ Drops(x, a, DepthStencil(b.planes))
      /\ DepthStencil(b.planes) \intersect DOMAIN a.attachments = {} => x = a
  BY <1>1, DroppedFields
<1>3. CASE DepthStencil(b.planes) \intersect DOMAIN a.attachments = {}
  <2>1. x = a
    BY <1>2, <1>3
  <2>2. after = list
    <3>1. after = [list EXCEPT ![j] = list[j]]
      BY <2>1
    <3>2. AreListed(list) /\ j \in DOMAIN list /\ i \in DOMAIN list
      BY <1>1
    <3> QED
      BY ONLY <3>1, <3>2, ExceptSelf
  <2>3. IsSound(list, j)
    BY <1>1, SoundBefore
  <2> QED
    BY <1>1, <2>2, <2>3, EffectSelf, IndependentGoesOn
<1>4. CASE DepthStencil(b.planes) \intersect DOMAIN a.attachments # {}
  <2>1. b.planes \intersect DOMAIN a.attachments # {}
    BY <1>4 DEF DepthStencil
  <2>2. HasDataDependency(list[j], list[i])
    BY <1>1, <2>1, PlaneClashes, ClashStops
  <2>3. /\ IsListed(x) /\ IsWhole(x) /\ IsLike(x, a) /\ Alters(x) = Alters(a)
        /\ DOMAIN x.attachments = DOMAIN a.attachments
        /\ \A p \in DOMAIN x.attachments :
              x.attachments[p].store = "dont_care" => p \in b.planes
    BY <1>1, RenderDropped
  <2>4. IsChanged(after, list, j, x, i, b)
    <3>1. after = [list EXCEPT ![j] = x]
      OBVIOUS
    <3> HIDE DEF x
    <3>2. [list EXCEPT ![j] = x, ![i] = list[i]] = [list EXCEPT ![j] = x]
      BY <1>1
    <3> QED
      BY <3>1, <3>2 DEF IsChanged
  <2> HIDE DEF x
  <2>5. /\ AreListed(after) /\ DOMAIN after = DOMAIN list /\ Len(after) = Len(list)
        /\ after[j] = x /\ after[i] = b
        /\ \A k \in DOMAIN list \ {j, i} : after[k] = list[k]
    BY ONLY <1>1, <2>3, <2>4, ExceptListed
  <2>6. \A k \in DOMAIN list \ {j} : after[k] = list[k]
    BY <2>5
  <2>7. IsSound(after, j)
    <3>1. /\ IsLike(after[j], list[j]) /\ Alters(after[j]) = Alters(list[j])
          /\ IsWhole(after[j]) /\ DOMAIN after[j].attachments = DOMAIN list[j].attachments
          /\ \A p \in DOMAIN after[j].attachments :
               after[j].attachments[p].store = "dont_care" => p \in list[i].planes
      BY <2>3, <2>5
    <3> QED
      BY <1>1, <2>5, <2>6, <3>1, NotStoredSound
  <2>8. AreDone(after) /\ AreDone(list)
    BY <1>1, <2>7, SoundDone
  <2>9. x.type = "render"
    BY <1>1, <2>3 DEF IsLike
  <2>10. \A k \in DOMAIN list : \A c \in AreContents :
           ContentsAfter(c, after[k]) = ContentsAfter(c, list[k])
           /\ SeenBy(c, after[k]) = SeenBy(c, list[k])
    <3>1. ASSUME NEW c
          PROVE  ContentsAfter(c, x) = ContentsAfter(c, a) /\ SeenBy(c, x) = SeenBy(c, a)
      BY <1>1, <1>2, <2>3, <2>9, DroppedSame
    <3> QED
      BY <2>5, <2>6, <3>1
  <2>11. SameEffect(list, after)
    BY <2>5, <2>8, <2>10, SameEach
  <2> QED
    BY <2>2, <2>5, <2>7, <2>11
<1> QED
  BY <1>3, <1>4

LEMMA ChecksResolve ==
  ASSUME NEW list, NEW j, NEW i, IsPair(list, j, i),
         list[j].type = "render", list[i].type = "resolve", MayResolve(list[j], list[i]),
         NEW after,
         after = [list EXCEPT ![j] = Absorbed(ResolvedBy(list[j], list[i]), list[i]),
                              ![i] = Null(list[i])]
  PROVE  Len(after) = Len(list) /\ SameEffect(list, after) /\ GoesOn(after, j, i)
<1> DEFINE a == list[j]
           b == list[i]
           x == Absorbed(ResolvedBy(a, b), b)
           y == Null(b)
<1>1. /\ j \in DOMAIN list /\ i \in DOMAIN list /\ j # i /\ i # j /\ j \in Nat /\ i \in Nat
      /\ AreListed(list) /\ IsWhole(a) /\ IsWhole(b) /\ IsRecorded(a) /\ IsEncoder(b)
      /\ j \in Live(list) /\ i \in Live(list) /\ j < i /\ IsSound(list, j + 1)
      /\ Apart(list, j, i) /\ a.type = "render" /\ b.type = "resolve"
      /\ IdsOf(a) \intersect IdsOf(b) = {}
  BY PairIs DEF IsPair, IsListed
<1>2. TargetsAreUnused(list)
  BY <1>1 DEF IsSound
<1>3. ResourceOf(b.dst) \notin ResourcesUsed(a)
  BY <1>1, <1>2 DEF TargetsAreUnused
<1>4. IsListed(y) /\ y.type = "null"
  BY <1>1, NullIs
<1>5. /\ IsListed(x) /\ x.type = "render" /\ IsWhole(x) /\ IsRecorded(x)
      /\ Carries(x, a, b) /\ TakesOver(x, a, b)
      /\ x.cmds = a.cmds /\ x.uses = a.uses \union b.uses
      /\ ResourceOf(b.src) \in ResourcesWritten(a)
      /\ \A p : IsReadonly(x, p) => IsReadonly(a, p)
  BY <1>1, <1>3, RenderResolved
<1>6. IsChanged(after, list, j, x, i, y)
  BY DEF IsChanged
<1>7. /\ b.src \in DOMAIN a.attachments /\ a.attachments[b.src].resolve = None
      /\ ~ a.attachments[b.src].readonly
  <2>1. b.src \in DOMAIN a.attachments /\ a.attachments[b.src].resolve = None
    BY DEF MayResolve
  <2>2. ~ IsDepthStencil(b.src) /\ IsAttachment(a, b.src)
    BY <1>1, <2>1 DEF IsWhole
  <2> QED
    BY <2>1, <2>2 DEF IsAttachment
<1>8. MayMove(list, j, i, {b.dst})
  <2>1. \A k \in Live(list) : k < i => ResourceOf(b.dst) \notin ResourcesUsed(list[k])
    BY <1>1, <1>2 DEF TargetsAreUnused
  <2> QED
    BY <2>1 DEF MayMove
<1> HIDE DEF x, y
<1>9. /\ AreListed(after) /\ DOMAIN after = DOMAIN list /\ Len(after) = Len(list)
      /\ after[j] = x /\ after[i] = y
      /\ \A k \in DOMAIN list \ {j, i} : after[k] = list[k]
  BY ONLY <1>1, <1>4, <1>5, <1>6, ExceptListed
<1>10. Moves(list, after, i, j)
  <2>1. {i, j} = {j, i}
    OBVIOUS
  <2> QED
    BY <1>1, <1>4, <1>5, <1>9, <2>1 DEF Moves
<1>11. IsSound(after, j + 1) /\ Apart(after, j, i + 1)
  <2>1. /\ IsWhole(after[j]) /\ IsRecorded(after[j])
        /\ list[i].type = "resolve" /\ list[j].type = "render"
        /\ ResourceOf(list[i].src) \in ResourcesWritten(list[j])
        /\ \A p : IsReadonly(after[j], p) => IsReadonly(list[j], p)
    BY <1>1, <1>5, <1>9
  <2> QED
    BY <1>1, <1>9, <1>10, <2>1, UpSound
<1>12. GoesOn(after, j, i)
  BY <1>5, <1>9, <1>11 DEF GoesOn
<1>13. Exchange(a, b, x, y, {b.dst})
  BY <1>1, <1>4, <1>5, <1>7, ResolveExchange
<1>14. Exchange(list[j], list[i], after[j], after[i], {b.dst})
  BY <1>9, <1>13
<1>15. OnlyChanges(list, after, j, i) /\ AreDone(after)
  BY <1>9, <1>11, SoundDone DEF OnlyChanges
<1>16. SameEffect(list, after)
  BY <1>8, <1>14, <1>15, PairEffect
<1> QED
  BY <1>9, <1>12, <1>16

LEMMA ChecksMerge ==
  ASSUME NEW list, NEW j, NEW i, IsPair(list, j, i),
         list[j].type = "render", list[i].type = "render", MayMerge(list[j], list[i]),
         NEW after,
         after = [list EXCEPT ![j] = Null(list[j]), ![i] = Merged(list[j], list[i])]
  PROVE  Len(after) = Len(list) /\ SameEffect(list, after) /\ IsSound(after, j)
<1> DEFINE a == list[j]
           b == list[i]
           x == Null(a)
           y == Merged(a, b)
<1>1. /\ j \in DOMAIN list /\ i \in DOMAIN list /\ j # i /\ j \in Nat /\ i \in Nat
      /\ AreListed(list) /\ IsWhole(a) /\ IsWhole(b) /\ IsRecorded(a) /\ IsEncoder(a)
      /\ j \in Live(list) /\ i \in Live(list) /\ j < i /\ IsSound(list, j + 1)
      /\ Apart(list, j, i) /\ a.type = "render" /\ b.type = "render"
      /\ IdsOf(a) \intersect IdsOf(b) = {}
  BY PairIs DEF IsPair, IsListed
<1>2. IsListed(x) /\ x.type = "null"
  BY <1>1, NullIs
<1>3. /\ IsListed(y) /\ y.type = "render" /\ IsWhole(y) /\ Carries(y, b, a)
      /\ Joins(y, a, b) /\ y.cmds = a.cmds \o b.cmds /\ y.uses = b.uses \union a.uses
      /\ \A p \in DOMAIN y.attachments :
           y.attachments[p].store = "dont_care" =>
             p \in DOMAIN b.attachments /\ b.attachments[p].store = "dont_care"
  <2>1. y = Merged(a, b)
    OBVIOUS
  <2> HIDE DEF y
  <2>2. MergesInto(y, a, b)
    BY <1>1, <2>1, RenderMerged
  <2> QED
    BY ONLY <2>2 DEF MergesInto
<1>4. IsChanged(after, list, j, x, i, y)
  BY DEF IsChanged
<1> HIDE DEF x, y
<1>5. /\ AreListed(after) /\ DOMAIN after = DOMAIN list /\ Len(after) = Len(list)
      /\ after[j] = x /\ after[i] = y
      /\ \A k \in DOMAIN list \ {j, i} : after[k] = list[k]
  BY ONLY <1>1, <1>2, <1>3, <1>4, ExceptListed
<1>6. Moves(list, after, j, i)
  BY <1>1, <1>2, <1>3, <1>5 DEF Moves
<1>7. IsSound(after, j)
  <2>1. /\ IsWhole(after[i]) /\ list[j].type # "resolve" /\ list[i].type = "render"
        /\ \A p \in DOMAIN after[i].attachments :
             after[i].attachments[p].store = "dont_care" =>
               p \in DOMAIN list[i].attachments /\ list[i].attachments[p].store = "dont_care"
    BY <1>1, <1>3, <1>5
  <2> QED
    BY <1>1, <1>5, <1>6, <2>1, DownSound
<1>8. Exchange(a, b, x, y, MovedBy(a))
  BY <1>1, <1>2, <1>3, MergeExchange
<1>9. Exchange(list[j], list[i], after[j], after[i], MovedBy(a))
  BY <1>5, <1>8
<1>10. MayMove(list, j, i, MovedBy(a))
  <2>1. \A p \in MovedBy(a) : ResourceOf(p) \in ResourcesWritten(a)
    BY <1>1 DEF MovedBy, IsWhole, IsAttachment
  <2>2. ResourcesWritten(a) \subseteq Alters(a)
    BY <1>1, AltersUsed
  <2> QED
    BY <2>1, <2>2 DEF MayMove
<1>11. OnlyChanges(list, after, j, i) /\ AreDone(after)
  BY <1>5, <1>7, SoundDone DEF OnlyChanges
<1>12. SameEffect(list, after)
  BY <1>9, <1>10, <1>11, PairEffect
<1> QED
  BY <1>5, <1>7, <1>12

(* One comparison, and what it leaves.                                     *)
Compares(list, s, j, i) ==
  /\ Len(s.list) = Len(list) /\ SameEffect(list, s.list)
  /\ s.stop => IsSound(s.list, j)
  /\ ~ s.stop => GoesOn(s.list, j, i)

LEMMA CheckSound ==
  ASSUME NEW list, NEW j, NEW i, IsPair(list, j, i), list[j].type \in {"clear", "render"}
  PROVE  Compares(list, CheckEncoderRelation(list, j, i), j, i)
<1> DEFINE s == CheckEncoderRelation(list, j, i)
           former == list[j]
           latter == list[i]
           types == <<former.type, latter.type>>
           dependent == HasDataDependency(former, latter)
           clear == Unmatched(former, latter)
           cleared == ClearedBy(latter, former)
<1>1. /\ former.type \in {"clear", "render"} /\ former.type # "null" /\ former.type # "event"
      /\ j # i /\ j \in Nat /\ IsSound(list, j + 1)
  BY PairIs DEF IsPair
<1>2. IsSound(list, j) /\ SameEffect(list, list)
  BY <1>1, SoundBefore, EffectSelf
<1>3. dependent \in BOOLEAN
  BY DEF HasDataDependency
<1>4. CASE latter.type = "event"
  <2>1. {former.type, latter.type} \intersect Fixed # {}
    BY <1>4 DEF Fixed
  <2>2. s = Stop(list)
    BY <1>1, <1>4, <2>1 DEF CheckEncoderRelation
  <2>3. s.list = list /\ s.stop
    BY <2>2 DEF Stop
  <2> QED
    BY <1>2, <2>3 DEF Compares
<1>5. CASE latter.type # "event"
  <2>1. {former.type, latter.type} \intersect Fixed = {}
    BY <1>1, <1>5 DEF Fixed
  <2>2. CASE types = <<"clear", "render">> /\ clear.planes = {}
    <3> DEFINE after == [list EXCEPT ![j] = Null(former), ![i] = Absorbed(cleared, former)]
    <3>1. s = Stop(after)
      BY <1>1, <2>1, <2>2 DEF CheckEncoderRelation
    <3>2. s.list = after /\ s.stop
      BY <3>1 DEF Stop
    <3>3. former.type = "clear" /\ latter.type = "render"
      BY <2>2
    <3>4. Len(after) = Len(list) /\ IsSound(after, j) /\ SameEffect(list, after)
      BY <2>2, <3>3, ChecksClear
    <3> HIDE DEF after, s
    <3> QED
      BY <3>2, <3>4 DEF Compares, s
  <2>3. CASE types = <<"clear", "render">> /\ clear.planes # {}
    <3> DEFINE after == [list EXCEPT ![j] = clear, ![i] = cleared]
    <3>1. s = [list |-> after, stop |-> dependent]
      BY <1>1, <2>1, <2>3 DEF CheckEncoderRelation
    <3>2. s.list = after /\ (s.stop <=> dependent)
      BY <1>3, <3>1
    <3>3. former.type = "clear" /\ latter.type = "render"
      BY <2>3
    <3>4. /\ Len(after) = Len(list) /\ SameEffect(list, after)
          /\ dependent => IsSound(after, j)
          /\ ~ dependent => GoesOn(after, j, i)
      BY <3>3, ChecksPart
    <3> HIDE DEF after, s, dependent
    <3> QED
      BY <3>2, <3>4 DEF Compares, s
  <2>4. CASE types = <<"render", "clear">>
    <3> DEFINE after == [list EXCEPT ![j] = NotStored(former, latter)]
    <3>1. s = [list |-> after, stop |-> dependent]
      BY <1>1, <2>1, <2>4 DEF CheckEncoderRelation
    <3>2. s.list = after /\ (s.stop <=> dependent)
      BY <1>3, <3>1
    <3>3. former.type = "render" /\ latter.type = "clear"
      BY <2>4
    <3>4. /\ Len(after) = Len(list) /\ SameEffect(list, after)
          /\ dependent => IsSound(after, j)
          /\ ~ dependent => GoesOn(after, j, i)
      BY <3>3, ChecksNotStored
    <3> HIDE DEF after, s, dependent
    <3> QED
      BY <3>2, <3>4 DEF Compares, s
  <2>5. CASE types = <<"render", "resolve">> /\ MayResolve(former, latter)
    <3> DEFINE after == [list EXCEPT ![j] = Absorbed(ResolvedBy(former, latter), latter),
                                     ![i] = Null(latter)]
    <3>1. s = Continue(after)
      BY <1>1, <2>1, <2>5 DEF CheckEncoderRelation
    <3>2. s.list = after /\ ~ s.stop
      BY <3>1 DEF Continue
    <3>3. former.type = "render" /\ latter.type = "resolve"
      BY <2>5
    <3>4. Len(after) = Len(list) /\ SameEffect(list, after) /\ GoesOn(after, j, i)
      BY <2>5, <3>3, ChecksResolve
    <3> HIDE DEF after, s
    <3> QED
      BY <3>2, <3>4 DEF Compares, s
  <2>6. CASE types = <<"render", "render">> /\ MayMerge(former, latter)
    <3> DEFINE after == [list EXCEPT ![j] = Null(former), ![i] = Merged(former, latter)]
    <3>1. s = Stop(after)
      BY <1>1, <2>1, <2>6 DEF CheckEncoderRelation
    <3>2. s.list = after /\ s.stop
      BY <3>1 DEF Stop
    <3>3. former.type = "render" /\ latter.type = "render"
      BY <2>6
    <3>4. Len(after) = Len(list) /\ IsSound(after, j) /\ SameEffect(list, after)
      BY <2>6, <3>3, ChecksMerge
    <3> HIDE DEF after, s
    <3> QED
      BY <3>2, <3>4 DEF Compares, s
  <2>7. CASE /\ types # <<"clear", "render">> /\ types # <<"render", "clear">>
             /\ ~ (types = <<"render", "resolve">> /\ MayResolve(former, latter))
             /\ ~ (types = <<"render", "render">> /\ MayMerge(former, latter))
    <3>1. s = [list |-> list, stop |-> dependent]
      BY <1>1, <2>1, <2>7 DEF CheckEncoderRelation
    <3>2. s.list = list /\ (s.stop <=> dependent)
      BY <1>3, <3>1
    <3>3. ~ dependent => GoesOn(list, j, i)
      BY <1>1, IndependentGoesOn
    <3> HIDE DEF s, dependent
    <3> QED
      BY <1>2, <3>2, <3>3 DEF Compares, s
  <2> QED
    BY <2>2, <2>3, <2>4, <2>5, <2>6, <2>7
<1> QED
  BY <1>4, <1>5

-----------------------------------------------------------------------------
(* The whole list.                                                         *)

(* The loops.                                                              *)
Reached(list, s, j, i) ==
  /\ Len(s.list) = Len(list) /\ SameEffect(list, s.list)
  /\ s.stop => IsSound(s.list, j)
  /\ ~ s.stop => GoesOn(s.list, j, i)

LEMMA VisitReaches ==
  ASSUME NEW list, NEW s, NEW j \in Nat, NEW i \in Nat, j < i, j > 0, i <= Len(list),
         Reached(list, s, j, i - 1)
  PROVE  Reached(list, Visit(s, j, i), j, i)
<1>1. /\ Len(s.list) = Len(list) /\ SameEffect(list, s.list)
      /\ s.stop => IsSound(s.list, j)
      /\ ~ s.stop => GoesOn(s.list, j, i - 1)
  BY DEF Reached
<1>2. (i - 1) + 1 = i
  OBVIOUS
<1>3. CASE s.stop
  <2>1. Visit(s, j, i) = s
    BY <1>3 DEF Visit
  <2> QED
    BY <1>1, <1>3, <2>1 DEF Reached
<1>4. CASE ~ s.stop
  <2>1. /\ IsSound(s.list, j + 1) /\ Apart(s.list, j, i)
        /\ s.list[j].type \in {"clear", "render"}
    BY <1>1, <1>2, <1>4 DEF GoesOn
  <2>2. /\ Len(s.list) \in Nat /\ DOMAIN s.list = 1 .. Len(s.list) /\ DOMAIN s.list \subseteq Nat
    BY <2>1, SoundIs
  <2>3. j \in DOMAIN s.list /\ i \in DOMAIN s.list
    BY <1>1, <2>2
  <2>4. CASE s.list[i].type = "null"
    <3>1. Visit(s, j, i) = s
      BY <2>4 DEF Visit
    <3>2. i \notin Live(s.list)
      BY <2>4 DEF Live
    <3>3. Apart(s.list, j, i + 1)
      BY <2>1, <2>2, <3>2, ApartNext
    <3> QED
      BY <1>1, <1>4, <2>1, <3>1, <3>3 DEF Reached, GoesOn
  <2>5. CASE s.list[i].type # "null"
    <3> DEFINE t == CheckEncoderRelation(s.list, j, i)
    <3>1. Visit(s, j, i) = t
      BY <1>4, <2>5 DEF Visit
    <3>2. IsPair(s.list, j, i)
      BY <2>1, <2>3, <2>5 DEF IsPair, Live
    <3>3. Compares(s.list, t, j, i)
      BY <2>1, <3>2, CheckSound
    <3> HIDE DEF t
    <3>4. /\ Len(t.list) = Len(s.list) /\ SameEffect(s.list, t.list)
          /\ t.stop => IsSound(t.list, j)
          /\ ~ t.stop => GoesOn(t.list, j, i)
      BY <3>3 DEF Compares
    <3>5. SameEffect(list, t.list)
      BY <1>1, <3>4, EffectThen
    <3> QED
      BY <1>1, <3>1, <3>4, <3>5 DEF Reached
  <2> QED
    BY <2>4, <2>5
<1> QED
  BY <1>3, <1>4

LEMMA MoveDownSound ==
  ASSUME NEW list, NEW j \in DOMAIN list, list[j].type \in {"clear", "render"},
         IsSound(list, j + 1)
  PROVE  /\ Len(MoveDown(list, j)) = Len(list) /\ SameEffect(list, MoveDown(list, j))
         /\ IsSound(MoveDown(list, j), j)
<1> DEFINE n == Len(list) - j
<1>1. /\ n \in Nat /\ Len(list) \in Nat /\ DOMAIN list = 1 .. Len(list) /\ j \in Nat \ {0}
      /\ n + j = Len(list)
  <2>1. Len(list) \in Nat /\ DOMAIN list = 1 .. Len(list)
    BY SoundIs
  <2> QED
    BY <2>1
<1>2. PICK f : /\ f[0] = Continue(list)
               /\ \A k \in 1 .. n : f[k] = Visit(f[k - 1], j, j + k)
               /\ MoveDown(list, j) = f[n].list
  BY <1>1, MoveDownIs
<1> HIDE DEF n
<1> DEFINE T == { k \in 0 .. n : Reached(list, f[k], j, j + k) }
<1>3. 0 \in T
  <2>1. f[0].list = list /\ ~ f[0].stop /\ j + 0 = j
    BY <1>1, <1>2 DEF Continue
  <2>2. Apart(list, j, j + 1)
    <3>1. \A m \in Live(list) : ~ (j < m /\ m < j + 1)
      BY <1>1 DEF Live
    <3> QED
      BY <3>1 DEF Apart
  <2>3. GoesOn(list, j, j)
    BY <2>2 DEF GoesOn
  <2>4. Reached(list, f[0], j, j)
    BY <2>1, <2>3, EffectSelf DEF Reached
  <2> QED
    BY <1>1, <2>1, <2>4
<1>4. ASSUME NEW k \in 0 .. n - 1, k \in T
      PROVE  k + 1 \in T
  <2> DEFINE s == f[k]
             i == j + (k + 1)
  <2>1. /\ k + 1 \in 1 .. n /\ k + 1 \in 0 .. n /\ (k + 1) - 1 = k /\ i \in 1 .. Len(list)
        /\ i - 1 = j + k /\ j < i /\ i \in Nat /\ i <= Len(list) /\ j > 0
    BY <1>1
  <2>2. f[k + 1] = Visit(s, j, i)
    BY <1>2, <2>1
  <2>3. Reached(list, s, j, i - 1)
    BY <1>4, <2>1
  <2> HIDE DEF s, i, T
  <2>4. Reached(list, Visit(s, j, i), j, i)
    BY <1>1, <2>1, <2>3, VisitReaches
  <2>5. Reached(list, f[k + 1], j, j + (k + 1))
    BY <2>2, <2>4 DEF i
  <2> QED
    BY <2>1, <2>5 DEF T
<1>5. n \in T
  <2> HIDE DEF T
  <2>1. n \in Nat /\ 0 \in T /\ \A k \in 0 .. n - 1 : k \in T => k + 1 \in T
    BY <1>1, <1>3, <1>4
  <2>2. 0 .. n \subseteq T
    BY ONLY <2>1, Induction
  <2> QED
    BY <2>1, <2>2
<1>6. Reached(list, f[n], j, j + n)
  BY <1>5
<1>7. IsSound(f[n].list, j)
  BY <1>1, <1>6, SoundBefore DEF Reached, GoesOn
<1> QED
  BY <1>2, <1>6, <1>7 DEF Reached

LEMMA MovedSound ==
  ASSUME NEW list, NEW j \in DOMAIN list, IsSound(list, j + 1)
  PROVE  /\ Len(Moved(list, j)) = Len(list) /\ SameEffect(list, Moved(list, j))
         /\ IsSound(Moved(list, j), j)
<1>1. CASE list[j].type \in {"clear", "render"}
  <2>1. Moved(list, j) = MoveDown(list, j)
    BY <1>1 DEF Moved
  <2> QED
    BY <1>1, <2>1, MoveDownSound
<1>2. CASE list[j].type \notin {"clear", "render"}
  <2>1. Moved(list, j) = list
    BY <1>2 DEF Moved
  <2>2. j \in Nat
    BY SoundIs
  <2>3. IsSound(list, j)
    BY <2>2, SoundBefore
  <2> QED
    BY <2>1, <2>3, EffectSelf
<1> QED
  BY <1>1, <1>2

LEMMA AllMovedSound ==
  ASSUME NEW list, IsSound(list, Len(list) + 1)
  PROVE  /\ Len(AllMoved(list)) = Len(list) /\ SameEffect(list, AllMoved(list))
         /\ IsSound(AllMoved(list), 1)
<1> DEFINE n == Len(list)
<1>1. n \in Nat /\ DOMAIN list = 1 .. n
  BY SoundIs
<1>2. PICK f : /\ f[0] = list
               /\ \A k \in 1 .. n : f[k] = Moved(f[k - 1], n + 1 - k)
               /\ AllMoved(list) = f[n]
  BY <1>1, AllMovedIs
<1> DEFINE Fits(s, j) == Len(s) = n /\ SameEffect(list, s) /\ IsSound(s, j)
           T == { k \in 0 .. n : Fits(f[k], n + 1 - k) }
<1>3. 0 \in T
  <2>1. n + 1 - 0 = n + 1 /\ 0 \in 0 .. n
    BY <1>1
  <2> QED
    BY <1>1, <1>2, <2>1, EffectSelf
<1> HIDE DEF n
<1>4. ASSUME NEW k \in 0 .. n - 1, k \in T
      PROVE  k + 1 \in T
  <2> DEFINE s == f[k]
             j == n + 1 - (k + 1)
  <2>1. /\ k + 1 \in 1 .. n /\ k + 1 \in 0 .. n /\ (k + 1) - 1 = k /\ j \in 1 .. n
        /\ n + 1 - k = j + 1 /\ j \in Nat
    BY <1>1
  <2>2. f[k + 1] = Moved(s, j)
    BY <1>2, <2>1
  <2>3. Len(s) = n /\ SameEffect(list, s) /\ IsSound(s, j + 1)
    BY <1>4, <2>1
  <2> HIDE DEF s, j, T
  <2>4. j \in DOMAIN s
    <3>1. DOMAIN s = 1 .. Len(s)
      BY <2>3, SoundIs
    <3> QED
      BY <2>1, <2>3, <3>1
  <2>5. Len(Moved(s, j)) = Len(s) /\ SameEffect(s, Moved(s, j)) /\ IsSound(Moved(s, j), j)
    BY <2>3, <2>4, MovedSound
  <2>6. Fits(f[k + 1], j)
    BY <2>2, <2>3, <2>5, EffectThen
  <2> HIDE DEF Fits
  <2> QED
    BY <2>1, <2>6 DEF T, j
<1>5. n \in T
  <2> HIDE DEF T
  <2>1. n \in Nat /\ 0 \in T /\ \A k \in 0 .. n - 1 : k \in T => k + 1 \in T
    BY <1>1, <1>3, <1>4
  <2>2. 0 .. n \subseteq T
    BY ONLY <2>1, Induction
  <2> QED
    BY <2>1, <2>2
<1>6. n + 1 - n = 1
  BY <1>1
<1>7. Fits(f[n], 1)
  BY <1>5, <1>6
<1> QED
  BY <1>2, <1>7 DEF n

-----------------------------------------------------------------------------
(* What it is to run a list.                                               *)

InitialRun == [contents |-> InitialContents, seen |-> {}]

(* What a render or another pass draws and sees.                           *)
LoadedOf(c, e) == Before(c, e, e.attachments)
DrawnOf(c, e) == Drawn(LoadedOf(c, e), e)

LEMMA LoadedOfIs ==
  ASSUME NEW c, NEW e, NEW p \in Planes
  PROVE  /\ p \in DOMAIN e.attachments => LoadedOf(c, e)[p] = LoadedAt(c, e, p)
         /\ p \notin DOMAIN e.attachments => LoadedOf(c, e)[p] = c[p]
  BY DEF LoadedOf, Before, LoadedAt

LEMMA DrawnOfIs ==
  ASSUME NEW c, NEW e, NEW p \in Planes
  PROVE  DrawnOf(c, e)[p] = DrawnAt(c, e, p)
<1>1. DrawnOf(c, e)[p] = IF p \in Written(e.attachments) THEN LoadedOf(c, e)[p] \o e.cmds
                         ELSE LoadedOf(c, e)[p]
  BY DEF DrawnOf, Drawn
<1>2. CASE p \notin DOMAIN e.attachments
  <2>1. p \notin Written(e.attachments)
    BY <1>2 DEF Written
  <2>2. DrawnOf(c, e)[p] = c[p]
    BY <1>1, <1>2, <2>1, LoadedOfIs
  <2> QED
    BY <1>2, <2>2, DrawnIs
<1>3. CASE p \in DOMAIN e.attachments /\ e.attachments[p].readonly
  <2>1. p \notin Written(e.attachments)
    BY <1>3 DEF Written
  <2>2. DrawnOf(c, e)[p] = LoadedAt(c, e, p)
    BY <1>1, <1>3, <2>1, LoadedOfIs
  <2>3. DrawnAt(c, e, p) = LoadedAt(c, e, p)
    BY <1>3, DrawnIs
  <2> QED
    BY <2>2, <2>3
<1>4. CASE p \in DOMAIN e.attachments /\ ~ e.attachments[p].readonly
  <2>1. p \in Written(e.attachments)
    BY <1>4 DEF Written
  <2>2. LoadedOf(c, e)[p] = LoadedAt(c, e, p)
    BY <1>4, LoadedOfIs
  <2>3. DrawnOf(c, e)[p] = LoadedOf(c, e)[p] \o e.cmds
    BY ONLY <1>1, <2>1
  <2>4. DrawnAt(c, e, p) = LoadedAt(c, e, p) \o e.cmds
    BY ONLY <1>4 DEF DrawnAt
  <2> QED
    BY ONLY <2>2, <2>3, <2>4
<1> QED
  BY <1>2, <1>3, <1>4

(* The reads of a pass.                                                    *)
ReadOf(c, e) ==
  { <<u.id, p, LoadedOf(c, e)[p]>> : u \in { u \in e.uses : ~ IsWrite(u.mode) }, p \in Planes }
SeenFrom(c, e) ==
  { t \in ReadOf(c, e) : \E u \in e.uses :
      u.id = t[1] /\ ~ IsWrite(u.mode) /\ t[2] \in PlanesOf[u.res]
      /\ t[2] \notin DOMAIN e.attachments }

LEMMA SeenFromIs ==
  ASSUME NEW c, NEW e, IsWhole(e)
  PROVE  SeenOf(c, e) = { t \in SeenFrom(c, e) : t[1] \notin Resolvers(e) }
<1>1. \A u \in e.uses : u.res \in Resources
  BY DEF IsWhole
<1>2. ASSUME NEW t \in SeenOf(c, e)
      PROVE  t \in SeenFrom(c, e) /\ t[1] \notin Resolvers(e)
  <2>1. PICK u \in Readers(e) : t \in { <<u.id, p, c[p]>> : p \in PlanesRead(e, u) }
    BY <1>2 DEF SeenOf
  <2>2. PICK p \in PlanesRead(e, u) : t = <<u.id, p, c[p]>>
    BY <2>1
  <2>3. u \in e.uses /\ ~ IsWrite(u.mode) /\ u.id \notin Resolvers(e)
    BY DEF Readers
  <2>4. p \in PlanesOf[u.res] /\ p \notin DOMAIN e.attachments /\ p \in Planes
    BY <1>1, <2>3, PlaneOwner DEF PlanesRead
  <2>5. LoadedOf(c, e)[p] = c[p]
    BY <2>4, LoadedOfIs
  <2>6. t[1] = u.id /\ t[2] = p /\ t = <<u.id, p, LoadedOf(c, e)[p]>>
    BY <2>2, <2>5
  <2>7. t \in ReadOf(c, e)
    BY <2>3, <2>4, <2>6 DEF ReadOf
  <2> QED
    BY <2>3, <2>4, <2>6, <2>7 DEF SeenFrom
<1>3. ASSUME NEW t \in SeenFrom(c, e), t[1] \notin Resolvers(e)
      PROVE  t \in SeenOf(c, e)
  <2>1. t \in ReadOf(c, e)
    BY DEF SeenFrom
  <2>2. PICK v \in { u \in e.uses : ~ IsWrite(u.mode) }, p \in Planes :
               t = <<v.id, p, LoadedOf(c, e)[p]>>
    BY <2>1 DEF ReadOf
  <2>3. t[1] = v.id /\ t[2] = p
    BY <2>2
  <2>4. PICK u \in e.uses : u.id = v.id /\ ~ IsWrite(u.mode) /\ p \in PlanesOf[u.res]
                            /\ p \notin DOMAIN e.attachments
    BY <2>3 DEF SeenFrom
  <2>5. u \in Readers(e) /\ p \in PlanesRead(e, u)
    BY <1>3, <2>3, <2>4 DEF Readers, PlanesRead
  <2>6. t = <<u.id, p, c[p]>>
    BY <2>2, <2>4, LoadedOfIs
  <2> QED
    BY <2>5, <2>6 DEF SeenOf
<1> QED
  BY <1>2, <1>3

(* What a render pass makes of a plane and of what was seen.               *)
LEMMA ExecutedRender ==
  ASSUME NEW s, NEW e, IsWhole(e), e.type = "render"
  PROVE  /\ Executed(s, e) = [contents |-> Executed(s, e).contents, seen |-> Executed(s, e).seen]
         /\ Executed(s, e).contents = [p \in Planes |-> Executed(s, e).contents[p]]
         /\ \A p \in Planes :
              /\ p \in ResolveTargets(e) => Executed(s, e).contents[p] = << ResolverOf(e, p) >>
              /\ ~ (p \in DOMAIN e.attachments /\ e.attachments[p].store = "dont_care") =>
                   Executed(s, e).contents[p] = ContentsAfter(s.contents, e)[p]
         /\ Executed(s, e).seen = s.seen \union SeenBy(s.contents, e)
<1> DEFINE c == s.contents
           R == ResolvedAt(e)
           Is(q, p) == e.attachments[q].resolve = p
           X == [p \in Planes |->
                   CASE \E q \in R : Is(q, p) ->
                          << e.attachments[CHOOSE q \in R : Is(q, p)].resolver >>
                     [] p \in DOMAIN e.attachments /\
                        e.attachments[p].store = "dont_care" -> <<>>
                     [] OTHER -> DrawnOf(c, e)[p]]
           Y == (s.seen \union { t \in SeenFrom(c, e) : t[1] \notin
                          { e.attachments[q].resolver : q \in R } })
                \union { <<e.attachments[q].resolver, q, DrawnOf(c, e)[q]>> : q \in R }
<1>1. Executed(s, e) = [contents |-> X, seen |-> Y]
  BY DEF Executed, SeenFrom, ReadOf, LoadedOf, DrawnOf, ResolvedAt
<1>2. Executed(s, e).contents = X /\ Executed(s, e).seen = Y
  <2> HIDE DEF X, Y
  <2> QED
    BY <1>1
<1>3. \A p : p \in ResolveTargets(e) <=> \E q \in R : Is(q, p)
  BY DEF ResolveTargets
<1>4. \A p : ResolverOf(e, p) = e.attachments[CHOOSE q \in R : Is(q, p)].resolver
  BY DEF ResolverOf
<1>5. \A p \in ResolveTargets(e) : p \notin DOMAIN e.attachments
  BY ResolverIs
<1>6. ASSUME NEW p \in Planes
      PROVE  /\ p \in ResolveTargets(e) => X[p] = << ResolverOf(e, p) >>
             /\ ~ (p \in DOMAIN e.attachments /\ e.attachments[p].store = "dont_care") =>
                   X[p] = ContentsAfter(c, e)[p]
  <2>1. X[p] = CASE \E q \in R : Is(q, p) ->
                          << e.attachments[CHOOSE q \in R : Is(q, p)].resolver >>
                     [] p \in DOMAIN e.attachments /\
                        e.attachments[p].store = "dont_care" -> <<>>
                     [] OTHER -> DrawnOf(c, e)[p]
    OBVIOUS
  <2> HIDE DEF X
  <2>2. DrawnOf(c, e)[p] = DrawnAt(c, e, p)
    BY DrawnOfIs
  <2>3. /\ p \in ResolveTargets(e) => ContentsAfter(c, e)[p] = << ResolverOf(e, p) >>
        /\ p \notin ResolveTargets(e) => ContentsAfter(c, e)[p] = DrawnAt(c, e, p)
    BY ContentsAt
  <2> DEFINE A == \E q \in R : Is(q, p)
             B == p \in DOMAIN e.attachments /\ e.attachments[p].store = "dont_care"
             r == << e.attachments[CHOOSE q \in R : Is(q, p)].resolver >>
             d == DrawnOf(c, e)[p]
  <2>4. X[p] = CASE A -> r [] B -> <<>> [] OTHER -> d
    BY <2>1
  <2>5. A <=> p \in ResolveTargets(e)
    BY <1>3
  <2>6. A => ~ B
    BY <1>5, <2>5
  <2>7. r = << ResolverOf(e, p) >>
    BY <1>4
  <2>8. d = DrawnAt(c, e, p)
    BY <2>2
  <2> HIDE DEF A, B, r, d
  <2>9. A => X[p] = r
    BY <2>4, <2>6
  <2>10. ~ A /\ ~ B => X[p] = d
    BY <2>4
  <2> QED
    BY <2>3, <2>5, <2>6, <2>7, <2>8, <2>9, <2>10 DEF B
<1>7. Y = s.seen \union SeenBy(c, e)
  <2>1. SeenOf(c, e) = { t \in SeenFrom(c, e) : t[1] \notin Resolvers(e) }
    BY SeenFromIs
  <2>2. { t \in SeenFrom(c, e) : t[1] \notin { e.attachments[q].resolver : q \in R } } = SeenOf(c, e)
    BY <2>1 DEF Resolvers
  <2>3. \A q \in R : DrawnOf(c, e)[q] = DrawnAt(c, e, q)
    <3>1. \A q \in R : q \in Planes
      BY DEF ResolvedAt, IsWhole, IsAttachment
    <3> QED
      BY <3>1, DrawnOfIs
  <2>4. { <<e.attachments[q].resolver, q, DrawnOf(c, e)[q]>> : q \in R } = SeenResolved(c, e)
    BY <2>3 DEF SeenResolved
  <2>5. SeenBy(c, e) = SeenOf(c, e) \union SeenResolved(c, e)
    BY RenderSees
  <2> QED
    BY <2>2, <2>4, <2>5
<1>8. X = [p \in Planes |-> X[p]]
  OBVIOUS
<1> HIDE DEF X, Y
<1> QED
  BY <1>1, <1>2, <1>6, <1>7, <1>8

(* Contents and what was seen.                                             *)
IsResult(s) ==
  /\ s = [contents |-> s.contents, seen |-> s.seen]
  /\ s.contents = [p \in Planes |-> s.contents[p]]

NotKept(e, p) == p \in DOMAIN e.attachments /\ e.attachments[p].store = "dont_care"

LEMMA ExecutedOther ==
  ASSUME NEW s, IsResult(s), NEW e, IsWhole(e),
         e.type \notin {"null", "clear", "resolve", "render"}
  PROVE  /\ IsResult(Executed(s, e))
         /\ \A p \in Planes : Executed(s, e).contents[p] = ContentsAfter(s.contents, e)[p]
         /\ Executed(s, e).seen = s.seen \union SeenBy(s.contents, e)
<1> DEFINE c == s.contents
           X == [p \in Planes |-> IF p \in PlaneWrites(e, e.uses) THEN Append(c[p], e.id) ELSE c[p]]
           Y == s.seen \union SeenFrom(c, e)
<1>1. Executed(s, e) = [contents |-> X, seen |-> Y]
  BY DEF Executed, SeenFrom, ReadOf, LoadedOf
<1>2. X = [p \in Planes |-> X[p]]
  OBVIOUS
<1>3. \A p \in Planes : X[p] = ContentsAfter(c, e)[p]
  BY DEF ContentsAfter
<1>4. SeenFrom(c, e) = SeenBy(c, e)
  <2>1. e.attachments = <<>>
    BY DEF IsWhole, NoAttachments
  <2>2. DOMAIN e.attachments = {}
    BY <2>1
  <2>3. Resolvers(e) = {}
    BY <2>2 DEF Resolvers, ResolvedAt
  <2>4. SeenOf(c, e) = SeenFrom(c, e)
    BY <2>3, SeenFromIs
  <2> QED
    BY <2>4 DEF SeenBy
<1> HIDE DEF X
<1>5. Executed(s, e).contents = X /\ Executed(s, e).seen = Y
  BY <1>1
<1> QED
  BY <1>1, <1>2, <1>3, <1>4, <1>5 DEF IsResult

LEMMA ExecutedClear ==
  ASSUME NEW s, IsResult(s), NEW e, e.type = "clear"
  PROVE  /\ IsResult(Executed(s, e))
         /\ \A p \in Planes : Executed(s, e).contents[p] = ContentsAfter(s.contents, e)[p]
         /\ Executed(s, e).seen = s.seen \union SeenBy(s.contents, e)
<1> DEFINE X == [p \in Planes |-> IF p \in e.planes THEN <<e.id>> ELSE s.contents[p]]
<1>1. Executed(s, e) = [s EXCEPT !.contents = X]
  BY DEF Executed
<1>2. X = [p \in Planes |-> X[p]]
  OBVIOUS
<1>3. \A p \in Planes : X[p] = ContentsAfter(s.contents, e)[p]
  BY DEF ContentsAfter
<1> HIDE DEF X
<1>4. s = [contents |-> s.contents, seen |-> s.seen]
  BY DEF IsResult
<1>5. Executed(s, e) = [contents |-> X, seen |-> s.seen]
  BY ONLY <1>1, <1>4
<1>6. Executed(s, e).contents = X /\ Executed(s, e).seen = s.seen
  BY <1>5
<1>7. SeenBy(s.contents, e) = {}
  BY DEF SeenBy
<1> QED
  BY <1>2, <1>3, <1>5, <1>6, <1>7 DEF IsResult

LEMMA ExecutedResolve ==
  ASSUME NEW s, IsResult(s), NEW e, IsWhole(e), e.type = "resolve"
  PROVE  /\ IsResult(Executed(s, e))
         /\ \A p \in Planes : Executed(s, e).contents[p] = ContentsAfter(s.contents, e)[p]
         /\ Executed(s, e).seen = s.seen \union SeenBy(s.contents, e)
<1> DEFINE X == [s.contents EXCEPT ![e.dst] = <<e.id>>]
           Y == s.seen \union { <<e.id, e.src, s.contents[e.src]>> }
<1>1. Executed(s, e) = [contents |-> X, seen |-> Y]
  BY DEF Executed
<1>2. s.contents = [p \in Planes |-> s.contents[p]]
  BY DEF IsResult
<1>3. X = [p \in Planes |-> X[p]] /\ \A p \in Planes : X[p] = IF p = e.dst THEN <<e.id>> ELSE s.contents[p]
  BY <1>2
<1> HIDE DEF X
<1>4. \A p \in Planes : X[p] = ContentsAfter(s.contents, e)[p]
  BY <1>3, ContentsAt
<1>5. Executed(s, e).contents = X /\ Executed(s, e).seen = Y
  BY <1>1
<1>6. Y = s.seen \union SeenBy(s.contents, e)
  BY DEF SeenBy
<1> QED
  BY <1>1, <1>3, <1>4, <1>5, <1>6 DEF IsResult

(* What a pass does, but for what it does not store.                       *)
LEMMA ExecutedIs ==
  ASSUME NEW s, IsResult(s), NEW e, IsWhole(e), e.type # "null"
  PROVE  /\ IsResult(Executed(s, e))
         /\ \A p \in Planes : ~ NotKept(e, p) =>
              Executed(s, e).contents[p] = ContentsAfter(s.contents, e)[p]
         /\ Executed(s, e).seen = s.seen \union SeenBy(s.contents, e)
<1>1. CASE e.type = "render"
  BY <1>1, ExecutedRender DEF IsResult, NotKept
<1>2. CASE e.type = "clear"
  BY <1>2, ExecutedClear
<1>3. CASE e.type = "resolve"
  BY <1>3, ExecutedResolve
<1>4. CASE e.type \notin {"null", "clear", "resolve", "render"}
  BY <1>4, ExecutedOther
<1> QED
  BY <1>1, <1>2, <1>3, <1>4

(* Every pass of a list executed in turn, without those that were dropped. *)
IsExecution(g, list, n) ==
  /\ g[0] = InitialRun
  /\ \A k \in 1 .. n : g[k] = IF list[k].type = "null" THEN g[k - 1]
                              ELSE Executed(g[k - 1], list[k])

(* A pass has not stored p and none has used it since.                     *)
LostAt(list, k, p) ==
  \E i \in Live(list) :
    /\ i <= k /\ NotKept(list[i], p)
    /\ \A m \in Live(list) : i < m /\ m <= k => ResourceOf(p) \notin ResourcesUsed(list[m])

(* What uses a lost plane clears it.                                       *)
LEMMA LostIsCleared ==
  ASSUME NEW list, NEW end, IsSound(list, end), NEW k \in Live(list), NEW p \in Planes,
         LostAt(list, k - 1, p), ResourceOf(p) \in ResourcesUsed(list[k])
  PROVE  list[k].type = "clear" /\ p \in list[k].planes
<1>1. Live(list) \subseteq Nat
  BY SoundIs DEF Live
<1>2. PICK i \in Live(list) :
        /\ i <= k - 1 /\ NotKept(list[i], p)
        /\ \A m \in Live(list) : i < m /\ m <= k - 1 => ResourceOf(p) \notin ResourcesUsed(list[m])
  BY DEF LostAt
<1>3. IsCleared(list, end, i, p)
  BY <1>2 DEF IsSound, StoresAreCleared, NotKept
<1>4. PICK m \in Live(list) :
         /\ i < m /\ list[m].type = "clear" /\ p \in list[m].planes
         /\ \A x \in Live(list) : i < x /\ x < m => ResourceOf(p) \notin ResourcesUsed(list[x])
  BY <1>3 DEF IsCleared
<1>5. IsWhole(list[m])
  BY SoundIs
<1>6. ResourceOf(p) \in ResourcesUsed(list[m])
  <2>1. ResourceOf(p) \in ResourcesWritten(list[m])
    BY <1>4, <1>5 DEF IsWhole
  <2> QED
    BY <2>1 DEF ResourcesWritten, ResourcesUsed
<1>7. i \in Nat /\ m \in Nat /\ k \in Nat
  BY <1>1
<1>8. ~ (k < m)
  BY <1>2, <1>4, <1>7
<1>9. ~ (m <= k - 1)
  BY <1>2, <1>4, <1>6
<1>10. k = m
  BY <1>7, <1>8, <1>9
<1> QED
  BY <1>4, <1>10

LEMMA NotLostBefore ==
  ASSUME NEW list, DOMAIN list \subseteq Nat, NEW k \in Nat, NEW p, LostAt(list, k, p),
         k + 1 \in Live(list) => ResourceOf(p) \notin ResourcesUsed(list[k + 1])
  PROVE  LostAt(list, k + 1, p)
<1>1. PICK i \in Live(list) :
        /\ i <= k /\ NotKept(list[i], p)
        /\ \A m \in Live(list) : i < m /\ m <= k => ResourceOf(p) \notin ResourcesUsed(list[m])
  BY DEF LostAt
<1>2. Live(list) \subseteq Nat
  BY DEF Live
<1>3. \A m \in Live(list) : m <= k + 1 => m <= k \/ m = k + 1
  BY <1>2
<1>4. i <= k + 1
  BY <1>1, <1>2
<1>5. \A m \in Live(list) : i < m /\ m <= k + 1 => ResourceOf(p) \notin ResourcesUsed(list[m])
  BY <1>1, <1>3
<1> QED
  BY <1>1, <1>4, <1>5 DEF LostAt

(* What was seen by the first k passes.                                    *)
SeenTo(list, k) == UNION { SeenBy(Contents(list)[i - 1], list[i]) : i \in 1 .. k }

LEMMA SeenToNext ==
  ASSUME NEW list, NEW k \in Nat
  PROVE  /\ SeenTo(list, 0) = {}
         /\ SeenTo(list, k + 1) = SeenTo(list, k) \union SeenBy(Contents(list)[k], list[k + 1])
<1>1. 1 .. 0 = {} /\ 1 .. k + 1 = (1 .. k) \union {k + 1} /\ (k + 1) - 1 = k
  OBVIOUS
<1>2. SeenTo(list, 0) = {}
  BY <1>1 DEF SeenTo
<1>3. SeenBy(Contents(list)[(k + 1) - 1], list[k + 1]) = SeenBy(Contents(list)[k], list[k + 1])
  BY <1>1
<1> DEFINE A == 1 .. k
           B == 1 .. k + 1
           l == k + 1
<1>4. B = A \union {l}
  BY <1>1
<1>5. /\ SeenTo(list, l) = UNION { SeenBy(Contents(list)[i - 1], list[i]) : i \in B }
      /\ SeenTo(list, k) = UNION { SeenBy(Contents(list)[i - 1], list[i]) : i \in A }
  BY DEF SeenTo
<1> HIDE DEF A, B, l
<1>6. SeenTo(list, l) = SeenTo(list, k) \union SeenBy(Contents(list)[l - 1], list[l])
  BY <1>4, <1>5
<1> QED
  BY <1>2, <1>3, <1>6 DEF l

(* The execution so far does what it would if all were stored.             *)
IsAsStored(s, list, k) ==
  /\ IsResult(s) /\ s.seen = SeenTo(list, k)
  /\ \A p \in Planes : ~ LostAt(list, k, p) => s.contents[p] = Contents(list)[k][p]

LEMMA StoredNext ==
  ASSUME NEW list, NEW end, IsSound(list, end), NEW k \in 0 .. Len(list) - 1,
         NEW s, IsAsStored(s, list, k), NEW t,
         t = IF list[k + 1].type = "null" THEN s ELSE Executed(s, list[k + 1])
  PROVE  IsAsStored(t, list, k + 1)
<1> DEFINE n == Len(list)
           e == list[k + 1]
           c == s.contents
           d == Contents(list)[k]
<1>1. /\ n \in Nat /\ DOMAIN list = 1 .. n /\ Live(list) \subseteq 1 .. n
      /\ \A i \in Live(list) : IsWhole(list[i])
  BY SoundIs
<1>2. k \in Nat /\ k + 1 \in 1 .. n /\ (k + 1) - 1 = k /\ DOMAIN list \subseteq Nat
  BY <1>1
<1>3. Contents(list)[k + 1] = ContentsAfter(d, e)
  <2>1. \A x \in 1 .. n : Contents(list)[x] = ContentsAfter(Contents(list)[x - 1], list[x])
    BY <1>1, ContentsIs
  <2> QED
    BY <1>2, <2>1
<1>4. SeenTo(list, k + 1) = SeenTo(list, k) \union SeenBy(d, e)
  BY <1>2, SeenToNext
<1>5. k + 1 \in Live(list) <=> e.type # "null"
  BY <1>1, <1>2 DEF Live
<1>6. \A p : LostAt(list, k, p) /\ ~ LostAt(list, k + 1, p) =>
               e.type # "null" /\ ResourceOf(p) \in ResourcesUsed(e)
  <2> SUFFICES ASSUME NEW p, LostAt(list, k, p), ~ LostAt(list, k + 1, p)
               PROVE  e.type # "null" /\ ResourceOf(p) \in ResourcesUsed(e)
    OBVIOUS
  <2>1. ~ (k + 1 \in Live(list) => ResourceOf(p) \notin ResourcesUsed(e))
    BY <1>2, NotLostBefore
  <2> QED
    BY <1>5, <2>1
<1>7. CASE e.type = "null"
  <2>1. t = s
    BY <1>7
  <2>2. \A p \in Planes : ContentsAfter(d, e)[p] = d[p]
    BY <1>7, ContentsAt
  <2>3. SeenBy(d, e) = {}
    BY <1>7 DEF SeenBy
  <2>4. \A p \in Planes : ~ LostAt(list, k + 1, p) => s.contents[p] = ContentsAfter(d, e)[p]
    BY <1>6, <1>7, <2>2 DEF IsAsStored
  <2> HIDE DEF d, e
  <2>5. s.seen = SeenTo(list, k + 1)
    BY <1>4, <2>3 DEF IsAsStored
  <2> QED
    BY <1>3, <2>1, <2>4, <2>5 DEF IsAsStored
<1>8. CASE e.type # "null"
  <2>1. k + 1 \in Live(list) /\ IsWhole(e) /\ IsDone(e)
    BY <1>1, <1>5, <1>8 DEF IsDone
  <2>2. t = Executed(s, e) /\ IsResult(s)
    BY <1>8 DEF IsAsStored
  <2>3. \A p \in Planes : LostAt(list, k, p) /\ ResourceOf(p) \in ResourcesUsed(e) =>
                            e.type = "clear" /\ p \in e.planes
    <3>1. \A x \in Live(list), p \in Planes :
             LostAt(list, x - 1, p) /\ ResourceOf(p) \in ResourcesUsed(list[x])
             => list[x].type = "clear" /\ p \in list[x].planes
      BY LostIsCleared
    <3> QED
      BY <1>2, <2>1, <3>1
  <2>4. \A p \in Planes : ~ LostAt(list, k, p) => c[p] = d[p]
    BY DEF IsAsStored
  <2> HIDE DEF c, d, e
  <2>5. /\ IsResult(t) /\ t.seen = s.seen \union SeenBy(c, e)
        /\ \A p \in Planes : ~ NotKept(e, p) => t.contents[p] = ContentsAfter(c, e)[p]
    BY <1>8, <2>1, <2>2, ExecutedIs DEF c
  <2>6. SeenBy(c, e) = SeenBy(d, e)
    <3>1. CASE e.type = "clear"
      BY <3>1 DEF SeenBy
    <3>2. CASE e.type # "clear"
      <4>1. \A p \in Planes : ResourceOf(p) \in ResourcesUsed(e) => c[p] = d[p]
        BY <2>3, <2>4, <3>2
      <4> QED
        BY <2>1, <4>1, SeenSame
    <3> QED
      BY <3>1, <3>2
  <2>7. ASSUME NEW p \in Planes, ~ LostAt(list, k + 1, p)
        PROVE  t.contents[p] = ContentsAfter(d, e)[p]
    <3>1. ~ NotKept(e, p)
      <4>1. SUFFICES ASSUME NotKept(e, p)
                     PROVE  LostAt(list, k + 1, p)
        BY <2>7
      <4>2. \A m \in Live(list) : ~ (k + 1 < m /\ m <= k + 1)
        BY <1>1, <1>2
      <4>3. k + 1 <= k + 1
        BY <1>2
      <4> QED
        BY <2>1, <4>1, <4>2, <4>3 DEF LostAt, e
    <3>2. t.contents[p] = ContentsAfter(c, e)[p]
      BY <2>5, <3>1
    <3>3. CASE ~ LostAt(list, k, p)
      <4>1. c[p] = d[p]
        BY <2>4, <3>3
      <4>2. ContentsAfter(c, e)[p] = ContentsAfter(d, e)[p]
        BY <4>1, SamePlane
      <4> QED
        BY <3>2, <4>2
    <3>4. CASE LostAt(list, k, p)
      <4>1. e.type = "clear" /\ p \in e.planes
        BY <1>6, <2>3, <2>7, <3>4 
      <4>2. ContentsAfter(c, e)[p] = <<e.id>> /\ ContentsAfter(d, e)[p] = <<e.id>>
        BY <4>1, ContentsAt
      <4> QED
        BY <3>2, <4>2
    <3> QED
      BY <3>3, <3>4
  <2>8. t.seen = SeenTo(list, k + 1)
    <3>1. s.seen = SeenTo(list, k)
      BY DEF IsAsStored
    <3> QED
      BY <1>4, <2>5, <2>6, <3>1
  <2> QED
    BY <1>3, <2>5, <2>7, <2>8 DEF IsAsStored
<1> QED
  BY <1>7, <1>8

(* At the end nothing is lost.                                             *)
LEMMA NothingIsLost ==
  ASSUME NEW list, NEW end, IsSound(list, end), NEW p
  PROVE  ~ LostAt(list, Len(list), p)
<1> SUFFICES ASSUME LostAt(list, Len(list), p)
             PROVE  FALSE
  OBVIOUS
<1>1. PICK i \in Live(list) :
        /\ NotKept(list[i], p)
        /\ \A m \in Live(list) : i < m /\ m <= Len(list) =>
             ResourceOf(p) \notin ResourcesUsed(list[m])
  BY DEF LostAt
<1>2. IsCleared(list, end, i, p)
  BY <1>1 DEF IsSound, StoresAreCleared, NotKept
<1>3. PICK m \in Live(list) : i < m /\ list[m].type = "clear" /\ p \in list[m].planes
  BY <1>2 DEF IsCleared
<1>4. IsWhole(list[m]) /\ m <= Len(list)
  BY SoundIs
<1>5. ResourceOf(p) \in ResourcesUsed(list[m])
  <2>1. ResourceOf(p) \in ResourcesWritten(list[m])
    BY <1>3, <1>4 DEF IsWhole
  <2> QED
    BY <2>1 DEF ResourcesWritten, ResourcesUsed
<1> QED
  BY <1>1, <1>3, <1>4, <1>5

LEMMA ExecutionIs ==
  ASSUME NEW list, NEW end, IsSound(list, end), NEW g, IsExecution(g, list, Len(list))
  PROVE  g[Len(list)] = [contents |-> Contents(list)[Len(list)], seen |-> SeenIn(list)]
<1> DEFINE n == Len(list)
           T == { k \in 0 .. n : IsAsStored(g[k], list, k) }
<1>1. n \in Nat /\ DOMAIN list = 1 .. n
  BY SoundIs
<1>2. 0 \in T
  <2>1. g[0] = [contents |-> InitialContents, seen |-> {}]
    BY DEF IsExecution, InitialRun
  <2>2. g[0].contents = InitialContents /\ g[0].seen = {}
    BY <2>1
  <2>3. IsResult(g[0])
    BY <2>1, <2>2 DEF IsResult, InitialContents
  <2>4. SeenTo(list, 0) = {} /\ Contents(list)[0] = InitialContents
    BY <1>1, SeenToNext, ContentsIs
  <2>5. 0 \in 0 .. n
    BY <1>1
  <2> QED
    BY <2>2, <2>3, <2>4, <2>5 DEF IsAsStored
<1>3. ASSUME NEW k \in 0 .. n - 1, k \in T
      PROVE  k + 1 \in T
  <2>1. k + 1 \in 1 .. n /\ k + 1 \in 0 .. n /\ (k + 1) - 1 = k
    BY <1>1
  <2>2. g[k + 1] = IF list[k + 1].type = "null" THEN g[k] ELSE Executed(g[k], list[k + 1])
    BY <2>1 DEF IsExecution
  <2>3. IsAsStored(g[k], list, k)
    BY <1>3
  <2>4. IsAsStored(g[k + 1], list, k + 1)
    BY <2>2, <2>3, StoredNext
  <2> QED
    BY <2>1, <2>4
<1> HIDE DEF T
<1>4. n \in T
  <2> HIDE DEF n
  <2>1. n \in Nat /\ 0 \in T /\ \A k \in 0 .. n - 1 : k \in T => k + 1 \in T
    BY <1>1, <1>2, <1>3
  <2>2. 0 .. n \subseteq T
    BY ONLY <2>1, Induction
  <2> QED
    BY <2>1, <2>2
<1>5. IsAsStored(g[n], list, n)
  BY <1>4 DEF T
<1>6. SeenTo(list, n) = SeenIn(list)
  BY <1>1 DEF SeenTo, SeenIn
<1>7. g[n].contents = Contents(list)[n]
  <2>1. \A p \in Planes : g[n].contents[p] = Contents(list)[n][p]
    BY <1>5, NothingIsLost DEF IsAsStored
  <2>2. g[n].contents = [p \in Planes |-> g[n].contents[p]]
    BY <1>5 DEF IsAsStored, IsResult
  <2>3. Contents(list)[n] \in AreContents
    <3>1. n \in 0 .. n
      BY <1>1
    <3> QED
      BY <3>1, SoundDone, ContentsAreTyped
  <2>4. Contents(list)[n] = [p \in Planes |-> Contents(list)[n][p]]
    BY <2>3 DEF AreContents
  <2> HIDE DEF n
  <2>5. [p \in Planes |-> g[n].contents[p]] = [p \in Planes |-> Contents(list)[n][p]]
    BY <2>1
  <2> QED
    BY <2>2, <2>4, <2>5
<1> QED
  BY <1>5, <1>6, <1>7 DEF IsAsStored, IsResult

IsRun(f, list) ==
  /\ f[0] = InitialRun
  /\ \A k \in 1 .. Len(list) : f[k] = Executed(f[k - 1], list[k])

LEMMA RunIs ==
  ASSUME NEW list, Len(list) \in Nat
  PROVE  \E f : IsRun(f, list) /\ Run(list) = f[Len(list)]
<1> DEFINE n == Len(list)
           next(k, s) == Executed(s, list[k])
           Is(f) == f = [k \in 0 .. n |-> IF k = 0 THEN InitialRun ELSE next(k, f[k - 1])]
           f == CHOOSE f : Is(f)
<1>1. \E g : Is(g)
  <2>1. n \in Nat
    OBVIOUS
  <2>2. PICK g : Iterates(g, "run", list, n, InitialRun, n)
    BY <2>1, IteratesExists
  <2>3. \A k, t : Step("run", list, n, k, t) = next(k, t)
    BY StepIs
  <2> HIDE DEF next
  <2>4. g = [k \in 0 .. n |-> IF k = 0 THEN InitialRun ELSE next(k, g[k - 1])]
    BY <2>2, <2>3 DEF Iterates
  <2> QED
    BY <2>4
<1>2. Is(f)
  BY <1>1
<1>3. Run(list) = f[n]
  BY DEF Run, InitialRun, InitialContents
<1> HIDE DEF f
<1>4. \A k \in 0 .. n : f[k] = IF k = 0 THEN InitialRun ELSE next(k, f[k - 1])
  BY <1>2
<1>5. 0 \in 0 .. n /\ \A k \in 1 .. n : k \in 0 .. n /\ k # 0
  OBVIOUS
<1> HIDE DEF n
<1> QED
  BY <1>3, <1>4, <1>5 DEF n, IsRun

LEMMA RunIsOne ==
  ASSUME NEW list, Len(list) \in Nat, NEW g, IsRun(g, list)
  PROVE  Run(list) = g[Len(list)]
<1> DEFINE n == Len(list)
<1>1. PICK f : IsRun(f, list) /\ Run(list) = f[n]
  BY RunIs
<1> DEFINE T == { k \in 0 .. n : f[k] = g[k] }
<1>2. 0 \in T
  BY <1>1 DEF IsRun
<1>3. ASSUME NEW k \in 0 .. n - 1, k \in T
      PROVE  k + 1 \in T
  <2>1. k + 1 \in 1 .. n /\ k + 1 \in 0 .. n /\ (k + 1) - 1 = k
    OBVIOUS
  <2>2. f[k + 1] = Executed(f[k], list[k + 1]) /\ g[k + 1] = Executed(g[k], list[k + 1])
    BY <1>1, <2>1 DEF IsRun
  <2> QED
    BY <1>3, <2>1, <2>2
<1> HIDE DEF T, n
<1>4. n \in Nat /\ 0 \in T /\ \A k \in 0 .. n - 1 : k \in T => k + 1 \in T
  BY <1>2, <1>3 DEF n
<1>5. 0 .. n \subseteq T
  BY ONLY <1>4, Induction
<1>6. n \in T
  BY <1>4, <1>5
<1> QED
  BY <1>1, <1>6 DEF T, n

LEMMA RunNothing ==
  Run(<<>>) = InitialRun
<1>1. Len(<<>>) = 0
  OBVIOUS
<1>2. PICK f : IsRun(f, <<>>) /\ Run(<<>>) = f[0]
  BY <1>1, RunIs
<1> QED
  BY <1>2 DEF IsRun

LEMMA RunAppend ==
  ASSUME NEW S, NEW s \in Seq(S), NEW e \in S
  PROVE  Run(Append(s, e)) = Executed(Run(s), e)
<1> DEFINE l == Len(s)
           t == Append(s, e)
<1>1. /\ l \in Nat /\ Len(t) = l + 1 /\ t[l + 1] = e /\ l + 1 \in Nat
      /\ \A k \in 1 .. l : t[k] = s[k]
  OBVIOUS
<1> HIDE DEF t, l
<1>2. PICK f : IsRun(f, t) /\ Run(t) = f[l + 1]
  BY <1>1, RunIs
<1>3. l + 1 \in 1 .. l + 1 /\ (l + 1) - 1 = l /\ \A k \in 1 .. l : k \in 1 .. l + 1
  BY <1>1
<1>4. IsRun(f, s)
  BY <1>1, <1>2, <1>3 DEF IsRun, l
<1>5. Run(s) = f[l]
  BY <1>1, <1>4, RunIsOne DEF l
<1>6. f[l + 1] = Executed(f[l], e)
  BY <1>1, <1>2, <1>3 DEF IsRun
<1> QED
  BY <1>2, <1>5, <1>6 DEF t

(* To run what remains is to run the list without what was dropped.        *)
LEMMA RunRemaining ==
  ASSUME NEW list, Len(list) \in Nat
  PROVE  \E g : IsExecution(g, list, Len(list)) /\ g[Len(list)] = Run(Remaining(list))
<1> DEFINE n == Len(list)
           S == { list[k] : k \in 1 .. n }
<1>1. PICK h : /\ h[0] = <<>>
               /\ \A k \in 1 .. n : h[k] = IF list[k].type = "null" THEN h[k - 1]
                                           ELSE Append(h[k - 1], list[k])
               /\ Remaining(list) = h[n]
  BY RemainingIs
<1> DEFINE T == { k \in 0 .. n : h[k] \in Seq(S) }
<1>2. \A k \in 1 .. n : list[k] \in S
  OBVIOUS
<1> HIDE DEF S
<1>3. 0 \in T
  <2>1. <<>> \in Seq(S) /\ 0 \in 0 .. n
    OBVIOUS
  <2>2. h[0] \in Seq(S)
    BY ONLY <1>1, <2>1
  <2> QED
    BY <2>1, <2>2
<1>4. ASSUME NEW k \in 0 .. n - 1, k \in T
      PROVE  k + 1 \in T
  <2>1. k + 1 \in 1 .. n /\ k + 1 \in 0 .. n /\ (k + 1) - 1 = k
    OBVIOUS
  <2>2. h[k + 1] = IF list[k + 1].type = "null" THEN h[k] ELSE Append(h[k], list[k + 1])
    BY <1>1, <2>1
  <2>3. h[k] \in Seq(S) /\ list[k + 1] \in S
    BY <1>2, <1>4, <2>1
  <2>4. \A s \in Seq(S), e \in S : Append(s, e) \in Seq(S)
    OBVIOUS
  <2>5. h[k + 1] \in Seq(S)
    BY <2>2, <2>3, <2>4
  <2> QED
    BY <2>1, <2>5
<1>5. 0 .. n \subseteq T
  <2> HIDE DEF T, n
  <2>1. n \in Nat /\ 0 \in T /\ \A k \in 0 .. n - 1 : k \in T => k + 1 \in T
    BY <1>3, <1>4 DEF n
  <2> QED
    BY ONLY <2>1, Induction
<1> DEFINE g == [k \in 0 .. n |-> Run(h[k])]
<1>6. g[0] = InitialRun /\ g[n] = Run(Remaining(list))
  BY <1>1, RunNothing
<1>7. ASSUME NEW k \in 1 .. n
      PROVE  g[k] = IF list[k].type = "null" THEN g[k - 1] ELSE Executed(g[k - 1], list[k])
  <2>1. k \in 0 .. n /\ k - 1 \in 0 .. n
    OBVIOUS
  <2>2. g[k] = Run(h[k]) /\ g[k - 1] = Run(h[k - 1])
    BY <2>1
  <2>3. h[k - 1] \in Seq(S) /\ list[k] \in S
    BY <1>2, <1>5, <2>1
  <2> HIDE DEF g
  <2>4. list[k].type = "null" => h[k] = h[k - 1]
    BY <1>1
  <2>5. list[k].type # "null" => h[k] = Append(h[k - 1], list[k])
    BY <1>1
  <2>6. Run(Append(h[k - 1], list[k])) = Executed(Run(h[k - 1]), list[k])
    BY <2>3, RunAppend
  <2> QED
    BY <2>2, <2>4, <2>5, <2>6
<1> HIDE DEF g
<1> QED
  BY <1>6, <1>7 DEF IsExecution

(* To run a list without dropped passes is to execute it.                  *)
LEMMA RunRecorded ==
  ASSUME NEW list, Len(list) \in Nat, \A k \in 1 .. Len(list) : list[k].type # "null"
  PROVE  \E g : IsExecution(g, list, Len(list)) /\ g[Len(list)] = Run(list)
<1>1. PICK f : IsRun(f, list) /\ Run(list) = f[Len(list)]
  BY RunIs
<1>2. IsExecution(f, list, Len(list))
  BY <1>1 DEF IsRun, IsExecution
<1> QED
  BY <1>1, <1>2

(* What flushCommands encodes after its two loops leaves the same contents *)
(* and lets each pass see what it saw in the list as it was recorded, for  *)
(* every list of passes that is sound: each pass that works on what an     *)
(* earlier one used follows it by a chain of waits, a resolve has a target *)
(* that nothing used before, and what is loaded read-only stays.           *)
THEOREM OptimizedRunsTheSame ==
  ASSUME NEW list, IsSound(list, Len(list) + 1), \A k \in DOMAIN list : list[k].type # "null"
  PROVE  Run(Optimized(list)) = Run(list)
<1> DEFINE n == Len(list)
           after == AllMoved(list)
<1>1. n \in Nat /\ DOMAIN list = 1 .. n
  BY SoundIs
<1>2. Len(after) = n /\ SameEffect(list, after) /\ IsSound(after, 1)
  BY AllMovedSound
<1> HIDE DEF after
<1>3. PICK f : IsExecution(f, list, n) /\ f[n] = Run(list)
  BY <1>1, RunRecorded
<1>4. PICK g : IsExecution(g, after, n) /\ g[n] = Run(Remaining(after))
  <2>1. Len(after) \in Nat
    BY <1>1, <1>2
  <2> HIDE DEF n
  <2>2. \E g : IsExecution(g, after, Len(after)) /\ g[Len(after)] = Run(Remaining(after))
    BY <2>1, RunRemaining
  <2> QED
    BY <1>2, <2>2
<1>5. f[n] = [contents |-> Contents(list)[n], seen |-> SeenIn(list)]
  BY <1>3, ExecutionIs
<1>6. g[n] = [contents |-> Contents(after)[n], seen |-> SeenIn(after)]
  <2> HIDE DEF n
  <2>1. IsExecution(g, after, Len(after))
    BY <1>2, <1>4
  <2>2. g[Len(after)] = [contents |-> Contents(after)[Len(after)], seen |-> SeenIn(after)]
    BY <1>2, <2>1, ExecutionIs
  <2> QED
    BY <1>2, <2>2
<1>7. Contents(after)[n] = Contents(list)[n] /\ SeenIn(after) = SeenIn(list)
  BY <1>2 DEF SameEffect
<1> QED
  BY <1>3, <1>4, <1>5, <1>6, <1>7 DEF Optimized, after

-----------------------------------------------------------------------------
(* A pass while it is recorded.                                            *)

(* What an access or the end of a pass leaves of it.                       *)
SameShape(n, e) ==
  /\ IsEncoder(n) /\ n.type = e.type /\ n.vertex = e.vertex /\ n.id = e.id
  /\ n.update = e.update /\ n.update_vertex = e.update_vertex
  /\ n.attachments = e.attachments /\ n.cmds = e.cmds
  /\ n.planes = e.planes /\ n.src = e.src /\ n.dst = e.dst

LEMMA AccessedShape ==
  ASSUME NEW s, IsEncoder(s.encoder), NEW resources, NEW stage, NEW mode
  PROVE  LET e == s.encoder
             n == Accessed(s, resources, stage, mode).encoder
         IN  /\ SameShape(n, e)
             /\ stage # "vertex" => n.wait_vertex = e.wait_vertex
             /\ n.uses = e.uses \union { Use(e, stage, r, mode) : r \in resources }
<1> DEFINE e == s.encoder
           n == Accessed(s, resources, stage, mode).encoder
<1>1. /\ IsEncoder(n) /\ n.type = e.type /\ n.vertex = e.vertex /\ n.id = e.id
      /\ n.attachments = e.attachments /\ n.update_vertex = e.update_vertex
      /\ n.uses = e.uses \union { Use(e, stage, r, mode) : r \in resources }
  BY ONLY IsEncoder(s.encoder), AccessedEncoder
<1>2. n.update = e.update /\ (stage # "vertex" => n.wait_vertex = e.wait_vertex)
  BY ONLY IsEncoder(s.encoder), AccessedWaits
<1>3. \E wait, wait_vertex, barriers, uses :
        n = [e EXCEPT !.wait = wait, !.wait_vertex = wait_vertex,
                      !.barriers = barriers, !.uses = uses]
  BY DEF Accessed
<1> HIDE DEF n, e
<1>4. n.cmds = e.cmds /\ n.planes = e.planes /\ n.src = e.src /\ n.dst = e.dst
  <2>1. PICK wait, wait_vertex, barriers, uses :
        n = [e EXCEPT !.wait = wait, !.wait_vertex = wait_vertex,
                      !.barriers = barriers, !.uses = uses]
    BY <1>3
  <2>2. IsEncoder(e)
    BY DEF e
  <2> QED
    BY ONLY <2>1, <2>2 DEF IsEncoder
<1> QED
  BY <1>1, <1>2, <1>4 DEF SameShape, n, e

LEMMA EndedShape ==
  ASSUME NEW s, IsEncoder(s.encoder), s.encoder.type # "event"
  PROVE  LET e == s.encoder
             n == Ended(s).encoder
             written == ResourcesOf(DepthStencil(Written(e.attachments)))
         IN  /\ SameShape(n, e)
             /\ e.type # "render" => n.wait_vertex = e.wait_vertex /\ n.uses = e.uses
             /\ e.type = "render" =>
                  n.uses = e.uses \union { Use(e, "pixel", r, "write") : r \in written }
<1> DEFINE e == s.encoder
           n == Ended(s).encoder
           written == ResourcesOf(DepthStencil(Written(e.attachments)))
           w == Accessed(s, written, "pixel", "write").encoder
<1>1. CASE e.type = "render"
  <2>1. \E wait, wait_vertex : n = [w EXCEPT !.wait = wait, !.wait_vertex = wait_vertex]
    BY <1>1 DEF Ended
  <2>2. SameShape(w, e) /\ w.uses = e.uses \union { Use(e, "pixel", r, "write") : r \in written }
    BY ONLY IsEncoder(s.encoder), AccessedShape
  <2> HIDE DEF w, n, e
  <2>3. PICK wait, wait_vertex : n = [w EXCEPT !.wait = wait, !.wait_vertex = wait_vertex]
    BY <2>1
  <2>4. IsEncoder(w)
    BY <2>2 DEF SameShape
  <2>5. /\ n.type = w.type /\ n.vertex = w.vertex /\ n.id = w.id
        /\ n.update = w.update /\ n.update_vertex = w.update_vertex
        /\ n.attachments = w.attachments /\ n.cmds = w.cmds
        /\ n.planes = w.planes /\ n.src = w.src /\ n.dst = w.dst /\ n.uses = w.uses
        /\ IsEncoder(n)
    BY ONLY <2>3, <2>4 DEF IsEncoder
  <2>6. SameShape(n, e)
    BY <2>2, <2>5 DEF SameShape
  <2> QED
    BY <1>1, <2>2, <2>5, <2>6 DEF n, e
<1>2. CASE e.type # "render"
  <2>1. \E wait : n = [e EXCEPT !.wait = wait]
    BY <1>2 DEF Ended
  <2>2. IsEncoder(e)
    OBVIOUS
  <2> HIDE DEF n, e
  <2>3. PICK wait : n = [e EXCEPT !.wait = wait]
    BY <2>1
  <2>4. SameShape(n, e) /\ n.wait_vertex = e.wait_vertex /\ n.uses = e.uses
    BY ONLY <2>2, <2>3 DEF IsEncoder, SameShape
  <2> QED
    BY <1>2, <2>4 DEF n, e
<1> QED
  BY <1>1, <1>2

LEMMA ShapeThen ==
  ASSUME NEW a, NEW b, NEW c, SameShape(a, b), SameShape(b, c)
  PROVE  SameShape(a, c)
  BY DEF SameShape

(* A pass of one command, as it is in the list.                            *)
Recorded(type, id, reads, writes, planes, src, dst) ==
  LET read == Accessed(At(Single(type, id, planes, src, dst)), reads, "compute", "read")
  IN  Ended(Accessed(read, writes, "compute", "write")).encoder

LEMMA RecordedIs ==
  ASSUME NEW type \in {"clear", "resolve", "present"}, NEW id, NEW reads, NEW writes,
         NEW planes, NEW src, NEW dst
  PROVE  LET n == Recorded(type, id, reads, writes, planes, src, dst)
         IN  /\ IsEncoder(n) /\ n.type = type /\ n.id = id
             /\ n.update = {id} /\ n.update_vertex = {}
             /\ n.attachments = NoAttachments /\ n.wait_vertex = {}
             /\ n.planes = planes /\ n.src = src /\ n.dst = dst
             /\ \A u : u \in n.uses <=>
                  \/ \E r \in reads : u = [id |-> id, stage |-> "compute", res |-> r, mode |-> "read"]
                  \/ \E r \in writes : u = [id |-> id, stage |-> "compute", res |-> r, mode |-> "write"]
<1> DEFINE m == Encoder(type, None, id)
           e == Single(type, id, planes, src, dst)
           start == At(e)
           read == Accessed(start, reads, "compute", "read")
           written == Accessed(read, writes, "compute", "write")
           n == Ended(written).encoder
<1>1. /\ IsEncoder(e) /\ e.type = type /\ e.id = id /\ e.update = {id} /\ e.update_vertex = {}
      /\ e.attachments = NoAttachments /\ e.wait_vertex = {} /\ e.uses = {}
      /\ e.planes = planes /\ e.src = src /\ e.dst = dst
  <2>1. type \in {"clear", "resolve", "present"}
    OBVIOUS
  <2>2. IsEncoder(e) /\ e.type = type /\ e.id = id
    BY ONLY <2>1, OnePassIs
  <2>3. /\ IsEncoder(m) /\ m.update = {id} /\ m.update_vertex = {} /\ m.wait_vertex = {}
        /\ m.attachments = NoAttachments /\ m.uses = {}
    BY EncoderIs DEF Encoder
  <2>4. e = [m EXCEPT !.planes = planes, !.src = src, !.dst = dst]
    BY DEF Single
  <2> HIDE DEF e, m
  <2>5. /\ e.update = m.update /\ e.update_vertex = m.update_vertex /\ e.uses = m.uses
        /\ e.attachments = m.attachments /\ e.wait_vertex = m.wait_vertex
        /\ e.planes = planes /\ e.src = src /\ e.dst = dst
    BY ONLY <2>3, <2>4 DEF IsEncoder
  <2> QED
    BY <2>2, <2>3, <2>5
<1> HIDE DEF e
<1>2. start.encoder = e
  BY DEF At
<1> HIDE DEF start
<1> DEFINE f == read.encoder
           g == written.encoder
<1>3. /\ SameShape(f, e) /\ f.wait_vertex = e.wait_vertex
      /\ f.uses = e.uses \union { Use(e, "compute", r, "read") : r \in reads }
  <2>1. IsEncoder(start.encoder)
    BY <1>1, <1>2
  <2>2. LET o == start.encoder
        IN  /\ SameShape(f, o)
            /\ "compute" # "vertex" => f.wait_vertex = o.wait_vertex
            /\ f.uses = o.uses \union { Use(o, "compute", r, "read") : r \in reads }
    BY ONLY <2>1, AccessedShape
  <2> QED
    BY <1>2, <2>2
<1>4. IsEncoder(read.encoder)
  BY <1>3 DEF SameShape
<1> HIDE DEF read
<1>5. /\ SameShape(g, f) /\ g.wait_vertex = f.wait_vertex
      /\ g.uses = f.uses \union { Use(f, "compute", r, "write") : r \in writes }
  <2>1. LET o == read.encoder
        IN  /\ SameShape(g, o)
            /\ "compute" # "vertex" => g.wait_vertex = o.wait_vertex
            /\ g.uses = o.uses \union { Use(o, "compute", r, "write") : r \in writes }
    BY ONLY <1>4, AccessedShape
  <2> QED
    BY <2>1
<1>6. SameShape(g, e)
  BY <1>3, <1>5, ShapeThen
<1>7. IsEncoder(written.encoder) /\ written.encoder.type # "event" /\ written.encoder.type # "render"
  BY <1>1, <1>6 DEF SameShape
<1> HIDE DEF written
<1>8. SameShape(n, g) /\ n.wait_vertex = g.wait_vertex /\ n.uses = g.uses
  BY <1>7, EndedShape
<1>9. SameShape(n, e)
  BY <1>6, <1>8, ShapeThen
<1> HIDE DEF n, f, g
<1>10. \A r, mode : /\ Use(e, "compute", r, mode) = [id |-> id, stage |-> "compute", res |-> r, mode |-> mode]
                    /\ Use(f, "compute", r, mode) = [id |-> id, stage |-> "compute", res |-> r, mode |-> mode]
  BY <1>1, <1>3 DEF Use, SameShape
<1>11. \A u : u \in n.uses <=>
                  \/ \E r \in reads : u = [id |-> id, stage |-> "compute", res |-> r, mode |-> "read"]
                  \/ \E r \in writes : u = [id |-> id, stage |-> "compute", res |-> r, mode |-> "write"]
  BY <1>1, <1>3, <1>5, <1>8, <1>10
<1>12. n = Recorded(type, id, reads, writes, planes, src, dst)
  BY DEF Recorded, n, written, read, start, e
<1> QED
  BY <1>1, <1>3, <1>5, <1>8, <1>9, <1>11, <1>12 DEF SameShape

LEMMA OwnerIs ==
  ASSUME NEW planes, planes \subseteq Planes
  PROVE  ResourcesOf(planes) \subseteq Resources /\ \A p \in planes : ResourceOf(p) \in ResourcesOf(planes)
  BY ResourcesOfIs DEF ResourcesOf

(* What a pass of one command may be.                                      *)
MayRecord(type, id, reads, writes, planes, src, dst) ==
  /\ type \in {"clear", "resolve", "present"} /\ id \in Nat
  /\ reads \subseteq Resources /\ writes \subseteq Resources
  /\ type = "clear" => planes \subseteq Planes /\ reads = {} /\ writes = ResourcesOf(planes)
  /\ type = "resolve" =>
       /\ src \in Planes /\ dst \in Planes /\ ~ IsDepthStencil(src)
       /\ reads = {ResourceOf(src)} /\ writes = {ResourceOf(dst)}

LEMMA RecordedUses ==
  ASSUME NEW type, NEW id, NEW reads, NEW writes, NEW planes, NEW src, NEW dst,
         MayRecord(type, id, reads, writes, planes, src, dst)
  PROVE  LET n == Recorded(type, id, reads, writes, planes, src, dst)
         IN  /\ ResourcesUsed(n) = reads \union writes /\ ResourcesWritten(n) = writes
             /\ \A u \in n.uses : u.id = id /\ u.res \in Resources /\ u.stage = "compute"
             /\ reads = {} => \A u \in n.uses : IsWrite(u.mode)
<1> DEFINE n == Recorded(type, id, reads, writes, planes, src, dst)
           In(r, mode) == [id |-> id, stage |-> "compute", res |-> r, mode |-> mode]
<1>1. \A u : u \in n.uses <=> \/ \E r \in reads : u = In(r, "read")
                              \/ \E r \in writes : u = In(r, "write")
  <2>1. type \in {"clear", "resolve", "present"}
    BY DEF MayRecord
  <2> QED
    BY ONLY <2>1, RecordedIs
<1>2. \A r, mode : In(r, mode).id = id /\ In(r, mode).res = r /\ In(r, mode).mode = mode
                   /\ In(r, mode).stage = "compute"
  OBVIOUS
<1> HIDE DEF n, In
<1>3. reads \subseteq Resources /\ writes \subseteq Resources
  BY DEF MayRecord
<1>4. \A u \in n.uses : u.id = id /\ u.stage = "compute" /\
        (\/ u.res \in reads /\ u.mode = "read"
         \/ u.res \in writes /\ u.mode = "write")
  BY <1>1, <1>2
<1>5. \A r \in reads \union writes : \E u \in n.uses : u.res = r
  BY <1>1, <1>2
<1>6. \A r \in writes : \E u \in n.uses : u.res = r /\ u.mode = "write"
  BY <1>1, <1>2
<1>7. ResourcesUsed(n) = reads \union writes
  BY <1>4, <1>5 DEF ResourcesUsed
<1>8. IsWrite("write") /\ ~ IsWrite("read")
  BY DEF IsWrite
<1>9. ResourcesWritten(n) = writes
  BY <1>4, <1>6, <1>8 DEF ResourcesWritten
<1> QED
  BY <1>3, <1>4, <1>7, <1>8, <1>9 DEF n

LEMMA RecordedWhole ==
  ASSUME NEW type, NEW id, NEW reads, NEW writes, NEW planes, NEW src, NEW dst,
         MayRecord(type, id, reads, writes, planes, src, dst)
  PROVE  LET n == Recorded(type, id, reads, writes, planes, src, dst)
         IN  IsWhole(n) /\ IsRecorded(n)
<1> DEFINE n == Recorded(type, id, reads, writes, planes, src, dst)
<1>1. /\ type \in {"clear", "resolve", "present"} /\ id \in Nat
      /\ type = "clear" => planes \subseteq Planes /\ reads = {} /\ writes = ResourcesOf(planes)
      /\ type = "resolve" =>
           /\ src \in Planes /\ dst \in Planes /\ ~ IsDepthStencil(src)
           /\ reads = {ResourceOf(src)} /\ writes = {ResourceOf(dst)}
  BY DEF MayRecord
<1>2. /\ IsEncoder(n) /\ n.type = type /\ n.id = id /\ n.update = {id} /\ n.update_vertex = {}
      /\ n.attachments = NoAttachments /\ n.wait_vertex = {}
      /\ n.planes = planes /\ n.src = src /\ n.dst = dst
  <2>1. type \in {"clear", "resolve", "present"}
    BY <1>1
  <2> QED
    BY ONLY <2>1, RecordedIs
<1>3. /\ ResourcesUsed(n) = reads \union writes /\ ResourcesWritten(n) = writes
      /\ \A u \in n.uses : u.id = id /\ u.res \in Resources
      /\ reads = {} => \A u \in n.uses : IsWrite(u.mode)
  BY RecordedUses
<1> HIDE DEF n
<1>4. IdsOf(n) = {id}
  BY <1>1, <1>2 DEF IdsOf
<1>5. n.type = "clear" =>
        /\ n.planes \subseteq Planes /\ \A u \in n.uses : IsWrite(u.mode)
        /\ \A p \in n.planes : ResourceOf(p) \in ResourcesWritten(n)
  BY <1>1, <1>2, <1>3, OwnerIs
<1>6. n.type = "resolve" =>
       /\ n.id \in IdsOf(n) /\ n.src \in Planes /\ n.dst \in Planes /\ ~ IsDepthStencil(n.src)
       /\ ResourcesUsed(n) = {ResourceOf(n.src), ResourceOf(n.dst)}
       /\ ResourcesWritten(n) = {ResourceOf(n.dst)}
       /\ \A u \in n.uses : u.id = n.id
  BY <1>1, <1>2, <1>3, <1>4
<1>7. IsWhole(n)
  BY <1>1, <1>2, <1>3, <1>4, <1>5, <1>6 DEF IsWhole
<1>8. DOMAIN n.attachments = {}
  BY <1>2 DEF NoAttachments
<1>9. IsRecorded(n)
  BY <1>8 DEF IsRecorded
<1> QED
  BY <1>7, <1>9 DEF n

(* A pass that is being recorded.                                          *)
IsOpen(e) ==
  /\ IsEncoder(e) /\ e.type \in {"render", "compute", "blit"} /\ e.id \in Nat
  /\ UpdatesAre(e) /\ UsesAreOf(e)
  /\ e.type # "render" => e.attachments = NoAttachments /\ e.wait_vertex = {}
  /\ e.type = "render" =>
       /\ e.vertex \in Nat /\ e.cmds \in Seq(Nat)
       /\ e.attachments = [p \in DOMAIN e.attachments |-> e.attachments[p]]
       /\ \A p \in DOMAIN e.attachments :
            /\ p \in Planes /\ ResourceOf(p) \in ResourcesUsed(e)
            /\ \E readonly \in BOOLEAN :
                 e.attachments[p] = Attachment(readonly) /\ (readonly => IsDepthStencil(p))
            /\ ~ IsDepthStencil(p) => ResourceOf(p) \in ResourcesWritten(e)

LEMMA UsesMore ==
  ASSUME NEW n, NEW e, e.uses \subseteq n.uses
  PROVE  ResourcesUsed(e) \subseteq ResourcesUsed(n) /\ ResourcesWritten(e) \subseteq ResourcesWritten(n)
  BY DEF ResourcesUsed, ResourcesWritten

LEMMA AttachmentIs ==
  ASSUME NEW readonly
  PROVE  LET a == Attachment(readonly)
         IN  /\ a = [load |-> a.load, clear |-> a.clear, store |-> a.store, resolve |-> a.resolve,
                     resolver |-> a.resolver, readonly |-> a.readonly]
             /\ a.load = "load" /\ a.store = "store" /\ a.resolve = None /\ a.readonly = readonly
  BY DEF Attachment

(* An access adds uses.                                                    *)
LEMMA OpenAccess ==
  ASSUME NEW s, IsOpen(s.encoder), NEW resources, resources \subseteq Resources, NEW stage, NEW mode,
         stage \in (IF s.encoder.type = "render" THEN {"vertex", "pixel"} ELSE {"compute"})
  PROVE  IsOpen(Accessed(s, resources, stage, mode).encoder)
<1> DEFINE e == s.encoder
           n == Accessed(s, resources, stage, mode).encoder
<1>1. IsEncoder(s.encoder)
  BY DEF IsOpen
<1>2. /\ SameShape(n, e)
      /\ stage # "vertex" => n.wait_vertex = e.wait_vertex
      /\ n.uses = e.uses \union { Use(e, stage, r, mode) : r \in resources }
  BY ONLY <1>1, AccessedShape
<1>3. IsOpen(e) /\ stage \in (IF e.type = "render" THEN {"vertex", "pixel"} ELSE {"compute"})
  OBVIOUS
<1> HIDE DEF e, n
<1>4. /\ IsEncoder(n) /\ n.type = e.type /\ n.vertex = e.vertex /\ n.id = e.id
      /\ n.update = e.update /\ n.update_vertex = e.update_vertex
      /\ n.attachments = e.attachments /\ n.cmds = e.cmds
  BY <1>2 DEF SameShape
<1>5. UpdatesAre(n)
  BY <1>3, <1>4 DEF IsOpen, UpdatesAre
<1>6. UsesAreOf(n)
  <2>1. UsesAreOf(e)
    BY <1>3 DEF IsOpen
  <2>2. \A r : LET u == Use(e, stage, r, mode)
               IN  u.res = r /\ u.stage = stage /\ u.id = IF stage = "vertex" THEN e.vertex ELSE e.id
    BY DEF Use
  <2>3. \A u \in n.uses : u \in e.uses \/ \E r \in resources : u = Use(e, stage, r, mode)
    BY <1>2
  <2> QED
    BY <1>3, <1>4, <2>1, <2>2, <2>3 DEF UsesAreOf
<1>7. ResourcesUsed(e) \subseteq ResourcesUsed(n) /\ ResourcesWritten(e) \subseteq ResourcesWritten(n)
  BY <1>2, UsesMore
<1>8. n.type # "render" => n.wait_vertex = {}
  BY <1>2, <1>3, <1>4 DEF IsOpen
<1> QED
  BY <1>3, <1>4, <1>5, <1>6, <1>7, <1>8 DEF IsOpen, n

(* At its end all it writes is in its uses.                                *)
LEMMA EndedRenderWhole ==
  ASSUME NEW s, IsOpen(s.encoder), s.encoder.type = "render"
  PROVE  LET n == Ended(s).encoder
         IN  IsWhole(n) /\ IsRecorded(n) /\ UsesAreOf(n) /\ UpdatesAre(n)
<1> DEFINE e == s.encoder
           n == Ended(s).encoder
           written == ResourcesOf(DepthStencil(Written(e.attachments)))
<1>1. IsOpen(e) /\ e.type = "render"
  OBVIOUS
<1>2. SameShape(n, e) /\ n.uses = e.uses \union { Use(e, "pixel", r, "write") : r \in written }
  <2>1. IsEncoder(s.encoder) /\ s.encoder.type # "event" /\ s.encoder.type = "render"
    BY DEF IsOpen
  <2> QED
    BY ONLY <2>1, EndedShape
<1> HIDE DEF e, n
<1>3. /\ IsEncoder(n) /\ n.type = "render" /\ n.vertex = e.vertex /\ n.id = e.id
      /\ n.update = e.update /\ n.update_vertex = e.update_vertex
      /\ n.attachments = e.attachments /\ n.cmds = e.cmds
  BY <1>1, <1>2 DEF SameShape
<1>4. /\ e.id \in Nat /\ e.vertex \in Nat /\ e.cmds \in Seq(Nat)
      /\ e.attachments = [p \in DOMAIN e.attachments |-> e.attachments[p]]
      /\ \A p \in DOMAIN e.attachments :
            /\ p \in Planes /\ ResourceOf(p) \in ResourcesUsed(e)
            /\ \E readonly \in BOOLEAN :
                 e.attachments[p] = Attachment(readonly) /\ (readonly => IsDepthStencil(p))
            /\ ~ IsDepthStencil(p) => ResourceOf(p) \in ResourcesWritten(e)
      /\ UpdatesAre(e) /\ UsesAreOf(e)
  BY <1>1 DEF IsOpen
<1>5. \A r : LET u == Use(e, "pixel", r, "write")
             IN  u.res = r /\ u.stage = "pixel" /\ u.id = e.id /\ u.mode = "write"
  BY DEF Use
<1>6. written \subseteq Resources
  <2>1. DepthStencil(Written(e.attachments)) \subseteq Planes
    BY <1>4 DEF DepthStencil, Written
  <2> QED
    BY <2>1, ResourcesOfIs
<1>7. \A u \in n.uses : u \in e.uses \/ (u.res \in Resources /\ u.stage = "pixel" /\ u.id = e.id)
  BY <1>2, <1>5, <1>6
<1>8. UsesAreOf(n) /\ UpdatesAre(n)
  BY <1>1, <1>3, <1>4, <1>7 DEF UsesAreOf, UpdatesAre
<1>9. IdsOf(n) = {n.id, n.vertex}
  BY <1>3, <1>8 DEF IdsOf, UpdatesAre
<1>10. ResourcesUsed(e) \subseteq ResourcesUsed(n) /\ ResourcesWritten(e) \subseteq ResourcesWritten(n)
  BY <1>2, UsesMore
<1>11. ASSUME NEW p \in DOMAIN e.attachments, ~ e.attachments[p].readonly
       PROVE  ResourceOf(p) \in ResourcesWritten(n)
  <2>1. CASE ~ IsDepthStencil(p)
    BY <1>4, <1>10, <2>1
  <2>2. CASE IsDepthStencil(p)
    <3>1. p \in DepthStencil(Written(e.attachments))
      BY <1>11, <2>2 DEF DepthStencil, Written, IsDepthStencil
    <3>2. ResourceOf(p) \in written
      BY <3>1 DEF ResourcesOf
    <3>3. Use(e, "pixel", ResourceOf(p), "write") \in n.uses
      BY <1>2, <3>2
    <3>4. IsWrite("write")
      BY DEF IsWrite
    <3> QED
      BY <1>5, <3>3, <3>4 DEF ResourcesWritten
  <2> QED
    BY <2>1, <2>2
<1>12. ASSUME NEW p \in DOMAIN e.attachments
       PROVE  /\ IsAttachment(n, p) /\ n.attachments[p].load = "load"
              /\ n.attachments[p].store = "store" /\ n.attachments[p].resolve = None
  <2> DEFINE a == n.attachments[p]
  <2>1. PICK readonly \in BOOLEAN : a = Attachment(readonly) /\ (readonly => IsDepthStencil(p))
    BY <1>3, <1>4
  <2>2. /\ a = [load |-> a.load, clear |-> a.clear, store |-> a.store, resolve |-> a.resolve,
                resolver |-> a.resolver, readonly |-> a.readonly]
        /\ a.load = "load" /\ a.store = "store" /\ a.resolve = None /\ a.readonly = readonly
    BY <2>1, AttachmentIs
  <2>3. p \in Planes /\ ResourceOf(p) \in ResourcesUsed(n)
    BY <1>4, <1>10
  <2>4. IF a.readonly THEN IsDepthStencil(p) ELSE ResourceOf(p) \in ResourcesWritten(n)
    BY <1>3, <1>11, <2>1, <2>2
  <2> QED
    BY ONLY <2>2, <2>3, <2>4 DEF IsAttachment
<1>13. /\ \A p \in DOMAIN n.attachments : IsAttachment(n, p)
       /\ \A p, q \in DOMAIN n.attachments :
            n.attachments[p].resolve # None /\ n.attachments[p].resolve = n.attachments[q].resolve
            => p = q
  BY <1>3, <1>12
<1>14. n.attachments = [p \in DOMAIN n.attachments |-> n.attachments[p]] /\ n.cmds \in Seq(Nat)
  BY <1>3, <1>4
<1>15. IsRecorded(n)
  BY <1>3, <1>12 DEF IsRecorded
<1>16. IdsOf(n) \subseteq Nat
  BY <1>3, <1>4, <1>9
<1>17. \A u \in n.uses : u.res \in Resources /\ u.id \in IdsOf(n)
  BY <1>8, <1>9 DEF UsesAreOf
<1>18. IsWhole(n)
  BY <1>3, <1>13, <1>14, <1>16, <1>17 DEF IsWhole
<1> QED
  BY <1>8, <1>15, <1>18 DEF n

LEMMA EndedPassWhole ==
  ASSUME NEW s, IsOpen(s.encoder), s.encoder.type # "render"
  PROVE  LET n == Ended(s).encoder
         IN  IsWhole(n) /\ IsRecorded(n) /\ UsesAreOf(n) /\ UpdatesAre(n)
<1> DEFINE e == s.encoder
           n == Ended(s).encoder
<1>1. IsOpen(e) /\ e.type # "render"
  OBVIOUS
<1>2. SameShape(n, e) /\ n.uses = e.uses /\ n.wait_vertex = e.wait_vertex
  <2>1. IsEncoder(s.encoder) /\ s.encoder.type # "event" /\ s.encoder.type # "render"
    BY DEF IsOpen
  <2> QED
    BY ONLY <2>1, EndedShape
<1> HIDE DEF e, n
<1>3. /\ IsEncoder(n) /\ n.type = e.type /\ n.vertex = e.vertex /\ n.id = e.id
      /\ n.update = e.update /\ n.update_vertex = e.update_vertex
      /\ n.attachments = e.attachments
  BY <1>1, <1>2 DEF SameShape
<1>4. /\ e.id \in Nat /\ e.type \in {"compute", "blit"} /\ e.attachments = NoAttachments
      /\ e.wait_vertex = {} /\ UpdatesAre(e) /\ UsesAreOf(e)
  BY <1>1 DEF IsOpen
<1>5. UsesAreOf(n) /\ UpdatesAre(n)
  BY <1>2, <1>3, <1>4 DEF UsesAreOf, UpdatesAre
<1>6. IdsOf(n) = {n.id} /\ n.update_vertex = {}
  BY <1>3, <1>4, <1>5 DEF IdsOf, UpdatesAre
<1>7. \A u \in n.uses : u.res \in Resources /\ u.id \in IdsOf(n)
  BY <1>3, <1>4, <1>5, <1>6 DEF UsesAreOf
<1>8. IsWhole(n)
  BY <1>2, <1>3, <1>4, <1>6, <1>7 DEF IsWhole
<1>9. DOMAIN n.attachments = {}
  BY <1>3, <1>4 DEF NoAttachments
<1> QED
  BY <1>5, <1>8, <1>9 DEF IsRecorded, n

LEMMA EventWhole ==
  LET n == Encoder("event", None, None) IN IsWhole(n) /\ IsRecorded(n)
<1> DEFINE n == Encoder("event", None, None)
<1>1. /\ IsEncoder(n) /\ n.type = "event" /\ n.uses = {} /\ n.attachments = NoAttachments
      /\ n.update = {} /\ n.update_vertex = {} /\ n.wait = {} /\ n.wait_vertex = {}
  BY EncoderIs DEF Encoder
<1> HIDE DEF n
<1>2. IdsOf(n) = {} /\ Waited(n) = {} /\ DOMAIN n.attachments = {}
  BY <1>1 DEF IdsOf, Waited, NoAttachments
<1>3. IsWhole(n)
  BY <1>1, <1>2 DEF IsWhole
<1> QED
  BY <1>2, <1>3 DEF IsRecorded, n

-----------------------------------------------------------------------------
(* What a pass waits for while it is recorded.                             *)

(* A tracker remembers ids of accesses to its resource.                    *)
IsNamed(t, r, uses) ==
  /\ t.exclusive # 0 => \E u \in uses : u.res = r /\ u.id = t.exclusive /\ IsWrite(u.mode)
  /\ \A i \in DOMAIN t.shared : \E u \in uses : u.res = r /\ u.id = t.shared[i]

AreNamed(ts, uses) == \A r \in Resources : IsNamed(ts[r], r, uses)

LEMMA NamedGrows ==
  ASSUME NEW t, NEW r, NEW uses, NEW more, uses \subseteq more, IsNamed(t, r, uses)
  PROVE  IsNamed(t, r, more)
  BY DEF IsNamed

(* What an access waits for conflicts with it.                             *)
Asks(t, e, stage, mode, r, uses) ==
  /\ t \in Tracker /\ IsPassOf(e) /\ stage \in {"compute", "vertex", "pixel"}
  /\ (stage = "compute") <=> e.type # "render"
  /\ IsBelow(t, e.id + 1) /\ DistantWrites = FALSE /\ FenceCount <= FirstOf(e)
  /\ stage # "compute" /\ IsWrite(mode) => MayWrite(t, IdOf(e, stage))
  /\ IsNamed(t, r, uses)

ConflictsWith(f, id, mode, r, uses) ==
  \E a \in uses : a.res = r /\ (IsWrite(a.mode) \/ IsWrite(mode)) /\ IsFenceOf(id, f, a.id)

LEMMA AnswerNeeds ==
  ASSUME NEW t, NEW e, NEW stage, NEW mode, NEW r, NEW uses, Asks(t, e, stage, mode, r, uses),
         NEW f \in AnswerTo(e, t, stage, mode).waits
  PROVE  ConflictsWith(f, IdOf(e, stage), mode, r, uses)
<1> USE DEF Asks, ConflictsWith
<1> DEFINE id == IdOf(e, stage)
           waits == AnswerTo(e, t, stage, mode).waits
<1>1. /\ e.id \in Nat /\ FirstOf(e) \in Nat /\ FirstOf(e) <= id /\ id \in Nat
      /\ stage # "compute" => e.id = e.vertex + 1 /\ e.vertex \in Nat
  BY IdsOfPass
<1>2. (waits # {} => t.exclusive < id) /\ IsSomeOf(waits, t, id, stage, mode)
  BY <1>1, AnswerWaits
<1>3. /\ t.exclusive \in Nat /\ t.shared \in Seq(Nat) /\ Lane \in Nat /\ FenceCount \in Nat
      /\ FenceCount >= 3 * Lane /\ Lane > 1
  BY FenceCountIs DEF Tracker
<1> HIDE DEF waits, id
<1>4. ASSUME NEW h \in LastWriter(t, id), t.exclusive < id
      PROVE  \E a \in uses : a.res = r /\ IsWrite(a.mode) /\ IsFenceOf(id, h, a.id)
  <2>1. h = Fence(t.exclusive) /\ id - t.exclusive < Lane
    BY <1>4 DEF LastWriter
  <2>2. t.exclusive # 0 /\ id < t.exclusive + 2 * Lane
    BY <1>1, <1>3, <2>1
  <2>3. PICK a \in uses : a.res = r /\ a.id = t.exclusive /\ IsWrite(a.mode)
    BY <2>2 DEF IsNamed
  <2> QED
    BY <1>4, <2>1, <2>2, <2>3 DEF IsFenceOf
<1>5. ASSUME NEW h \in AnyLastWriter(t), t.exclusive < id, MayWrite(t, id)
      PROVE  \E a \in uses : a.res = r /\ IsWrite(a.mode) /\ IsFenceOf(id, h, a.id)
  <2>1. h = Fence(t.exclusive) /\ t.exclusive # 0
    BY <1>5 DEF AnyLastWriter
  <2>2. id < t.exclusive + 2 * Lane
    BY <1>1, <1>3, <1>5, <2>1 DEF MayWrite
  <2>3. PICK a \in uses : a.res = r /\ a.id = t.exclusive /\ IsWrite(a.mode)
    BY <2>1 DEF IsNamed
  <2> QED
    BY <1>5, <2>1, <2>2, <2>3 DEF IsFenceOf
<1>6. ASSUME NEW h \in RecentReaders(t, id)
      PROVE  \E a \in uses : a.res = r /\ IsFenceOf(id, h, a.id)
  <2>1. PICK c \in ToSet(t.shared) : h = Fence(c) /\ c < id /\ c + Lane > id
    BY <1>6 DEF RecentReaders
  <2>2. PICK i \in DOMAIN t.shared : c = t.shared[i]
    BY DEF ToSet
  <2>3. PICK a \in uses : a.res = r /\ a.id = c
    BY <2>2 DEF IsNamed
  <2>4. c \in Nat
    BY <1>3, <2>2
  <2>5. id < c + 2 * Lane
    BY <1>1, <1>3, <2>1, <2>4
  <2> QED
    BY <2>1, <2>3, <2>5 DEF IsFenceOf
<1>7. \E a \in uses : a.res = r /\ (IsWrite(a.mode) \/ IsWrite(mode)) /\ IsFenceOf(id, f, a.id)
  <2>0. f \in waits
    BY DEF waits
  <2>1. t.exclusive < id
    BY <1>2, <2>0
  <2>2. CASE ~ IsWrite(mode)
    <3>1. f \in LastWriter(t, id)
      BY <1>2, <2>0, <2>2 DEF IsSomeOf
    <3> QED
      BY <1>4, <2>1, <3>1
  <2>3. CASE IsWrite(mode)
    <3>1. \/ f \in LastWriter(t, id) \/ f \in RecentReaders(t, id)
          \/ stage # "compute" /\ f \in AnyLastWriter(t)
      BY <1>2, <2>0, <2>3 DEF IsSomeOf
    <3>2. stage # "compute" => MayWrite(t, id)
      BY <2>3 DEF id
    <3> QED
      BY <1>4, <1>5, <1>6, <2>1, <2>3, <3>1, <3>2
  <2> QED
    BY <2>2, <2>3
<1> QED
  BY <1>7 DEF id

LEMMA AddedNames ==
  ASSUME NEW t \in Tracker, NEW id \in Nat
  PROVE  \A i \in DOMAIN AddShared(t, id) :
           AddShared(t, id)[i] = id \/ \E k \in DOMAIN t.shared : AddShared(t, id)[i] = t.shared[k]
<1> DEFINE s == AddShared(t, id)
           all == <<id>> \o t.shared
<1>1. t.shared \in Seq(Nat) /\ Len(t.shared) \in Nat /\ Lane \in Nat
  BY FenceCountIs DEF Tracker
<1>2. /\ Len(all) = Len(t.shared) + 1 /\ all[1] = id
      /\ \A i \in 2 .. Len(t.shared) + 1 : all[i] = t.shared[i - 1]
      /\ all \in Seq(Nat)
  BY <1>1
<1>3. CASE IsLastAccess(t, id)
  BY <1>3 DEF AddShared
<1>4. CASE ~ IsLastAccess(t, id)
  <2> DEFINE m == IF Len(t.shared) < Lane THEN Len(t.shared) + 1 ELSE Lane
  <2>1. s = SubSeq(all, 1, m)
    BY <1>4 DEF AddShared
  <2>2. m \in Nat /\ m <= Len(t.shared) + 1
    BY <1>1
  <2> HIDE DEF all, m, s
  <2>3. DOMAIN s = 1 .. m /\ \A i \in 1 .. m : s[i] = all[i]
    BY <1>2, <2>1, <2>2
  <2> SUFFICES ASSUME NEW i \in 1 .. m
               PROVE  s[i] = id \/ \E k \in DOMAIN t.shared : s[i] = t.shared[k]
    BY <2>3 DEF s
  <2>4. i = 1 \/ i \in 2 .. Len(t.shared) + 1
    BY <1>1, <2>2
  <2>5. i \in 2 .. Len(t.shared) + 1 => i - 1 \in DOMAIN t.shared
    BY <1>1
  <2> QED
    BY <1>2, <2>3, <2>4, <2>5
<1> QED
  BY <1>3, <1>4

(* The tracker that an access leaves remembers that access.                *)
LEMMA AnswerNames ==
  ASSUME NEW t \in Tracker, NEW e, IsPassOf(e), NEW stage \in {"compute", "vertex", "pixel"},
         NEW mode, (stage = "compute") <=> e.type # "render", IsBelow(t, e.id + 1),
         NEW r, NEW uses, IsNamed(t, r, uses)
  PROVE  IsNamed(AnswerTo(e, t, stage, mode).tracker, r, uses \union { Use(e, stage, r, mode) })
<1> DEFINE a == AnswerTo(e, t, stage, mode)
           id == IdOf(e, stage)
           use == Use(e, stage, r, mode)
           all == uses \union {use}
<1>1. use.res = r /\ use.id = id /\ use.mode = mode
  BY DEF Use, IdOf
<1>2. e.id \in Nat /\ t.exclusive \in Nat /\ t.exclusive <= e.id /\ id \in Nat /\ FirstOf(e) \in Nat
  BY IdsOfPass DEF Tracker, IsBelow
<1>3. /\ IsWrite(mode) => WriteIs(t, a, id, FirstOf(e))
      /\ ~ IsWrite(mode) => ReadIs(t, a, id, FirstOf(e), e.id)
  BY <1>2, AnswerIs
<1>4. IsNamed(t, r, all) /\ use \in all
  BY NamedGrows
<1> HIDE DEF a, id, use, all
<1>5. CASE IsWrite(mode)
  <2>1. a.tracker.exclusive = id /\ (a.tracker.shared = t.shared \/ a.tracker.shared = <<>>)
    BY <1>2, <1>3, <1>5 DEF WriteIs
  <2> QED
    BY <1>1, <1>4, <1>5, <2>1 DEF IsNamed, a, all, use
<1>6. CASE ~ IsWrite(mode)
  <2>1. /\ a.tracker.exclusive = t.exclusive
        /\ a.tracker.shared = t.shared \/ a.tracker.shared = AddShared(t, id)
    BY <1>3, <1>6 DEF ReadIs
  <2>2. \A i \in DOMAIN a.tracker.shared :
          a.tracker.shared[i] = id \/ \E k \in DOMAIN t.shared : a.tracker.shared[i] = t.shared[k]
    BY <1>2, <2>1, AddedNames
  <2> QED
    BY <1>1, <1>4, <2>1, <2>2 DEF IsNamed, a, all, use
<1> QED
  BY <1>5, <1>6

(* The fence f is of an earlier access that conflicts with one of the pass, *)
(* or of its own vertex stage.                                             *)
IsNeeded(e, f, id, old) ==
  \/ f = Fence(FirstOf(e)) /\ FirstOf(e) < id
  \/ \E a \in old, u \in e.uses : Conflict(a, u) /\ IsFenceOf(id, f, a.id)

WaitsAreNeeded(e, old) ==
  /\ \A f \in e.wait : IsNeeded(e, f, e.id, old)
  /\ e.type = "render" => \A f \in e.wait_vertex : IsNeeded(e, f, e.vertex, old)

(* A pass is recorded after those of g.                                    *)
Records(s, g) ==
  /\ MayEnd(s, g) /\ PassFits(s.encoder, s.trackers, g)
  /\ AreNamed(s.trackers, g.uses \union s.encoder.uses)
  /\ WaitsAreNeeded(s.encoder, g.uses)

LEMMA RecordsAccess ==
  ASSUME NEW s, NEW g, Records(s, g), NEW resources, resources \subseteq Resources,
         NEW stage \in {"compute", "vertex", "pixel"}, NEW mode,
         (stage = "compute") <=> s.encoder.type # "render",
         stage # "compute" /\ IsWrite(mode) =>
           \A r \in resources : MayWrite(s.trackers[r], IdOf(s.encoder, stage)),
         FragmentStaysLast(s.encoder, resources, stage, mode)
  PROVE  Records(Accessed(s, resources, stage, mode), g)
<1> DEFINE m == Accessed(s, resources, stage, mode)
           e == s.encoder
           n == m.encoder
           old == g.uses \union e.uses
           all == g.uses \union n.uses
           id == IdOf(e, stage)
           waits == WaitsOf(s, resources, stage, mode)
<1>1. /\ DistantWrites = FALSE /\ s.trackers \in [Resources -> Tracker]
      /\ IsPassOf(e) /\ AllBelow(s.trackers, e.id + 1) /\ WaitsReach(e) /\ UpdatesAre(e)
      /\ e.type = "render" =>
           /\ DOMAIN e.attachments \subseteq Planes
           /\ \A r \in ResourcesOf(DOMAIN e.attachments) : MayWrite(s.trackers[r], e.id)
      /\ FenceCount <= FirstOf(e)
      /\ OrderIs(g.before, g.last, fence_locality, FirstOf(e))
  BY DEF Records, MayEnd
<1>2. MayAccess(s, resources, stage, mode)
  BY <1>1 DEF MayAccess
<1>3. PassFits(n, m.trackers, g)
  <2>1. PassFits(s.encoder, s.trackers, g) /\ FragmentStaysLast(s.encoder, resources, stage, mode)
    BY DEF Records
  <2> QED
    BY ONLY <1>2, <2>1, AccessedFits
<1>4. /\ IsPassOf(n) /\ WaitsReach(n) /\ UpdatesAre(n)
      /\ n.id = e.id /\ n.type = e.type /\ n.vertex = e.vertex /\ n.attachments = e.attachments
      /\ m.trackers \in [Resources -> Tracker] /\ AllBelow(m.trackers, e.id + 1)
      /\ \A r \in Resources : MayWrite(s.trackers[r], e.id) => MayWrite(m.trackers[r], e.id)
  BY ONLY <1>2, AccessedReaches
<1>5. n.uses = e.uses \union { Use(e, stage, r, mode) : r \in resources }
  BY <1>1, AccessedEncoder DEF IsPassOf
<1>6. /\ stage = "vertex" => n.wait = e.wait /\ n.wait_vertex = e.wait_vertex \union waits
      /\ stage # "vertex" => n.wait = e.wait \union waits /\ n.wait_vertex = e.wait_vertex
  BY <1>1, AccessedWaits DEF IsPassOf
<1>7. /\ e.id \in Nat /\ FirstOf(e) \in Nat /\ FirstOf(e) <= id /\ id \in Nat
      /\ stage = "vertex" => id = e.vertex
      /\ stage # "vertex" => id = e.id
  BY <1>1, IdsOfPass
<1>8. /\ \A r \in Resources : r \notin resources => m.trackers[r] = s.trackers[r]
      /\ \A r \in Resources : r \in resources =>
           m.trackers[r] = AnswerTo(e, s.trackers[r], stage, mode).tracker
  BY DEF Accessed
<1> HIDE DEF m
<1>9. \A r \in resources : LET u == Use(e, stage, r, mode) IN u.res = r /\ u.id = id /\ u.mode = mode
  BY DEF Use, IdOf
<1> HIDE DEF id
<1>10. AreNamed(m.trackers, all)
  <2> SUFFICES ASSUME NEW r \in Resources PROVE IsNamed(m.trackers[r], r, all)
    BY DEF AreNamed
  <2>1. IsNamed(s.trackers[r], r, old)
    BY DEF Records, AreNamed
  <2>2. CASE r \notin resources
    <3>1. old \subseteq all
      BY <1>5
    <3> QED
      BY <1>8, <2>1, <2>2, <3>1, NamedGrows
  <2>3. CASE r \in resources
    <3> DEFINE more == old \union { Use(e, stage, r, mode) }
    <3>1. more \subseteq all
      BY <1>5, <2>3
    <3>2. s.trackers[r] \in Tracker /\ IsBelow(s.trackers[r], e.id + 1)
      BY <1>1 DEF AllBelow
    <3> HIDE DEF e, old
    <3>3. IsNamed(AnswerTo(e, s.trackers[r], stage, mode).tracker, r, more)
      BY <1>1, <2>1, <3>2, AnswerNames DEF e
    <3> HIDE DEF more
    <3> QED
      BY <1>8, <2>3, <3>1, <3>3, NamedGrows
  <2> QED
    BY <2>2, <2>3
<1>11. ASSUME NEW f \in waits PROVE IsNeeded(n, f, id, g.uses)
  <2>1. PICK r \in resources : f \in AnswerTo(e, s.trackers[r], stage, mode).waits
    BY <1>11 DEF WaitsOf
  <2>2. /\ s.trackers[r] \in Tracker /\ IsBelow(s.trackers[r], e.id + 1)
        /\ IsNamed(s.trackers[r], r, old)
    BY <1>1 DEF AllBelow, Records, AreNamed
  <2>3. stage # "compute" /\ IsWrite(mode) => MayWrite(s.trackers[r], IdOf(e, stage))
    OBVIOUS
  <2>4. ConflictsWith(f, IdOf(e, stage), mode, r, old)
    <3>1. Asks(s.trackers[r], e, stage, mode, r, old)
      BY <1>1, <2>2, <2>3 DEF Asks
    <3> HIDE DEF e, old
    <3> QED
      BY <2>1, <3>1, AnswerNeeds
  <2>5. PICK a \in old : /\ a.res = r /\ (IsWrite(a.mode) \/ IsWrite(mode))
                         /\ IsFenceOf(id, f, a.id)
    BY <2>4 DEF id, ConflictsWith
  <2>6. CASE a \in g.uses
    <3>1. Use(e, stage, r, mode) \in n.uses /\ Conflict(a, Use(e, stage, r, mode))
      BY <1>5, <1>9, <2>5 DEF Conflict
    <3> QED
      BY <2>5, <2>6, <3>1 DEF IsNeeded
  <2>7. CASE a \in e.uses
    <3>1. a.id = (IF a.stage = "vertex" THEN e.vertex ELSE e.id) /\ a.id < id
          /\ a.stage \in (IF e.type = "render" THEN {"vertex", "pixel"} ELSE {"compute"})
      BY <2>5, <2>7 DEF Records, PassFits, UsesAreOf, IsFenceOf
    <3>2. a.stage = "vertex" /\ a.id = FirstOf(e) /\ FirstOf(n) < id
      BY <1>1, <1>4, <1>7, <3>1 DEF IsPassOf, FirstOf
    <3>3. f = Fence(FirstOf(n))
      BY <1>4, <2>5, <3>2 DEF IsFenceOf, FirstOf
    <3> QED
      BY <3>2, <3>3 DEF IsNeeded
  <2> QED
    BY <2>5, <2>6, <2>7
<1>12. \A f, x : IsNeeded(e, f, x, g.uses) => IsNeeded(n, f, x, g.uses)
  BY <1>4, <1>5 DEF IsNeeded, FirstOf
<1> HIDE DEF waits
<1>13. WaitsAreNeeded(n, g.uses)
  <2>1. WaitsAreNeeded(e, g.uses)
    BY DEF Records
  <2> HIDE DEF e, n
  <2> QED
    BY <1>4, <1>6, <1>7, <1>11, <1>12, <2>1 DEF WaitsAreNeeded
<1>14. MayEnd(m, g)
  <2>1. n.type = "render" =>
           /\ DOMAIN n.attachments \subseteq Planes
           /\ \A r \in ResourcesOf(DOMAIN n.attachments) : MayWrite(m.trackers[r], n.id)
    <3>1. e.type = "render" => ResourcesOf(DOMAIN e.attachments) \subseteq Resources
      BY <1>1, ResourcesOfIs
    <3> QED
      BY <1>1, <1>4, <3>1
  <2>2. FirstOf(n) = FirstOf(e)
    BY <1>4 DEF FirstOf
  <2> QED
    BY <1>1, <1>4, <2>1, <2>2 DEF MayEnd
<1> QED
  BY <1>3, <1>10, <1>13, <1>14 DEF Records, m

(* A pass starts.                                                          *)
LEMMA RecordsStart ==
  ASSUME DistantWrites = FALSE, NEW s, NEW g, NEW first, first = FirstOf(s.encoder), FenceCount <= first,
         s.trackers \in [Resources -> Tracker], AllBelow(s.trackers, first),
         PassesAreOrdered(first, g), TrackersKnow(first, s.trackers, g),
         AreNamed(s.trackers, g.uses),
         OrderIs(g.before, g.last, fence_locality, first),
         IsPassOf(s.encoder), UpdatesAre(s.encoder), s.encoder.uses = {},
         s.encoder.wait = {}, s.encoder.wait_vertex = {},
         s.encoder.type = "render" =>
           /\ DOMAIN s.encoder.attachments \subseteq Planes
           /\ \A r \in ResourcesOf(DOMAIN s.encoder.attachments) :
                MayWrite(s.trackers[r], s.encoder.id)
  PROVE  Records(s, g)
<1>1. /\ first \in Nat /\ s.encoder.id \in Nat /\ first <= s.encoder.id
  BY DEF IsPassOf, FirstOf
<1>2. AllBelow(s.trackers, s.encoder.id + 1)
  BY <1>1, BelowGrows
<1>3. WaitsReach(s.encoder) /\ WaitsAreNeeded(s.encoder, g.uses)
  BY DEF WaitsReach, WaitsAreNeeded
<1>4. PassFits(s.encoder, s.trackers, g)
  BY <1>1, PassStart
<1>5. MayEnd(s, g)
  BY <1>2, <1>3 DEF MayEnd
<1> QED
  BY <1>3, <1>4, <1>5 DEF Records

LEMMA MinimalAreFull ==
  ASSUME NEW full, NEW summary, NEW id \in Nat
  PROVE  MinimalFences(full, summary, id) \subseteq full
<1> DEFINE n == FenceCount - 1
<1>1. PICK v : /\ v[0] = [minimal |-> {}, accessible |-> {}]
               /\ \A k \in 1 .. FenceCount - 1 :
                    v[k] = VisitFence(v[k - 1], full, summary, Fence(id - k))
               /\ MinimalFences(full, summary, id) = v[FenceCount - 1].minimal
  BY MinimalFencesIs
<1> DEFINE T == { k \in 0 .. n : v[k].minimal \subseteq full }
<1>2. FenceCount \in Nat \ {0} /\ n \in Nat
  BY FenceCountIs
<1>3. 0 \in T
  BY <1>1, <1>2
<1>4. ASSUME NEW k \in 0 .. n - 1, k \in T
      PROVE  k + 1 \in T
  <2> DEFINE x == id - (k + 1)
  <2>1. k + 1 \in 1 .. FenceCount - 1 /\ (k + 1) - 1 = k /\ k + 1 \in 0 .. n
    BY <1>2
  <2>2. v[k + 1] = VisitFence(v[k], full, summary, Fence(x))
    BY <1>1, <2>1
  <2> HIDE DEF x, n
  <2>3. v[k + 1].minimal \subseteq v[k].minimal \union full
    BY <2>2 DEF VisitFence
  <2> QED
    BY <1>4, <2>1, <2>3
<1>5. n \in T
  <2> HIDE DEF T
  <2>1. n \in Nat /\ 0 \in T /\ \A k \in 0 .. n - 1 : k \in T => k + 1 \in T
    BY <1>2, <1>3, <1>4
  <2>2. 0 .. n \subseteq T
    BY ONLY <2>1, Induction
  <2> QED
    BY <2>1, <2>2
<1> QED
  BY <1>1, <1>5

(* What is simplified is waited for by an access, or a generation older.   *)
LEMMA MinimalIsFew ==
  ASSUME NEW strong, NEW summary, NEW id \in Nat, FenceCount <= id,
         NEW f \in MinimalFences(FullFences(strong, id), summary, id), f \notin strong
  PROVE  \E y \in Nat : IsFenceOf(id, f, y) /\ y + Lane <= id
<1>1. f \in FullFences(strong, id)
  BY MinimalAreFull
<1>2. f \in WeakFenceMask(id)
  BY <1>1 DEF FullFences, MergeWithLaneMaskOff
<1>3. PICK k \in Lane .. 2 * Lane - 1 : f = Fence(id - k)
  BY <1>2 DEF WeakFenceMask
<1>4. FenceCount \in Nat /\ Lane \in Nat /\ FenceCount >= 3 * Lane /\ Lane > 1
  BY FenceCountIs
<1>5. id - k \in Nat /\ IsFenceOf(id, f, id - k) /\ (id - k) + Lane <= id
  BY <1>3, <1>4 DEF IsFenceOf
<1> QED
  BY <1>5

(* A recorded pass: the fences it waits for are of passes that conflict with *)
(* it, or a generation older.                                              *)
IsWaitOf(n, f, id, old) ==
  \/ \E a \in old, u \in n.uses : Conflict(a, u) /\ IsFenceOf(id, f, a.id)
  \/ \E y \in Nat : IsFenceOf(id, f, y) /\ y + Lane <= id

IsAdded(n, first, old) ==
  /\ UpdatesAre(n) /\ UsesAreOf(n) /\ n.id \in Nat /\ first = FirstOf(n)
  /\ n.type = "render" => n.vertex \in Nat /\ n.id = n.vertex + 1
  /\ n.type # "render" => n.wait_vertex = {}
  /\ \A f \in n.wait : IsWaitOf(n, f, n.id, old)
  /\ n.type = "render" => \A f \in n.wait_vertex : IsWaitOf(n, f, n.vertex, old)

(* No pass is being recorded; those of g are.                              *)
Between(first, ts, summary, g) ==
  /\ first \in Nat /\ FenceCount <= first
  /\ ts \in [Resources -> Tracker] /\ AllBelow(ts, first)
  /\ PassesAreOrdered(first, g) /\ TrackersKnow(first, ts, g) /\ AreNamed(ts, g.uses)
  /\ OrderIs(g.before, g.last, summary, first)

LEMMA EndIsBetween ==
  ASSUME NEW e, NEW n, NEW ts, NEW g, NEW f, NEW summary, EndsPass(e, n, ts, g, f, summary),
         AreNamed(ts, f.uses)
  PROVE  Between(e.id + 1, ts, summary, f) /\ UsesAreOf(n)
<1>1. PassesAreOrdered(e.id + 1, f)
  BY EndIsOrdered
<1>2. TrackersKnow(e.id + 1, ts, f)
  BY EndIsKnown DEF TrackersKnow
<1>3. FenceCount <= e.id + 1 /\ e.id + 1 \in Nat
  <2>1. EndsPass(e, n, ts, g, f, summary)
    OBVIOUS
  <2>2. /\ e.id \in Nat /\ FirstOf(e) \in Nat /\ FenceCount \in Nat
        /\ e.id = FirstOf(e) \/ (e.type = "render" /\ e.id = FirstOf(e) + 1)
        /\ FenceCount <= FirstOf(e)
    BY ONLY <2>1, EndIs
  <2> QED
    BY <2>2
<1>4. UsesAreOf(n)
  BY DEF EndsPass, PassFits, UsesAreOf
<1> QED
  BY <1>1, <1>2, <1>3, <1>4 DEF EndsPass, Between

LEMMA OtherRecorded ==
  ASSUME NEW s, NEW g, Records(s, g), s.encoder.type # "render"
  PROVE  LET n == Ended(s)
         IN  /\ Between(s.encoder.id + 1, n.trackers, n.summary, Encoded(g, n.encoder))
             /\ IsAdded(n.encoder, FirstOf(s.encoder), g.uses)
<1> DEFINE m == Ended(s)
           n == m.encoder
           e == s.encoder
           f == Encoded(g, n)
           full == FullFences(e.wait, e.id)
           wait == MinimalFences(full, fence_locality, e.id)
<1>1. MayEnd(s, g) /\ PassFits(s.encoder, s.trackers, g) /\ s.encoder.type # "render"
      /\ AreNamed(s.trackers, g.uses \union e.uses) /\ WaitsAreNeeded(e, g.uses)
  BY DEF Records
<1>2. EndsPass(e, n, m.trackers, g, f, m.summary)
  BY <1>1, OtherEnds
<1>3. /\ IsEncoder(e) /\ e.type # "event" /\ e.id \in Nat /\ FirstOf(e) = e.id
      /\ FenceCount <= e.id /\ e.wait_vertex = {}
  BY <1>1 DEF MayEnd, IsPassOf, FirstOf, WaitsReach
<1>4. m.trackers = s.trackers /\ n = [e EXCEPT !.wait = wait]
  BY <1>1, <1>3, EndedOther
<1> HIDE DEF m, wait
<1>5. n.wait = wait /\ n.wait_vertex = {} /\ n.uses = e.uses
  BY <1>3, <1>4 DEF IsEncoder
<1>6. f.uses = g.uses \union e.uses
  BY <1>5, EncodedHost
<1> HIDE DEF f
<1>7. Between(e.id + 1, m.trackers, m.summary, f) /\ UsesAreOf(n)
  <2>1. AreNamed(m.trackers, f.uses)
    BY <1>1, <1>4, <1>6
  <2> HIDE DEF e, n
  <2> QED
    BY <1>2, <2>1, EndIsBetween
<1>8. n.type = e.type /\ n.id = e.id /\ UpdatesAre(n)
  BY <1>2 DEF EndsPass
<1>9. ASSUME NEW x \in n.wait PROVE IsWaitOf(n, x, n.id, g.uses)
  <2>1. CASE x \in e.wait
    <3>1. IsNeeded(e, x, e.id, g.uses)
      BY <1>1, <2>1 DEF WaitsAreNeeded
    <3> QED
      BY <1>3, <1>5, <1>8, <3>1 DEF IsNeeded, IsWaitOf
  <2>2. CASE x \notin e.wait
    <3>1. \E y \in Nat : IsFenceOf(e.id, x, y) /\ y + Lane <= e.id
      BY <1>3, <1>5, <2>2, MinimalIsFew DEF wait
    <3> QED
      BY <1>8, <3>1 DEF IsWaitOf
  <2> QED
    BY <2>1, <2>2
<1>10. IsAdded(n, FirstOf(e), g.uses)
  BY <1>1, <1>3, <1>5, <1>7, <1>8, <1>9 DEF IsAdded, FirstOf
<1> QED
  BY <1>7, <1>10 DEF m, f

LEMMA RenderRecorded ==
  ASSUME NEW s, NEW g, Records(s, g), s.encoder.type = "render"
  PROVE  LET n == Ended(s)
         IN  /\ Between(s.encoder.id + 1, n.trackers, n.summary, Encoded(g, n.encoder))
             /\ IsAdded(n.encoder, FirstOf(s.encoder), g.uses)
<1> DEFINE m == Ended(s)
           n == m.encoder
           resources == ResourcesOf(DepthStencil(Written(s.encoder.attachments)))
           w == Accessed(s, resources, "pixel", "write")
           e == w.encoder
           f == Encoded(g, n)
           vertex == s.encoder.vertex
           id == s.encoder.id
           early == e.wait_vertex
           strong == e.wait \union { Fence(vertex) }
           first == [fence_locality EXCEPT ![Fence(vertex)] = FullFences(early, vertex)]
           wait == MinimalFences(FullFences(strong, id), first, id) \ { Fence(vertex) }
           wait_vertex == MinimalFences(FullFences(early, vertex), fence_locality, vertex)
<1>1. MayEnd(s, g) /\ PassFits(s.encoder, s.trackers, g)
  BY DEF Records
<1>2. /\ IsPassOf(s.encoder) /\ FenceCount <= FirstOf(s.encoder) /\ vertex \in Nat /\ id = vertex + 1
      /\ FirstOf(s.encoder) = vertex /\ FenceCount <= vertex /\ id \in Nat /\ FenceCount <= id
  <2>1. IsPassOf(s.encoder) /\ FenceCount <= FirstOf(s.encoder)
    BY <1>1 DEF MayEnd
  <2> QED
    BY <2>1, FenceCountIs DEF IsPassOf, FirstOf
<1>3. /\ m.trackers = w.trackers
      /\ n = [e EXCEPT !.wait = wait, !.wait_vertex = wait_vertex]
  BY EndedRender
<1>4. MayAccess(s, resources, "pixel", "write")
  BY <1>1, LastAccess
<1>5. \E o : o.id = s.encoder.id /\ EndsPass(o, n, m.trackers, g, f, m.summary)
  BY <1>1, RenderEnds
<1> HIDE DEF m, resources
<1>6. Records(w, g)
  <2>1. /\ Records(s, g) /\ resources \subseteq Resources /\ "pixel" \in {"compute", "vertex", "pixel"}
        /\ ("pixel" = "compute") <=> s.encoder.type # "render"
        /\ "pixel" # "compute" /\ IsWrite("write") =>
             \A r \in resources : MayWrite(s.trackers[r], IdOf(s.encoder, "pixel"))
    BY <1>4 DEF MayAccess
  <2>2. FragmentStaysLast(s.encoder, resources, "pixel", "write")
    BY DEF FragmentStaysLast
  <2> QED
    BY ONLY <2>1, <2>2, RecordsAccess
<1>7. e.id = s.encoder.id /\ e.type = s.encoder.type /\ e.vertex = s.encoder.vertex
  BY ONLY <1>4, AccessedReaches
<1> HIDE DEF w
<1>8. IsPassOf(e) /\ IsEncoder(e) /\ AreNamed(w.trackers, g.uses \union e.uses)
      /\ WaitsAreNeeded(e, g.uses)
  BY <1>6 DEF Records, MayEnd, IsPassOf
<1> HIDE DEF wait, wait_vertex, early, strong
<1>9. /\ n.wait = wait /\ n.wait_vertex = wait_vertex /\ n.uses = e.uses
      /\ n.type = e.type /\ n.id = e.id /\ n.vertex = e.vertex
  BY <1>3, <1>8, WithWaits, WaitsOnly
<1>10. f.uses = g.uses \union e.uses
  BY <1>9, EncodedHost
<1> HIDE DEF f
<1>11. Between(id + 1, m.trackers, m.summary, f) /\ UsesAreOf(n) /\ UpdatesAre(n)
  <2>1. PICK o : o.id = s.encoder.id /\ EndsPass(o, n, m.trackers, g, f, m.summary)
    BY <1>5
  <2>2. AreNamed(m.trackers, f.uses)
    BY <1>3, <1>8, <1>10
  <2>3. Between(o.id + 1, m.trackers, m.summary, f) /\ UsesAreOf(n)
    BY <2>1, <2>2, EndIsBetween
  <2> QED
    BY <2>1, <2>3 DEF EndsPass
<1>12. FirstOf(e) = vertex /\ FirstOf(n) = vertex
  BY <1>7, <1>9 DEF FirstOf
<1>13. ASSUME NEW x \in n.wait PROVE IsWaitOf(n, x, n.id, g.uses)
  <2>1. x # Fence(vertex)
    BY <1>9 DEF wait
  <2>2. CASE x \in e.wait
    <3>1. IsNeeded(e, x, e.id, g.uses)
      BY <1>8, <2>2 DEF WaitsAreNeeded
    <3> QED
      BY <1>9, <1>12, <2>1, <3>1 DEF IsNeeded, IsWaitOf
  <2>3. CASE x \notin e.wait
    <3>1. x \in MinimalFences(FullFences(strong, id), first, id) /\ x \notin strong
      BY <1>9, <2>1, <2>3 DEF wait, strong
    <3>2. \E y \in Nat : IsFenceOf(id, x, y) /\ y + Lane <= id
      BY <1>2, <3>1, MinimalIsFew
    <3> QED
      BY <1>7, <1>9, <3>2 DEF IsWaitOf
  <2> QED
    BY <2>2, <2>3
<1>14. ASSUME NEW x \in n.wait_vertex PROVE IsWaitOf(n, x, n.vertex, g.uses)
  <2>1. CASE x \in early
    <3>1. IsNeeded(e, x, e.vertex, g.uses)
      BY <1>7, <1>8, <2>1 DEF WaitsAreNeeded, early
    <3> QED
      BY <1>2, <1>7, <1>9, <1>12, <3>1 DEF IsNeeded, IsWaitOf
  <2>2. CASE x \notin early
    <3>1. x \in MinimalFences(FullFences(early, vertex), fence_locality, vertex) /\ x \notin early
      BY <1>9, <2>2 DEF wait_vertex
    <3>2. \E y \in Nat : IsFenceOf(vertex, x, y) /\ y + Lane <= vertex
      BY <1>2, <3>1, MinimalIsFew
    <3> QED
      BY <1>7, <1>9, <3>2 DEF IsWaitOf
  <2> QED
    BY <2>1, <2>2
<1>15. IsAdded(n, FirstOf(s.encoder), g.uses)
  BY <1>2, <1>7, <1>9, <1>11, <1>12, <1>13, <1>14 DEF IsAdded
<1> QED
  BY <1>11, <1>15 DEF m, f

-----------------------------------------------------------------------------
(* The list that is recorded, and the order of its passes.                 *)

(* The list and the order of its passes, as if they were encoded so: "g".  *)
IsIn(e) ==
  /\ IsWhole(e) /\ IsRecorded(e) /\ e.type # "null"
  /\ e.type # "event" =>
       /\ UpdatesAre(e) /\ UsesAreOf(e) /\ e.id \in Nat
       /\ e.type = "render" => e.vertex \in Nat /\ e.id = e.vertex + 1

IdsFit(list, g, first) ==
  \A i \in DOMAIN list : \A x \in IdsOf(list[i]) :
    /\ x \in FenceCount .. first - 1 /\ first <= x + 2 * Len(list)
    /\ g.host[x] = list[i].id

IdsGrow(list) ==
  \A i, k \in DOMAIN list : i < k => \A x \in IdsOf(list[i]), y \in IdsOf(list[k]) : x < y

IdsAreAll(list, first) ==
  \A i \in DOMAIN list : \A x \in IdsOf(list[i]) : \A y \in x .. first - 1 :
    \E k \in DOMAIN list : y \in IdsOf(list[k])

UsesFit(list, g) ==
  \A i \in DOMAIN list :
    /\ list[i].uses \subseteq g.uses
    /\ \A a \in g.uses : a.id \in IdsOf(list[i]) => a \in list[i].uses

LastFits(list, g) ==
  \A i \in DOMAIN list : \A x \in IdsOf(list[i]) : \A f \in DOMAIN g.last :
    x \in g.last[f] => f \in Updated(list[i])

WaitsBack(e) == \A f \in Waited(e) : \E id \in IdsOf(e) : Reaches(id, f)

OrderOf(list, g) ==
  [i \in DOMAIN list |->
     { k \in DOMAIN list : i < k /\ \E x \in IdsOf(list[i]), y \in IdsOf(list[k]) :
                                      x \in g.before[y] }]

ListFits(list, g, first) ==
  /\ Len(list) \in Nat /\ DOMAIN list = 1 .. Len(list)
  /\ \A i \in DOMAIN list : IsIn(list[i]) /\ WaitsBack(list[i])
  /\ IdsFit(list, g, first) /\ IdsGrow(list) /\ IdsAreAll(list, first)
  /\ UsesFit(list, g) /\ LastFits(list, g)
  /\ AreSeparate(list) /\ Chains(list, OrderOf(list, g))

(* The pass n is added to the list.                                        *)
Appended(list, n, after) ==
  /\ Len(after) = Len(list) + 1 /\ DOMAIN after = 1 .. Len(list) + 1
  /\ \A i \in DOMAIN list : after[i] = list[i]
  /\ after[Len(list) + 1] = n

LEMMA AppendIs ==
  ASSUME NEW list, AreListed(list), NEW n
  PROVE  Appended(list, n, Append(list, n))
<1> DEFINE S == { list[i] : i \in DOMAIN list }
<1>1. list \in Seq(S) /\ DOMAIN list = 1 .. Len(list) /\ Len(list) \in Nat
  BY DEF AreListed, IsList
<1>2. \A i \in DOMAIN list : list[i] \in S
  OBVIOUS
<1> HIDE DEF S
<1>3. list \in [1 .. Len(list) -> S \union {n}]
  BY <1>1, <1>2
<1>4. list \in Seq(S \union {n}) /\ n \in S \union {n}
  BY <1>1, <1>3
<1> QED
  BY <1>1, <1>4 DEF Appended

(* What is encoded with it.                                                *)
Adds(n, g, f, first) ==
  /\ IsIn(n) /\ n.type # "event" /\ IsAdded(n, first, g.uses)
  /\ f = Encoded(g, n) /\ PassesAreOrdered(first, g) /\ FenceCount <= first
  /\ \E summary : OrderIs(g.before, g.last, summary, first)

(* What is done before a pass is reached through one of its waits.         *)
Behind(n, g, x) ==
  \E w \in Waited(n) : w \in DOMAIN g.last /\ \E z \in g.last[w] : x = z \/ x \in g.before[z]

HasIds(n, first) ==
  /\ first \in Nat /\ n.id \in Nat /\ FenceCount \in Nat /\ FenceCount <= first
  /\ IdsOf(n) = {first, n.id} /\ Updated(n) = {Fence(first), Fence(n.id)}
  /\ n.type = "render" => n.vertex = first /\ n.id = first + 1
  /\ n.type # "render" => n.id = first
  /\ n.update = {n.id} /\ n.update_vertex = (IF n.type = "render" THEN {first} ELSE {})

LEMMA AddedIds ==
  ASSUME NEW n, NEW g, NEW f, NEW first, Adds(n, g, f, first)
  PROVE  HasIds(n, first)
<1>1. IsIn(n) /\ n.type # "event" /\ IsAdded(n, first, g.uses) /\ PassesAreOrdered(first, g)
      /\ FenceCount <= first
  BY DEF Adds
<1>2. /\ first \in Nat /\ n.id \in Nat /\ FenceCount \in Nat
      /\ n.type = "render" => n.vertex = first /\ n.id = first + 1
      /\ n.type # "render" => n.id = first
      /\ n.update = {n.id} /\ n.update_vertex = (IF n.type = "render" THEN {first} ELSE {})
      /\ n.type # "null"
  BY <1>1, FenceCountIs DEF IsAdded, FirstOf, UpdatesAre, PassesAreOrdered, IsIn
<1>3. n.update \union n.update_vertex = {first, n.id}
  BY <1>2
<1> QED
  BY <1>1, <1>2, <1>3 DEF IdsOf, Updated, HasIds

LEMMA AddedWaits ==
  ASSUME NEW n, NEW g, NEW f, NEW first, Adds(n, g, f, first), NEW w \in Waited(n)
  PROVE  /\ w \in 0 .. FenceCount - 1
         /\ \E id \in IdsOf(n) : \E y \in Nat : IsFenceOf(id, w, y) /\ y < first
              /\ (y + Lane <= id \/ \E a \in g.uses, u \in n.uses : Conflict(a, u) /\ a.id = y)
<1>1. /\ IsAdded(n, first, g.uses) /\ PassesAreOrdered(first, g)
  BY DEF Adds
<1>2. /\ first \in Nat /\ n.id \in Nat /\ FenceCount \in Nat /\ IdsOf(n) = {first, n.id}
      /\ n.type = "render" => n.vertex = first /\ n.id = first + 1
      /\ n.type # "render" => n.id = first
  <2>1. HasIds(n, first)
    BY AddedIds
  <2> QED
    BY <2>1 DEF HasIds
<1>3. \E id \in {first, n.id} : IsWaitOf(n, w, id, g.uses)
  BY <1>1, <1>2 DEF IsAdded, Waited
<1>4. PICK id \in {first, n.id} : IsWaitOf(n, w, id, g.uses)
  BY <1>3
<1>5. Lane \in Nat /\ Lane > 1
  BY FenceCountIs
<1>6. \E y \in Nat : IsFenceOf(id, w, y) /\ y < first
              /\ (y + Lane <= id \/ \E a \in g.uses, u \in n.uses : Conflict(a, u) /\ a.id = y)
  <2>1. CASE \E a \in g.uses, u \in n.uses : Conflict(a, u) /\ IsFenceOf(id, w, a.id)
    <3>1. PICK a \in g.uses, u \in n.uses : Conflict(a, u) /\ IsFenceOf(id, w, a.id)
      BY <2>1
    <3>2. a.id \in FenceCount .. first - 1
      BY <1>1 DEF PassesAreOrdered
    <3>3. a.id \in Nat /\ a.id < first
      BY <1>2, <3>2
    <3> QED
      BY <3>1, <3>3
  <2>2. CASE \E y \in Nat : IsFenceOf(id, w, y) /\ y + Lane <= id
    <3>1. PICK y \in Nat : IsFenceOf(id, w, y) /\ y + Lane <= id
      BY <2>2
    <3>2. y < first
      BY <1>2, <1>5, <3>1
    <3> QED
      BY <3>1, <3>2
  <2> QED
    BY <1>4, <2>1, <2>2 DEF IsWaitOf
<1>7. w \in 0 .. FenceCount - 1
  BY <1>6, LaneOfFence DEF IsFenceOf
<1> QED
  BY <1>2, <1>6, <1>7

LEMMA AddedBefore ==
  ASSUME NEW n, NEW g, NEW f, NEW first, Adds(n, g, f, first)
  PROVE  /\ \A y \in FenceCount .. first - 1 : f.before[y] = g.before[y] /\ f.host[y] = g.host[y]
         /\ \A y \in IdsOf(n) : f.host[y] = n.id
         /\ \A y \in IdsOf(n) : \A x \in f.before[y] : x < first => Behind(n, g, x)
         /\ f.uses = g.uses \union n.uses
<1>1. /\ f = Encoded(g, n) /\ PassesAreOrdered(first, g)
      /\ \E summary : OrderIs(g.before, g.last, summary, first)
  BY DEF Adds
<1>2. /\ first \in Nat /\ n.id \in Nat /\ FenceCount \in Nat /\ IdsOf(n) = {first, n.id}
      /\ n.type = "render" => n.vertex = first /\ n.id = first + 1
      /\ n.type # "render" => n.id = first
      /\ n.update = {n.id} /\ n.update_vertex = (IF n.type = "render" THEN {first} ELSE {})
  <2>1. HasIds(n, first)
    BY AddedIds
  <2> QED
    BY <2>1 DEF HasIds
<1>3. DOMAIN g.before = FenceCount .. first - 1 /\ DOMAIN g.host = FenceCount .. first - 1
      /\ DOMAIN g.last = 0 .. FenceCount - 1
  BY <1>1 DEF PassesAreOrdered, IsBefore, OrderIs
<1> DEFINE ids == n.update \union n.update_vertex
           vertex == DoneOf(g, n.wait_vertex)
           done == DoneOf(g, n.wait)
           fragment == vertex \union n.update_vertex \union done
<1>4. ids = IdsOf(n) /\ \A y \in FenceCount .. first - 1 : y \notin ids
  <2>1. ids = {first, n.id}
    BY <1>2
  <2> QED
    BY <1>2, <2>1
<1>5. /\ \A id \in n.update : f.before[id] = fragment
      /\ \A id \in n.update_vertex : id \notin n.update => f.before[id] = vertex
      /\ \A id \in DOMAIN g.before : id \notin ids => f.before[id] = g.before[id]
  <2>1. LET m == Encoded(g, n)
        IN  /\ \A id \in n.update : m.before[id] = fragment
            /\ \A id \in n.update_vertex : id \notin n.update => m.before[id] = vertex
            /\ \A id \in DOMAIN g.before : id \notin ids => m.before[id] = g.before[id]
    BY ONLY EncodedIs
  <2> QED
    BY <1>1, <2>1
<1>6. /\ \A id \in ids : f.host[id] = n.id
      /\ \A id \in DOMAIN g.host : id \notin ids => f.host[id] = g.host[id]
      /\ f.uses = g.uses \union n.uses
  BY <1>1, EncodedHost
<1>7. \A x : x \in vertex \/ x \in done => Behind(n, g, x)
  <2>1. \A w \in Waited(n) : w \in DOMAIN g.last
    BY <1>3, AddedWaits
  <2> QED
    BY <2>1 DEF DoneOf, Behind, Waited
<1> HIDE DEF vertex, done, ids
<1>8. ASSUME NEW y \in IdsOf(n), NEW x \in f.before[y], x < first PROVE Behind(n, g, x)
  <2>1. y \in n.update \/ (y \in n.update_vertex /\ y \notin n.update)
    BY <1>2
  <2>2. x \in fragment \/ x \in vertex
    BY <1>5, <2>1, <1>8
  <2>3. x \notin n.update_vertex
    BY <1>2, <1>8
  <2> QED
    BY <1>7, <2>2, <2>3
<1> QED
  BY <1>3, <1>4, <1>5, <1>6, <1>8

LEMMA AddedLast ==
  ASSUME NEW n, NEW g, NEW f, NEW first, Adds(n, g, f, first), NEW w \in DOMAIN f.last,
         NEW x \in f.last[w]
  PROVE  /\ w \in DOMAIN g.last
         /\ (x \in IdsOf(n) /\ w \in Updated(n)) \/ x \in g.last[w]
<1>1. f = Encoded(g, n) /\ \E summary : OrderIs(g.before, g.last, summary, first)
  BY DEF Adds
<1>2. /\ first \in Nat /\ n.id \in Nat /\ IdsOf(n) = {first, n.id}
      /\ Updated(n) = {Fence(first), Fence(n.id)}
      /\ n.type = "render" => n.id = first + 1
      /\ n.type # "render" => n.id = first
      /\ n.update = {n.id} /\ n.update_vertex = (IF n.type = "render" THEN {first} ELSE {})
  <2>1. HasIds(n, first)
    BY AddedIds
  <2> QED
    BY <2>1 DEF HasIds
<1> DEFINE ids == n.update \union n.update_vertex
<1>3. /\ DOMAIN f.last = DOMAIN g.last
      /\ \A id \in n.update : Fence(id) \in DOMAIN g.last => f.last[Fence(id)] = ids
      /\ \A id \in n.update_vertex :
           Fence(id) \in DOMAIN g.last /\ (\A y \in n.update : Fence(y) # Fence(id)) =>
             f.last[Fence(id)] = n.update_vertex
      /\ \A v \in DOMAIN g.last : (\A y \in ids : Fence(y) # v) => f.last[v] = g.last[v]
  <2>1. LET m == Encoded(g, n)
        IN  /\ DOMAIN m.last = DOMAIN g.last
            /\ \A id \in n.update : Fence(id) \in DOMAIN g.last => m.last[Fence(id)] = ids
            /\ \A id \in n.update_vertex :
                 Fence(id) \in DOMAIN g.last /\ (\A y \in n.update : Fence(y) # Fence(id)) =>
                   m.last[Fence(id)] = n.update_vertex
            /\ \A v \in DOMAIN g.last : (\A y \in ids : Fence(y) # v) => m.last[v] = g.last[v]
    BY ONLY EncodedIs
  <2> QED
    BY <1>1, <2>1
<1>4. ids = {first, n.id}
  BY <1>2
<1> HIDE DEF ids
<1>5. CASE w = Fence(n.id)
  BY <1>2, <1>3, <1>4, <1>5
<1>6. CASE w # Fence(n.id) /\ w = Fence(first)
  <2>1. n.type = "render"
    BY <1>2, <1>6
  <2> QED
    BY <1>2, <1>3, <1>6, <2>1
<1>7. CASE w # Fence(n.id) /\ w # Fence(first)
  BY <1>3, <1>4, <1>7
<1> QED
  BY <1>5, <1>6, <1>7

AppendFits(list, n, after, g, f, first) ==
  /\ Appended(list, n, after) /\ ListFits(list, g, first) /\ Adds(n, g, f, first)
  /\ 2 * (Len(list) + 1) <= Lane

LEMMA AppendedAt ==
  ASSUME NEW list, NEW n, NEW after, Appended(list, n, after), Len(list) \in Nat,
         DOMAIN list = 1 .. Len(list)
  PROVE  /\ \A i \in DOMAIN after :
              \/ i \in DOMAIN list /\ after[i] = list[i] /\ i < Len(list) + 1
              \/ i = Len(list) + 1 /\ after[i] = n
         /\ \A i \in DOMAIN list : i \in DOMAIN after /\ i < Len(list) + 1 /\ after[i] = list[i]
         /\ \A i, k \in DOMAIN after : i < k => i \in DOMAIN list /\ after[i] = list[i]
         /\ Len(list) + 1 \in DOMAIN after /\ after[Len(list) + 1] = n
<1>1. /\ DOMAIN after = 1 .. Len(list) + 1 /\ \A i \in DOMAIN list : after[i] = list[i]
      /\ after[Len(list) + 1] = n
  BY DEF Appended
<1>2. \A i \in 1 .. Len(list) + 1 : i \in 1 .. Len(list) \/ i = Len(list) + 1
  OBVIOUS
<1>3. \A i \in 1 .. Len(list) : i \in 1 .. Len(list) + 1 /\ i < Len(list) + 1
  OBVIOUS
<1>4. \A i, k \in 1 .. Len(list) + 1 : i < k => i \in 1 .. Len(list)
  OBVIOUS
<1> QED
  BY <1>1, <1>2, <1>3, <1>4

(* What the lemmas below need of the list and the pass.                    *)
LEMMA AppendFacts ==
  ASSUME NEW list, NEW n, NEW after, NEW g, NEW f, NEW first,
         AppendFits(list, n, after, g, f, first)
  PROVE  /\ HasIds(n, first) /\ Len(list) \in Nat /\ Len(after) = Len(list) + 1
         /\ \A i \in DOMAIN list : \A x \in IdsOf(list[i]) :
              /\ x \in FenceCount .. first - 1 /\ first <= x + 2 * Len(list)
              /\ f.host[x] = list[i].id
         /\ \A x \in IdsOf(n) : f.host[x] = n.id
         /\ f.uses = g.uses \union n.uses
         /\ \A a \in g.uses : a.id \in FenceCount .. first - 1
         /\ \A a \in n.uses : a.id \in IdsOf(n)
<1>1. /\ Appended(list, n, after) /\ Len(list) \in Nat /\ IdsFit(list, g, first)
      /\ Adds(n, g, f, first) /\ IsIn(n) /\ n.type # "event" /\ PassesAreOrdered(first, g)
  BY DEF AppendFits, ListFits, Adds
<1>2. HasIds(n, first)
  BY <1>1, AddedIds
<1>3. /\ \A y \in FenceCount .. first - 1 : f.host[y] = g.host[y]
      /\ \A y \in IdsOf(n) : f.host[y] = n.id
      /\ f.uses = g.uses \union n.uses
  BY <1>1, AddedBefore
<1>4. /\ \A i \in DOMAIN list : \A x \in IdsOf(list[i]) :
              /\ x \in FenceCount .. first - 1 /\ first <= x + 2 * Len(list)
              /\ g.host[x] = list[i].id
  BY <1>1 DEF IdsFit
<1>5. \A a \in g.uses : a.id \in FenceCount .. first - 1
  BY <1>1 DEF PassesAreOrdered
<1>6. \A a \in n.uses : a.id \in IdsOf(n)
  BY <1>1 DEF IsIn, IsWhole
<1> QED
  BY <1>1, <1>2, <1>3, <1>4, <1>5, <1>6 DEF Appended

LEMMA AppendIds ==
  ASSUME NEW list, NEW n, NEW after, NEW g, NEW f, NEW first,
         AppendFits(list, n, after, g, f, first)
  PROVE  IdsFit(after, f, n.id + 1) /\ IdsGrow(after) /\ IdsAreAll(after, n.id + 1)
<1>1. /\ HasIds(n, first) /\ Len(list) \in Nat /\ Len(after) = Len(list) + 1
      /\ \A i \in DOMAIN list : \A x \in IdsOf(list[i]) :
              /\ x \in FenceCount .. first - 1 /\ first <= x + 2 * Len(list)
              /\ f.host[x] = list[i].id
      /\ \A x \in IdsOf(n) : f.host[x] = n.id
  BY AppendFacts
<1>2. /\ first \in Nat /\ n.id \in Nat /\ FenceCount \in Nat /\ FenceCount <= first
      /\ IdsOf(n) = {first, n.id} /\ (n.id = first \/ n.id = first + 1)
  BY <1>1 DEF HasIds
<1>3. /\ Appended(list, n, after) /\ DOMAIN list = 1 .. Len(list)
      /\ IdsGrow(list) /\ IdsAreAll(list, first)
  BY DEF AppendFits, ListFits
<1>4. /\ \A i \in DOMAIN after :
              \/ i \in DOMAIN list /\ after[i] = list[i] /\ i < Len(list) + 1
              \/ i = Len(list) + 1 /\ after[i] = n
      /\ \A i \in DOMAIN list : i \in DOMAIN after /\ after[i] = list[i]
      /\ \A i, k \in DOMAIN after : i < k => i \in DOMAIN list /\ after[i] = list[i]
      /\ Len(list) + 1 \in DOMAIN after /\ after[Len(list) + 1] = n
  BY <1>1, <1>3, AppendedAt
<1>5. IdsFit(after, f, n.id + 1)
  <2> SUFFICES ASSUME NEW i \in DOMAIN after, NEW x \in IdsOf(after[i])
               PROVE  /\ x \in FenceCount .. (n.id + 1) - 1 /\ n.id + 1 <= x + 2 * Len(after)
                      /\ f.host[x] = after[i].id
    BY DEF IdsFit
  <2>1. CASE i \in DOMAIN list /\ after[i] = list[i]
    <3>1. x \in FenceCount .. first - 1 /\ first <= x + 2 * Len(list) /\ f.host[x] = list[i].id
      BY <1>1, <2>1
    <3> QED
      BY <1>1, <1>2, <2>1, <3>1
  <2>2. CASE after[i] = n
    <3>1. x \in {first, n.id} /\ f.host[x] = n.id
      BY <1>1, <1>2, <2>2
    <3> QED
      BY <1>1, <1>2, <2>2, <3>1
  <2> QED
    BY <1>4, <2>1, <2>2
<1>6. IdsGrow(after)
  <2> SUFFICES ASSUME NEW i \in DOMAIN after, NEW k \in DOMAIN after, i < k,
                      NEW x \in IdsOf(after[i]), NEW y \in IdsOf(after[k])
               PROVE  x < y
    BY DEF IdsGrow
  <2>1. i \in DOMAIN list /\ after[i] = list[i]
    BY <1>4
  <2>2. x \in FenceCount .. first - 1
    BY <1>1, <2>1
  <2>3. CASE k \in DOMAIN list /\ after[k] = list[k]
    BY <1>3, <2>1, <2>3 DEF IdsGrow
  <2>4. CASE after[k] = n
    BY <1>2, <2>2, <2>4
  <2> QED
    BY <1>4, <2>3, <2>4
<1>7. IdsAreAll(after, n.id + 1)
  <2> SUFFICES ASSUME NEW i \in DOMAIN after, NEW x \in IdsOf(after[i]),
                      NEW y \in x .. (n.id + 1) - 1
               PROVE  \E k \in DOMAIN after : y \in IdsOf(after[k])
    BY DEF IdsAreAll
  <2>1. CASE y \in {first, n.id}
    BY <1>2, <1>4, <2>1
  <2>2. CASE y \notin {first, n.id}
    <3>1. x \in Nat
      BY <1>1, <1>2, <1>4
    <3>2. y < first /\ x < first
      BY <1>2, <2>2, <3>1
    <3>3. i \in DOMAIN list /\ after[i] = list[i]
      BY <1>2, <1>4, <3>2
    <3>4. y \in x .. first - 1
      BY <1>2, <3>1, <3>2
    <3>5. \E k \in DOMAIN list : y \in IdsOf(list[k])
      BY <1>3, <3>3, <3>4 DEF IdsAreAll
    <3> QED
      BY <1>4, <3>5
  <2> QED
    BY <2>1, <2>2
<1> QED
  BY <1>5, <1>6, <1>7

LEMMA AppendUses ==
  ASSUME NEW list, NEW n, NEW after, NEW g, NEW f, NEW first,
         AppendFits(list, n, after, g, f, first)
  PROVE  UsesFit(after, f) /\ LastFits(after, f)
<1>1. /\ HasIds(n, first) /\ Len(list) \in Nat
      /\ \A i \in DOMAIN list : \A x \in IdsOf(list[i]) : x \in FenceCount .. first - 1
      /\ f.uses = g.uses \union n.uses
      /\ \A a \in g.uses : a.id \in FenceCount .. first - 1
      /\ \A a \in n.uses : a.id \in IdsOf(n)
  BY AppendFacts
<1>2. /\ first \in Nat /\ n.id \in Nat /\ FenceCount \in Nat /\ FenceCount <= first
      /\ IdsOf(n) = {first, n.id} /\ (n.id = first \/ n.id = first + 1)
  BY <1>1 DEF HasIds
<1>3. /\ Appended(list, n, after) /\ DOMAIN list = 1 .. Len(list)
      /\ UsesFit(list, g) /\ LastFits(list, g) /\ Adds(n, g, f, first)
  BY DEF AppendFits, ListFits
<1>4. /\ \A i \in DOMAIN after :
              \/ i \in DOMAIN list /\ after[i] = list[i] /\ i < Len(list) + 1
              \/ i = Len(list) + 1 /\ after[i] = n
  BY <1>1, <1>3, AppendedAt
<1>5. \A x : ~ (x \in FenceCount .. first - 1 /\ x \in IdsOf(n))
  BY <1>2
<1>6. UsesFit(after, f)
  <2> SUFFICES ASSUME NEW i \in DOMAIN after
               PROVE  /\ after[i].uses \subseteq f.uses
                      /\ \A a \in f.uses : a.id \in IdsOf(after[i]) => a \in after[i].uses
    BY DEF UsesFit
  <2>1. CASE i \in DOMAIN list /\ after[i] = list[i]
    BY <1>1, <1>3, <1>5, <2>1 DEF UsesFit
  <2>2. CASE after[i] = n
    BY <1>1, <1>5, <2>2
  <2> QED
    BY <1>4, <2>1, <2>2
<1>7. LastFits(after, f)
  <2> SUFFICES ASSUME NEW i \in DOMAIN after, NEW x \in IdsOf(after[i]), NEW w \in DOMAIN f.last,
                      x \in f.last[w]
               PROVE  w \in Updated(after[i])
    BY DEF LastFits
  <2>1. w \in DOMAIN g.last /\ ((x \in IdsOf(n) /\ w \in Updated(n)) \/ x \in g.last[w])
    BY <1>3, AddedLast
  <2>2. CASE i \in DOMAIN list /\ after[i] = list[i]
    <3>1. x \notin IdsOf(n)
      BY <1>1, <1>5, <2>2
    <3> QED
      BY <1>3, <2>1, <2>2, <3>1 DEF LastFits
  <2>3. CASE after[i] = n
    <3>1. x \notin g.last[w]
      <4>1. g.last[w] \subseteq FenceCount .. first - 1
        BY <1>3, <2>1 DEF Adds, OrderIs
      <4> QED
        BY <1>5, <2>3, <4>1
    <3> QED
      BY <2>1, <2>3, <3>1
  <2> QED
    BY <1>4, <2>2, <2>3
<1> QED
  BY <1>6, <1>7

LEMMA ConflictsClash ==
  ASSUME NEW e, NEW n, NEW a \in e.uses, NEW u \in n.uses, Conflict(a, u)
  PROVE  Clash(e, n)
  BY DEF Conflict, Clash, Alters, ResourcesUsed, ResourcesWritten

LEMMA AppendSeparate ==
  ASSUME NEW list, NEW n, NEW after, NEW g, NEW f, NEW first,
         AppendFits(list, n, after, g, f, first)
  PROVE  AreSeparate(after) /\ WaitsBack(n)
<1>1. /\ HasIds(n, first) /\ Len(list) \in Nat
      /\ \A i \in DOMAIN list : \A x \in IdsOf(list[i]) :
           x \in FenceCount .. first - 1 /\ first <= x + 2 * Len(list)
  BY AppendFacts
<1>2. /\ first \in Nat /\ n.id \in Nat /\ FenceCount \in Nat /\ FenceCount <= first
      /\ IdsOf(n) = {first, n.id} /\ (n.id = first \/ n.id = first + 1)
  BY <1>1 DEF HasIds
<1>3. /\ Appended(list, n, after) /\ DOMAIN list = 1 .. Len(list)
      /\ \A i \in DOMAIN list : IsIn(list[i]) /\ WaitsBack(list[i])
      /\ UsesFit(list, g) /\ Adds(n, g, f, first) /\ AreSeparate(list)
      /\ 2 * (Len(list) + 1) <= Lane /\ IsIn(n)
  BY DEF AppendFits, ListFits, Adds
<1>4. /\ \A i \in DOMAIN after :
              \/ i \in DOMAIN list /\ after[i] = list[i] /\ i < Len(list) + 1
              \/ i = Len(list) + 1 /\ after[i] = n
  BY <1>1, <1>3, AppendedAt
<1>5. FenceCount >= 3 * Lane /\ Lane \in Nat /\ Lane > 1
  BY FenceCountIs
<1>6. \A e : IsIn(e) => \A w : w \in Updated(e) <=> \E x \in IdsOf(e) : w = Fence(x)
  BY DEF IsIn, Updated, IdsOf
<1>7. ASSUME NEW i \in DOMAIN list
      PROVE  /\ Updated(list[i]) \intersect Updated(n) = {}
             /\ WaitsFor(n, list[i]) => Clash(list[i], n)
             /\ ~ WaitsFor(list[i], n)
  <2>1. \A x \in IdsOf(list[i]) :
          /\ x \in Nat /\ x < first /\ first <= x + 2 * Len(list)
          /\ first + 1 < x + Lane
    BY <1>1, <1>2, <1>3, <1>5
  <2>2. Updated(list[i]) \intersect Updated(n) = {}
    <3> SUFFICES ASSUME NEW x \in IdsOf(list[i]), NEW y \in IdsOf(n), Fence(x) = Fence(y)
                 PROVE  FALSE
      BY <1>3, <1>6
    <3>1. x \in Nat /\ x < first /\ first + 1 < x + Lane /\ y \in Nat /\ first <= y /\ y <= first + 1
      BY <1>2, <2>1
    <3>2. y < x + FenceCount /\ x < y + FenceCount
      BY <1>2, <1>5, <3>1
    <3>3. x = y
      BY <3>1, <3>2, SameFence
    <3> QED
      BY <1>2, <3>1, <3>3
  <2>3. ASSUME NEW w \in Updated(list[i]), w \in Waited(n) PROVE Clash(list[i], n)
    <3>1. PICK x \in IdsOf(list[i]) : w = Fence(x)
      BY <1>3, <1>6
    <3>2. \E id \in IdsOf(n) : \E y \in Nat : IsFenceOf(id, w, y) /\ y < first
            /\ (y + Lane <= id \/ \E a \in g.uses, u \in n.uses : Conflict(a, u) /\ a.id = y)
      BY <1>3, <2>3, AddedWaits
    <3>3. PICK id \in IdsOf(n), y \in Nat : IsFenceOf(id, w, y) /\ y < first
            /\ (y + Lane <= id \/ \E a \in g.uses, u \in n.uses : Conflict(a, u) /\ a.id = y)
      BY <3>2
    <3>4. id \in Nat /\ first <= id /\ id <= first + 1 /\ id < y + 2 * Lane /\ Fence(y) = Fence(x)
      BY <1>2, <3>1, <3>3 DEF IsFenceOf
    <3>5. y < x + FenceCount /\ x < y + FenceCount /\ x \in Nat
      BY <1>2, <1>5, <2>1, <3>3, <3>4
    <3>6. y = x
      BY <3>4, <3>5, SameFence
    <3>7. ~ (y + Lane <= id)
      BY <1>2, <1>5, <2>1, <3>4, <3>6
    <3>8. PICK a \in g.uses, u \in n.uses : Conflict(a, u) /\ a.id = x
      BY <3>3, <3>6, <3>7
    <3>9. a \in list[i].uses
      BY <1>3, <3>8 DEF UsesFit
    <3> QED
      BY <3>8, <3>9, ConflictsClash
  <2>4. ASSUME NEW w \in Updated(n), w \in Waited(list[i]) PROVE FALSE
    <3>1. PICK x \in IdsOf(n) : w = Fence(x)
      BY <1>3, <1>6
    <3>2. PICK z \in IdsOf(list[i]) : Reaches(z, w)
      BY <1>3, <2>4 DEF WaitsBack
    <3>3. PICK y \in Nat : IsFenceOf(z, w, y)
      BY <3>2 DEF Reaches
    <3>4. y < z /\ z < y + 2 * Lane /\ Fence(y) = Fence(x)
      BY <3>1, <3>3 DEF IsFenceOf
    <3>5. x \in Nat /\ first <= x /\ x <= first + 1
      BY <1>2
    <3>6. y < x + FenceCount /\ x < y + FenceCount /\ y < x
      BY <1>2, <1>5, <2>1, <3>4, <3>5
    <3> QED
      BY <3>4, <3>5, <3>6, SameFence
  <2> QED
    BY <2>2, <2>3, <2>4 DEF WaitsFor
<1>8. \A i \in DOMAIN after : after[i].type # "null"
  BY <1>3, <1>4 DEF IsIn
<1>9. AreSeparate(after)
  <2> SUFFICES ASSUME NEW i \in DOMAIN after, NEW k \in DOMAIN after, i # k
               PROVE  /\ Updated(after[i]) \intersect Updated(after[k]) = {}
                      /\ WaitsFor(after[k], after[i]) => Clash(after[i], after[k])
    BY DEF AreSeparate, Live
  <2>1. CASE i \in DOMAIN list /\ after[i] = list[i] /\ k \in DOMAIN list /\ after[k] = list[k]
    <3>1. i \in Live(list) /\ k \in Live(list)
      BY <1>3, <2>1 DEF Live, IsIn
    <3> QED
      BY <1>3, <2>1, <3>1 DEF AreSeparate
  <2>2. CASE i \in DOMAIN list /\ after[i] = list[i] /\ after[k] = n
    BY <1>7, <2>2
  <2>3. CASE k \in DOMAIN list /\ after[k] = list[k] /\ after[i] = n
    BY <1>7, <2>3
  <2> QED
    BY <1>4, <2>1, <2>2, <2>3
<1>10. WaitsBack(n)
  <2> SUFFICES ASSUME NEW w \in Waited(n) PROVE \E id \in IdsOf(n) : Reaches(id, w)
    BY DEF WaitsBack
  <2>1. \E id \in IdsOf(n) : \E y \in Nat : IsFenceOf(id, w, y)
    <3>1. \E id \in IdsOf(n) : \E y \in Nat : IsFenceOf(id, w, y) /\ y < first
            /\ (y + Lane <= id \/ \E a \in g.uses, u \in n.uses : Conflict(a, u) /\ a.id = y)
      BY <1>3, AddedWaits
    <3> QED
      BY <3>1
  <2> QED
    BY <2>1 DEF Reaches
<1> QED
  BY <1>9, <1>10

LEMMA OrderedAt ==
  ASSUME NEW list, NEW g, NEW i \in DOMAIN list, NEW k
  PROVE  k \in OrderOf(list, g)[i] <=>
           /\ k \in DOMAIN list /\ i < k
           /\ \E x \in IdsOf(list[i]), y \in IdsOf(list[k]) : x \in g.before[y]
  BY DEF OrderOf

LEMMA AppendChains ==
  ASSUME NEW list, NEW n, NEW after, NEW g, NEW f, NEW first,
         AppendFits(list, n, after, g, f, first)
  PROVE  Chains(after, OrderOf(after, f))
<1> DEFINE old == OrderOf(list, g)
           order == OrderOf(after, f)
           last == Len(list) + 1
<1>1. /\ HasIds(n, first) /\ Len(list) \in Nat
      /\ \A i \in DOMAIN list : \A x \in IdsOf(list[i]) : x \in FenceCount .. first - 1
  BY AppendFacts
<1>2. /\ first \in Nat /\ n.id \in Nat /\ FenceCount \in Nat /\ FenceCount <= first
      /\ IdsOf(n) = {first, n.id} /\ (n.id = first \/ n.id = first + 1)
  BY <1>1 DEF HasIds
<1>3. /\ Appended(list, n, after) /\ DOMAIN list = 1 .. Len(list)
      /\ \A i \in DOMAIN list : IsIn(list[i])
      /\ IdsGrow(list) /\ IdsAreAll(list, first) /\ LastFits(list, g)
      /\ Chains(list, old) /\ Adds(n, g, f, first) /\ IsIn(n)
  BY DEF AppendFits, ListFits, Adds
<1>4. /\ \A i \in DOMAIN after :
              \/ i \in DOMAIN list /\ after[i] = list[i] /\ i < last
              \/ i = last /\ after[i] = n
      /\ \A i \in DOMAIN list : i \in DOMAIN after /\ i < last /\ after[i] = list[i]
      /\ \A i, k \in DOMAIN after : i < k => i \in DOMAIN list /\ after[i] = list[i]
      /\ last \in DOMAIN after /\ after[last] = n
  BY <1>1, <1>3, AppendedAt
<1>5. /\ \A y \in FenceCount .. first - 1 : f.before[y] = g.before[y]
      /\ \A y \in IdsOf(n) : \A x \in f.before[y] : x < first => Behind(n, g, x)
  BY <1>3, AddedBefore
<1>6. \E summary : OrderIs(g.before, g.last, summary, first)
  BY <1>3 DEF Adds
<1>7. /\ \A y \in FenceCount .. first - 1 : g.before[y] \subseteq FenceCount .. y - 1
      /\ \A w \in DOMAIN g.last : g.last[w] \subseteq FenceCount .. first - 1
  BY <1>6 DEF OrderIs
<1>8. \A i \in DOMAIN list : i \in Live(list) /\ i \in Live(after)
  BY <1>3, <1>4 DEF Live, IsIn
<1>9. last \in Live(after) /\ last \in Int
  BY <1>1, <1>3, <1>4 DEF Live, IsIn
<1> HIDE DEF last
<1>10. ASSUME NEW i \in DOMAIN list, NEW k \in DOMAIN list
       PROVE  k \in order[i] <=> k \in old[i]
  <2>1. \A y \in IdsOf(list[k]) : f.before[y] = g.before[y]
    BY <1>1, <1>5
  <2>2. i \in DOMAIN after /\ k \in DOMAIN after /\ after[i] = list[i] /\ after[k] = list[k]
    BY <1>4
  <2>3. /\ k \in order[i] <=>
             /\ k \in DOMAIN after /\ i < k
             /\ \E x \in IdsOf(after[i]), y \in IdsOf(after[k]) : x \in f.before[y]
        /\ k \in old[i] <=>
             /\ k \in DOMAIN list /\ i < k
             /\ \E x \in IdsOf(list[i]), y \in IdsOf(list[k]) : x \in g.before[y]
    BY <2>2, OrderedAt
  <2> QED
    BY <2>1, <2>2, <2>3
<1>11. ASSUME NEW i \in DOMAIN list, last \in order[i], ~ WaitsFor(n, list[i])
       PROVE  \E m \in order[i] : m < last /\ WaitsFor(n, list[m])
  <2>1. PICK x \in IdsOf(list[i]), y \in IdsOf(n) : x \in f.before[y]
    BY <1>4, <1>11, OrderedAt
  <2>2. x \in FenceCount .. first - 1 /\ x < first
    BY <1>1, <1>2
  <2>3. PICK w \in Waited(n) : w \in DOMAIN g.last /\ \E z \in g.last[w] : x = z \/ x \in g.before[z]
    BY <1>5, <2>1, <2>2 DEF Behind
  <2>4. PICK z \in g.last[w] : x = z \/ x \in g.before[z]
    BY <2>3
  <2>5. x # z
    BY <1>3, <1>11, <2>3, <2>4 DEF LastFits, WaitsFor
  <2>6. z \in FenceCount .. first - 1 /\ x \in g.before[z] /\ x < z
    BY <1>2, <1>7, <2>2, <2>3, <2>4, <2>5
  <2>7. z \in x .. first - 1
    BY <1>2, <2>2, <2>6
  <2>8. PICK m \in DOMAIN list : z \in IdsOf(list[m])
    BY <1>3, <2>7 DEF IdsAreAll
  <2>9. WaitsFor(n, list[m])
    BY <1>3, <2>3, <2>8 DEF LastFits, WaitsFor
  <2>10. i < m
    <3>1. i \in Int /\ m \in Int
      BY <1>1, <1>3
    <3>2. m # i
      BY <1>11, <2>9
    <3>3. ~ (m < i)
      <4>1. m < i => z < x
        BY <1>3, <2>8 DEF IdsGrow
      <4> QED
        BY <1>2, <2>2, <2>6, <4>1
    <3> QED
      BY <3>1, <3>2, <3>3
  <2>11. m \in old[i]
    BY <2>6, <2>8, <2>10, OrderedAt
  <2> QED
    BY <1>4, <1>10, <2>9, <2>11
<1> SUFFICES ASSUME NEW i \in Live(after), NEW k \in order[i]
             PROVE  /\ k \in Live(after) /\ i < k
                    /\ \/ WaitsFor(after[k], after[i])
                       \/ \E m \in order[i] : m < k /\ WaitsFor(after[k], after[m])
  BY DEF Chains
<1>12. /\ i \in DOMAIN after /\ k \in DOMAIN after /\ i < k /\ i \in DOMAIN list
       /\ after[i] = list[i]
  <2>1. i \in DOMAIN after
    BY DEF Live
  <2>2. k \in DOMAIN after /\ i < k
    BY <2>1, OrderedAt
  <2> QED
    BY <1>4, <2>1, <2>2
<1>13. CASE k \in DOMAIN list
  <2>1. k \in old[i]
    BY <1>10, <1>12, <1>13
  <2>2. \/ WaitsFor(list[k], list[i])
        \/ \E m \in old[i] : m < k /\ WaitsFor(list[k], list[m])
    BY <1>3, <1>8, <1>12, <2>1 DEF Chains
  <2>3. CASE WaitsFor(list[k], list[i])
    BY <1>4, <1>8, <1>12, <1>13, <2>3
  <2>4. CASE \E m \in old[i] : m < k /\ WaitsFor(list[k], list[m])
    <3>1. PICK m \in old[i] : m < k /\ WaitsFor(list[k], list[m])
      BY <2>4
    <3>2. m \in DOMAIN list
      BY <1>12, OrderedAt
    <3>3. m \in order[i] /\ WaitsFor(after[k], after[m])
      BY <1>4, <1>10, <1>12, <1>13, <3>1, <3>2
    <3> QED
      BY <1>8, <1>12, <1>13, <3>1, <3>3
  <2> QED
    BY <2>2, <2>3, <2>4
<1>14. CASE k = last
  <2>1. CASE WaitsFor(n, list[i])
    BY <1>4, <1>9, <1>12, <1>14, <2>1
  <2>2. CASE ~ WaitsFor(n, list[i])
    <3>1. PICK m \in order[i] : m < last /\ WaitsFor(n, list[m])
      BY <1>11, <1>12, <1>14, <2>2
    <3>2. m \in DOMAIN list
      <4>1. m \in DOMAIN after
        BY <1>12, OrderedAt
      <4> QED
        BY <1>4, <3>1, <4>1
    <3>3. WaitsFor(after[k], after[m])
      BY <1>4, <1>14, <3>1, <3>2
    <3> QED
      BY <1>9, <1>12, <1>14, <3>1, <3>3
  <2> QED
    BY <2>1, <2>2
<1> QED
  BY <1>4, <1>12, <1>13, <1>14

LEMMA AppendListFits ==
  ASSUME NEW list, NEW n, NEW after, NEW g, NEW f, NEW first,
         AppendFits(list, n, after, g, f, first)
  PROVE  ListFits(after, f, n.id + 1)
<1>1. IdsFit(after, f, n.id + 1) /\ IdsGrow(after) /\ IdsAreAll(after, n.id + 1)
  BY AppendIds
<1>2. UsesFit(after, f) /\ LastFits(after, f)
  BY AppendUses
<1>3. AreSeparate(after) /\ WaitsBack(n)
  BY AppendSeparate
<1>4. Chains(after, OrderOf(after, f))
  BY AppendChains
<1>5. /\ Appended(list, n, after) /\ Len(list) \in Nat /\ DOMAIN list = 1 .. Len(list)
      /\ \A i \in DOMAIN list : IsIn(list[i]) /\ WaitsBack(list[i])
      /\ IsIn(n)
  BY DEF AppendFits, ListFits, Adds
<1>6. \A i \in DOMAIN after : IsIn(after[i]) /\ WaitsBack(after[i])
  <2>1. \A i \in DOMAIN after : (i \in DOMAIN list /\ after[i] = list[i]) \/ after[i] = n
    BY <1>5, AppendedAt
  <2> QED
    BY <1>3, <1>5, <2>1
<1>7. Len(after) \in Nat /\ DOMAIN after = 1 .. Len(after)
  BY <1>5 DEF Appended
<1> QED
  BY <1>1, <1>2, <1>3, <1>4, <1>6, <1>7 DEF ListFits

(* An empty list, and one with an event more.                              *)
LEMMA EmptyFits ==
  ASSUME NEW g, NEW first
  PROVE  ListFits(<<>>, g, first)
<1>1. Len(<<>>) = 0 /\ DOMAIN <<>> = {} /\ 1 .. 0 = {}
  OBVIOUS
<1>2. Live(<<>>) = {}
  BY <1>1 DEF Live
<1> QED
  BY <1>1, <1>2 DEF ListFits, IdsFit, IdsGrow, IdsAreAll, UsesFit, LastFits, AreSeparate, Chains

LEMMA EventFits ==
  ASSUME NEW list, NEW n, NEW after, NEW g, NEW first, Appended(list, n, after),
         ListFits(list, g, first), first \in Nat, IsIn(n), n.type = "event"
  PROVE  ListFits(after, g, first)
<1> DEFINE old == OrderOf(list, g)
           order == OrderOf(after, g)
<1>1. /\ Len(list) \in Nat /\ DOMAIN list = 1 .. Len(list)
      /\ \A i \in DOMAIN list : IsIn(list[i]) /\ WaitsBack(list[i])
      /\ IdsFit(list, g, first) /\ IdsGrow(list) /\ IdsAreAll(list, first)
      /\ UsesFit(list, g) /\ LastFits(list, g)
      /\ AreSeparate(list) /\ Chains(list, old)
  BY DEF ListFits
<1>2. /\ IdsOf(n) = {} /\ n.uses = {} /\ Waited(n) = {} /\ Updated(n) = {}
  <2>1. IsWhole(n)
    BY DEF IsIn
  <2>2. n.uses = {} /\ IdsOf(n) = {} /\ Waited(n) = {}
    BY <2>1 DEF IsWhole
  <2> QED
    BY <2>2 DEF IdsOf, Updated
<1>3. /\ \A i \in DOMAIN after :
              \/ i \in DOMAIN list /\ after[i] = list[i]
              \/ after[i] = n
      /\ \A i \in DOMAIN list : i \in DOMAIN after /\ after[i] = list[i]
      /\ \A i, k \in DOMAIN after : i < k => i \in DOMAIN list /\ after[i] = list[i]
  BY <1>1, AppendedAt
<1>4. Len(after) = Len(list) + 1 /\ DOMAIN after = 1 .. Len(after)
  BY DEF Appended
<1>5. WaitsBack(n)
  BY <1>2 DEF WaitsBack
<1>6. IdsFit(after, g, first)
  <2> SUFFICES ASSUME NEW i \in DOMAIN after, NEW x \in IdsOf(after[i])
               PROVE  /\ x \in FenceCount .. first - 1 /\ first <= x + 2 * Len(after)
                      /\ g.host[x] = after[i].id
    BY DEF IdsFit
  <2>1. i \in DOMAIN list /\ after[i] = list[i]
    BY <1>2, <1>3
  <2>2. x \in FenceCount .. first - 1 /\ first <= x + 2 * Len(list) /\ g.host[x] = list[i].id
    BY <1>1, <2>1 DEF IdsFit
  <2>4. first <= x + 2 * Len(after)
    <3> DEFINE l == Len(list)
    <3>1. FenceCount \in Nat /\ l \in Nat /\ Len(after) = l + 1
      BY <1>1, <1>4, FenceCountIs
    <3>2. x \in Int /\ first <= x + 2 * l
      BY <2>2
    <3> HIDE DEF l
    <3> QED
      BY <3>1, <3>2
  <2> QED
    BY <2>1, <2>2, <2>4
<1>7. IdsGrow(after)
  BY <1>1, <1>2, <1>3 DEF IdsGrow
<1>8. IdsAreAll(after, first)
  BY <1>1, <1>2, <1>3 DEF IdsAreAll
<1>9. UsesFit(after, g) /\ LastFits(after, g)
  BY <1>1, <1>2, <1>3 DEF UsesFit, LastFits
<1>10. \A i \in DOMAIN list : i \in Live(list) /\ i \in Live(after)
  BY <1>1, <1>3 DEF Live, IsIn
<1>11. AreSeparate(after)
  <2> SUFFICES ASSUME NEW i \in Live(after), NEW k \in Live(after), i # k
               PROVE  /\ Updated(after[i]) \intersect Updated(after[k]) = {}
                      /\ WaitsFor(after[k], after[i]) => Clash(after[i], after[k])
    BY DEF AreSeparate
  <2>1. CASE after[i] = n \/ after[k] = n
    BY <1>2, <2>1 DEF WaitsFor
  <2>2. CASE ~ (after[i] = n \/ after[k] = n)
    <3>1. i \in Live(list) /\ k \in Live(list) /\ after[i] = list[i] /\ after[k] = list[k]
      BY <1>3, <1>10, <2>2 DEF Live
    <3> QED
      BY <1>1, <3>1 DEF AreSeparate
  <2> QED
    BY <2>1, <2>2
<1>12. \A i \in DOMAIN list : order[i] = old[i]
  <2> SUFFICES ASSUME NEW i \in DOMAIN list, NEW k PROVE k \in order[i] <=> k \in old[i]
    OBVIOUS
  <2>1. i \in DOMAIN after /\ after[i] = list[i]
    BY <1>3
  <2> QED
    BY <1>2, <1>3, <2>1, OrderedAt
<1>13. Chains(after, order)
  <2> SUFFICES ASSUME NEW i \in Live(after), NEW k \in order[i]
               PROVE  /\ k \in Live(after) /\ i < k
                      /\ \/ WaitsFor(after[k], after[i])
                         \/ \E m \in order[i] : m < k /\ WaitsFor(after[k], after[m])
    BY DEF Chains
  <2>1. i \in DOMAIN after /\ k \in DOMAIN after /\ i < k /\ i \in DOMAIN list
    BY <1>3, OrderedAt DEF Live
  <2>2. k \in old[i] /\ \A m \in old[i] : m \in DOMAIN list
    BY <1>12, <2>1, OrderedAt
  <2>3. \/ WaitsFor(list[k], list[i])
        \/ \E m \in old[i] : m < k /\ WaitsFor(list[k], list[m])
    BY <1>1, <1>10, <2>1, <2>2 DEF Chains
  <2> QED
    BY <1>3, <1>10, <1>12, <2>1, <2>2, <2>3
<1> QED
  BY <1>1, <1>3, <1>4, <1>5, <1>6, <1>7, <1>8, <1>9, <1>11, <1>13 DEF ListFits

(* What the calls of D3D11 leave in the list.                              *)
MayFollow(list, n) ==
  /\ n.type = "resolve" =>
       \A i \in DOMAIN list : ResourceOf(n.dst) \notin ResourcesUsed(list[i])
  /\ n.type = "clear" =>
       \A i, m \in DOMAIN list : i # m =>
         \A p \in n.planes :
           IsReadonly(list[i], p) =>
             ResourceOf(p) \notin ResourcesUsed(list[m]) \ ResourcesWritten(list[m])

LEMMA AppendFollows ==
  ASSUME NEW list, NEW n, NEW after, Appended(list, n, after), MayFollow(list, n),
         Len(list) \in Nat, DOMAIN list = 1 .. Len(list),
         TargetsAreUnused(list), ReadonlyStays(list, Len(list) + 1)
  PROVE  TargetsAreUnused(after) /\ ReadonlyStays(after, Len(after) + 1)
<1>1. /\ \A i \in DOMAIN after :
              \/ i \in DOMAIN list /\ after[i] = list[i] /\ i < Len(list) + 1
              \/ i = Len(list) + 1 /\ after[i] = n
      /\ \A i, k \in DOMAIN after : i < k => i \in DOMAIN list /\ after[i] = list[i]
  BY AppendedAt
<1>2. \A i \in DOMAIN list : i < Len(list) + 1
  OBVIOUS
<1>3. TargetsAreUnused(after)
  <2> SUFFICES ASSUME NEW i \in Live(after), NEW k \in Live(after), i < k,
                      after[k].type = "resolve"
               PROVE  ResourceOf(after[k].dst) \notin ResourcesUsed(after[i])
    BY DEF TargetsAreUnused
  <2>1. i \in DOMAIN list /\ after[i] = list[i] /\ i \in Live(list) /\ k \in DOMAIN after
    BY <1>1 DEF Live
  <2>2. CASE after[k] = n
    BY <2>1, <2>2 DEF MayFollow
  <2>3. CASE k \in DOMAIN list /\ after[k] = list[k]
    BY <2>1, <2>3 DEF TargetsAreUnused, Live
  <2> QED
    BY <1>1, <2>1, <2>2, <2>3
<1>4. ReadonlyStays(after, Len(after) + 1)
  <2> SUFFICES ASSUME NEW i \in Live(after), NEW k \in Live(after), NEW m \in Live(after),
                      i < k, m < k, m # i, after[k].type = "clear",
                      NEW p \in after[k].planes, IsReadonly(after[i], p)
               PROVE  ResourceOf(p) \notin ResourcesUsed(after[m]) \ ResourcesWritten(after[m])
    BY DEF ReadonlyStays
  <2>1. /\ i \in DOMAIN list /\ after[i] = list[i] /\ i \in Live(list)
        /\ m \in DOMAIN list /\ after[m] = list[m] /\ m \in Live(list) /\ k \in DOMAIN after
    BY <1>1 DEF Live
  <2>2. CASE after[k] = n
    BY <2>1, <2>2 DEF MayFollow
  <2>3. CASE k \in DOMAIN list /\ after[k] = list[k]
    <3>1. k \in Live(list) /\ i < Len(list) + 1
      BY <1>2, <2>1, <2>3 DEF Live
    <3> QED
      BY <2>1, <2>3, <3>1 DEF ReadonlyStays
  <2> QED
    BY <1>1, <2>1, <2>2, <2>3
<1> QED
  BY <1>3, <1>4

FitsList(list, g, first) ==
  /\ ListFits(list, g, first) /\ Len(list) <= MaxList
  /\ TargetsAreUnused(list) /\ ReadonlyStays(list, Len(list) + 1)

(* A pass that ends, after those of the list.                              *)
Finishes(list, s, g) ==
  /\ AreListed(list) /\ FitsList(list, g, FirstOf(s.encoder)) /\ Len(list) < MaxList
  /\ MaxList \in Nat /\ 2 * MaxList <= Lane
  /\ Records(s, g) /\ s.encoder.type # "null"
  /\ IsWhole(Ended(s).encoder) /\ IsRecorded(Ended(s).encoder)
  /\ MayFollow(list, Ended(s).encoder)

LEMMA FinishFits ==
  ASSUME NEW list, NEW s, NEW g, Finishes(list, s, g)
  PROVE  LET n == Ended(s)
             f == Encoded(g, n.encoder)
         IN  /\ FitsList(Append(list, n.encoder), f, s.encoder.id + 1)
             /\ Between(s.encoder.id + 1, n.trackers, n.summary, f)
<1> DEFINE m == Ended(s)
           n == m.encoder
           f == Encoded(g, n)
           first == FirstOf(s.encoder)
           after == Append(list, n)
<1>1. /\ AreListed(list) /\ FitsList(list, g, first) /\ Len(list) < MaxList
      /\ MaxList \in Nat /\ 2 * MaxList <= Lane
      /\ Records(s, g) /\ s.encoder.type # "null" /\ IsWhole(n) /\ IsRecorded(n)
      /\ MayFollow(list, n)
  BY DEF Finishes
<1>2. /\ Between(s.encoder.id + 1, m.trackers, m.summary, f)
      /\ IsAdded(n, first, g.uses)
  <2>1. CASE s.encoder.type = "render"
    BY <1>1, <2>1, RenderRecorded
  <2>2. CASE s.encoder.type # "render"
    BY <1>1, <2>2, OtherRecorded
  <2> QED
    BY <2>1, <2>2
<1>3. /\ IsEncoder(s.encoder) /\ s.encoder.type # "event" /\ FenceCount <= first
      /\ OrderIs(g.before, g.last, fence_locality, first) /\ PassesAreOrdered(first, g)
  BY <1>1 DEF Records, MayEnd, IsPassOf, PassFits
<1>4. n.type = s.encoder.type /\ n.id = s.encoder.id
  <2>1. SameShape(n, s.encoder)
    BY <1>3, EndedShape
  <2> QED
    BY <2>1 DEF SameShape
<1> HIDE DEF m
<1>5. IsIn(n) /\ n.type # "event"
  <2>1. n.type = "render" => n.vertex \in Nat /\ n.id = n.vertex + 1
    BY <1>2 DEF IsAdded
  <2>2. UpdatesAre(n) /\ UsesAreOf(n) /\ n.id \in Nat
    BY <1>2 DEF IsAdded
  <2> QED
    BY <1>1, <1>3, <1>4, <2>1, <2>2 DEF IsIn
<1> HIDE DEF n
<1>6. Adds(n, g, f, first)
  BY <1>2, <1>3, <1>5 DEF Adds
<1>7. Appended(list, n, after)
  BY <1>1, AppendIs
<1> HIDE DEF after, f, first
<1>8. ListFits(list, g, first) /\ Len(list) \in Nat /\ DOMAIN list = 1 .. Len(list)
      /\ TargetsAreUnused(list) /\ ReadonlyStays(list, Len(list) + 1)
  BY <1>1 DEF FitsList, ListFits
<1>9. 2 * (Len(list) + 1) <= Lane
  <2>1. Len(list) + 1 <= MaxList /\ Lane \in Nat
    BY <1>1, <1>8, FenceCountIs
  <2> QED
    BY <1>1, <1>8, <2>1
<1>10. AppendFits(list, n, after, g, f, first)
  BY <1>6, <1>7, <1>8, <1>9 DEF AppendFits
<1>11. ListFits(after, f, n.id + 1)
  BY <1>10, AppendListFits
<1>12. TargetsAreUnused(after) /\ ReadonlyStays(after, Len(after) + 1)
  BY <1>1, <1>7, <1>8, AppendFollows
<1>13. Len(after) <= MaxList
  BY <1>1, <1>7, <1>8 DEF Appended
<1>14. FitsList(after, f, s.encoder.id + 1)
  BY <1>4, <1>11, <1>12, <1>13 DEF FitsList
<1> QED
  BY <1>2, <1>14 DEF after, f, n, m

-----------------------------------------------------------------------------
(* The list as it is recorded: g is what it would be if it were encoded as *)
(* it is, pass by pass.                                                    *)
RecordIs(g) ==
  /\ FitsList(encoders, g, FirstId)
  /\ current = NoEncoder => Between(encoder_id, trackers, fence_locality, g)
  /\ current # NoEncoder =>
       Len(encoders) < MaxList /\ Records(At(current), g) /\ IsOpen(current)

RecordInv == \E g : RecordIs(g)

LEMMA FinishRecord ==
  ASSUME NEW s, NEW g, Finishes(encoders, s, g), Finish(s), current' = NoEncoder,
         encoder_id' = s.encoder.id + 1
  PROVE  RecordInv'
<1> DEFINE n == Ended(s)
           f == Encoded(g, n.encoder)
<1>1. /\ trackers' = n.trackers /\ fence_locality' = n.summary
      /\ encoders' = Append(encoders, n.encoder)
  BY DEF Finish
<1>2. /\ FitsList(Append(encoders, n.encoder), f, s.encoder.id + 1)
      /\ Between(s.encoder.id + 1, n.trackers, n.summary, f)
  BY FinishFits
<1>3. FirstId' = encoder_id'
  BY DEF FirstId
<1>4. PICK h : h = f
  OBVIOUS
<1> HIDE DEF n, f
<1>5. FitsList(encoders', h, FirstId') /\ Between(encoder_id', trackers', fence_locality', h)
  BY <1>1, <1>2, <1>3, <1>4
<1> QED
  BY <1>5 DEF RecordInv, RecordIs

-----------------------------------------------------------------------------
(* The steps of the recording.                                             *)

(* Lists of at most half as many passes as a lane has ids: no id of a pass *)
(* in the list is a generation older than the next one.                    *)
ShortLists == MaxList \in Nat /\ 2 * MaxList <= Lane

LEMMA RecordsFirst ==
  ASSUME DistantWrites = FALSE, NEW g, Between(encoder_id, trackers, fence_locality, g),
         NEW e, IsPassOf(e), UpdatesAre(e), FirstOf(e) = encoder_id,
         e.uses = {}, e.wait = {}, e.wait_vertex = {},
         e.type = "render" =>
           /\ DOMAIN e.attachments \subseteq Planes
           /\ \A r \in ResourcesOf(DOMAIN e.attachments) : MayWrite(trackers[r], e.id)
  PROVE  Records(At(e), g)
<1> DEFINE s == At(e)
<1>1. s.encoder = e /\ s.trackers = trackers
  BY DEF At
<1> HIDE DEF s
<1>2. /\ FenceCount <= encoder_id /\ trackers \in [Resources -> Tracker]
      /\ AllBelow(trackers, encoder_id) /\ PassesAreOrdered(encoder_id, g)
      /\ TrackersKnow(encoder_id, trackers, g) /\ AreNamed(trackers, g.uses)
      /\ OrderIs(g.before, g.last, fence_locality, encoder_id)
  BY DEF Between
<1>3. Records(s, g)
  BY <1>1, <1>2, RecordsStart
<1> QED
  BY <1>3 DEF s

LEMMA RecordIsIdle ==
  ASSUME NEW g, RecordIs(g), current = NoEncoder
  PROVE  FitsList(encoders, g, encoder_id) /\ Between(encoder_id, trackers, fence_locality, g)
  BY DEF RecordIs, FirstId

LEMMA OnePassRecord ==
  ASSUME ShortLists, DistantWrites = FALSE, RecordInv, IdsInv, ListInv,
         NEW type, NEW reads, NEW writes, NEW planes, NEW src, NEW dst,
         MayRecord(type, encoder_id, reads, writes, planes, src, dst),
         type = "resolve" => ~ IsUsed(ResourceOf(dst)),
         type = "clear" => ~ ReadBesideReadonly(planes),
         OnePass(type, reads, writes, planes, src, dst)
  PROVE  RecordInv'
<1> DEFINE e == Single(type, encoder_id, planes, src, dst)
           start == At(e)
           read == Accessed(start, reads, "compute", "read")
           written == Accessed(read, writes, "compute", "write")
           n == Recorded(type, encoder_id, reads, writes, planes, src, dst)
<1>1. /\ current = NoEncoder /\ Len(encoders) < MaxList /\ encoder_id' = encoder_id + 1
      /\ Finish(written) /\ current' = current
  BY DEF OnePass, CanStart, Single
<1>2. PICK g : RecordIs(g)
  BY DEF RecordInv
<1>3. FitsList(encoders, g, encoder_id) /\ Between(encoder_id, trackers, fence_locality, g)
  BY <1>1, <1>2, RecordIsIdle
<1>4. /\ encoder_id \in Nat \ {0} /\ reads \subseteq Resources /\ writes \subseteq Resources
      /\ type \in {"clear", "resolve", "present"}
  BY <1>1, IdleIs DEF MayRecord
<1>5. n = Ended(written).encoder
  BY DEF Recorded
<1>6. /\ IsWhole(n) /\ IsRecorded(n) /\ n.type = type /\ n.planes = planes /\ n.dst = dst
  <2>1. IsWhole(n) /\ IsRecorded(n)
    BY RecordedWhole
  <2>2. n.type = type /\ n.planes = planes /\ n.dst = dst
    BY ONLY <1>4, RecordedIs
  <2> QED
    BY <2>1, <2>2
<1> HIDE DEF n
<1>7. MayFollow(encoders, n)
  <2>1. n.type = "resolve" =>
          \A i \in DOMAIN encoders : ResourceOf(n.dst) \notin ResourcesUsed(encoders[i])
    BY <1>6 DEF IsUsed, ResourcesUsed
  <2>2. ASSUME n.type = "clear", NEW i \in DOMAIN encoders, NEW m \in DOMAIN encoders, i # m,
               NEW p \in n.planes, IsReadonly(encoders[i], p)
        PROVE  ResourceOf(p) \notin ResourcesUsed(encoders[m]) \ ResourcesWritten(encoders[m])
    <3>1. p \in planes \intersect (DOMAIN encoders[i].attachments
                                   \ Written(encoders[i].attachments))
      BY <1>6, <2>2 DEF IsReadonly, Written
    <3>2. ~ ReadBesideReadonly(planes)
      BY <1>6, <2>2
    <3> QED
      BY <2>2, <3>1, <3>2 DEF ReadBesideReadonly
  <2> QED
    BY <2>1, <2>2 DEF MayFollow
<1>8. /\ IsEncoder(e) /\ e.type = type /\ e.id = encoder_id /\ UpdatesAre(e)
      /\ e.uses = {} /\ e.wait = {} /\ e.wait_vertex = {}
  <2>1. IsEncoder(e) /\ e.type = type /\ e.id = encoder_id /\ UpdatesAre(e)
    BY ONLY <1>4, OnePassIs
  <2> DEFINE m == Encoder(type, None, encoder_id)
  <2>2. IsEncoder(m) /\ m.uses = {} /\ m.wait = {} /\ m.wait_vertex = {}
    BY EncoderIs DEF Encoder
  <2>3. e = [m EXCEPT !.planes = planes, !.src = src, !.dst = dst]
    BY DEF Single
  <2> HIDE DEF m, e
  <2> QED
    BY <2>1, <2>2, <2>3 DEF IsEncoder
<1> HIDE DEF e
<1>9. IsPassOf(e) /\ FirstOf(e) = encoder_id /\ e.type # "render"
  BY <1>4, <1>8 DEF IsPassOf, FirstOf
<1>10. Records(start, g) /\ start.encoder = e
  <2>1. Records(start, g)
    BY <1>3, <1>8, <1>9, RecordsFirst DEF ShortLists
  <2> QED
    BY <2>1 DEF At
<1> HIDE DEF start
<1>11. Records(read, g) /\ SameShape(read.encoder, e)
  <2>1. /\ Records(start, g) /\ reads \subseteq Resources
        /\ "compute" \in {"compute", "vertex", "pixel"}
        /\ ("compute" = "compute") <=> start.encoder.type # "render"
        /\ "compute" # "compute" /\ IsWrite("read") =>
             \A r \in reads : MayWrite(start.trackers[r], IdOf(start.encoder, "compute"))
    BY <1>4, <1>9, <1>10
  <2>2. FragmentStaysLast(start.encoder, reads, "compute", "read")
    BY DEF FragmentStaysLast
  <2>3. Records(read, g)
    BY ONLY <2>1, <2>2, RecordsAccess
  <2>4. IsEncoder(start.encoder)
    BY <1>8, <1>10
  <2>5. SameShape(read.encoder, start.encoder)
    BY ONLY <2>4, AccessedShape
  <2> QED
    BY <1>10, <2>3, <2>5
<1>12. IsEncoder(read.encoder) /\ read.encoder.type # "render"
  BY <1>9, <1>11 DEF SameShape
<1> HIDE DEF read
<1>13. Records(written, g) /\ SameShape(written.encoder, read.encoder)
  <2>1. /\ Records(read, g) /\ writes \subseteq Resources
        /\ "compute" \in {"compute", "vertex", "pixel"}
        /\ ("compute" = "compute") <=> read.encoder.type # "render"
        /\ "compute" # "compute" /\ IsWrite("write") =>
             \A r \in writes : MayWrite(read.trackers[r], IdOf(read.encoder, "compute"))
    BY <1>4, <1>11, <1>12
  <2>2. FragmentStaysLast(read.encoder, writes, "compute", "write")
    BY DEF FragmentStaysLast
  <2>3. Records(written, g)
    BY ONLY <2>1, <2>2, RecordsAccess
  <2>4. SameShape(written.encoder, read.encoder)
    BY ONLY <1>12, AccessedShape
  <2> QED
    BY <2>3, <2>4
<1> HIDE DEF written
<1>14. written.encoder.type = type /\ written.encoder.id = encoder_id
       /\ FirstOf(written.encoder) = encoder_id
  BY <1>8, <1>9, <1>11, <1>13 DEF SameShape, FirstOf
<1>15. Finishes(encoders, written, g)
  BY <1>1, <1>3, <1>4, <1>5, <1>6, <1>7, <1>13, <1>14 DEF Finishes, ShortLists, ListInv
<1> QED
  BY <1>1, <1>14, <1>15, FinishRecord

LEMMA EndPassRecord ==
  ASSUME ShortLists, RecordInv, IdsInv, ListInv, EndPass
  PROVE  RecordInv'
<1> DEFINE s == At(current)
           n == Ended(s).encoder
<1>1. current # NoEncoder /\ Finish(s) /\ current' = NoEncoder /\ encoder_id' = encoder_id
  BY DEF EndPass
<1>2. PICK g : RecordIs(g)
  BY DEF RecordInv
<1>3. /\ FitsList(encoders, g, FirstId) /\ Len(encoders) < MaxList /\ Records(s, g)
      /\ IsOpen(current)
  BY <1>1, <1>2 DEF RecordIs
<1>4. s.encoder = current
  BY DEF At
<1> HIDE DEF s
<1>5. IsWhole(n) /\ IsRecorded(n)
  BY <1>3, <1>4, EndedRenderWhole, EndedPassWhole
<1>6. n.type = current.type /\ current.type \in {"render", "compute", "blit"}
  <2>1. IsEncoder(s.encoder) /\ s.encoder.type # "event"
        /\ current.type \in {"render", "compute", "blit"}
    BY <1>3, <1>4 DEF IsOpen
  <2>2. SameShape(n, s.encoder)
    BY ONLY <2>1, EndedShape
  <2> QED
    BY <1>4, <2>1, <2>2 DEF SameShape
<1> HIDE DEF n
<1>7. MayFollow(encoders, n)
  BY <1>6 DEF MayFollow
<1>8. FirstId = FirstOf(current)
  BY <1>1 DEF FirstId, FirstOf
<1>9. encoder_id' = current.id + 1
  BY <1>1, <1>6, NoEncoderIs DEF IdsInv, CurrentIs
<1>10. Finishes(encoders, s, g)
  BY <1>3, <1>4, <1>5, <1>6, <1>7, <1>8 DEF Finishes, ShortLists, ListInv, n
<1> QED
  BY <1>1, <1>4, <1>9, <1>10, FinishRecord

LEMMA EventRecord ==
  ASSUME ShortLists, RecordInv, IdsInv, ListInv, Event
  PROVE  RecordInv'
<1> DEFINE ev == Encoder("event", None, None)
           s == At(ev)
<1>1. /\ current = NoEncoder /\ Len(encoders) < MaxList /\ encoder_id' = encoder_id
      /\ Finish(s) /\ current' = current
  BY DEF Event, CanStart
<1>2. PICK g : RecordIs(g)
  BY DEF RecordInv
<1>3. FitsList(encoders, g, encoder_id) /\ Between(encoder_id, trackers, fence_locality, g)
  BY <1>1, <1>2, RecordIsIdle
<1>4. s.encoder = ev /\ s.trackers = trackers /\ ev.type = "event"
  BY DEF At, Encoder
<1>5. IsWhole(ev) /\ IsRecorded(ev)
  BY EventWhole
<1> HIDE DEF ev, s
<1>6. /\ trackers' = trackers /\ fence_locality' = fence_locality
      /\ encoders' = Append(encoders, ev)
  BY <1>1, <1>4 DEF Finish, Ended
<1> DEFINE after == Append(encoders, ev)
<1>7. Appended(encoders, ev, after)
  BY AppendIs DEF ListInv
<1> HIDE DEF after
<1>8. IsIn(ev) /\ MayFollow(encoders, ev)
  BY <1>4, <1>5 DEF IsIn, MayFollow
<1>9. /\ ListFits(encoders, g, encoder_id) /\ Len(encoders) \in Nat
      /\ DOMAIN encoders = 1 .. Len(encoders)
      /\ TargetsAreUnused(encoders) /\ ReadonlyStays(encoders, Len(encoders) + 1)
  BY <1>3 DEF FitsList, ListFits
<1>10. encoder_id \in Nat
  BY <1>3 DEF Between
<1>11. ListFits(after, g, encoder_id)
  BY <1>4, <1>7, <1>8, <1>9, <1>10, EventFits
<1>12. TargetsAreUnused(after) /\ ReadonlyStays(after, Len(after) + 1)
  BY <1>7, <1>8, <1>9, AppendFollows
<1>13. Len(after) <= MaxList
  BY <1>1, <1>7, <1>9 DEF Appended, ShortLists
<1>14. FitsList(encoders', g, encoder_id')
  BY <1>1, <1>6, <1>11, <1>12, <1>13 DEF FitsList, after
<1>15. current' = NoEncoder /\ FirstId' = encoder_id'
  BY <1>1 DEF FirstId
<1>16. Between(encoder_id', trackers', fence_locality', g)
  BY <1>1, <1>3, <1>6
<1> QED
  BY <1>14, <1>15, <1>16 DEF RecordInv, RecordIs

LEMMA FlushRecord ==
  ASSUME ShortLists, RecordInv, FlushCommands
  PROVE  RecordInv'
<1>1. /\ current = NoEncoder /\ encoders' = <<>> /\ current' = current
      /\ encoder_id' = encoder_id /\ trackers' = trackers /\ fence_locality' = fence_locality
  BY DEF FlushCommands
<1>2. PICK g : RecordIs(g)
  BY DEF RecordInv
<1>3. Between(encoder_id, trackers, fence_locality, g)
  BY <1>1, <1>2, RecordIsIdle
<1>4. Len(<<>>) = 0 /\ DOMAIN <<>> = {}
  OBVIOUS
<1>5. Live(<<>>) = {}
  BY <1>4 DEF Live
<1>6. TargetsAreUnused(<<>>) /\ ReadonlyStays(<<>>, Len(<<>>) + 1)
  BY <1>5 DEF TargetsAreUnused, ReadonlyStays
<1>7. FitsList(<<>>, g, FirstId')
  BY <1>4, <1>6, EmptyFits DEF FitsList, ShortLists
<1>8. FitsList(encoders', g, FirstId') /\ Between(encoder_id', trackers', fence_locality', g)
      /\ current' = NoEncoder
  BY <1>1, <1>3, <1>7
<1> QED
  BY <1>8 DEF RecordInv, RecordIs

(* A pass is being recorded.                                               *)
LEMMA RecordingRecord ==
  ASSUME NEW g, FitsList(encoders, g, FirstOf(current')), Len(encoders) < MaxList,
         encoders' = encoders, current' # NoEncoder,
         NEW s, s.trackers = trackers', s.encoder = current', fence_locality' = fence_locality,
         Records(s, g), IsOpen(current')
  PROVE  RecordInv'
<1>1. FirstId' = FirstOf(current')
  BY DEF FirstId, FirstOf
<1>2. FitsList(encoders', g, FirstId') /\ Len(encoders') < MaxList
  BY <1>1
<1>3. /\ DistantWrites = FALSE /\ trackers' \in [Resources -> Tracker]
      /\ IsPassOf(current') /\ AllBelow(trackers', current'.id + 1)
      /\ WaitsReach(current') /\ UpdatesAre(current')
      /\ current'.type = "render" =>
           /\ DOMAIN current'.attachments \subseteq Planes
           /\ \A r \in ResourcesOf(DOMAIN current'.attachments) :
                MayWrite(trackers'[r], current'.id)
      /\ FenceCount <= FirstOf(current')
      /\ OrderIs(g.before, g.last, fence_locality', FirstOf(current'))
  BY DEF Records, MayEnd
<1>4. /\ PassFits(current', trackers', g)
      /\ AreNamed(trackers', g.uses \union current'.uses)
      /\ WaitsAreNeeded(current', g.uses)
  BY DEF Records
<1>5. Records(At(current), g)'
  BY <1>3, <1>4 DEF Records, MayEnd, At
<1> QED
  BY <1>2, <1>5 DEF RecordInv, RecordIs

LEMMA StartPassRecord ==
  ASSUME ShortLists, DistantWrites = FALSE, RecordInv, IdsInv,
         NEW type \in PassTypes, StartPass(type)
  PROVE  RecordInv'
<1> DEFINE e == Encoder(type, None, encoder_id)
           s == At(e)
<1>1. /\ current = NoEncoder /\ Len(encoders) < MaxList /\ current' = e /\ trackers' = trackers
      /\ encoders' = encoders /\ fence_locality' = fence_locality
  BY DEF StartPass, CanStart
<1>2. PICK g : RecordIs(g)
  BY DEF RecordInv
<1>3. FitsList(encoders, g, encoder_id) /\ Between(encoder_id, trackers, fence_locality, g)
  BY <1>1, <1>2, RecordIsIdle
<1>4. type \in {"compute", "blit"} /\ encoder_id \in Nat \ {0}
  BY <1>1, IdleIs, PassTypesAssumption
<1>5. /\ IsEncoder(e) /\ e.type = type /\ e.id = encoder_id /\ e.uses = {} /\ e.wait = {}
      /\ e.wait_vertex = {} /\ e.attachments = NoAttachments
      /\ e.update = {encoder_id} /\ e.update_vertex = {}
  BY <1>4, EncoderIs DEF Encoder
<1>6. s.trackers = trackers /\ s.encoder = e
  BY DEF At
<1> HIDE DEF e
<1>7. /\ e # NoEncoder /\ UpdatesAre(e) /\ UsesAreOf(e) /\ IsPassOf(e) /\ FirstOf(e) = encoder_id
  BY <1>4, <1>5, NoEncoderIs DEF UpdatesAre, UsesAreOf, IsPassOf, FirstOf
<1>8. IsOpen(e)
  BY <1>4, <1>5, <1>7 DEF IsOpen
<1>9. Records(s, g)
  BY <1>3, <1>4, <1>5, <1>7, RecordsFirst DEF ShortLists
<1> HIDE DEF s
<1> QED
  BY <1>1, <1>3, <1>6, <1>7, <1>8, <1>9, RecordingRecord

LEMMA StartRenderRecord ==
  ASSUME ShortLists, DistantWrites = FALSE, RecordInv, IdsInv,
         NEW planes \in AttachmentSets, NEW readonly, StartRenderPass(planes, readonly)
  PROVE  RecordInv'
<1> DEFINE n == Encoder("render", encoder_id, encoder_id + 1)
           attachments == [p \in planes |-> Attachment(p \in readonly)]
           e == [n EXCEPT !.attachments = attachments]
           colors == ResourcesOf(planes \ DepthStencil(planes))
           others == ResourcesOf(DepthStencil(planes))
           start == At(e)
           color == Accessed(start, colors, "pixel", "write")
           all == Accessed(color, others, "pixel", "read")
           id == encoder_id + 1
<1>1. /\ current = NoEncoder /\ Len(encoders) < MaxList /\ trackers' = all.trackers
      /\ current' = all.encoder /\ encoders' = encoders /\ fence_locality' = fence_locality
      /\ \A r \in ResourcesOf(planes) : MayWrite(trackers[r], id)
      /\ readonly \subseteq DepthStencil(planes)
  BY DEF StartRenderPass, CanStart
<1>2. PICK g : RecordIs(g)
  BY DEF RecordInv
<1>3. FitsList(encoders, g, encoder_id) /\ Between(encoder_id, trackers, fence_locality, g)
  BY <1>1, <1>2, RecordIsIdle
<1>4. encoder_id \in Nat \ {0} /\ id \in Nat \ {0}
  BY <1>1, IdleIs
<1>5. /\ IsEncoder(e) /\ e.type = "render" /\ e.vertex = encoder_id /\ e.id = id
      /\ e.uses = {} /\ e.wait = {} /\ e.wait_vertex = {} /\ UpdatesAre(e)
      /\ e.attachments = attachments /\ e.cmds = <<>>
  <2>1. /\ IsEncoder(n) /\ n.type = "render" /\ n.vertex = encoder_id /\ n.id = id
        /\ n.wait = {} /\ n.wait_vertex = {} /\ n.update = {id} /\ n.cmds = <<>>
        /\ n.update_vertex = {encoder_id} /\ n.uses = {}
    BY EncoderIs DEF Encoder
  <2> HIDE DEF attachments, n
  <2>2. /\ e.type = n.type /\ e.vertex = n.vertex /\ e.uses = n.uses /\ e.cmds = n.cmds
        /\ e.id = n.id /\ e.wait = n.wait /\ e.wait_vertex = n.wait_vertex
        /\ e.update = n.update /\ e.update_vertex = n.update_vertex
        /\ e.attachments = attachments
    BY <2>1 DEF IsEncoder
  <2>3. IsEncoder(e)
    BY <2>1 DEF IsEncoder
  <2> HIDE DEF e
  <2>4. UpdatesAre(e)
    BY <2>1, <2>2 DEF UpdatesAre
  <2> QED
    BY <2>1, <2>2, <2>3, <2>4
<1>6. /\ planes \subseteq Planes /\ colors \subseteq Resources /\ others \subseteq Resources
      /\ colors \subseteq ResourcesOf(planes) /\ DepthStencil(planes) \subseteq planes
  <2>1. planes \subseteq Planes
    BY PlanesAssumption
  <2>2. DepthStencil(planes) \subseteq planes
    BY DEF DepthStencil
  <2> QED
    BY <2>1, <2>2, ResourcesOfIs DEF ResourcesOf
<1>7. \A p \in planes : IF IsDepthStencil(p) THEN ResourceOf(p) \in others
                        ELSE ResourceOf(p) \in colors
  BY DEF ResourcesOf, DepthStencil, IsDepthStencil
<1>8. /\ DOMAIN attachments = planes
      /\ attachments = [p \in DOMAIN attachments |-> attachments[p]]
      /\ \A p \in planes : \E b \in BOOLEAN :
           attachments[p] = Attachment(b) /\ (b => IsDepthStencil(p))
  <2>1. \A p \in readonly : IsDepthStencil(p)
    BY <1>1 DEF DepthStencil, IsDepthStencil
  <2>2. ASSUME NEW p \in planes
        PROVE  attachments[p] = Attachment(p \in readonly) /\ (p \in readonly) \in BOOLEAN
    OBVIOUS
  <2>3. DOMAIN attachments = planes
    OBVIOUS
  <2>4. attachments = [p \in DOMAIN attachments |-> attachments[p]]
    OBVIOUS
  <2> HIDE DEF attachments
  <2>5. ASSUME NEW p \in planes
        PROVE  \E b \in BOOLEAN : attachments[p] = Attachment(b) /\ (b => IsDepthStencil(p))
    BY <2>1, <2>2
  <2> QED
    BY <2>3, <2>4, <2>5
<1> HIDE DEF e, colors, others, attachments
<1>9. IsPassOf(e) /\ FirstOf(e) = encoder_id
  BY <1>4, <1>5 DEF IsPassOf, FirstOf, id
<1>10. Records(start, g) /\ start.encoder = e /\ start.trackers = trackers
  <2>1. Records(start, g)
    BY <1>1, <1>3, <1>5, <1>6, <1>8, <1>9, RecordsFirst DEF ShortLists
  <2> QED
    BY <2>1 DEF At
<1> HIDE DEF id
<1> HIDE DEF start
<1>11. /\ Records(color, g) /\ SameShape(color.encoder, e)
       /\ color.encoder.uses = { Use(e, "pixel", r, "write") : r \in colors }
  <2>1. "pixel" # "compute" /\ "pixel" # "vertex" /\ IdOf(e, "pixel") = id
    BY <1>5 DEF IdOf
  <2>2. /\ Records(start, g) /\ colors \subseteq Resources
        /\ "pixel" \in {"compute", "vertex", "pixel"}
        /\ ("pixel" = "compute") <=> start.encoder.type # "render"
        /\ "pixel" # "compute" /\ IsWrite("write") =>
             \A r \in colors : MayWrite(start.trackers[r], IdOf(start.encoder, "pixel"))
    BY <1>1, <1>5, <1>6, <1>10, <2>1
  <2>3. FragmentStaysLast(start.encoder, colors, "pixel", "write")
    BY DEF FragmentStaysLast
  <2>4. Records(color, g)
    BY ONLY <2>2, <2>3, RecordsAccess
  <2>5. IsEncoder(start.encoder)
    BY <1>5, <1>10
  <2>6. /\ SameShape(color.encoder, start.encoder)
        /\ color.encoder.uses = start.encoder.uses
             \union { Use(start.encoder, "pixel", r, "write") : r \in colors }
    BY ONLY <2>5, AccessedShape
  <2> QED
    BY <1>5, <1>10, <2>4, <2>6
<1>12. IsEncoder(color.encoder) /\ color.encoder.type = "render"
  BY <1>5, <1>11 DEF SameShape
<1> HIDE DEF color
<1>13. /\ Records(all, g) /\ SameShape(all.encoder, color.encoder)
       /\ all.encoder.uses = color.encoder.uses
            \union { Use(color.encoder, "pixel", r, "read") : r \in others }
  <2>1. /\ Records(color, g) /\ others \subseteq Resources
        /\ "pixel" \in {"compute", "vertex", "pixel"}
        /\ ("pixel" = "compute") <=> color.encoder.type # "render"
        /\ "pixel" # "compute" /\ IsWrite("read") =>
             \A r \in others : MayWrite(color.trackers[r], IdOf(color.encoder, "pixel"))
    BY <1>6, <1>11, <1>12 DEF IsWrite
  <2>2. FragmentStaysLast(color.encoder, others, "pixel", "read")
    BY DEF FragmentStaysLast
  <2>3. Records(all, g)
    BY ONLY <2>1, <2>2, RecordsAccess
  <2>4. /\ SameShape(all.encoder, color.encoder)
        /\ all.encoder.uses = color.encoder.uses
             \union { Use(color.encoder, "pixel", r, "read") : r \in others }
    BY ONLY <1>12, AccessedShape
  <2> QED
    BY <2>3, <2>4
<1> HIDE DEF all
<1> DEFINE c == all.encoder
<1>14. SameShape(c, e)
  BY <1>11, <1>13, ShapeThen
<1> HIDE DEF c
<1>15. /\ IsEncoder(c) /\ c.type = "render" /\ c.vertex = encoder_id /\ c.id = id
       /\ c.update = e.update /\ c.update_vertex = e.update_vertex
       /\ c.attachments = attachments /\ c.cmds = <<>>
  BY <1>5, <1>14 DEF SameShape
<1>16. \A r, mode : /\ Use(e, "pixel", r, mode) = [id |-> id, stage |-> "pixel", res |-> r, mode |-> mode]
                    /\ Use(color.encoder, "pixel", r, mode)
                         = [id |-> id, stage |-> "pixel", res |-> r, mode |-> mode]
  BY <1>5, <1>11 DEF Use, SameShape
<1>17. /\ \A r \in colors : [id |-> id, stage |-> "pixel", res |-> r, mode |-> "write"] \in c.uses
       /\ \A r \in others : [id |-> id, stage |-> "pixel", res |-> r, mode |-> "read"] \in c.uses
       /\ \A u \in c.uses : u.id = id /\ u.stage = "pixel" /\ u.res \in Resources
  <2> DEFINE First == { Use(e, "pixel", r, "write") : r \in colors }
             Then == { Use(color.encoder, "pixel", r, "read") : r \in others }
  <2>0. c.uses = First \union Then
    BY <1>11, <1>13 DEF c
  <2>3. \A u \in First :
          \E r \in colors : u = [id |-> id, stage |-> "pixel", res |-> r, mode |-> "write"]
    BY <1>16
  <2>4. \A u \in Then :
          \E r \in others : u = [id |-> id, stage |-> "pixel", res |-> r, mode |-> "read"]
    BY <1>16
  <2> HIDE DEF First, Then
  <2>1. \A u \in c.uses :
          \/ \E r \in colors : u = [id |-> id, stage |-> "pixel", res |-> r, mode |-> "write"]
          \/ \E r \in others : u = [id |-> id, stage |-> "pixel", res |-> r, mode |-> "read"]
    BY <2>0, <2>3, <2>4
  <2>2. /\ \A r \in colors : [id |-> id, stage |-> "pixel", res |-> r, mode |-> "write"] \in c.uses
        /\ \A r \in others : [id |-> id, stage |-> "pixel", res |-> r, mode |-> "read"] \in c.uses
    BY <1>16, <2>0 DEF First, Then
  <2> QED
    BY <1>6, <2>1, <2>2
<1>18. UsesAreOf(c) /\ UpdatesAre(c)
  BY <1>5, <1>15, <1>17 DEF UsesAreOf, UpdatesAre
<1>19. /\ colors \union others \subseteq ResourcesUsed(c) /\ colors \subseteq ResourcesWritten(c)
  <2>1. \A r \in colors \union others : \E u \in c.uses : u.res = r
    BY <1>17
  <2>2. \A r \in colors : \E u \in c.uses : u.res = r /\ u.mode = "write"
    BY <1>17
  <2>3. IsWrite("write")
    BY DEF IsWrite
  <2> QED
    BY <2>1, <2>2, <2>3 DEF ResourcesUsed, ResourcesWritten
<1>20. /\ DOMAIN c.attachments = planes
       /\ c.attachments = [p \in DOMAIN c.attachments |-> c.attachments[p]]
       /\ \A p \in DOMAIN c.attachments :
            /\ p \in Planes /\ ResourceOf(p) \in ResourcesUsed(c)
            /\ \E b \in BOOLEAN : c.attachments[p] = Attachment(b) /\ (b => IsDepthStencil(p))
            /\ ~ IsDepthStencil(p) => ResourceOf(p) \in ResourcesWritten(c)
  BY <1>6, <1>7, <1>8, <1>15, <1>19
<1>21. c.id \in Nat /\ c.vertex \in Nat /\ c.cmds \in Seq(Nat)
  BY <1>4, <1>15
<1>22. IsOpen(c)
  BY <1>15, <1>18, <1>20, <1>21 DEF IsOpen
<1>23. c # NoEncoder /\ FirstOf(c) = encoder_id
  BY <1>15, NoEncoderIs DEF FirstOf
<1>24. FitsList(encoders, g, FirstOf(current')) /\ current' = c /\ all.encoder = c
  BY <1>1, <1>3, <1>23 DEF c
<1> QED
  BY <1>1, <1>13, <1>22, <1>23, <1>24, RecordingRecord

LEMMA RecordIsOpen ==
  ASSUME NEW g, RecordIs(g), current # NoEncoder
  PROVE  /\ FitsList(encoders, g, FirstOf(current)) /\ Len(encoders) < MaxList
         /\ Records(At(current), g) /\ IsOpen(current)
<1>1. FirstId = FirstOf(current)
  BY DEF FirstId, FirstOf
<1> QED
  BY <1>1 DEF RecordIs

LEMMA AccessRecord ==
  ASSUME FragmentToVertex = FALSE, RecordInv, IdsInv,
         NEW stage \in {"compute", "vertex", "pixel"}, NEW r \in Resources, NEW mode,
         Access(stage, r, mode)
  PROVE  RecordInv'
<1> DEFINE start == At(current)
           after == Accessed(start, {r}, stage, mode)
<1>1. /\ current # NoEncoder /\ trackers' = after.trackers /\ current' = after.encoder
      /\ encoders' = encoders /\ fence_locality' = fence_locality
      /\ stage \in (IF current.type = "render" THEN ShaderStages ELSE {"compute"})
      /\ stage = "vertex" =>
           \A u \in current.uses :
             ~ (u.stage = "pixel" /\ Conflict(u, Use(current, stage, r, mode)))
      /\ stage # "compute" /\ IsWrite(mode) =>
           MayWrite(trackers[r], Use(current, stage, r, mode).id)
  BY DEF Access
<1>2. start.encoder = current /\ start.trackers = trackers
  BY DEF At
<1>3. PICK g : RecordIs(g)
  BY DEF RecordInv
<1>4. /\ FitsList(encoders, g, FirstOf(current)) /\ Len(encoders) < MaxList
      /\ Records(start, g) /\ IsOpen(current)
  BY <1>1, <1>3, RecordIsOpen
<1> HIDE DEF start
<1>5. stage \in (IF current.type = "render" THEN {"vertex", "pixel"} ELSE {"compute"})
  BY <1>1, ShaderStagesAssumption
<1>6. Records(after, g)
  <2>1. Use(current, stage, r, mode).id = IdOf(current, stage)
    BY DEF Use, IdOf
  <2>2. /\ Records(start, g) /\ {r} \subseteq Resources
        /\ stage \in {"compute", "vertex", "pixel"}
        /\ (stage = "compute") <=> start.encoder.type # "render"
        /\ stage # "compute" /\ IsWrite(mode) =>
             \A x \in {r} : MayWrite(start.trackers[x], IdOf(start.encoder, stage))
    BY <1>1, <1>2, <1>4, <1>5, <2>1
  <2>3. FragmentStaysLast(start.encoder, {r}, stage, mode)
    BY <1>1, <1>2 DEF FragmentStaysLast
  <2> QED
    BY ONLY <2>2, <2>3, RecordsAccess
<1>7. IsOpen(after.encoder)
  <2>1. /\ IsOpen(start.encoder) /\ {r} \subseteq Resources
        /\ stage \in (IF start.encoder.type = "render" THEN {"vertex", "pixel"} ELSE {"compute"})
    BY <1>2, <1>4, <1>5
  <2> QED
    BY ONLY <2>1, OpenAccess
<1>8. SameShape(after.encoder, current)
  <2>1. IsEncoder(start.encoder)
    BY <1>2, <1>4 DEF IsOpen
  <2>2. SameShape(after.encoder, start.encoder)
    BY ONLY <2>1, AccessedShape
  <2> QED
    BY <1>2, <2>2
<1> HIDE DEF after
<1>9. FirstOf(current') = FirstOf(current) /\ current' # NoEncoder
  <2>1. current'.type = current.type /\ current'.id = current.id /\ current'.vertex = current.vertex
    BY <1>1, <1>8 DEF SameShape
  <2>2. current.type \in {"render", "compute", "blit"}
    BY <1>4 DEF IsOpen
  <2> QED
    BY <2>1, <2>2, NoEncoderIs DEF FirstOf
<1> QED
  BY <1>1, <1>4, <1>6, <1>7, <1>9, RecordingRecord

(* A pass that only differs in its commands and barriers.                  *)
LEMMA RecordsLike ==
  ASSUME NEW s, NEW m, NEW g, Records(s, g), m.trackers = s.trackers,
         IsEncoder(m.encoder), SameShape([m.encoder EXCEPT !.cmds = s.encoder.cmds], s.encoder),
         m.encoder.wait = s.encoder.wait, m.encoder.wait_vertex = s.encoder.wait_vertex,
         m.encoder.uses = s.encoder.uses
  PROVE  Records(m, g)
<1> DEFINE e == s.encoder
           n == m.encoder
           o == [n EXCEPT !.cmds = e.cmds]
<1>1. SameShape(o, e)
  OBVIOUS
<1>2. /\ IsEncoder(n) /\ n.wait = e.wait /\ n.wait_vertex = e.wait_vertex /\ n.uses = e.uses
      /\ m.trackers = s.trackers
  OBVIOUS
<1>3. /\ o.type = n.type /\ o.vertex = n.vertex /\ o.id = n.id
      /\ o.update = n.update /\ o.update_vertex = n.update_vertex
      /\ o.attachments = n.attachments
  BY <1>2 DEF IsEncoder
<1>4. /\ MayEnd(s, g) /\ PassFits(e, s.trackers, g)
      /\ AreNamed(s.trackers, g.uses \union e.uses) /\ WaitsAreNeeded(e, g.uses)
  BY DEF Records
<1> HIDE DEF o, n, e
<1>5. /\ n.type = e.type /\ n.vertex = e.vertex /\ n.id = e.id
      /\ n.update = e.update /\ n.update_vertex = e.update_vertex
      /\ n.attachments = e.attachments
  BY <1>1, <1>3 DEF SameShape
<1>6. FirstOf(n) = FirstOf(e)
  BY <1>5 DEF FirstOf
<1>7. /\ DistantWrites = FALSE /\ s.trackers \in [Resources -> Tracker]
      /\ IsPassOf(e) /\ AllBelow(s.trackers, e.id + 1)
      /\ WaitsReach(e) /\ UpdatesAre(e)
      /\ e.type = "render" =>
           /\ DOMAIN e.attachments \subseteq Planes
           /\ \A r \in ResourcesOf(DOMAIN e.attachments) : MayWrite(s.trackers[r], e.id)
      /\ FenceCount <= FirstOf(e)
      /\ OrderIs(g.before, g.last, fence_locality, FirstOf(e))
  BY <1>4 DEF MayEnd, e
<1>8. WaitsReach(n) /\ UpdatesAre(n) /\ IsPassOf(n)
  BY <1>2, <1>5, <1>7 DEF WaitsReach, UpdatesAre, IsPassOf
<1>9. MayEnd(m, g)
  BY <1>2, <1>5, <1>6, <1>7, <1>8 DEF MayEnd, n
<1>10. PassFits(n, m.trackers, g)
  <2>1. UsesAreOf(n)
    BY <1>2, <1>4, <1>5 DEF PassFits, UsesAreOf
  <2>2. \A id : WaitsAt(e, id) \subseteq WaitsAt(n, id)
    BY <1>2, <1>5 DEF WaitsAt
  <2>3. ASSUME NEW r \in Resources
        PROVE  TrackerFits(n, s.trackers[r], r, g.uses, g.before, FirstOf(e))
    <3>1. TrackerFits(e, s.trackers[r], r, g.uses, g.before, FirstOf(e))
      BY <1>4 DEF PassFits
    <3> QED
      BY <1>2, <1>5, <2>2, <3>1, OtherFits
  <2> QED
    BY <1>2, <1>4, <1>6, <2>1, <2>3 DEF PassFits
<1>11. WaitsAreNeeded(n, g.uses)
  BY <1>2, <1>4, <1>5, <1>6 DEF WaitsAreNeeded, IsNeeded
<1> QED
  BY <1>2, <1>4, <1>9, <1>10, <1>11 DEF Records, n

LEMMA CommandRecord ==
  ASSUME RecordInv, IdsInv, Command
  PROVE  RecordInv'
<1> DEFINE left == BarriersLeft
           cmds == IF current.type = "render" THEN Append(current.cmds, current.id)
                   ELSE current.cmds
           s == At(current)
           m == [trackers |-> trackers', encoder |-> current']
<1>1. current # NoEncoder /\ encoders' = encoders /\ trackers' = trackers
      /\ fence_locality' = fence_locality
  BY DEF Command
<1>2. PICK g : RecordIs(g)
  BY DEF RecordInv
<1>3. /\ FitsList(encoders, g, FirstOf(current)) /\ Len(encoders) < MaxList
      /\ Records(s, g) /\ IsOpen(current)
  BY <1>1, <1>2, RecordIsOpen
<1>4. IsEncoder(current)
  BY <1>3 DEF IsOpen
<1>5. current' = [current EXCEPT !.barriers = left,
                    !.cmds = IF current.type = "render" THEN Append(@, current.id) ELSE @]
  BY DEF Command
<1> HIDE DEF left
<1>6. current' = [[current EXCEPT !.barriers = left] EXCEPT !.cmds = cmds]
  BY <1>4, <1>5 DEF IsEncoder
<1>7. cmds = IF current.type = "render" THEN Append(current.cmds, current.id) ELSE current.cmds
  OBVIOUS
<1> HIDE DEF cmds
<1>8. /\ current'.type = current.type /\ current'.vertex = current.vertex
      /\ current'.id = current.id /\ current'.update = current.update
      /\ current'.update_vertex = current.update_vertex
      /\ current'.attachments = current.attachments
      /\ current'.wait = current.wait /\ current'.wait_vertex = current.wait_vertex
      /\ current'.uses = current.uses /\ current'.cmds = cmds
      /\ current'.planes = current.planes /\ current'.src = current.src
      /\ current'.dst = current.dst
      /\ IsEncoder(current')
  BY <1>4, <1>6 DEF IsEncoder
<1>9. SameShape([current' EXCEPT !.cmds = current.cmds], current)
  BY <1>4, <1>8 DEF IsEncoder, SameShape
<1>10. s.trackers = trackers /\ s.encoder = current /\ m.trackers = trackers /\ m.encoder = current'
  BY <1>1 DEF At
<1> HIDE DEF s, m
<1>11. Records(m, g)
  BY <1>3, <1>8, <1>9, <1>10, RecordsLike
<1>12. IsOpen(current')
  <2>1. current.type = "render" => cmds \in Seq(Nat)
    BY <1>3, <1>7 DEF IsOpen
  <2>2. ResourcesUsed(current') = ResourcesUsed(current)
        /\ ResourcesWritten(current') = ResourcesWritten(current)
    BY <1>8 DEF ResourcesUsed, ResourcesWritten
  <2>3. UpdatesAre(current') /\ UsesAreOf(current')
    BY <1>3, <1>8 DEF IsOpen, UpdatesAre, UsesAreOf
  <2> QED
    BY <1>3, <1>8, <2>1, <2>2, <2>3 DEF IsOpen
<1>13. FirstOf(current') = FirstOf(current) /\ current' # NoEncoder
  <2>1. current.type \in {"render", "compute", "blit"}
    BY <1>3 DEF IsOpen
  <2> QED
    BY <1>8, <2>1, NoEncoderIs DEF FirstOf
<1> QED
  BY <1>1, <1>3, <1>10, <1>11, <1>12, <1>13, RecordingRecord

LEMMA SameRecord ==
  ASSUME RecordInv, UNCHANGED <<encoder_id, trackers, fence_locality, encoders, current>>
  PROVE  RecordInv'
<1>1. PICK g : RecordIs(g)
  BY DEF RecordInv
<1>2. FirstId' = FirstId
  BY DEF FirstId
<1>3. CASE current = NoEncoder
  BY <1>1, <1>2, <1>3 DEF RecordInv, RecordIs
<1>4. CASE current # NoEncoder
  <2> DEFINE s == At(current)
  <2>1. /\ FitsList(encoders, g, FirstOf(current)) /\ Len(encoders) < MaxList
        /\ Records(s, g) /\ IsOpen(current)
    BY <1>1, <1>4, RecordIsOpen
  <2>2. s.trackers = trackers' /\ s.encoder = current' /\ current' = current
    BY DEF At
  <2> HIDE DEF s
  <2> QED
    BY <1>4, <2>1, <2>2, RecordingRecord
<1> QED
  BY <1>3, <1>4

LEMMA InitRecord ==
  ASSUME ShortLists, Init
  PROVE  RecordInv
<1> DEFINE g == NothingEncoded
<1>1. FenceCount \in Nat \ {0}
  BY FenceCountIs
<1>2. /\ encoder_id = FenceCount /\ current = NoEncoder /\ encoders = <<>>
      /\ trackers = [r \in Resources |-> NewTracker]
      /\ fence_locality = [f \in 0 .. FenceCount - 1 |-> {}]
  BY DEF Init
<1>3. /\ g.uses = {} /\ g.before = <<>> /\ g.host = <<>>
      /\ g.last = [f \in 0 .. FenceCount - 1 |-> {}]
  BY DEF NothingEncoded
<1> HIDE DEF g
<1>4. NewTracker \in Tracker /\ NewTracker.shared = <<>> /\ NewTracker.exclusive = 0
  BY DEF NewTracker, Tracker
<1>5. \A r \in Resources : trackers[r] = NewTracker
  BY <1>2
<1> HIDE DEF NewTracker
<1>6. trackers \in [Resources -> Tracker] /\ AllBelow(trackers, FenceCount)
  <2>1. IsBelow(NewTracker, FenceCount)
    BY <1>1, <1>4 DEF IsBelow
  <2> QED
    BY <1>2, <1>4, <1>5, <2>1 DEF AllBelow
<1>7. TrackersKnow(FenceCount, trackers, g) /\ AreNamed(trackers, g.uses)
  BY <1>3, <1>4, <1>5 DEF TrackersKnow, IsRing, OldAreKnown, AreNamed, IsNamed
<1>8. DOMAIN <<>> = {} /\ FenceCount .. FenceCount - 1 = {} /\ Len(<<>>) = 0
  BY <1>1
<1>9. PassesAreOrdered(FenceCount, g)
  <2>1. IsBefore(g.before, FenceCount)
    BY <1>3, <1>8 DEF IsBefore
  <2> QED
    BY <1>1, <1>3, <2>1 DEF PassesAreOrdered, AreOrdered
<1>10. OrderIs(g.before, g.last, fence_locality, FenceCount)
  <2>1. \A x \in Nat : x < FenceCount => Fence(x) \in 0 .. FenceCount - 1
    BY LaneOfFence
  <2> QED
    BY <1>2, <1>3, <1>8, <2>1 DEF OrderIs
<1>11. Between(encoder_id, trackers, fence_locality, g)
  BY <1>1, <1>2, <1>6, <1>7, <1>9, <1>10 DEF Between
<1>12. Live(<<>>) = {}
  BY <1>8 DEF Live
<1>13. TargetsAreUnused(<<>>) /\ ReadonlyStays(<<>>, Len(<<>>) + 1)
  BY <1>12 DEF TargetsAreUnused, ReadonlyStays
<1>14. FitsList(encoders, g, FirstId)
  BY <1>2, <1>8, <1>13, EmptyFits DEF FitsList, ShortLists
<1> QED
  BY <1>2, <1>11, <1>14 DEF RecordInv, RecordIs

(* The trackers and the fences of the passes recorded so far are those of  *)
(* the same passes encoded one by one, so that the waits of each pass      *)
(* order it after those it conflicts with: what endPass appends to the     *)
(* list is a list that checkEncoderRelation may be given. The list has at  *)
(* most half as many passes as a lane has ids (32 in the code), no render  *)
(* pass writes what was written two lanes ago or uses in its vertex stage  *)
(* what its fragment stage uses.                                           *)
THEOREM RecordInvariance ==
  ASSUME ShortLists, DistantWrites = FALSE, FragmentToVertex = FALSE,
         ResolveAnywhere = FALSE, ClearAfterReaders = FALSE
  PROVE  Spec => []RecordInv
<1>1. Init => RecordInv
  BY InitRecord
<1>2. IdsInv /\ ListInv /\ RecordInv /\ [Next]_vars => RecordInv'
  <2> SUFFICES ASSUME IdsInv, ListInv, RecordInv, [Next]_vars PROVE RecordInv'
    OBVIOUS
  <2>1. ASSUME NEW planes \in ClearSets, Clear(planes) PROVE RecordInv'
    <3> DEFINE writes == ResourcesOf(planes)
    <3>1. OnePass("clear", {}, writes, planes, None, None) /\ ~ ReadBesideReadonly(planes)
      BY <2>1 DEF Clear
    <3>2. current = NoEncoder
      BY <3>1 DEF OnePass, CanStart
    <3>3. MayRecord("clear", encoder_id, {}, writes, planes, None, None)
      <4>1. planes \subseteq Planes /\ writes \subseteq Resources /\ encoder_id \in Nat
        BY <3>2, PlanesAssumption, ResourcesOfIs, IdleIs
      <4> QED
        BY <4>1 DEF MayRecord
    <3> HIDE DEF writes
    <3>4. "clear" # "resolve"
      OBVIOUS
    <3> QED
      BY ONLY ShortLists, DistantWrites = FALSE, RecordInv, IdsInv, ListInv, <3>1, <3>3, <3>4,
              OnePassRecord
  <2>2. ASSUME NEW p \in Resolves, ResolveTexture(p[1], p[2]) PROVE RecordInv'
    <3> DEFINE reads == {ResourceOf(p[1])}
               writes == {ResourceOf(p[2])}
    <3>1. OnePass("resolve", reads, writes, {}, p[1], p[2]) /\ ~ IsUsed(ResourceOf(p[2]))
      BY <2>2 DEF ResolveTexture
    <3>2. current = NoEncoder
      BY <3>1 DEF OnePass, CanStart
    <3>3. MayRecord("resolve", encoder_id, reads, writes, {}, p[1], p[2])
      <4>1. p[1] \in Planes /\ p[2] \in Planes /\ ~ IsDepthStencil(p[1]) /\ encoder_id \in Nat
        BY <3>2, PlanesAssumption, IdleIs DEF IsDepthStencil
      <4>2. {p[1], p[2]} \subseteq Planes
        BY <4>1
      <4>3. reads \subseteq Resources /\ writes \subseteq Resources
        BY <4>2, ResourcesOfIs DEF ResourcesOf
      <4> QED
        BY <4>1, <4>3 DEF MayRecord
    <3> HIDE DEF reads, writes
    <3>4. "resolve" # "clear"
      OBVIOUS
    <3> QED
      BY ONLY ShortLists, DistantWrites = FALSE, RecordInv, IdsInv, ListInv, <3>1, <3>3, <3>4,
              OnePassRecord
  <2>3. ASSUME NEW p \in Presents, Present(p[1], p[2]) PROVE RecordInv'
    <3> DEFINE reads == {p[1]}
               writes == {p[2]} \ {None}
    <3>1. OnePass("present", reads, writes, {}, None, None)
      BY <2>3 DEF Present
    <3>2. current = NoEncoder
      BY <3>1 DEF OnePass, CanStart
    <3>3. MayRecord("present", encoder_id, reads, writes, {}, None, None)
      <4>1. reads \subseteq Resources /\ writes \subseteq Resources
        BY PlanesAssumption
      <4>2. encoder_id \in Nat
        BY <3>2, IdleIs
      <4> QED
        BY <4>1, <4>2 DEF MayRecord
    <3> HIDE DEF reads, writes
    <3>4. "present" # "resolve" /\ "present" # "clear"
      OBVIOUS
    <3> QED
      BY ONLY ShortLists, DistantWrites = FALSE, RecordInv, IdsInv, ListInv, <3>1, <3>3, <3>4,
              OnePassRecord
  <2>4. CASE Event
    BY <2>4, EventRecord
  <2>5. ASSUME NEW planes \in AttachmentSets, NEW readonly \in ReadonlySets,
               StartRenderPass(planes, readonly)
        PROVE  RecordInv'
    BY <2>5, StartRenderRecord
  <2>6. ASSUME NEW type \in PassTypes, StartPass(type) PROVE RecordInv'
    BY <2>6, StartPassRecord
  <2>7. ASSUME NEW stage \in {"compute", "vertex", "pixel"}, NEW r \in Resources,
               NEW mode \in {"read", "write", "uav"}, Access(stage, r, mode)
        PROVE  RecordInv'
    BY <2>7, AccessRecord
  <2>8. CASE SetIntrapassControl
    BY <2>8, SameRecord DEF SetIntrapassControl
  <2>9. CASE Command
    BY <2>9, CommandRecord
  <2>10. CASE EndPass
    BY <2>10, EndPassRecord
  <2>11. CASE FlushCommands
    BY <2>11, FlushRecord
  <2>12. CASE UNCHANGED vars
    BY <2>12, SameRecord DEF vars
  <2> QED
    BY <2>1, <2>2, <2>3, <2>4, <2>5, <2>6, <2>7, <2>8, <2>9, <2>10, <2>11, <2>12 DEF Next
<1> QED
  BY <1>1, <1>2, IdsInvariance, ListInvariance, PTL DEF Spec

-----------------------------------------------------------------------------
(* What is recorded is sound.                                              *)

LEMMA ClashesConflict ==
  ASSUME NEW e, NEW n, IsRecorded(e), IsRecorded(n), Clash(e, n)
  PROVE  \E a \in e.uses, b \in n.uses : Conflict(a, b)
<1>1. ASSUME NEW o, IsRecorded(o) PROVE Alters(o) = ResourcesWritten(o)
  <2>1. ClearLoads(o) = {}
    BY <1>1 DEF IsRecorded, ClearLoads
  <2> QED
    BY <2>1 DEF Alters, ResourcesOf
<1>2. \/ ResourcesWritten(e) \intersect ResourcesUsed(n) # {}
      \/ ResourcesUsed(e) \intersect ResourcesWritten(n) # {}
  BY <1>1 DEF Clash
<1> QED
  BY <1>2 DEF ResourcesWritten, ResourcesUsed, Conflict

(* Passes of the list that clash are ordered.                              *)
LEMMA RecordedAreOrdered ==
  ASSUME NEW list, NEW g, NEW first, ListFits(list, g, first), PassesAreOrdered(first, g),
         NEW i \in DOMAIN list, NEW k \in DOMAIN list, i < k, Clash(list[i], list[k])
  PROVE  k \in OrderOf(list, g)[i]
<1> DEFINE e == list[i]
           n == list[k]
<1>1. /\ IsIn(e) /\ IsIn(n) /\ IdsFit(list, g, first) /\ IdsGrow(list) /\ UsesFit(list, g)
      /\ AreOrdered(g)
  BY DEF ListFits, PassesAreOrdered
<1>2. PICK a \in e.uses, b \in n.uses : Conflict(a, b)
  BY <1>1, ClashesConflict DEF IsIn
<1>3. e.type # "event" /\ n.type # "event"
  BY <1>1, <1>2 DEF IsIn, IsWhole
<1>4. /\ UpdatesAre(e) /\ UsesAreOf(e) /\ e.id \in Nat /\ e.id \in IdsOf(e)
      /\ e.type = "render" => e.vertex \in Nat /\ e.id = e.vertex + 1 /\ e.vertex \in IdsOf(e)
      /\ n.id \in IdsOf(n)
  BY <1>1, <1>3 DEF IsIn, UpdatesAre, IdsOf
<1>5. \A x \in IdsOf(e), y \in IdsOf(n) : x < y /\ g.host[x] # g.host[y]
  <2>1. \A x \in IdsOf(e), y \in IdsOf(n) : x < y /\ g.host[x] = e.id /\ g.host[y] = n.id
    BY <1>1 DEF IdsGrow, IdsFit
  <2>2. e.id < n.id
    BY <1>4, <2>1
  <2>3. n.id \in Nat
    BY <1>1, <1>3 DEF IsIn
  <2> QED
    BY <1>4, <2>1, <2>2, <2>3
<1>6. a.id \in IdsOf(e) /\ b.id \in IdsOf(n) /\ a \in g.uses /\ b \in g.uses
  BY <1>1, <1>2 DEF IsIn, IsWhole, UsesFit
<1>7. ASSUME NEW w \in e.uses, Conflict(w, b), ~ IsForgotten(g.uses, w)
      PROVE  k \in OrderOf(list, g)[i]
  <2>1. w.id \in IdsOf(e) /\ w \in g.uses
    BY <1>1, <1>7 DEF IsIn, IsWhole, UsesFit
  <2>2. w.id \in g.before[b.id]
    BY <1>1, <1>5, <1>6, <1>7, <2>1 DEF AreOrdered
  <2> QED
    BY <1>6, <2>1, <2>2, OrderedAt
<1>8. CASE ~ IsForgotten(g.uses, a)
  BY <1>2, <1>7, <1>8
<1>9. CASE IsForgotten(g.uses, a)
  <2>1. PICK w \in g.uses : w.stage = "vertex" /\ w.id + 1 = a.id /\ Conflict(w, a)
    BY <1>9 DEF IsForgotten
  <2>2. a.stage = "pixel" /\ ~ IsWrite(a.mode)
    BY <1>9 DEF IsForgotten
  <2>3. e.type = "render" /\ a.id = e.id
    BY <1>2, <1>4, <2>2 DEF UsesAreOf
  <2>4. w.id = e.vertex
    <3>1. w.id \in Int
      BY <1>1, <2>1 DEF PassesAreOrdered
    <3> QED
      BY <1>4, <2>1, <2>3, <3>1
  <2>5. w \in e.uses
    BY <1>1, <1>4, <2>1, <2>3, <2>4 DEF UsesFit
  <2>6. Conflict(w, b) /\ ~ IsForgotten(g.uses, w)
    BY <1>2, <2>1, <2>2 DEF Conflict, IsForgotten
  <2> QED
    BY <1>7, <2>5, <2>6
<1> QED
  BY <1>8, <1>9

LEMMA RecordedIsSound ==
  ASSUME NEW list, NEW g, NEW first, AreListed(list), FitsList(list, g, first),
         PassesAreOrdered(first, g)
  PROVE  IsSound(list, Len(list) + 1)
<1> DEFINE end == Len(list) + 1
           order == OrderOf(list, g)
<1>1. /\ ListFits(list, g, first) /\ TargetsAreUnused(list) /\ ReadonlyStays(list, end)
  BY DEF FitsList
<1>2. /\ \A i \in DOMAIN list : IsIn(list[i])
      /\ AreSeparate(list) /\ Chains(list, order)
  BY <1>1 DEF ListFits
<1>3. \A i \in Live(list) : i \in DOMAIN list
  BY DEF Live
<1>4. AreWhole(list, end)
  BY <1>2, <1>3 DEF AreWhole, IsIn
<1>5. HasOrder(list, end)
  <2>1. \A i, k \in Live(list) : i < k /\ Clash(list[i], list[k]) => k \in order[i]
    BY <1>1, <1>3, RecordedAreOrdered
  <2>2. IsOrder(list, end, order)
    BY <1>2, <2>1 DEF IsOrder
  <2> QED
    BY <2>2 DEF HasOrder
<1>6. StoresAreCleared(list, end)
  <2>1. \A i \in DOMAIN list : \A p \in DOMAIN list[i].attachments :
          list[i].attachments[p].store # "dont_care"
    BY <1>2 DEF IsIn, IsRecorded
  <2> QED
    BY <1>3, <2>1 DEF StoresAreCleared
<1> QED
  BY <1>1, <1>2, <1>4, <1>5, <1>6 DEF IsSound

(* Whatever checkEncoderRelation merges, moves, drops and resolves, the    *)
(* list that flushCommands encodes leaves the contents and lets each pass  *)
(* see what it saw in the list that was recorded. The list has at most     *)
(* half as many passes as a lane has ids, a resolve has a target that the  *)
(* list has not used, and nothing is cleared that a pass of the list keeps *)
(* read-only while another one reads it; and no render pass writes what    *)
(* was written two lanes ago or uses in its vertex stage what its fragment *)
(* stage uses.                                                             *)
THEOREM OptimizedAsRecorded ==
  ASSUME ShortLists, DistantWrites = FALSE, FragmentToVertex = FALSE,
         ResolveAnywhere = FALSE, ClearAfterReaders = FALSE
  PROVE  Spec => []SameAsRecorded
<1>1. ListInv /\ RecordInv => SameAsRecorded
  <2> SUFFICES ASSUME ListInv, RecordInv, current = NoEncoder
               PROVE  Run(Optimized(encoders)) = Run(encoders)
    BY DEF SameAsRecorded
  <2>1. PICK g : RecordIs(g)
    BY DEF RecordInv
  <2>2. FitsList(encoders, g, encoder_id) /\ PassesAreOrdered(encoder_id, g)
    BY <2>1, RecordIsIdle DEF Between
  <2>3. AreListed(encoders) /\ \A k \in DOMAIN encoders : encoders[k].type # "null"
    BY DEF ListInv
  <2>4. IsSound(encoders, Len(encoders) + 1)
    BY <2>2, <2>3, RecordedIsSound
  <2> QED
    BY <2>3, <2>4, OptimizedRunsTheSame
<1> QED
  BY <1>1, ListInvariance, RecordInvariance, PTL

=============================================================================
