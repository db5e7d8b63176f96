-------------------------- MODULE Popularity_proofs ---------------------------
(***************************************************************************)
(* Theorems about Popularity, for any tables, any order of the pass and any*)
(* size of the heap: the blocks chosen are the best, and a chain is pulled *)
(* from its head.                                                          *)
(***************************************************************************)
EXTENDS Popularity, FiniteSetTheorems, FunctionTheorems, SequenceTheorems,
        WellFoundedInduction, TLAPS

(* The numbers, one after the other.                                       *)
LEMMA NumbersFrom0 ==
    ASSUME NEW T \in SUBSET Nat, 0 \in T, \A n \in T : n + 1 \in T
    PROVE  T = Nat
  <1> SUFFICES ASSUME T # Nat PROVE FALSE
    OBVIOUS
  <1> DEFINE Less == {ss \in Nat \X Nat : ss[1] < ss[2]}
  <1>1. IsWellFoundedOn(Less, Nat)
    BY NatLessThanWellFounded DEF OpToRel
  <1>2. PICK m \in Nat \ T : \A y \in Nat \ T : <<y, m>> \notin Less
    <2> HIDE DEF Less
    <2>1. Nat \ T # {} /\ Nat \ T \subseteq Nat
      OBVIOUS
    <2> QED BY <1>1, <2>1, WFMin
  <1>3. m # 0 /\ m - 1 \in Nat /\ m = (m - 1) + 1
    OBVIOUS
  <1>4. <<m - 1, m>> \in Less
    BY <1>3
  <1>5. m - 1 \in T
    <2> HIDE DEF Less
    <2> QED BY <1>2, <1>3, <1>4
  <1> QED BY <1>3, <1>5

-----------------------------------------------------------------------------
(* The depth of a block is the number of known blocks before it: the       *)
(* recursion over its predecessors ends.                                   *)

LEMMA DepthExists ==
    ASSUME PopularityAssumption, pre \in Predecessors
    PROVE  \E f \in [RankedHash -> Nat] :
              \A h \in RankedHash : f[h] = IF h \notin described \/ pre[h] = Root THEN 0
                                           ELSE f[pre[h]] + 1
  <1> DEFINE N == Cardinality(RankedHash)
  <1>0. pre \in [RankedHash -> RankedHash \union {Root}] /\ N \in Nat
    BY FS_CardinalityType DEF PopularityAssumption
  <1> PICK rank \in [RankedHash -> 1 .. N] :
              \A h \in RankedHash : pre[h] # Root => rank[pre[h]] < rank[h]
    BY DEF PopularityAssumption
  <1> HIDE DEF N
  <1> DEFINE Next(f, h) == IF h \notin described \/ pre[h] = Root THEN 0 ELSE f[pre[h]] + 1
             UpTo(f, n) == \A h \in RankedHash : rank[h] <= n => f[h] = Next(f, h)
             T == { n \in Nat : \E f \in [RankedHash -> Nat] : UpTo(f, n) }
  <1>1. 0 \in T
    <2>1. UpTo([h \in RankedHash |-> 0], 0)
      OBVIOUS
    <2> HIDE DEF UpTo
    <2> QED BY <2>1
  <1>2. ASSUME NEW n \in T PROVE n + 1 \in T
    <2>1. PICK f \in [RankedHash -> Nat] : UpTo(f, n)
      OBVIOUS
    <2> PICK g : g = [h \in RankedHash |-> IF rank[h] = n + 1 THEN Next(f, h) ELSE f[h]]
      OBVIOUS
    <2>2. \A h \in RankedHash : Next(f, h) \in Nat
      BY <1>0, <2>1
    <2>3. g \in [RankedHash -> Nat]
      <3> HIDE DEF Next, T
      <3> QED BY <2>2
    <2>4. ASSUME NEW h \in RankedHash, rank[h] <= n + 1 PROVE g[h] = Next(g, h)
      <3>1. Next(g, h) = Next(f, h)
        <4>1. CASE h \notin described \/ pre[h] = Root
          BY <4>1
        <4>2. CASE ~(h \notin described \/ pre[h] = Root)
          <5>1. pre[h] \in RankedHash /\ rank[pre[h]] # n + 1
            BY <1>0, <2>4, <4>2
          <5>2. g[pre[h]] = f[pre[h]]
            BY <5>1
          <5> QED BY <4>2, <5>2
        <4> QED BY <4>1, <4>2
      <3>2. g[h] = IF rank[h] = n + 1 THEN Next(f, h) ELSE f[h]
        OBVIOUS
      <3>3. rank[h] # n + 1 => f[h] = Next(f, h)
        BY <2>1, <2>4
      <3> HIDE DEF Next
      <3> QED BY <3>1, <3>2, <3>3
    <2>5. UpTo(g, n + 1)
      <3> HIDE DEF Next
      <3> QED BY <2>4
    <2> HIDE DEF UpTo
    <2> QED BY <2>3, <2>5
  <1>3. N \in T
    <2>1. T \in SUBSET Nat
      OBVIOUS
    <2> HIDE DEF T
    <2>2. T = Nat
      BY <1>1, <1>2, <2>1, NumbersFrom0
    <2> QED BY <1>0, <2>2
  <1>4. PICK f \in [RankedHash -> Nat] : UpTo(f, N)
    BY <1>3
  <1>5. \A h \in RankedHash : rank[h] <= N
    OBVIOUS
  <1> QED BY <1>4, <1>5

LEMMA DepthCounts ==
    ASSUME PopularityAssumption, pre \in Predecessors, NEW d,
           \A h \in RankedHash : d[h] = IF h \notin described \/ pre[h] = Root THEN 0
                                        ELSE d[pre[h]] + 1
    PROVE  \A h \in RankedHash : d[h] \in Nat
  <1> DEFINE N == Cardinality(RankedHash)
  <1>0. pre \in [RankedHash -> RankedHash \union {Root}] /\ N \in Nat
    BY FS_CardinalityType DEF PopularityAssumption
  <1> PICK rank \in [RankedHash -> 1 .. N] :
              \A h \in RankedHash : pre[h] # Root => rank[pre[h]] < rank[h]
    BY DEF PopularityAssumption
  <1> HIDE DEF N
  <1> DEFINE T == { n \in Nat : \A h \in RankedHash : rank[h] <= n => d[h] \in Nat }
  <1>1. 0 \in T
    OBVIOUS
  <1>2. ASSUME NEW n \in T PROVE n + 1 \in T
    <2>1. ASSUME NEW h \in RankedHash, rank[h] <= n + 1 PROVE d[h] \in Nat
      <3>1. CASE h \notin described \/ pre[h] = Root
        BY <3>1
      <3>2. CASE ~(h \notin described \/ pre[h] = Root)
        <4>1. pre[h] \in RankedHash /\ rank[pre[h]] <= n
          BY <1>0, <2>1, <3>2
        <4>2. d[pre[h]] \in Nat
          BY <4>1
        <4> QED BY <3>2, <4>2
      <3> QED BY <3>1, <3>2
    <2> QED BY <2>1
  <1>3. N \in T
    <2>1. T \in SUBSET Nat
      OBVIOUS
    <2> HIDE DEF T
    <2>2. T = Nat
      BY <1>1, <1>2, <2>1, NumbersFrom0
    <2> QED BY <1>0, <2>2
  <1> QED BY <1>3

LEMMA DepthIs ==
    ASSUME PopularityAssumption, pre \in Predecessors
    PROVE  \A h \in RankedHash :
              /\ compute_chain_depth[h] \in Nat
              /\ compute_chain_depth[h] = IF h \notin described \/ pre[h] = Root THEN 0
                                          ELSE compute_chain_depth[pre[h]] + 1
  <1> DEFINE Depth(f) == f = [h \in RankedHash |->
                                IF h \notin described \/ pre[h] = Root THEN 0 ELSE f[pre[h]] + 1]
             d == CHOOSE f : Depth(f)
  <1>2. PICK f \in [RankedHash -> Nat] :
              \A h \in RankedHash :
                 f[h] = IF h \notin described \/ pre[h] = Root THEN 0 ELSE f[pre[h]] + 1
    BY DepthExists
  <1>3. Depth(f)
    BY <1>2
  <1>4. Depth(d)
    BY <1>3
  <1>5. compute_chain_depth = d
    BY DEF compute_chain_depth
  <1> HIDE DEF d
  <1>6. \A h \in RankedHash :
           d[h] = IF h \notin described \/ pre[h] = Root THEN 0 ELSE d[pre[h]] + 1
    BY <1>4
  <1>7. \A h \in RankedHash : d[h] \in Nat
    <2> HIDE DEF Depth
    <2> QED BY <1>6, DepthCounts
  <1> QED BY <1>5, <1>6, <1>7

-----------------------------------------------------------------------------
(* The order of the heap: a weak order.                                    *)

LEMMA BeatsOrders ==
    ASSUME PopularityAssumption, pre \in Predecessors, count \in [RankedHash -> Nat],
           NEW f \in RankedHash, NEW g \in RankedHash, NEW h \in RankedHash
    PROVE  /\ Beats(f, g) => ~Beats(g, f)
           /\ Beats(f, g) /\ Beats(g, h) => Beats(f, h)
           /\ ~Beats(f, g) /\ ~Beats(g, h) => ~Beats(f, h)
  <1>1. /\ compute_chain_depth[f] \in Nat /\ compute_chain_depth[g] \in Nat
        /\ compute_chain_depth[h] \in Nat
        /\ count[f] \in Nat /\ count[g] \in Nat /\ count[h] \in Nat
    BY DepthIs
  <1> QED BY <1>1 DEF Beats

LEMMA SameOrder ==
    ASSUME UNCHANGED rankTables
    PROVE  /\ Eligible' = Eligible
           /\ \A g, h : Beats(g, h)' <=> Beats(g, h)
           /\ \A h : Sources(h)' = Sources(h) /\ (Transferable(h)' <=> Transferable(h))
           /\ \A h : Target(h)' = Target(h)
  <1>1. count' = count /\ pre' = pre /\ described' = described /\ placed' = placed
    BY DEF rankTables
  <1>2. compute_chain_depth' = compute_chain_depth
    BY <1>1 DEF compute_chain_depth
  <1>3. Eligible' = Eligible
    BY <1>1 DEF Eligible, Popular, Wanted
  <1>4. \A h : Sources(h)' = Sources(h) /\ (Transferable(h)' <=> Transferable(h))
    BY <1>1 DEF Sources, Transferable
  <1>5. \A h : Target(h)' = Target(h)
    BY <1>1 DEF Target
  <1> QED BY <1>1, <1>2, <1>3, <1>4, <1>5 DEF Beats

-----------------------------------------------------------------------------
(* The pass: of the eligible blocks it has seen, the heap holds as many as *)
(* it may, and none that another beats.                                    *)

TablesTyped ==
    /\ count \in [RankedHash -> Nat] /\ pre \in Predecessors /\ described \subseteq RankedHash
    /\ unseen \subseteq RankedHash
    /\ stage \in {"pass", "lookup", "done"}

Seen == Eligible \ unseen

HeapIsBest ==
    /\ heap \subseteq Seen
    /\ Cardinality(heap) <= K
    /\ Cardinality(heap) < K => heap = Seen
    /\ \A h \in heap, g \in Seen \ heap : ~Beats(g, h)

ResultIsSorted ==
    /\ stage = "pass" => result = <<>>
    /\ stage # "pass" =>
        /\ unseen = {}
        /\ result \in [1 .. Cardinality(heap) -> heap]
        /\ \A h \in heap : \E i \in 1 .. Cardinality(heap) : result[i] = h
        /\ \A i, j \in 1 .. Cardinality(heap) : i # j => result[i] # result[j]
        /\ \A i, j \in 1 .. Cardinality(heap) : i < j => ~Beats(result[j], result[i])

(* What is pulled, in the order of the answer.                             *)
PullsFollow(first, kept) ==
    /\ DOMAIN pulls = DOMAIN kept
    /\ \A h \in RankedHash : first[h] \in Sources(h) \/ Sources(h) = {}
    /\ \A i \in DOMAIN kept :
          /\ kept[i] \in Places(first)
          /\ pulls[i] = PullFrom(result[kept[i]], first[result[kept[i]]])
    /\ \A p \in Places(first) : \E i \in DOMAIN kept : kept[i] = p
    /\ \A i, j \in DOMAIN kept : i < j => kept[i] < kept[j]

PullsInOrder ==
    /\ stage # "done" => pulls = <<>>
    /\ stage = "done" =>
          \E first \in [RankedHash -> Remote], n \in Nat :
             \E kept \in [1 .. n -> Nat] : PullsFollow(first, kept)

PInv == TablesTyped /\ HeapIsBest /\ ResultIsSorted /\ PullsInOrder

LEMMA SetInRow ==
    ASSUME NEW S, IsFiniteSet(S), NEW f \in SetToSeqs(S)
    PROVE  /\ f \in [1 .. Cardinality(S) -> S] /\ Cardinality(S) \in Nat
           /\ \A i, j \in 1 .. Cardinality(S) : i # j => f[i] # f[j]
           /\ \A x \in S : \E i \in 1 .. Cardinality(S) : f[i] = x
  <1> DEFINE n == Cardinality(S)
  <1>1. n \in Nat
    BY FS_CardinalityType
  <1>2. f \in [1 .. n -> S] /\ \A i, j \in 1 .. n : i # j => f[i] # f[j]
    BY DEF SetToSeqs
  <1>3. f \in Injection(1 .. n, S)
    BY <1>2 DEF Injection, IsInjective
  <1>4. IsFiniteSet(1 .. n) /\ Cardinality(1 .. n) = n
    BY <1>1, FS_Interval
  <1>5. f \in Surjection(1 .. n, S)
    <2>1. Cardinality(1 .. n) = Cardinality(S)
      BY <1>4
    <2> HIDE DEF n
    <2> QED BY <1>3, <1>4, <2>1, FS_Injection
  <1>6. \A x \in S : \E i \in 1 .. n : f[i] = x
    BY <1>5 DEF Surjection
  <1> QED BY <1>1, <1>2, <1>6

LEMMA PInit ==
    ASSUME PopularityAssumption, PopularityInit
    PROVE  PInv
  <1>1. TablesTyped
    BY DEF PopularityInit, PopularityAssumption, TablesTyped
  <1>2. Seen = {} /\ heap = {}
    BY DEF PopularityInit, Seen, Eligible
  <1>3. HeapIsBest
    BY <1>2, FS_EmptySet DEF HeapIsBest, PopularityAssumption
  <1> QED BY <1>1, <1>3 DEF PInv, PopularityInit, ResultIsSorted, PullsInOrder

LEMMA HeapFacts ==
    ASSUME PopularityAssumption, HeapIsBest
    PROVE  /\ heap \subseteq Eligible /\ heap \subseteq RankedHash /\ IsFiniteSet(heap)
           /\ Cardinality(heap) \in Nat /\ K \in Nat
           /\ Eligible \subseteq RankedHash /\ IsFiniteSet(Eligible)
           /\ Cardinality(Eligible) \in Nat
           /\ Cardinality(heap) <= Cardinality(Eligible)
  <1>1. heap \subseteq Eligible /\ Eligible \subseteq RankedHash
    BY DEF HeapIsBest, Seen, Eligible
  <1>2. IsFiniteSet(Eligible) /\ Cardinality(Eligible) \in Nat
    BY <1>1, FS_Subset, FS_CardinalityType DEF PopularityAssumption
  <1>3. IsFiniteSet(heap) /\ Cardinality(heap) <= Cardinality(Eligible)
    BY <1>1, <1>2, FS_Subset
  <1> QED BY <1>1, <1>2, <1>3, FS_CardinalityType DEF PopularityAssumption

LEMMA VisitBest ==
    ASSUME PopularityAssumption, PInv, NEW h \in RankedHash, VisitKey(h)
    PROVE  PInv'
  <1>1. /\ stage = "pass" /\ h \in unseen /\ unseen' = unseen \ {h}
        /\ UNCHANGED <<count, pre, described, placed, result, pulls, stage>>
    BY DEF VisitKey, rankTables
  <1>2. TablesTyped /\ HeapIsBest /\ K \in Nat
    BY DEF PInv, PopularityAssumption
  <1>3. TablesTyped'
    BY <1>1, <1>2 DEF TablesTyped
  <1>4. /\ Eligible' = Eligible /\ \A g, f : Beats(g, f)' <=> Beats(g, f)
    BY <1>1, SameOrder DEF rankTables
  <1>5. h \notin Seen /\ h \notin heap
        /\ Seen' = IF h \in Eligible THEN Seen \union {h} ELSE Seen
    BY <1>1, <1>2, <1>4 DEF Seen, HeapIsBest
  <1>6. /\ heap \subseteq RankedHash /\ Seen \subseteq RankedHash /\ IsFiniteSet(heap)
        /\ Cardinality(heap) \in Nat
    BY <1>2, HeapFacts DEF Seen
  <1>7. /\ heap \subseteq Seen /\ Cardinality(heap) <= K
        /\ Cardinality(heap) < K => heap = Seen
        /\ \A x \in heap, g \in Seen \ heap : ~Beats(g, x)
    BY <1>2 DEF HeapIsBest
  <1>8. \A f, g, x \in RankedHash : /\ Beats(f, g) => ~Beats(g, f)
                                    /\ Beats(f, g) /\ Beats(g, x) => Beats(f, x)
                                    /\ ~Beats(f, g) /\ ~Beats(g, x) => ~Beats(f, x)
    BY <1>2, BeatsOrders DEF TablesTyped
  <1>9. /\ heap' \subseteq Seen' /\ Cardinality(heap') <= K
        /\ Cardinality(heap') < K => heap' = Seen'
        /\ \A x \in heap', g \in Seen' \ heap' : ~Beats(g, x)
    <2>1. CASE h \notin Eligible /\ heap' = heap
      BY <1>5, <1>7, <2>1
    <2>2. CASE K = 0 /\ heap' = heap
      <3>1. heap = {}
        BY <1>6, <1>7, <2>2, FS_EmptySet
      <3> QED BY <1>2, <1>5, <1>7, <2>2, <3>1, FS_EmptySet
    <2>3. CASE h \in Eligible /\ Cardinality(heap) < K /\ heap' = heap \union {h}
      <3>1. Cardinality(heap') = Cardinality(heap) + 1
        BY <1>5, <1>6, <2>3, FS_AddElement
      <3> QED BY <1>2, <1>5, <1>6, <1>7, <2>3, <3>1
    <2>4. CASE h \in Eligible /\ K # 0 /\ Cardinality(heap) >= K
      <3> PICK least \in heap :
                /\ Least(least)
                /\ heap' = IF Beats(h, least) THEN (heap \ {least}) \union {h} ELSE heap
        BY <2>4, <1>6, <1>2 DEF VisitKey
      <3>1. \A g \in heap : ~Beats(least, g)
        BY DEF Least
      <3>2. Cardinality(heap) = K /\ Seen' = Seen \union {h}
        BY <1>2, <1>5, <1>6, <1>7, <2>4
      <3>3. CASE Beats(h, least)
        <4>1. heap' = (heap \ {least}) \union {h}
          BY <3>3
        <4>2. Cardinality(heap') = K
          <5>1. IsFiniteSet(heap \ {least}) /\ Cardinality(heap \ {least}) = K - 1
            BY <1>6, <3>2, FS_RemoveElement
          <5>2. h \notin heap \ {least}
            BY <1>5
          <5>3. Cardinality((heap \ {least}) \union {h}) = (K - 1) + 1
            BY <5>1, <5>2, FS_AddElement
          <5>4. (K - 1) + 1 = K
            BY <1>2
          <5> QED BY <4>1, <5>3, <5>4, Zenon
        <4>3. ASSUME NEW x \in heap', NEW g \in Seen' \ heap' PROVE ~Beats(g, x)
          <5>1. x \in RankedHash /\ g \in RankedHash /\ least \in RankedHash /\ least \in Seen
            BY <1>6, <1>7, <3>2, <4>1
          <5>2. CASE g = least /\ x = h
            BY <1>8, <3>3, <5>1, <5>2
          <5>3. CASE g = least /\ x # h
            BY <3>1, <4>1, <5>3
          <5>4. CASE g # least /\ x # h
            <6>1. x \in heap /\ g \in Seen \ heap
              BY <3>2, <4>1, <5>4
            <6> QED BY <1>7, <6>1
          <5>5. CASE g # least /\ x = h
            <6>1. g \in Seen \ heap
              BY <3>2, <4>1, <5>5
            <6>2. ~Beats(g, least)
              BY <1>7, <6>1
            <6> QED BY <1>8, <3>3, <5>1, <5>5, <6>2
          <5> QED BY <5>2, <5>3, <5>4, <5>5
        <4> QED BY <1>2, <1>7, <3>2, <4>1, <4>2, <4>3
      <3>4. CASE ~Beats(h, least)
        <4>1. heap' = heap
          BY <3>4
        <4>2. ASSUME NEW x \in heap', NEW g \in Seen' \ heap' PROVE ~Beats(g, x)
          <5>1. g # h => ~Beats(g, x)
            BY <1>7, <3>2, <4>1
          <5>2. ~Beats(h, x)
            BY <1>6, <1>8, <3>1, <3>4, <4>1
          <5> QED BY <5>1, <5>2
        <4> QED BY <1>2, <1>7, <3>2, <4>1, <4>2
      <3> QED BY <3>3, <3>4
    <2> QED BY <2>1, <2>2, <2>3, <2>4 DEF VisitKey
  <1>10. HeapIsBest'
    BY <1>4, <1>9 DEF HeapIsBest
  <1>11. ResultIsSorted' /\ PullsInOrder'
    BY <1>1 DEF PInv, ResultIsSorted, PullsInOrder
  <1> QED BY <1>3, <1>10, <1>11 DEF PInv

LEMMA SortSorts ==
    ASSUME PopularityAssumption, PInv, SortHeap
    PROVE  PInv'
  <1> PICK order \in SetToSeqs(heap) : Sort(order)
    BY DEF SortHeap
  <1>1. /\ stage = "pass" /\ unseen = {} /\ result' = order /\ stage' = "lookup"
        /\ \A i, j \in DOMAIN order : i < j => ~Beats(order[j], order[i])
        /\ UNCHANGED <<count, pre, described, placed, unseen, heap, pulls>>
    BY DEF Sort, rankTables
  <1>2. TablesTyped'
    BY <1>1 DEF PInv, TablesTyped
  <1>3. /\ Eligible' = Eligible /\ \A g, f : Beats(g, f)' <=> Beats(g, f)
    BY <1>1, SameOrder DEF rankTables
  <1>4. HeapIsBest'
    BY <1>1, <1>3 DEF PInv, HeapIsBest, Seen
  <1>5. IsFiniteSet(heap)
    BY HeapFacts DEF PInv
  <1>6. /\ order \in [1 .. Cardinality(heap) -> heap]
        /\ \A i, j \in 1 .. Cardinality(heap) : i # j => order[i] # order[j]
        /\ \A x \in heap : \E i \in 1 .. Cardinality(heap) : order[i] = x
    BY <1>5, SetInRow
  <1>7. ResultIsSorted'
    BY <1>1, <1>3, <1>6 DEF ResultIsSorted
  <1>8. PullsInOrder'
    BY <1>1 DEF PInv, PullsInOrder
  <1> QED BY <1>2, <1>4, <1>7, <1>8 DEF PInv

LEMMA PlacesFinite ==
    ASSUME PopularityAssumption, PInv, stage # "pass", NEW first
    PROVE  IsFiniteSet(Places(first)) /\ Places(first) \subseteq Nat
  <1>1. Cardinality(heap) \in Nat
    BY HeapFacts DEF PInv
  <1>2. Places(first) \subseteq 1 .. Cardinality(heap)
    BY DEF PInv, ResultIsSorted, Places
  <1>3. IsFiniteSet(1 .. Cardinality(heap))
    BY <1>1, FS_Interval
  <1> QED BY <1>1, <1>2, <1>3, FS_Subset

LEMMA LookupFollows ==
    ASSUME PopularityAssumption, PInv, LookupAll
    PROVE  PInv'
  <1> PICK first \in [RankedHash -> Remote] :
              \E kept \in SetToSeqs(Places(first)) : Lookup(first, kept)
    BY DEF LookupAll
  <1> PICK kept \in SetToSeqs(Places(first)) : Lookup(first, kept)
    OBVIOUS
  <1>1. /\ stage = "lookup" /\ stage' = "done"
        /\ \A h \in RankedHash : first[h] \in Sources(h) \/ Sources(h) = {}
        /\ \A i, j \in DOMAIN kept : i < j => kept[i] < kept[j]
        /\ pulls' = [i \in DOMAIN kept |-> PullFrom(result[kept[i]], first[result[kept[i]]])]
        /\ UNCHANGED rankTables /\ UNCHANGED <<count, pre, described, placed, unseen, heap, result>>
    BY DEF Lookup, rankTables
  <1>2. TablesTyped'
    BY <1>1 DEF PInv, TablesTyped
  <1>3. /\ Eligible' = Eligible /\ \A g, f : Beats(g, f)' <=> Beats(g, f)
        /\ \A h : Sources(h)' = Sources(h) /\ (Transferable(h)' <=> Transferable(h))
        /\ \A h : Target(h)' = Target(h)
    BY <1>1, SameOrder
  <1>4. HeapIsBest'
    BY <1>1, <1>3 DEF PInv, HeapIsBest, Seen
  <1>5. ResultIsSorted'
    BY <1>1, <1>3 DEF PInv, ResultIsSorted
  <1> DEFINE n == Cardinality(Places(first))
  <1>6. /\ kept \in [1 .. n -> Places(first)] /\ n \in Nat
        /\ \A x \in Places(first) : \E i \in 1 .. n : kept[i] = x
        /\ kept \in [1 .. n -> Nat]
    <2>1. IsFiniteSet(Places(first)) /\ Places(first) \subseteq Nat
      BY <1>1, PlacesFinite
    <2> QED BY <2>1, SetInRow
  <1>7. Places(first)' = Places(first)
    BY <1>1, <1>3 DEF Places
  <1> HIDE DEF n
  <1>9. PullsFollow(first, kept)'
    <2>1. DOMAIN kept = 1 .. n /\ DOMAIN pulls' = 1 .. n
      BY <1>1, <1>6
    <2>2. \A h \in RankedHash : first[h] \in Sources(h)' \/ Sources(h)' = {}
      BY <1>1, <1>3
    <2>3. ASSUME NEW i \in 1 .. n
          PROVE  /\ kept[i] \in Places(first)'
                 /\ pulls'[i] = PullFrom(result[kept[i]], first[result[kept[i]]])'
      <3>1. kept[i] \in Places(first)'
        BY <1>6, <1>7
      <3>2. pulls'[i] = PullFrom(result[kept[i]], first[result[kept[i]]])
        BY <1>1, <2>1
      <3>3. PullFrom(result[kept[i]], first[result[kept[i]]])'
               = PullFrom(result[kept[i]], first[result[kept[i]]])
        BY <1>1 DEF PullFrom, Target
      <3> QED BY <3>1, <3>2, <3>3
    <2>4. \A p \in Places(first)' : \E i \in 1 .. n : kept[i] = p
      BY <1>6, <1>7
    <2> QED BY <1>1, <2>1, <2>2, <2>3, <2>4 DEF PullsFollow
  <1>10. PullsInOrder'
    BY <1>1, <1>6, <1>9 DEF PullsInOrder
  <1> QED BY <1>2, <1>4, <1>5, <1>10 DEF PInv

LEMMA PNext ==
    ASSUME PopularityAssumption, PInv, [PopularityNext]_popularityVars
    PROVE  PInv'
  <1>1. CASE UNCHANGED popularityVars
    <2>1. /\ UNCHANGED <<count, pre, described, placed, unseen, heap, result, pulls, stage>>
          /\ UNCHANGED rankTables
      BY <1>1 DEF popularityVars, rankTables
    <2>2. /\ Eligible' = Eligible /\ \A g, f : Beats(g, f)' <=> Beats(g, f)
          /\ \A h : Sources(h)' = Sources(h) /\ (Transferable(h)' <=> Transferable(h))
      BY <2>1, SameOrder
    <2>3. TablesTyped'
      BY <2>1 DEF PInv, TablesTyped
    <2>4. HeapIsBest' /\ ResultIsSorted'
      BY <2>1, <2>2 DEF PInv, HeapIsBest, Seen, ResultIsSorted
    <2>5. ASSUME NEW first, NEW kept, PullsFollow(first, kept) PROVE PullsFollow(first, kept)'
      <3>1. Places(first)' = Places(first)
        BY <2>1, <2>2 DEF Places
      <3>2. \A i \in DOMAIN kept : PullFrom(result[kept[i]], first[result[kept[i]]])'
               = PullFrom(result[kept[i]], first[result[kept[i]]])
        BY <2>1 DEF PullFrom, Target
      <3> QED BY <2>1, <2>2, <2>5, <3>1, <3>2 DEF PullsFollow
    <2>6. PullsInOrder'
      <3>1. CASE stage # "done"
        BY <2>1, <3>1 DEF PInv, PullsInOrder
      <3>2. CASE stage = "done"
        <4> PICK first \in [RankedHash -> Remote], n \in Nat :
                  \E kept \in [1 .. n -> Nat] : PullsFollow(first, kept)
          BY <3>2 DEF PInv, PullsInOrder
        <4> PICK kept \in [1 .. n -> Nat] : PullsFollow(first, kept)
          OBVIOUS
        <4>1. PullsFollow(first, kept)'
          BY <2>5
        <4> QED BY <2>1, <3>2, <4>1 DEF PullsInOrder
      <3> QED BY <3>1, <3>2
    <2> QED BY <2>3, <2>4, <2>6 DEF PInv
  <1>2. CASE \E h \in RankedHash : VisitKey(h)
    BY <1>2, VisitBest
  <1>3. CASE SortHeap
    BY <1>3, SortSorts
  <1>4. CASE LookupAll
    BY <1>4, LookupFollows
  <1> QED BY <1>1, <1>2, <1>3, <1>4 DEF PopularityNext

LEMMA PInvAlways ==
    ASSUME PopularityAssumption
    PROVE  PopularitySpec => []PInv
  <1>1. PopularityInit => PInv
    BY PInit
  <1>2. PInv /\ [PopularityNext]_popularityVars => PInv'
    BY PNext
  <1> QED BY <1>1, <1>2, PTL DEF PopularitySpec

LEMMA ResultFacts ==
    ASSUME PopularityAssumption, PInv, stage # "pass"
    PROVE  /\ DOMAIN result = 1 .. Cardinality(heap) /\ Cardinality(heap) \in Nat
           /\ Len(result) = Cardinality(heap) /\ ToSet(result) = heap
           /\ Seen = Eligible /\ result \in Seq(heap)
  <1>1. Cardinality(heap) \in Nat
    BY HeapFacts DEF PInv
  <1>2. /\ result \in [1 .. Cardinality(heap) -> heap]
        /\ \A h \in heap : \E i \in 1 .. Cardinality(heap) : result[i] = h
        /\ unseen = {}
    BY DEF PInv, ResultIsSorted
  <1>3. ToSet(result) = heap
    BY <1>2 DEF ToSet
  <1>4. result \in Seq(heap)
    BY <1>1, <1>2, SeqDef
  <1>5. Len(result) = Cardinality(heap)
    BY <1>1, <1>2, <1>4, LenProperties
  <1> QED BY <1>1, <1>2, <1>3, <1>4, <1>5 DEF Seen

(* Whatever order the map gives its keys in, the bounded heap ends with as *)
(* many blocks as it may hold, and with none that another wanted block     *)
(* beats.                                                                  *)
THEOREM HeapKeepsTheBest ==
    ASSUME PopularityAssumption
    PROVE  PopularitySpec => []BestAreChosen
  <1>1. ASSUME PInv, stage # "pass"
        PROVE  /\ Len(result) = Min({K, Cardinality(Eligible)})
               /\ \A i \in DOMAIN result : \A g \in Eligible \ ToSet(result) : ~Beats(g, result[i])
    <2>1. /\ DOMAIN result = 1 .. Cardinality(heap) /\ Len(result) = Cardinality(heap)
          /\ ToSet(result) = heap /\ Seen = Eligible
          /\ \A i \in 1 .. Cardinality(heap) : result[i] \in heap
      BY <1>1, ResultFacts DEF PInv, ResultIsSorted
    <2>2. /\ Cardinality(heap) \in Nat /\ K \in Nat /\ Cardinality(Eligible) \in Nat
          /\ Cardinality(heap) <= Cardinality(Eligible)
      BY <1>1, HeapFacts DEF PInv
    <2>3. /\ Cardinality(heap) <= K
          /\ Cardinality(heap) < K => heap = Eligible
          /\ \A h \in heap, g \in Eligible \ heap : ~Beats(g, h)
      BY <1>1, <2>1 DEF PInv, HeapIsBest
    <2>4. ASSUME NEW a \in Nat, NEW b \in Nat, NEW c \in {a, b}, c <= a, c <= b
          PROVE  c = Min({a, b})
      BY <2>4 DEF Min
    <2>5. Cardinality(heap) \in {K, Cardinality(Eligible)}
      BY <2>2, <2>3
    <2>6. Cardinality(heap) = Min({K, Cardinality(Eligible)})
      BY <2>2, <2>3, <2>4, <2>5
    <2> QED BY <2>1, <2>3, <2>6
  <1>2. PInv => BestAreChosen
    BY <1>1 DEF BestAreChosen
  <1> QED BY <1>2, PInvAlways, PTL

(* A block is not pulled before its predecessor when that is wanted, at    *)
(* least as popular, known and to be had.                                  *)
THEOREM ChainsArePulledInOrder ==
    ASSUME PopularityAssumption
    PROVE  PopularitySpec => []PredecessorPulledFirst
  <1>1. ASSUME PInv, NEW i \in DOMAIN pulls,
               pre[pulls[i].hash] # Root, pre[pulls[i].hash] \in Eligible,
               count[pre[pulls[i].hash]] >= count[pulls[i].hash],
               pre[pulls[i].hash] \in described,
               Sources(pre[pulls[i].hash]) \subseteq ReachableRemote,
               Sources(pre[pulls[i].hash]) # {}
        PROVE  \E j \in 1 .. i - 1 : pulls[j].hash = pre[pulls[i].hash]
    <2> DEFINE h == pulls[i].hash  p == pre[h]
    <2>1. stage = "done"
      BY <1>1 DEF PInv, PullsInOrder
    <2> PICK first \in [RankedHash -> Remote], n \in Nat :
              \E kept \in [1 .. n -> Nat] : PullsFollow(first, kept)
      BY <1>1, <2>1 DEF PInv, PullsInOrder
    <2> PICK kept \in [1 .. n -> Nat] : PullsFollow(first, kept)
      OBVIOUS
    <2>2. /\ i \in 1 .. n /\ DOMAIN pulls = 1 .. n
          /\ \A k \in 1 .. n : kept[k] \in Places(first) /\ pulls[k].hash = result[kept[k]]
          /\ \A a \in Places(first) : \E k \in 1 .. n : kept[k] = a
          /\ \A k, l \in 1 .. n : k < l => kept[k] < kept[l]
          /\ \A x \in RankedHash : first[x] \in Sources(x) \/ Sources(x) = {}
      <3>1. DOMAIN kept = 1 .. n
        OBVIOUS
      <3>2. \A x, y : PullFrom(x, y).hash = x
        BY DEF PullFrom
      <3>3. ASSUME NEW k \in 1 .. n
            PROVE  kept[k] \in Places(first) /\ pulls[k].hash = result[kept[k]]
        <4>1. /\ kept[k] \in Places(first)
              /\ pulls[k] = PullFrom(result[kept[k]], first[result[kept[k]]])
          BY <3>1 DEF PullsFollow
        <4>2. PullFrom(result[kept[k]], first[result[kept[k]]]).hash = result[kept[k]]
          BY <3>2
        <4> QED BY <4>1, <4>2
      <3>4. i \in 1 .. n /\ DOMAIN pulls = 1 .. n
        BY <1>1, <3>1 DEF PullsFollow
      <3> QED BY <3>1, <3>3, <3>4 DEF PullsFollow
    <2>3. /\ kept[i] \in DOMAIN result /\ h = result[kept[i]] /\ Transferable(h)
      BY <2>2 DEF Places
    <2>4. /\ DOMAIN result = 1 .. Cardinality(heap) /\ Cardinality(heap) \in Nat
          /\ ToSet(result) = heap /\ Seen = Eligible
      BY <1>1, <2>1, ResultFacts
    <2>5. h \in heap /\ h \in RankedHash /\ h \in described /\ p \in RankedHash
      BY <1>1, <2>3, <2>4 DEF ToSet, PInv, HeapIsBest, Transferable, Eligible, Seen
    <2>6. Beats(p, h) /\ p # h
      <3>1. compute_chain_depth[h] = compute_chain_depth[p] + 1
            /\ compute_chain_depth[h] \in Nat /\ compute_chain_depth[p] \in Nat
        BY <1>1, <2>5, DepthIs DEF PInv, TablesTyped
      <3>2. count[h] \in Nat /\ count[p] \in Nat
        BY <1>1, <2>5 DEF PInv, TablesTyped
      <3> HIDE DEF h, p
      <3>3. count[p] >= count[h]
        BY <1>1 DEF h, p
      <3> QED BY <3>1, <3>2, <3>3 DEF Beats
    <2>7. p \in heap
      BY <1>1, <2>4, <2>5, <2>6 DEF PInv, HeapIsBest
    <2>8. PICK a \in DOMAIN result : result[a] = p
      BY <2>4, <2>7 DEF ToSet
    <2>9. a < kept[i]
      <3>1. \A x, y \in DOMAIN result : x < y => ~Beats(result[y], result[x])
        BY <1>1, <2>1, <2>4 DEF PInv, ResultIsSorted
      <3> HIDE DEF h, p
      <3> QED BY <2>3, <2>4, <2>6, <2>8, <3>1
    <2>10. a \in Places(first)
      <3>1. Transferable(p) /\ first[p] \in ReachableRemote
        BY <1>1, <2>2, <2>5 DEF Transferable
      <3> QED BY <2>8, <3>1 DEF Places
    <2>11. PICK j \in 1 .. n : kept[j] = a
      BY <2>2, <2>10
    <2>12. j < i
      <3>1. kept[i] \in Nat /\ kept[j] \in Nat
        BY <2>2
      <3>2. i \in Nat /\ j \in Nat /\ (i < j => kept[i] < kept[j])
        BY <2>2
      <3>3. kept[j] < kept[i]
        BY <2>9, <2>11
      <3>4. ~(i < j) /\ i # j
        BY <3>1, <3>2, <3>3
      <3> QED BY <3>2, <3>4
    <2>13. pulls[j].hash = p
      BY <2>2, <2>8, <2>11
    <2> HIDE DEF p
    <2>14. j \in 1 .. i - 1
      BY <2>2, <2>12
    <2> QED BY <2>13, <2>14 DEF p
  <1>2. PInv => PredecessorPulledFirst
    BY <1>1 DEF PredecessorPulledFirst
  <1> QED BY <1>2, PInvAlways, PTL

-----------------------------------------------------------------------------
(* What is pulled goes to a local server that lacks it.                    *)

LEMMA TargetLacks ==
    ASSUME PopularityAssumption, NEW h \in Eligible, h \in described
    PROVE  Target(h) \in LocalServers /\ Target(h) \notin placed[h]
  <1> DEFINE lacking == { i \in DOMAIN LocalList : LocalList[i] \notin placed[h] }
  <1>1. PICK s \in LocalServers : s \notin placed[h]
    BY DEF Eligible, Wanted
  <1>2. DOMAIN LocalList \subseteq Nat /\ \A i \in DOMAIN LocalList : LocalList[i] \in LocalServers
    BY LenProperties DEF PopularityAssumption, LocalServers, ToSet
  <1>3. lacking # {} /\ lacking \subseteq Nat
    BY <1>1, <1>2 DEF LocalServers, ToSet
  <1>4. \E i \in lacking : \A k \in lacking : i <= k
    <2> DEFINE Less == {ss \in Nat \X Nat : ss[1] < ss[2]}
    <2>1. IsWellFoundedOn(Less, Nat)
      BY NatLessThanWellFounded DEF OpToRel
    <2>2. \A m, n \in Nat : n < m => <<n, m>> \in Less
      OBVIOUS
    <2> HIDE DEF lacking, Less
    <2>3. PICK i \in lacking : \A k \in lacking : <<k, i>> \notin Less
      BY <1>3, <2>1, WFMin
    <2>4. ASSUME NEW k \in lacking PROVE i <= k
      <3>1. i \in Nat /\ k \in Nat /\ ~(k < i)
        BY <1>3, <2>2, <2>3
      <3> QED BY <3>1
    <2> QED BY <2>4
  <1>5. (CHOOSE i \in lacking : \A k \in lacking : i <= k) \in lacking
    <2> HIDE DEF lacking
    <2> QED BY <1>4
  <1> QED BY <1>2, <1>5 DEF Target

(* The tables, the heap and the answers are of their types; what is pulled *)
(* is pulled from a server of another domain to one of this domain.        *)
THEOREM PopularityTypesCorrect ==
    ASSUME PopularityAssumption
    PROVE  PopularitySpec => []PopularityTypeOK
  <1>1. ASSUME PInv PROVE PopularityTypeOK
    <2>1. /\ count \in [RankedHash -> Nat] /\ described \subseteq RankedHash
          /\ pre \in [RankedHash -> RankedHash \union {Root}]
          /\ unseen \subseteq RankedHash /\ stage \in {"pass", "lookup", "done"}
      BY <1>1 DEF PInv, TablesTyped, PopularityAssumption
    <2>2. heap \subseteq RankedHash /\ heap \subseteq Eligible
      BY <1>1, HeapFacts DEF PInv
    <2>3. result \in Seq(RankedHash)
      <3>1. CASE stage = "pass"
        BY <1>1, <3>1 DEF PInv, ResultIsSorted
      <3>2. CASE stage # "pass"
        <4>1. result \in Seq(heap)
          BY <1>1, <3>2, ResultFacts
        <4> QED BY <2>2, <4>1, SeqMonotonic
      <3> QED BY <3>1, <3>2
    <2>4. ASSUME NEW i \in DOMAIN pulls
          PROVE  pulls[i] \in [hash : RankedHash, source : Remote, target : LocalServers]
      <3>1. stage = "done"
        BY <1>1, <2>4 DEF PInv, PullsInOrder
      <3> PICK first \in [RankedHash -> Remote], n \in Nat :
                \E kept \in [1 .. n -> Nat] : PullsFollow(first, kept)
        BY <1>1, <3>1 DEF PInv, PullsInOrder
      <3> PICK kept \in [1 .. n -> Nat] : PullsFollow(first, kept)
        OBVIOUS
      <3> PICK h : h = result[kept[i]]
        OBVIOUS
      <3>2. kept[i] \in Places(first) /\ pulls[i] = PullFrom(h, first[h])
        BY <2>4 DEF PullsFollow
      <3>3. h \in heap /\ h \in described
        BY <1>1, <3>1, <3>2, ResultFacts DEF Places, ToSet, Transferable
      <3>4. Target(h) \in LocalServers
        BY <2>2, <3>3, TargetLacks
      <3>5. h \in RankedHash /\ first[h] \in Remote
        BY <2>2, <3>3
      <3> QED BY <3>2, <3>4, <3>5 DEF PullFrom
    <2> QED BY <2>1, <2>2, <2>3, <2>4 DEF PopularityTypeOK
  <1> QED BY <1>1, PInvAlways, PTL
=============================================================================
