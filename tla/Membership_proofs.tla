--------------------------- MODULE Membership_proofs ---------------------------
(***************************************************************************)
(* Theorems about Membership, for any metadata servers, data servers and   *)
(* configuration files, any number of rounds and any number of failures.   *)
(***************************************************************************)
EXTENDS Membership, SequenceTheorems, TLAPS

-----------------------------------------------------------------------------
(* Lists of metadata servers.                                              *)

Distinct(entries) == IsInjective([i \in DOMAIN entries |-> entries[i].srv])

(* The same servers at the same places.                                    *)
SameServers(entries, others) ==
    /\ DOMAIN others = DOMAIN entries
    /\ \A i \in DOMAIN entries : others[i].srv = entries[i].srv

LEMMA EntryType == \A n \in Node : Entry(n) \in MetaServer
  BY DEF Entry, MetaServer, Layer

LEMMA ListType ==
    ASSUME NEW entries \in Seq(MetaServer)
    PROVE  /\ Len(entries) \in Nat /\ DOMAIN entries = 1 .. Len(entries)
           /\ \A i \in DOMAIN entries : entries[i] \in MetaServer /\ entries[i].srv \in Node
           /\ Servers(entries) \subseteq Node
  <1>1. Len(entries) \in Nat /\ DOMAIN entries = 1 .. Len(entries)
    BY LenProperties
  <1>2. \A i \in DOMAIN entries : entries[i] \in MetaServer
    BY <1>1, LenProperties
  <1>3. \A i \in DOMAIN entries : entries[i].srv \in Node
    BY <1>2 DEF MetaServer
  <1> QED BY <1>1, <1>2, <1>3 DEF Servers

LEMMA DistinctMeans ==
    ASSUME NEW entries
    PROVE  Distinct(entries) <=> \A i, j \in DOMAIN entries :
                                    entries[i].srv = entries[j].srv => i = j
  BY DEF Distinct, IsInjective

LEMMA PositionOf ==
    ASSUME NEW entries, NEW n \in Servers(entries)
    PROVE  Position(entries, n) \in DOMAIN entries /\ entries[Position(entries, n)].srv = n
  <1>1. \E i \in DOMAIN entries : entries[i].srv = n
    BY DEF Servers
  <1> QED BY <1>1 DEF Position

LEMMA SameServersMeans ==
    ASSUME NEW entries, NEW others, SameServers(entries, others)
    PROVE  /\ Servers(others) = Servers(entries)
           /\ Distinct(others) <=> Distinct(entries)
  <1>1. Servers(others) = Servers(entries)
    BY DEF SameServers, Servers
  <1>2. Distinct(others) <=> Distinct(entries)
    BY DistinctMeans DEF SameServers
  <1> QED BY <1>1, <1>2

(* A sequence with other entries at the same places.                       *)
LEMMA RewrittenType ==
    ASSUME NEW entries \in Seq(MetaServer), NEW others,
           others = [i \in DOMAIN entries |-> others[i]],
           \A i \in DOMAIN entries : others[i] \in MetaServer
    PROVE  others \in Seq(MetaServer)
  <1>1. Len(entries) \in Nat /\ DOMAIN entries = 1 .. Len(entries)
    BY LenProperties
  <1>2. others \in [1 .. Len(entries) -> MetaServer]
    BY <1>1
  <1> QED BY <1>1, <1>2

LEMMA UpdatedKeeps ==
    ASSUME NEW entries \in Seq(MetaServer), NEW news \in Seq(MetaServer)
    PROVE  /\ Updated(entries, news) \in Seq(MetaServer)
           /\ SameServers(entries, Updated(entries, news))
  <1> DEFINE others == Updated(entries, news)
  <1>1. ASSUME NEW i \in DOMAIN entries
        PROVE  others[i] \in MetaServer /\ others[i].srv = entries[i].srv
    <2>1. CASE entries[i].srv \in Servers(news)
      <3>1. others[i] = news[Position(news, entries[i].srv)]
        BY <2>1 DEF Updated
      <3> QED BY <2>1, <3>1, PositionOf, ListType
    <2>2. CASE entries[i].srv \notin Servers(news)
      BY <2>2, ListType DEF Updated
    <2> QED BY <2>1, <2>2
  <1>2. DOMAIN others = DOMAIN entries /\ others = [i \in DOMAIN entries |-> others[i]]
    BY DEF Updated
  <1>3. others \in Seq(MetaServer)
    <2> HIDE DEF others
    <2> QED BY <1>1, <1>2, RewrittenType
  <1> QED BY <1>1, <1>2, <1>3 DEF SameServers

LEMMA MarkedKeeps ==
    ASSUME NEW entries \in Seq(MetaServer), NEW idx \in DOMAIN entries, NEW layer \in {4, 5}
    PROVE  /\ [entries EXCEPT ![idx].layer = layer] \in Seq(MetaServer)
           /\ SameServers(entries, [entries EXCEPT ![idx].layer = layer])
  <1> DEFINE others == [entries EXCEPT ![idx].layer = layer]
  <1>1. /\ Len(entries) \in Nat /\ DOMAIN entries = 1 .. Len(entries)
        /\ entries \in [1 .. Len(entries) -> MetaServer]
    BY LenProperties
  <1>2. others \in [1 .. Len(entries) -> MetaServer]
    BY <1>1 DEF MetaServer, Layer
  <1>3. \A i \in DOMAIN entries : others[i].srv = entries[i].srv
    BY <1>1 DEF MetaServer
  <1>4. DOMAIN others = DOMAIN entries
    BY <1>1
  <1>5. others \in Seq(MetaServer)
    BY <1>1, <1>2
  <1> QED BY <1>3, <1>4, <1>5 DEF SameServers

LEMMA PushAdds ==
    ASSUME NEW entries \in Seq(MetaServer), NEW e \in MetaServer
    PROVE  /\ Push(entries, e) \in Seq(MetaServer)
           /\ Len(Push(entries, e)) = Len(entries) + 1
           /\ \A i \in DOMAIN entries : i \in DOMAIN Push(entries, e) /\
                                        Push(entries, e)[i] = entries[i]
           /\ Servers(Push(entries, e)) = Servers(entries) \union {e.srv}
           /\ Distinct(entries) /\ e.srv \notin Servers(entries) => Distinct(Push(entries, e))
  <1> DEFINE more == Push(entries, e)
             n == Len(entries)
  <1>1. n \in Nat /\ DOMAIN entries = 1 .. n
    BY ListType
  <1>2. /\ more \in Seq(MetaServer) /\ Len(more) = n + 1
        /\ \A i \in 1 .. n : more[i] = entries[i]
        /\ more[n + 1] = e
    BY AppendProperties DEF Push
  <1>3. DOMAIN more = 1 .. n + 1
    BY <1>2, LenProperties
  <1> HIDE DEF more, n
  <1>4. \A i \in 1 .. n + 1 : i \in 1 .. n \/ i = n + 1
    BY <1>1
  <1>5. \A i \in 1 .. n : i \in 1 .. n + 1
    BY <1>1
  <1>6. Servers(more) = Servers(entries) \union {e.srv}
    <2>1. n + 1 \in 1 .. n + 1
      BY <1>1
    <2>2. Servers(more) \subseteq Servers(entries) \union {e.srv}
      BY <1>1, <1>2, <1>3, <1>4 DEF Servers
    <2>3. Servers(entries) \subseteq Servers(more)
      BY <1>1, <1>2, <1>3, <1>5 DEF Servers
    <2>4. e.srv \in Servers(more)
      BY <1>2, <1>3, <2>1 DEF Servers
    <2> QED BY <2>2, <2>3, <2>4
  <1>7. ASSUME Distinct(entries), e.srv \notin Servers(entries) PROVE Distinct(more)
    <2> SUFFICES ASSUME NEW i \in 1 .. n + 1, NEW j \in 1 .. n + 1, more[i].srv = more[j].srv
                 PROVE  i = j
      BY <1>3, DistinctMeans
    <2>1. \A k \in 1 .. n : more[k].srv = entries[k].srv /\ entries[k].srv # e.srv
      BY <1>1, <1>2, <1>7 DEF Servers
    <2>2. CASE i \in 1 .. n /\ j \in 1 .. n
      BY <1>1, <1>7, <2>1, <2>2, DistinctMeans
    <2> QED BY <1>2, <1>4, <2>1, <2>2
  <1> QED BY <1>1, <1>2, <1>3, <1>5, <1>6, <1>7 DEF more, n

LEMMA SubSeqOf ==
    ASSUME NEW entries \in Seq(MetaServer), NEW m \in Nat \ {0}, NEW n \in Nat,
           n <= Len(entries), m <= n + 1
    PROVE  /\ SubSeq(entries, m, n) \in Seq(MetaServer)
           /\ Len(SubSeq(entries, m, n)) = n - m + 1
           /\ \A k \in 1 .. n - m + 1 : SubSeq(entries, m, n)[k] = entries[m + k - 1]
  <1>1. m \in Int /\ n \in Int /\ Len(entries) \in Nat
    BY ListType
  <1>2. \A k \in m .. n : entries[k] \in MetaServer
    BY ListType, <1>1
  <1>3. /\ SubSeq(entries, m, n) \in Seq(MetaServer)
        /\ Len(SubSeq(entries, m, n)) = IF m <= n THEN n - m + 1 ELSE 0
        /\ \A k \in 1 .. n - m + 1 : SubSeq(entries, m, n)[k] = entries[m + k - 1]
    BY <1>1, <1>2, SubSeqProperties
  <1> QED BY <1>1, <1>3

LEMMA RemovedAt ==
    ASSUME NEW entries \in Seq(MetaServer), NEW i \in DOMAIN entries
    PROVE  /\ RemoveAt(entries, i) \in Seq(MetaServer)
           /\ DOMAIN RemoveAt(entries, i) = 1 .. Len(entries) - 1
           /\ \A k \in 1 .. Len(entries) - 1 :
                 RemoveAt(entries, i)[k] = IF k < i THEN entries[k] ELSE entries[k + 1]
  <1> DEFINE front == SubSeq(entries, 1, i - 1)
             back == SubSeq(entries, i + 1, Len(entries))
             n == Len(entries)
  <1>1. n \in Nat /\ i \in 1 .. n
    BY ListType
  <1>2. /\ front \in Seq(MetaServer) /\ Len(front) = i - 1
        /\ \A k \in 1 .. i - 1 : front[k] = entries[k]
    <2>1. 1 \in Nat \ {0} /\ i - 1 \in Nat /\ i - 1 <= n /\ 1 <= (i - 1) + 1
      BY <1>1
    <2>2. /\ front \in Seq(MetaServer) /\ Len(front) = (i - 1) - 1 + 1
          /\ \A k \in 1 .. (i - 1) - 1 + 1 : front[k] = entries[1 + k - 1]
      BY <2>1, SubSeqOf
    <2> HIDE DEF front, n
    <2> QED BY <1>1, <2>2
  <1>3. /\ back \in Seq(MetaServer) /\ Len(back) = n - i
        /\ \A k \in 1 .. n - i : back[k] = entries[i + k]
    <2>1. i + 1 \in Nat \ {0} /\ n \in Nat /\ n <= n /\ i + 1 <= n + 1
      BY <1>1
    <2>2. /\ back \in Seq(MetaServer) /\ Len(back) = n - (i + 1) + 1
          /\ \A k \in 1 .. n - (i + 1) + 1 : back[k] = entries[(i + 1) + k - 1]
      BY <2>1, SubSeqOf
    <2> HIDE DEF back, n
    <2>3. n - (i + 1) + 1 = n - i
      BY <1>1
    <2>4. \A k \in 1 .. n - i : (i + 1) + k - 1 = i + k
      BY <1>1
    <2>5. \A k \in 1 .. n - i : back[k] = entries[(i + 1) + k - 1]
      BY <2>2, <2>3
    <2> QED BY <2>2, <2>3, <2>4, <2>5
  <1>4. RemoveAt(entries, i) = front \o back
    BY DEF RemoveAt
  <1> HIDE DEF front, back, n
  <1>5. /\ front \o back \in Seq(MetaServer)
        /\ Len(front \o back) = n - 1
        /\ \A k \in 1 .. n - 1 :
              (front \o back)[k] = IF k < i THEN entries[k] ELSE entries[k + 1]
    <2>0. /\ front \o back \in Seq(MetaServer)
          /\ Len(front \o back) = Len(front) + Len(back)
          /\ \A k \in 1 .. Len(front) + Len(back) :
                (front \o back)[k] = IF k <= Len(front) THEN front[k] ELSE back[k - Len(front)]
      BY <1>2, <1>3, ConcatProperties
    <2>1. /\ front \o back \in Seq(MetaServer)
          /\ Len(front \o back) = (i - 1) + (n - i)
          /\ \A k \in 1 .. (i - 1) + (n - i) :
                (front \o back)[k] = IF k <= i - 1 THEN front[k] ELSE back[k - (i - 1)]
      BY <1>2, <1>3, <2>0
    <2>2. ASSUME NEW k \in 1 .. n - 1
          PROVE  (front \o back)[k] = IF k < i THEN entries[k] ELSE entries[k + 1]
      <3>0. /\ k \in 1 .. (i - 1) + (n - i)
            /\ k < i <=> k <= i - 1
        BY <1>1
      <3>3. (front \o back)[k] = IF k <= i - 1 THEN front[k] ELSE back[k - (i - 1)]
        BY <2>1, <3>0
      <3>1. CASE k < i
        <4>1. k \in 1 .. i - 1
          BY <1>1, <3>1
        <4> QED BY <1>2, <3>0, <3>1, <3>3, <4>1
      <3>2. CASE ~(k < i)
        <4>1. k - (i - 1) \in 1 .. n - i /\ i + (k - (i - 1)) = k + 1
          BY <1>1, <3>2
        <4>2. (front \o back)[k] = back[k - (i - 1)]
          BY <3>0, <3>2, <3>3
        <4> QED BY <1>3, <3>2, <4>1, <4>2
      <3> QED BY <3>1, <3>2
    <2>3. (i - 1) + (n - i) = n - 1
      BY <1>1
    <2> QED BY <2>1, <2>2, <2>3
  <1>6. DOMAIN (front \o back) = 1 .. n - 1
    BY <1>5, LenProperties
  <1> QED BY <1>4, <1>5, <1>6 DEF n

LEMMA WithoutRemoves ==
    ASSUME NEW entries \in Seq(MetaServer), Distinct(entries), NEW s
    PROVE  /\ Without(entries, s) \in Seq(MetaServer)
           /\ Distinct(Without(entries, s))
           /\ Servers(Without(entries, s)) = Servers(entries) \ {s}
           /\ \A m \in Nat :
                 m <= Len(entries) /\ (\A k \in 1 .. m : entries[k].srv # s) =>
                     \A k \in 1 .. m : /\ k \in DOMAIN Without(entries, s)
                                       /\ Without(entries, s)[k] = entries[k]
  <1>1. CASE s \notin Servers(entries)
    <2>1. Without(entries, s) = entries
      BY <1>1 DEF Without
    <2>2. Len(entries) \in Nat /\ DOMAIN entries = 1 .. Len(entries)
      BY ListType
    <2> QED BY <1>1, <2>1, <2>2
  <1>2. CASE s \in Servers(entries)
    <2> DEFINE i == Position(entries, s)
               less == RemoveAt(entries, i)
               n == Len(entries)
    <2>1. i \in DOMAIN entries /\ entries[i].srv = s
      BY <1>2, PositionOf
    <2>2. Without(entries, s) = less
      BY <1>2 DEF Without
    <2>3. /\ less \in Seq(MetaServer) /\ DOMAIN less = 1 .. n - 1
          /\ \A k \in 1 .. n - 1 : less[k] = IF k < i THEN entries[k] ELSE entries[k + 1]
      BY <2>1, RemovedAt
    <2>4. n \in Nat /\ DOMAIN entries = 1 .. n /\ i \in 1 .. n
      BY <2>1, ListType
    <2>5. \A j \in 1 .. n : entries[j].srv = s => j = i
      BY <2>1, <2>4, DistinctMeans
    <2> HIDE DEF i, less, n
    <2>6. Servers(less) = Servers(entries) \ {s}
      <3>1. ASSUME NEW k \in 1 .. n - 1 PROVE less[k].srv \in Servers(entries) \ {s}
        <4>1. CASE k < i
          <5>1. k \in 1 .. n /\ k # i /\ less[k] = entries[k]
            BY <2>3, <2>4, <4>1
          <5> QED BY <2>4, <2>5, <5>1 DEF Servers
        <4>2. CASE ~(k < i)
          <5>1. k + 1 \in 1 .. n /\ k + 1 # i /\ less[k] = entries[k + 1]
            BY <2>3, <2>4, <4>2
          <5> QED BY <2>4, <2>5, <5>1 DEF Servers
        <4> QED BY <4>1, <4>2
      <3>2. ASSUME NEW j \in 1 .. n, entries[j].srv # s PROVE entries[j].srv \in Servers(less)
        <4>1. j # i
          BY <2>1, <3>2
        <4>2. CASE j < i
          <5>1. j \in 1 .. n - 1 /\ less[j] = entries[j]
            BY <2>3, <2>4, <4>2
          <5> QED BY <2>3, <5>1 DEF Servers
        <4>3. CASE j > i
          <5>1. j - 1 \in 1 .. n - 1 /\ ~(j - 1 < i) /\ (j - 1) + 1 = j
            BY <2>4, <4>3
          <5>2. less[j - 1] = entries[j]
            BY <2>3, <5>1
          <5> QED BY <2>3, <5>1, <5>2 DEF Servers
        <4> QED BY <2>4, <4>1, <4>2, <4>3
      <3>3. Servers(less) \subseteq Servers(entries) \ {s}
        BY <2>3, <3>1 DEF Servers
      <3>4. Servers(entries) \ {s} \subseteq Servers(less)
        BY <2>4, <3>2 DEF Servers
      <3> QED BY <3>3, <3>4
    <2>7. Distinct(less)
      <3> SUFFICES ASSUME NEW j \in 1 .. n - 1, NEW k \in 1 .. n - 1, less[j].srv = less[k].srv
                   PROVE  j = k
        BY <2>3, DistinctMeans
      <3> DEFINE at(x) == IF x < i THEN x ELSE x + 1
      <3>1. \A x \in 1 .. n - 1 : at(x) \in 1 .. n /\ less[x] = entries[at(x)]
        BY <2>3, <2>4
      <3>2. at(j) = at(k)
        <4>1. at(j) \in DOMAIN entries /\ at(k) \in DOMAIN entries
          BY <2>4, <3>1
        <4>2. entries[at(j)].srv = entries[at(k)].srv
          BY <3>1
        <4> HIDE DEF at
        <4> QED BY <4>1, <4>2, DistinctMeans
      <3> QED BY <2>4, <3>2
    <2>8. ASSUME NEW m \in Nat, m <= n, \A k \in 1 .. m : entries[k].srv # s, NEW k \in 1 .. m
          PROVE  k \in 1 .. n - 1 /\ less[k] = entries[k]
      <3>1. ~(i <= m)
        BY <2>1, <2>4, <2>8
      <3>2. k < i /\ k \in 1 .. n - 1
        BY <2>4, <2>8, <3>1
      <3> QED BY <2>3, <3>2
    <2> QED BY <2>2, <2>3, <2>6, <2>7, <2>8 DEF n
  <1> QED BY <1>1, <1>2

-----------------------------------------------------------------------------
(* What a step does to a list: it grows by servers that go to its end, or  *)
(* it loses one server.                                                    *)

Grown(entries, others, new) ==
    /\ others \in Seq(MetaServer) /\ Distinct(others)
    /\ Servers(others) = Servers(entries) \union new
    /\ \A i \in DOMAIN entries : i \in DOMAIN others /\ others[i].srv = entries[i].srv

Shrunk(entries, others, old) ==
    /\ others \in Seq(MetaServer) /\ Distinct(others)
    /\ Servers(others) = Servers(entries) \ {old}
    /\ \A m \in Nat :
          m <= Len(entries) /\ (\A k \in 1 .. m : entries[k].srv # old) =>
              \A k \in 1 .. m : k \in DOMAIN others /\ others[k] = entries[k]

LEMMA SameIsGrown ==
    ASSUME NEW entries, Distinct(entries),
           NEW others \in Seq(MetaServer), SameServers(entries, others)
    PROVE  Grown(entries, others, {})
  BY SameServersMeans DEF Grown, SameServers

LEMMA FailedGrown ==
    ASSUME NEW entries \in Seq(MetaServer), Distinct(entries), NEW idx, NEW layer \in {4, 5}
    PROVE  Grown(entries, IF idx \in DOMAIN entries THEN [entries EXCEPT ![idx].layer = layer]
                          ELSE entries, {})
  <1>1. CASE idx \in DOMAIN entries
    BY <1>1, MarkedKeeps, SameIsGrown
  <1>2. CASE idx \notin DOMAIN entries
    BY <1>2, SameIsGrown DEF SameServers
  <1> QED BY <1>1, <1>2

LEMMA LearntGrown ==
    ASSUME NEW entries \in Seq(MetaServer), Distinct(entries),
           NEW news \in Seq(MetaServer), NEW new \in MetaServer, new.srv \notin Servers(entries)
    PROVE  Grown(entries, Push(Updated(entries, news), new), {new.srv})
  <1> DEFINE same == Updated(entries, news)
  <1>1. /\ same \in Seq(MetaServer) /\ SameServers(entries, same)
        /\ Servers(same) = Servers(entries) /\ Distinct(same)
    BY UpdatedKeeps, SameServersMeans
  <1> HIDE DEF same
  <1>2. /\ Push(same, new) \in Seq(MetaServer) /\ Distinct(Push(same, new))
        /\ Servers(Push(same, new)) = Servers(entries) \union {new.srv}
        /\ \A i \in DOMAIN same : i \in DOMAIN Push(same, new) /\ Push(same, new)[i] = same[i]
    <2>1. new.srv \notin Servers(same)
      BY <1>1
    <2> QED BY <1>1, <2>1, PushAdds
  <1> QED BY <1>1, <1>2 DEF Grown, SameServers, same

LEMMA IntroducedGrown ==
    ASSUME NEW entries \in Seq(MetaServer), Distinct(entries), NEW n \in Node
    PROVE  Grown(entries, Introduced(entries, n), {n})
  <1>1. CASE n \in Servers(entries)
    BY <1>1 DEF Grown, Introduced
  <1>2. CASE n \notin Servers(entries)
    <2>1. Entry(n) \in MetaServer /\ Entry(n).srv = n
      BY EntryType DEF Entry
    <2> QED BY <1>2, <2>1, PushAdds DEF Grown, Introduced
  <1> QED BY <1>1, <1>2

-----------------------------------------------------------------------------
(* Types.  The type invariant needs one fact more: a task waits for a full *)
(* synchronisation exactly while the server it asked is noted.             *)

ListsOK == list \in [Node -> Seq(MetaServer)] /\ \A n \in Node : Distinct(list[n])

DataOK ==
    /\ local \in [Node -> SUBSET Data]
    /\ group \in [Node -> [Node -> SUBSET Data]]
    /\ home \in [Node -> [Data -> Node \union {None}]]
    /\ reg \in [Data -> [Node -> {"new", "group", "map", "done"}]]

RoundsOK ==
    /\ clone \in [Node -> Seq(MetaServer)]
    /\ call \in [Node -> [Node -> {"none", "sent", "update", "greet"}]]
    /\ rest \in [Node -> [Node -> Seq(MetaServer)]]
    /\ greeted \in [Node -> [Node -> Node \union {None}]]
    /\ rounds \in [Node -> Nat] /\ failures \in Nat

HandlersOK ==
    /\ handler \in [Node -> [Node -> {"none", "list", "data", "answered"}]]
    /\ incoming \in [Node -> [Node -> SUBSET Data]]
    /\ mapping \in [Node -> [Node -> Data \union {None}]]
    /\ synced \in [Node -> SUBSET Node] /\ refused \in [Node -> SUBSET Node]

Steady == \A n, p \in Node : call[n][p] = "greet" <=> greeted[n][p] # None

Typed == ListsOK /\ DataOK /\ RoundsOK /\ HandlersOK /\ Steady

LEMMA TypedMeans == Typed => TypeOK
  BY DEF Typed, TypeOK, ListsOK, DataOK, RoundsOK, HandlersOK, Distinct

LEMMA OneListGrown ==
    ASSUME ListsOK, NEW n \in Node, NEW others, NEW new, Grown(list[n], others, new),
           list' = [list EXCEPT ![n] = others]
    PROVE  ListsOK' /\ Grown(list[n], list'[n], new)
  <1>1. list'[n] = others /\ \A k \in Node \ {n} : list'[k] = list[k]
    BY DEF ListsOK
  <1>2. list' \in [Node -> Seq(MetaServer)]
    BY DEF ListsOK, Grown
  <1>3. ASSUME NEW k \in Node PROVE Distinct(list'[k])
    BY <1>1 DEF ListsOK, Grown
  <1> QED BY <1>1, <1>2, <1>3 DEF ListsOK

LEMMA OneListShrunk ==
    ASSUME ListsOK, NEW n \in Node, NEW others, NEW old, Shrunk(list[n], others, old),
           list' = [list EXCEPT ![n] = others]
    PROVE  ListsOK' /\ Shrunk(list[n], list'[n], old)
  <1>1. list'[n] = others /\ \A k \in Node \ {n} : list'[k] = list[k]
    BY DEF ListsOK
  <1>2. list' \in [Node -> Seq(MetaServer)]
    BY DEF ListsOK, Shrunk
  <1>3. ASSUME NEW k \in Node PROVE Distinct(list'[k])
    BY <1>1 DEF ListsOK, Shrunk
  <1> QED BY <1>1, <1>2, <1>3 DEF ListsOK

(* The actions that write a list.                                          *)

LEMMA FailLists ==
    ASSUME Typed, NEW n \in Node, NEW p \in Node, NEW layer \in {4, 5}, Fail(n, p, layer)
    PROVE  ListsOK' /\ Grown(list[n], list'[n], {}) /\ \A k \in Node \ {n} : list'[k] = list[k]
  <1> DEFINE idx == Position(clone[n], p)
             others == IF idx \in DOMAIN list[n] THEN [list[n] EXCEPT ![idx].layer = layer]
                       ELSE list[n]
  <1>1. list' = [list EXCEPT ![n] = others]
    BY DEF Fail
  <1>2. list[n] \in Seq(MetaServer) /\ Distinct(list[n])
    BY DEF Typed, ListsOK
  <1>3. Grown(list[n], others, {})
    BY <1>2, FailedGrown
  <1> HIDE DEF others
  <1> QED BY <1>1, <1>3, OneListGrown DEF Typed, ListsOK

LEMMA UpdateAllLists ==
    ASSUME Typed, NEW n \in Node, NEW p \in Node, UpdateAll(n, p)
    PROVE  ListsOK' /\ Grown(list[n], list'[n], {}) /\ \A k \in Node \ {n} : list'[k] = list[k]
  <1> DEFINE others == Updated(list[n], rest[n][p])
  <1>1. list' = [list EXCEPT ![n] = others]
    BY DEF UpdateAll
  <1>2. list[n] \in Seq(MetaServer) /\ Distinct(list[n]) /\ rest[n][p] \in Seq(MetaServer)
    BY DEF Typed, ListsOK, RoundsOK
  <1>3. Grown(list[n], others, {})
    BY <1>2, UpdatedKeeps, SameIsGrown
  <1> HIDE DEF others
  <1> QED BY <1>1, <1>3, OneListGrown DEF Typed, ListsOK

(* The task of n for p lists server s and asks it for everything.          *)
Learns(n, p, s) ==
    /\ Grown(list[n], list'[n], {s})
    /\ call[n][p] = "update" /\ call' = [call EXCEPT ![n][p] = "greet"]
    /\ greeted' = [greeted EXCEPT ![n][p] = s]
    /\ handler[s][n] = "none" /\ handler' = [handler EXCEPT ![s][n] = "list"]
    /\ incoming' = [incoming EXCEPT ![s][n] = local[n]]

LEMMA UpdateUntilNewLists ==
    ASSUME Typed, NEW n \in Node, NEW p \in Node, UpdateUntilNew(n, p)
    PROVE  /\ ListsOK' /\ \A k \in Node \ {n} : list'[k] = list[k]
           /\ rest' \in [Node -> [Node -> Seq(MetaServer)]]
           /\ \E s \in Node \ Servers(list[n]) : Learns(n, p, s)
  <1>1. PICK i \in Unknown(n, p) :
           /\ call[n][p] = "update"
           /\ handler[rest[n][p][i].srv][n] = "none"
           /\ list' = [list EXCEPT ![n] = Push(Updated(@, SubSeq(rest[n][p], 1, i - 1)),
                                               rest[n][p][i])]
           /\ rest' = [rest EXCEPT ![n][p] = SubSeq(@, i + 1, Len(@))]
           /\ call' = [call EXCEPT ![n][p] = "greet"]
           /\ greeted' = [greeted EXCEPT ![n][p] = rest[n][p][i].srv]
           /\ handler' = [handler EXCEPT ![rest[n][p][i].srv][n] = "list"]
           /\ incoming' = [incoming EXCEPT ![rest[n][p][i].srv][n] = local[n]]
    BY DEF UpdateUntilNew
  <1> DEFINE tail == rest[n][p]
             new == tail[i]
             news == SubSeq(tail, 1, i - 1)
             left == SubSeq(tail, i + 1, Len(tail))
             others == Push(Updated(list[n], news), new)
  <1>2. /\ tail \in Seq(MetaServer) /\ i \in DOMAIN tail /\ new.srv \notin Servers(list[n])
        /\ list[n] \in Seq(MetaServer) /\ Distinct(list[n])
    BY DEF Typed, ListsOK, RoundsOK, Unknown
  <1>3. /\ new \in MetaServer /\ new.srv \in Node
        /\ Len(tail) \in Nat /\ i \in 1 .. Len(tail)
    BY <1>2, ListType
  <1>4. news \in Seq(MetaServer)
    <2>1. 1 \in Nat \ {0} /\ i - 1 \in Nat /\ i - 1 <= Len(tail) /\ 1 <= (i - 1) + 1
      BY <1>3
    <2> QED BY <1>2, <2>1, SubSeqOf
  <1>5. left \in Seq(MetaServer)
    <2>1. i + 1 \in Nat \ {0} /\ Len(tail) <= Len(tail) /\ i + 1 <= Len(tail) + 1
      BY <1>3
    <2> QED BY <1>2, <1>3, <2>1, SubSeqOf
  <1>6. Grown(list[n], others, {new.srv})
    BY <1>2, <1>3, <1>4, LearntGrown
  <1>7. list' = [list EXCEPT ![n] = others] /\ rest' = [rest EXCEPT ![n][p] = left]
    BY <1>1
  <1> HIDE DEF left, others, news
  <1>8. ListsOK' /\ Grown(list[n], list'[n], {new.srv})
    BY <1>6, <1>7, OneListGrown DEF Typed
  <1>9. \A k \in Node \ {n} : list'[k] = list[k]
    BY <1>7 DEF Typed, ListsOK
  <1>10. rest' \in [Node -> [Node -> Seq(MetaServer)]]
    BY <1>5, <1>7 DEF Typed, RoundsOK
  <1>11. new.srv \in Node \ Servers(list[n]) /\ Learns(n, p, new.srv)
    BY <1>1, <1>2, <1>3, <1>8 DEF Learns
  <1> QED BY <1>8, <1>9, <1>10, <1>11

LEMMA GreetFailsLists ==
    ASSUME Typed, NEW n \in Node, NEW p \in Node, GreetFails(n, p)
    PROVE  /\ ListsOK' /\ Shrunk(list[n], list'[n], greeted[n][p])
           /\ \A k \in Node \ {n} : list'[k] = list[k]
  <1> DEFINE others == Without(list[n], greeted[n][p])
  <1>1. list' = [list EXCEPT ![n] = others]
    BY DEF GreetFails, ListAfterFailure
  <1>2. list[n] \in Seq(MetaServer) /\ Distinct(list[n])
    BY DEF Typed, ListsOK
  <1>3. Shrunk(list[n], others, greeted[n][p])
    BY <1>2, WithoutRemoves DEF Shrunk
  <1> HIDE DEF others
  <1> QED BY <1>1, <1>3, OneListShrunk DEF Typed, ListsOK

LEMMA HandleListLists ==
    ASSUME Typed, NEW m \in Node, NEW n \in Node, HandleList(m, n)
    PROVE  ListsOK' /\ Grown(list[m], list'[m], {n}) /\ \A k \in Node \ {m} : list'[k] = list[k]
  <1> DEFINE others == Introduced(list[m], n)
  <1>1. list' = [list EXCEPT ![m] = others]
    BY DEF HandleList
  <1>2. list[m] \in Seq(MetaServer) /\ Distinct(list[m])
    BY DEF Typed, ListsOK
  <1>3. Grown(list[m], others, {n})
    BY <1>2, IntroducedGrown
  <1> HIDE DEF others
  <1> QED BY <1>1, <1>3, OneListGrown DEF Typed, ListsOK

LEMMA InitTypes ==
    ASSUME MembershipAssumption, Init
    PROVE  Typed
  <1>1. ASSUME NEW n \in Node
        PROVE  list[n] \in Seq(MetaServer) /\ Distinct(list[n])
    <2> DEFINE remote == Configured[n]
               tail == [i \in DOMAIN remote |-> Entry(remote[i])]
               own == <<Entry(n)>>
    <2>1. remote \in Seq(Node) /\ n \notin ToSet(remote) /\ IsInjective(remote)
      BY DEF MembershipAssumption
    <2>2. /\ Len(remote) \in Nat /\ DOMAIN remote = 1 .. Len(remote)
          /\ \A i \in DOMAIN remote : remote[i] \in Node /\ remote[i] # n
      BY <2>1, LenProperties DEF ToSet
    <2>3. tail \in [1 .. Len(remote) -> MetaServer]
      BY <2>2, EntryType
    <2>4. tail \in Seq(MetaServer) /\ Len(tail) = Len(remote)
      BY <2>2, <2>3
    <2>5. own \in Seq(MetaServer) /\ Len(own) = 1 /\ own[1] = Entry(n)
      BY EntryType
    <2>6. list[n] = own \o tail
      BY DEF Init
    <2>7. \A i \in DOMAIN remote : tail[i].srv = remote[i]
      BY DEF Entry
    <2> HIDE DEF own, tail
    <2>8. /\ list[n] \in Seq(MetaServer) /\ Len(list[n]) = 1 + Len(remote)
          /\ \A i \in 1 .. 1 + Len(remote) : list[n][i] = IF i <= 1 THEN own[i] ELSE tail[i - 1]
      <3>1. /\ own \o tail \in Seq(MetaServer)
            /\ Len(own \o tail) = Len(own) + Len(tail)
            /\ \A i \in 1 .. Len(own) + Len(tail) :
                  (own \o tail)[i] = IF i <= Len(own) THEN own[i] ELSE tail[i - Len(own)]
        BY <2>4, <2>5, ConcatProperties
      <3> QED BY <2>4, <2>5, <2>6, <3>1
    <2>9. Distinct(list[n])
      <3>1. DOMAIN list[n] = 1 .. 1 + Len(remote)
        BY <2>8, LenProperties
      <3> SUFFICES ASSUME NEW i \in 1 .. 1 + Len(remote), NEW j \in 1 .. 1 + Len(remote),
                          list[n][i].srv = list[n][j].srv
                   PROVE  i = j
        BY <3>1, DistinctMeans
      <3>2. list[n][1].srv = n
        BY <2>2, <2>5, <2>8 DEF Entry
      <3>3. \A k \in 1 .. 1 + Len(remote) : k # 1 =>
               /\ k - 1 \in DOMAIN remote /\ list[n][k].srv = remote[k - 1]
               /\ remote[k - 1] # n
        <4> SUFFICES ASSUME NEW k \in 1 .. 1 + Len(remote), k # 1
                     PROVE  /\ k - 1 \in DOMAIN remote /\ list[n][k].srv = remote[k - 1]
                            /\ remote[k - 1] # n
          OBVIOUS
        <4>1. ~(k <= 1) /\ k - 1 \in DOMAIN remote
          BY <2>2
        <4>2. list[n][k] = tail[k - 1]
          BY <2>8, <4>1
        <4> QED BY <2>2, <2>7, <4>1, <4>2
      <3>4. CASE i = 1 \/ j = 1
        BY <3>2, <3>3, <3>4
      <3>5. CASE i # 1 /\ j # 1
        <4>1. i - 1 = j - 1
          BY <2>1, <3>3, <3>5 DEF IsInjective
        <4> QED BY <4>1
      <3> QED BY <3>4, <3>5
    <2> QED BY <2>8, <2>9
  <1>2. ListsOK
    BY <1>1 DEF ListsOK, Init
  <1>3. DataOK
    BY DEF Init, DataOK, ForPairs
  <1>4. RoundsOK
    BY DEF Init, RoundsOK, ForPairs
  <1>5. HandlersOK
    BY DEF Init, HandlersOK, ForPairs
  <1>6. Steady
    BY DEF Init, Steady, ForPairs
  <1> QED BY <1>2, <1>3, <1>4, <1>5, <1>6 DEF Typed

(* Who takes a step: the disjuncts of Next.                                *)
LEMMA StepMeans ==
    ASSUME Next
    PROVE  \/ \E d \in Data, n \in Node : Register(d, n)
           \/ \E d \in Data, n \in Node : RegisterGroup(d, n)
           \/ \E d \in Data, n \in Node : RegisterMap(d, n)
           \/ \E n \in Node : StartRound(n)
           \/ \E n, p \in Node : Reply(n, p)
           \/ \E n, p \in Node : \E layer \in {4, 5} : Fail(n, p, layer)
           \/ \E n, p \in Node : UpdateAll(n, p)
           \/ \E n, p \in Node : UpdateUntilNew(n, p)
           \/ \E n, p \in Node : Greeted(n, p)
           \/ \E n, p \in Node : GreetFails(n, p)
           \/ \E m, n \in Node : HandleList(m, n)
           \/ \E m, n \in Node : \E d \in Data : HandleGroup(m, n, d)
           \/ \E m, n \in Node : HandleMap(m, n)
           \/ \E m, n \in Node : HandleAnswer(m, n)
  <1>1. CASE Registration
    BY <1>1 DEF Registration
  <1>2. CASE \E n \in Node : Round(n)
    BY <1>2 DEF Round
  <1>3. CASE \E m, n \in Node : GetKvMeta(m, n)
    BY <1>3 DEF GetKvMeta
  <1> QED BY <1>1, <1>2, <1>3 DEF Next

LEMMA NextTypes ==
    ASSUME MembershipAssumption, Typed, [Next]_vars
    PROVE  Typed'
  <1> USE DEF listVars, dataVars, roundVars, handlerVars, boundVars, history
  <1>1. ASSUME NEW d \in Data, NEW n \in Node, Register(d, n) PROVE Typed'
    <2>1. ListsOK' /\ RoundsOK' /\ HandlersOK' /\ Steady'
      BY <1>1 DEF Register, Typed, ListsOK, RoundsOK, HandlersOK, Steady
    <2>2. DataOK'
      BY <1>1 DEF Register, Typed, DataOK
    <2> QED BY <2>1, <2>2 DEF Typed
  <1>2. ASSUME NEW d \in Data, NEW n \in Node, RegisterGroup(d, n) PROVE Typed'
    <2>1. ListsOK' /\ RoundsOK' /\ HandlersOK' /\ Steady'
      BY <1>2 DEF RegisterGroup, Typed, ListsOK, RoundsOK, HandlersOK, Steady
    <2>2. DataOK'
      BY <1>2 DEF RegisterGroup, Grouped, Typed, DataOK
    <2> QED BY <2>1, <2>2 DEF Typed
  <1>3. ASSUME NEW d \in Data, NEW n \in Node, RegisterMap(d, n) PROVE Typed'
    <2>1. ListsOK' /\ RoundsOK' /\ HandlersOK' /\ Steady'
      BY <1>3 DEF RegisterMap, Typed, ListsOK, RoundsOK, HandlersOK, Steady
    <2>2. DataOK'
      BY <1>3 DEF RegisterMap, Typed, DataOK
    <2> QED BY <2>1, <2>2 DEF Typed
  <1>4. ASSUME NEW n \in Node, StartRound(n) PROVE Typed'
    <2>1. ListsOK' /\ DataOK' /\ HandlersOK'
      BY <1>4 DEF StartRound, Typed, ListsOK, DataOK, HandlersOK
    <2>2. RoundsOK'
      BY <1>4 DEF StartRound, Typed, ListsOK, RoundsOK
    <2>3. Steady'
      BY <1>4 DEF StartRound, Idle, Typed, RoundsOK, Steady
    <2> QED BY <2>1, <2>2, <2>3 DEF Typed
  <1>5. ASSUME NEW n \in Node, NEW p \in Node, Reply(n, p) PROVE Typed'
    <2>1. ListsOK' /\ DataOK' /\ HandlersOK'
      BY <1>5 DEF Reply, Typed, ListsOK, DataOK, HandlersOK
    <2>2. RoundsOK'
      BY <1>5 DEF Reply, Typed, ListsOK, RoundsOK
    <2>3. Steady'
      <3>1. call[n][p] = "sent" /\ greeted' = greeted /\ call' = [call EXCEPT ![n][p] = "update"]
        BY <1>5 DEF Reply
      <3>2. \A x, y \in Node : call'[x][y] = IF x = n /\ y = p THEN "update" ELSE call[x][y]
        BY <3>1 DEF Typed, RoundsOK
      <3> QED BY <3>1, <3>2 DEF Typed, Steady
    <2> QED BY <2>1, <2>2, <2>3 DEF Typed
  <1>6. ASSUME NEW n \in Node, NEW p \in Node, NEW layer \in {4, 5}, Fail(n, p, layer)
        PROVE  Typed'
    <2>1. ListsOK'
      BY <1>6, FailLists
    <2>2. DataOK' /\ HandlersOK'
      BY <1>6 DEF Fail, Typed, DataOK, HandlersOK
    <2>3. RoundsOK'
      <3>1. /\ UNCHANGED <<clone, rest, greeted, rounds>> /\ failures' = failures + 1
            /\ call' = [call EXCEPT ![n][p] = "none"]
        BY <1>6 DEF Fail
      <3> QED BY <3>1 DEF Typed, RoundsOK
    <2>4. Steady'
      <3>1. call[n][p] = "sent" /\ greeted' = greeted /\ call' = [call EXCEPT ![n][p] = "none"]
        BY <1>6 DEF Fail
      <3>2. \A x, y \in Node : call'[x][y] = IF x = n /\ y = p THEN "none" ELSE call[x][y]
        BY <3>1 DEF Typed, RoundsOK
      <3> QED BY <3>1, <3>2 DEF Typed, Steady
    <2> QED BY <2>1, <2>2, <2>3, <2>4 DEF Typed
  <1>7. ASSUME NEW n \in Node, NEW p \in Node, UpdateAll(n, p) PROVE Typed'
    <2>1. ListsOK'
      BY <1>7, UpdateAllLists
    <2>2. DataOK' /\ HandlersOK'
      BY <1>7 DEF UpdateAll, Typed, DataOK, HandlersOK
    <2>3. RoundsOK'
      BY <1>7 DEF UpdateAll, Typed, RoundsOK
    <2>4. Steady'
      BY <1>7 DEF UpdateAll, Typed, RoundsOK, Steady
    <2> QED BY <2>1, <2>2, <2>3, <2>4 DEF Typed
  <1>8. ASSUME NEW n \in Node, NEW p \in Node, UpdateUntilNew(n, p) PROVE Typed'
    <2>1. ListsOK' /\ rest' \in [Node -> [Node -> Seq(MetaServer)]]
      BY <1>8, UpdateUntilNewLists
    <2>2. PICK s \in Node \ Servers(list[n]) : Learns(n, p, s)
      BY <1>8, UpdateUntilNewLists
    <2>3. UNCHANGED <<dataVars, clone, mapping, boundVars, history>>
      BY <1>8 DEF UpdateUntilNew
    <2>4. DataOK'
      BY <2>3 DEF Typed, DataOK
    <2>5. HandlersOK'
      BY <2>2, <2>3 DEF Learns, Typed, DataOK, HandlersOK
    <2>6. RoundsOK'
      BY <2>1, <2>2, <2>3 DEF Learns, Typed, RoundsOK
    <2>7. Steady'
      BY <2>2 DEF Learns, Typed, RoundsOK, Steady, MembershipAssumption
    <2> QED BY <2>1, <2>4, <2>5, <2>6, <2>7 DEF Typed
  <1>9. ASSUME NEW n \in Node, NEW p \in Node, Greeted(n, p) PROVE Typed'
    <2>1. ListsOK' /\ DataOK'
      BY <1>9 DEF Greeted, Typed, ListsOK, DataOK
    <2>2. greeted[n][p] \in Node
      BY <1>9 DEF Greeted, Typed, RoundsOK, Steady
    <2>3. HandlersOK'
      BY <1>9, <2>2 DEF Greeted, Typed, HandlersOK
    <2>4. RoundsOK' /\ Steady'
      BY <1>9 DEF Greeted, GreetingOver, Typed, RoundsOK, Steady
    <2> QED BY <2>1, <2>3, <2>4 DEF Typed
  <1>10. ASSUME NEW n \in Node, NEW p \in Node, GreetFails(n, p) PROVE Typed'
    <2>1. ListsOK'
      BY <1>10, GreetFailsLists
    <2>2. DataOK'
      BY <1>10 DEF GreetFails, Typed, DataOK
    <2>3. greeted[n][p] \in Node
      BY <1>10 DEF GreetFails, Typed, RoundsOK, Steady
    <2>4. HandlersOK'
      BY <1>10, <2>3 DEF GreetFails, Typed, HandlersOK
    <2>5. RoundsOK'
      <3>1. /\ UNCHANGED <<clone, rest, rounds>> /\ failures' = failures + 1
            /\ call' = [call EXCEPT ![n][p] = "update"]
            /\ greeted' = [greeted EXCEPT ![n][p] = None]
        BY <1>10 DEF GreetFails, GreetingOver
      <3> QED BY <3>1 DEF Typed, RoundsOK
    <2>6. Steady'
      BY <1>10 DEF GreetFails, GreetingOver, Typed, RoundsOK, Steady
    <2> QED BY <2>1, <2>2, <2>4, <2>5, <2>6 DEF Typed
  <1>11. ASSUME NEW m \in Node, NEW n \in Node, HandleList(m, n) PROVE Typed'
    <2>1. ListsOK'
      BY <1>11, HandleListLists
    <2>2. DataOK' /\ RoundsOK' /\ Steady'
      BY <1>11 DEF HandleList, Typed, DataOK, RoundsOK, Steady
    <2>3. HandlersOK'
      BY <1>11 DEF HandleList, Typed, HandlersOK
    <2> QED BY <2>1, <2>2, <2>3 DEF Typed
  <1>12. ASSUME NEW m \in Node, NEW n \in Node, NEW d \in Data, HandleGroup(m, n, d)
         PROVE  Typed'
    <2>1. ListsOK' /\ RoundsOK' /\ Steady'
      BY <1>12 DEF HandleGroup, Typed, ListsOK, RoundsOK, Steady
    <2>2. DataOK' /\ HandlersOK'
      BY <1>12 DEF HandleGroup, Grouped, Typed, DataOK, HandlersOK
    <2> QED BY <2>1, <2>2 DEF Typed
  <1>13. ASSUME NEW m \in Node, NEW n \in Node, HandleMap(m, n) PROVE Typed'
    <2>1. ListsOK' /\ RoundsOK' /\ Steady'
      BY <1>13 DEF HandleMap, Typed, ListsOK, RoundsOK, Steady
    <2>2. mapping[m][n] \in Data
      BY <1>13 DEF HandleMap, Typed, HandlersOK
    <2>3. DataOK' /\ HandlersOK'
      BY <1>13, <2>2 DEF HandleMap, Typed, DataOK, HandlersOK
    <2> QED BY <2>1, <2>3 DEF Typed
  <1>14. ASSUME NEW m \in Node, NEW n \in Node, HandleAnswer(m, n) PROVE Typed'
    <2>1. ListsOK' /\ DataOK' /\ RoundsOK' /\ Steady'
      BY <1>14 DEF HandleAnswer, Typed, ListsOK, DataOK, RoundsOK, Steady
    <2>2. HandlersOK'
      BY <1>14 DEF HandleAnswer, Typed, HandlersOK
    <2> QED BY <2>1, <2>2 DEF Typed
  <1>15. CASE UNCHANGED vars
    BY <1>15 DEF vars, Typed, ListsOK, DataOK, RoundsOK, HandlersOK, Steady
  <1>16. CASE Next
    BY <1>1, <1>2, <1>3, <1>4, <1>5, <1>6, <1>7, <1>8, <1>9, <1>10, <1>11, <1>12, <1>13,
       <1>14, <1>16, StepMeans
  <1> QED BY <1>15, <1>16

LEMMA AlwaysTyped ==
    ASSUME MembershipAssumption
    PROVE  Spec => []Typed
  <1>1. Init => Typed
    BY InitTypes
  <1>2. Typed /\ [Next]_vars => Typed'
    BY NextTypes
  <1> QED BY <1>1, <1>2, PTL DEF Spec

(* In every state the tables hold what their types say, and no list names  *)
(* a metadata server twice, whatever is learned, introduced, replaced and  *)
(* taken out (client.rs:345-437, get_kvmeta.rs:26-27).                     *)
THEOREM MembersTypesCorrect ==
    ASSUME MembershipAssumption
    PROVE  Spec => []TypeOK
  <1>1. Typed => TypeOK
    BY TypedMeans
  <1> QED BY <1>1, AlwaysTyped, PTL

-----------------------------------------------------------------------------
(* A mapped data server is in its group: so is one between the two tables, *)
(* in a registration or in an introduction, and groups only grow.          *)

GroupInv ==
    /\ MappedIsGrouped
    /\ \A d \in Data, n \in Node : reg[d][n] = "map" => d \in group[n][n]
    /\ \A m, n \in Node : mapping[m][n] # None => mapping[m][n] \in group[m][n]

LEMMA GroupStepMeans ==
    ASSUME [Next]_vars
    PROVE  \/ UNCHANGED <<group, home, reg, mapping>>
           \/ \E d \in Data, n \in Node : Register(d, n)
           \/ \E d \in Data, n \in Node : RegisterGroup(d, n)
           \/ \E d \in Data, n \in Node : RegisterMap(d, n)
           \/ \E m, n \in Node : \E d \in Data : HandleGroup(m, n, d)
           \/ \E m, n \in Node : HandleMap(m, n)
  <1> USE DEF dataVars, handlerVars
  <1>1. \A n \in Node : StartRound(n) => UNCHANGED <<group, home, reg, mapping>>
    BY DEF StartRound
  <1>2. \A n, p \in Node : Reply(n, p) => UNCHANGED <<group, home, reg, mapping>>
    BY DEF Reply
  <1>3. \A n, p \in Node : \A layer \in {4, 5} :
           Fail(n, p, layer) => UNCHANGED <<group, home, reg, mapping>>
    BY DEF Fail
  <1>4. \A n, p \in Node : UpdateAll(n, p) => UNCHANGED <<group, home, reg, mapping>>
    BY DEF UpdateAll
  <1>5. \A n, p \in Node : UpdateUntilNew(n, p) => UNCHANGED <<group, home, reg, mapping>>
    BY DEF UpdateUntilNew
  <1>6. \A n, p \in Node : Greeted(n, p) => UNCHANGED <<group, home, reg, mapping>>
    BY DEF Greeted
  <1>7. \A n, p \in Node : GreetFails(n, p) => UNCHANGED <<group, home, reg, mapping>>
    BY DEF GreetFails
  <1>8. \A m, n \in Node : HandleList(m, n) => UNCHANGED <<group, home, reg, mapping>>
    BY DEF HandleList
  <1>9. \A m, n \in Node : HandleAnswer(m, n) => UNCHANGED <<group, home, reg, mapping>>
    BY DEF HandleAnswer
  <1>10. CASE UNCHANGED vars
    BY <1>10 DEF vars
  <1>11. CASE Next
    BY <1>1, <1>2, <1>3, <1>4, <1>5, <1>6, <1>7, <1>8, <1>9, <1>11, StepMeans
  <1> QED BY <1>10, <1>11

LEMMA NextGroupInv ==
    ASSUME MembershipAssumption, Typed, GroupInv, [Next]_vars
    PROVE  GroupInv'
  <1> USE DEF GroupInv, MappedIsGrouped, Typed, DataOK, HandlersOK, listVars, roundVars,
              handlerVars, boundVars, history
  <1>1. CASE UNCHANGED <<group, home, reg, mapping>>
    BY <1>1
  <1>2. ASSUME NEW d \in Data, NEW n \in Node, Register(d, n) PROVE GroupInv'
    BY <1>2 DEF Register
  <1>3. ASSUME NEW d \in Data, NEW n \in Node, RegisterGroup(d, n) PROVE GroupInv'
    <2>1. \A x, y \in Node : group[x][y] \subseteq group'[x][y]
      BY <1>3 DEF RegisterGroup, Grouped
    <2>2. d \in group'[n][n]
      BY <1>3 DEF RegisterGroup, Grouped
    <2> QED BY <1>3, <2>1, <2>2 DEF RegisterGroup, MembershipAssumption
  <1>4. ASSUME NEW d \in Data, NEW n \in Node, RegisterMap(d, n) PROVE GroupInv'
    BY <1>4 DEF RegisterMap
  <1>5. ASSUME NEW m \in Node, NEW n \in Node, NEW d \in Data, HandleGroup(m, n, d)
        PROVE  GroupInv'
    <2>1. \A x, y \in Node : group[x][y] \subseteq group'[x][y]
      BY <1>5 DEF HandleGroup, Grouped
    <2>2. d \in group'[m][n]
      BY <1>5 DEF HandleGroup, Grouped
    <2> QED BY <1>5, <2>1, <2>2 DEF HandleGroup, MembershipAssumption
  <1>6. ASSUME NEW m \in Node, NEW n \in Node, HandleMap(m, n) PROVE GroupInv'
    <2>1. mapping[m][n] \in Data /\ mapping[m][n] \in group[m][n]
      BY <1>6 DEF HandleMap
    <2> QED BY <1>6, <2>1 DEF HandleMap
  <1> QED BY <1>1, <1>2, <1>3, <1>4, <1>5, <1>6, GroupStepMeans

(* A data server that a metadata server maps to another, or to itself, is  *)
(* in the group it is looked up in, whatever registrations and             *)
(* introductions interleave (register_instance.rs:36-73,                   *)
(* get_kvmeta.rs:44-80, search_kv.rs:44-52).                               *)
THEOREM MappedFoundInGroup ==
    ASSUME MembershipAssumption
    PROVE  Spec => []MappedIsGrouped
  <1>1. Init => GroupInv
    BY DEF Init, ForPairs, GroupInv, MappedIsGrouped
  <1>2. Typed /\ GroupInv /\ [Next]_vars => GroupInv'
    BY NextGroupInv
  <1>3. GroupInv => MappedIsGrouped
    BY DEF GroupInv
  <1> QED BY <1>1, <1>2, <1>3, AlwaysTyped, PTL DEF Spec

-----------------------------------------------------------------------------
(* Who is listed and why.  The steps that matter are those of the rounds   *)
(* and of the introductions.                                               *)

meetingVars == <<list, clone, call, greeted, handler, synced, refused>>

LEMMA MeetingStepMeans ==
    ASSUME [Next]_vars
    PROVE  \/ UNCHANGED meetingVars
           \/ \E n \in Node : StartRound(n)
           \/ \E n, p \in Node : Reply(n, p)
           \/ \E n, p \in Node : \E layer \in {4, 5} : Fail(n, p, layer)
           \/ \E n, p \in Node : UpdateAll(n, p)
           \/ \E n, p \in Node : UpdateUntilNew(n, p)
           \/ \E n, p \in Node : Greeted(n, p)
           \/ \E n, p \in Node : GreetFails(n, p)
           \/ \E m, n \in Node : HandleList(m, n)
           \/ \E m, n \in Node : HandleAnswer(m, n)
  <1> USE DEF meetingVars, listVars, roundVars, handlerVars, history
  <1>1. \A d \in Data, n \in Node : Register(d, n) => UNCHANGED meetingVars
    BY DEF Register
  <1>2. \A d \in Data, n \in Node : RegisterGroup(d, n) => UNCHANGED meetingVars
    BY DEF RegisterGroup
  <1>3. \A d \in Data, n \in Node : RegisterMap(d, n) => UNCHANGED meetingVars
    BY DEF RegisterMap
  <1>4. \A m, n \in Node : \A d \in Data : HandleGroup(m, n, d) => UNCHANGED meetingVars
    BY DEF HandleGroup
  <1>5. \A m, n \in Node : HandleMap(m, n) => UNCHANGED meetingVars
    BY DEF HandleMap
  <1>6. CASE UNCHANGED vars
    BY <1>6 DEF vars
  <1>7. CASE Next
    <2> HIDE DEF meetingVars
    <2> QED BY <1>1, <1>2, <1>3, <1>4, <1>5, <1>7, StepMeans
  <1> QED BY <1>6, <1>7

(* From the moment the handler has listed the caller, the caller stays     *)
(* listed, unless the handler's server refuses it in its turn.             *)
Mutual(m, n) == n \in Servers(list[m]) \/ n \in refused[m]

MutualInv ==
    /\ \A n, s \in Node : s \in synced[n] => Mutual(s, n)
    /\ \A m, n \in Node : handler[m][n] \in {"data", "answered"} => Mutual(m, n)

(* Steps of which the lists grow and the refusals too.                     *)
LEMMA MutualStays ==
    ASSUME Typed, NEW k \in Node, NEW new, Grown(list[k], list'[k], new),
           \A j \in Node \ {k} : list'[j] = list[j], UNCHANGED refused
    PROVE  \A m, n \in Node : Mutual(m, n) => Mutual(m, n)'
  BY DEF Mutual, Grown

LEMMA NextMutualInv ==
    ASSUME MembershipAssumption, Typed, MutualInv, [Next]_vars
    PROVE  MutualInv'
  <1> USE DEF listVars, dataVars, roundVars, handlerVars, boundVars, history
  <1>1. CASE UNCHANGED <<list, handler, synced, refused>>
    BY <1>1 DEF MutualInv, Mutual
  <1>2. ASSUME NEW k \in Node, NEW new, Grown(list[k], list'[k], new),
               \A j \in Node \ {k} : list'[j] = list[j], UNCHANGED <<synced, refused>>,
               \A m, n \in Node : handler'[m][n] \in {"data", "answered"} =>
                                      handler[m][n] \in {"data", "answered"} \/ Mutual(m, n)'
        PROVE  MutualInv'
    <2>1. \A m, n \in Node : Mutual(m, n) => Mutual(m, n)'
      BY <1>2, MutualStays
    <2> QED BY <1>2, <2>1 DEF MutualInv
  <1>3. ASSUME NEW n \in Node, NEW p \in Node, NEW layer \in {4, 5}, Fail(n, p, layer)
        PROVE  MutualInv'
    <2>1. Grown(list[n], list'[n], {}) /\ \A j \in Node \ {n} : list'[j] = list[j]
      BY <1>3, FailLists
    <2>2. UNCHANGED <<handler, synced, refused>>
      BY <1>3 DEF Fail
    <2> QED BY <1>2, <2>1, <2>2
  <1>4. ASSUME NEW n \in Node, NEW p \in Node, UpdateAll(n, p) PROVE MutualInv'
    <2>1. Grown(list[n], list'[n], {}) /\ \A j \in Node \ {n} : list'[j] = list[j]
      BY <1>4, UpdateAllLists
    <2>2. UNCHANGED <<handler, synced, refused>>
      BY <1>4 DEF UpdateAll
    <2> QED BY <1>2, <2>1, <2>2
  <1>5. ASSUME NEW n \in Node, NEW p \in Node, UpdateUntilNew(n, p) PROVE MutualInv'
    <2>1. PICK s \in Node \ Servers(list[n]) : Learns(n, p, s)
      BY <1>5, UpdateUntilNewLists
    <2>2. \A j \in Node \ {n} : list'[j] = list[j]
      BY <1>5, UpdateUntilNewLists
    <2>3. Grown(list[n], list'[n], {s})
      BY <2>1 DEF Learns
    <2>4. \A x, y \in Node : handler'[x][y] \in {"data", "answered"} =>
                                 handler[x][y] \in {"data", "answered"}
      BY <2>1 DEF Learns, Typed, HandlersOK
    <2>5. UNCHANGED <<synced, refused>>
      BY <1>5 DEF UpdateUntilNew
    <2> QED BY <1>2, <2>2, <2>3, <2>4, <2>5
  <1>6. ASSUME NEW n \in Node, NEW p \in Node, Greeted(n, p) PROVE MutualInv'
    <2>1. greeted[n][p] \in Node /\ handler[greeted[n][p]][n] = "answered"
      BY <1>6 DEF Greeted, Typed, RoundsOK, Steady
    <2>2. \A x, y \in Node : Mutual(x, y) => Mutual(x, y)'
      BY <1>6 DEF Greeted, Mutual
    <2>3. \A x, y \in Node : handler'[x][y] \in {"data", "answered"} =>
                                 handler[x][y] \in {"data", "answered"}
      BY <1>6, <2>1 DEF Greeted, Typed, HandlersOK
    <2>4. \A x, y \in Node : y \in synced'[x] => y \in synced[x] \/ (x = n /\ y = greeted[n][p])
      <3> DEFINE s == greeted[n][p]
      <3>1. synced' = [synced EXCEPT ![n] = @ \union {s}]
        BY <1>6 DEF Greeted
      <3> HIDE DEF s
      <3>2. synced'[n] = synced[n] \union {s} /\ \A x \in Node \ {n} : synced'[x] = synced[x]
        BY <3>1 DEF Typed, HandlersOK
      <3>3. \A x, y \in Node : y \in synced'[x] => y \in synced[x] \/ (x = n /\ y = s)
        BY <3>2
      <3> QED BY <3>3 DEF s
    <2> QED BY <2>1, <2>2, <2>3, <2>4 DEF MutualInv
  <1>7. ASSUME NEW n \in Node, NEW p \in Node, GreetFails(n, p) PROVE MutualInv'
    <2> DEFINE s == greeted[n][p]
    <2>1. s \in Node
      BY <1>7 DEF GreetFails, Typed, RoundsOK, Steady
    <2>2. Shrunk(list[n], list'[n], s) /\ \A j \in Node \ {n} : list'[j] = list[j]
      BY <1>7, GreetFailsLists
    <2>3. synced' = synced /\ refused' = [refused EXCEPT ![n] = @ \union {s}]
      BY <1>7 DEF GreetFails
    <2>4. \A x, y \in Node : handler'[x][y] \in {"data", "answered"} =>
                                 handler[x][y] \in {"data", "answered"}
      BY <1>7, <2>1 DEF GreetFails, Typed, HandlersOK
    <2> HIDE DEF s
    <2>5. ASSUME NEW x \in Node, NEW y \in Node, Mutual(x, y) PROVE Mutual(x, y)'
      <3>1. CASE x = n
        BY <2>2, <2>3, <2>5, <3>1 DEF Shrunk, Mutual, Typed, HandlersOK
      <3>2. CASE x # n
        BY <2>2, <2>3, <2>5, <3>2 DEF Mutual, Typed, HandlersOK
      <3> QED BY <3>1, <3>2
    <2> QED BY <2>3, <2>4, <2>5 DEF MutualInv
  <1>8. ASSUME NEW m \in Node, NEW n \in Node, HandleList(m, n) PROVE MutualInv'
    <2>1. Grown(list[m], list'[m], {n}) /\ \A j \in Node \ {m} : list'[j] = list[j]
      BY <1>8, HandleListLists
    <2>2. Mutual(m, n)'
      BY <2>1 DEF Grown, Mutual
    <2>3. UNCHANGED <<synced, refused>>
      BY <1>8 DEF HandleList
    <2>4. \A x, y \in Node : handler'[x][y] \in {"data", "answered"} =>
                handler[x][y] \in {"data", "answered"} \/ Mutual(x, y)'
      BY <1>8, <2>2 DEF HandleList, Typed, HandlersOK
    <2> QED BY <1>2, <2>1, <2>3, <2>4
  <1>9. ASSUME NEW m \in Node, NEW n \in Node, HandleAnswer(m, n) PROVE MutualInv'
    BY <1>9 DEF HandleAnswer, MutualInv, Mutual, Typed, HandlersOK
  <1>10. \A n \in Node : StartRound(n) => UNCHANGED <<list, handler, synced, refused>>
    BY DEF StartRound
  <1>11. \A n, p \in Node : Reply(n, p) => UNCHANGED <<list, handler, synced, refused>>
    BY DEF Reply
  <1>12. UNCHANGED meetingVars => UNCHANGED <<list, handler, synced, refused>>
    BY DEF meetingVars
  <1> QED BY <1>1, <1>3, <1>4, <1>5, <1>6, <1>7, <1>8, <1>9, <1>10, <1>11, <1>12,
             MeetingStepMeans

(* Who got everything from a server is told what changes there afterwards, *)
(* because it is in that server's list, unless the server refused it       *)
(* (get_kvmeta.rs:24-27, client.rs:401-407).                               *)
THEOREM SyncedStayListed ==
    ASSUME MembershipAssumption
    PROVE  Spec => []SyncedIsMutual
  <1>1. Init => MutualInv
    BY DEF Init, ForPairs, MutualInv
  <1>2. Typed /\ MutualInv /\ [Next]_vars => MutualInv'
    BY NextMutualInv
  <1>3. MutualInv => SyncedIsMutual
    BY DEF MutualInv, Mutual, SyncedIsMutual
  <1> QED BY <1>1, <1>2, <1>3, AlwaysTyped, PTL DEF Spec

-----------------------------------------------------------------------------
(* Why a server is in a list: what ListedForAReason says of one of them.   *)

Met(n, s) == s \in synced[n] \/ s \in refused[n] \/ \E p \in Node : greeted[n][p] = s

Reason(n, s) ==
    \/ s = n \/ s \in ToSet(Configured[n])
    \/ s \in synced[n] \/ \E p \in Node : greeted[n][p] = s
    \/ Met(s, n)

(* A handler runs for a caller that has asked for it.                      *)
ReasonInv ==
    /\ \A n \in Node : \A s \in Servers(list[n]) : Reason(n, s)
    /\ \A m, n \in Node : handler[m][n] # "none" => Met(n, m)

LEMMA ReasonInvMeans == ReasonInv => ListedForAReason
  BY DEF ReasonInv, Reason, Met, ListedForAReason

LEMMA InitReasonInv ==
    ASSUME MembershipAssumption, Init
    PROVE  ReasonInv
  <1> SUFFICES ASSUME NEW n \in Node, NEW s \in Servers(list[n])
               PROVE  s = n \/ s \in ToSet(Configured[n])
    BY DEF ReasonInv, Reason, Init, ForPairs
  <1> DEFINE remote == Configured[n]
             tail == [i \in DOMAIN remote |-> Entry(remote[i])]
             own == <<Entry(n)>>
  <1>1. remote \in Seq(Node)
    BY DEF MembershipAssumption
  <1>2. /\ Len(remote) \in Nat /\ DOMAIN remote = 1 .. Len(remote)
        /\ \A i \in DOMAIN remote : remote[i] \in Node
    BY <1>1, LenProperties
  <1>3. tail \in [1 .. Len(remote) -> MetaServer]
    BY <1>2, EntryType
  <1>4. tail \in Seq(MetaServer) /\ Len(tail) = Len(remote)
    BY <1>2, <1>3
  <1>5. own \in Seq(MetaServer) /\ Len(own) = 1 /\ own[1] = Entry(n)
    BY EntryType
  <1>6. list[n] = own \o tail
    BY DEF Init
  <1>7. \A i \in DOMAIN remote : tail[i].srv = remote[i]
    BY DEF Entry
  <1> HIDE DEF own, tail
  <1>8. /\ list[n] \in Seq(MetaServer) /\ Len(list[n]) = 1 + Len(remote)
        /\ \A i \in 1 .. 1 + Len(remote) : list[n][i] = IF i <= 1 THEN own[i] ELSE tail[i - 1]
    <2>1. /\ own \o tail \in Seq(MetaServer)
          /\ Len(own \o tail) = Len(own) + Len(tail)
          /\ \A i \in 1 .. Len(own) + Len(tail) :
                (own \o tail)[i] = IF i <= Len(own) THEN own[i] ELSE tail[i - Len(own)]
      BY <1>4, <1>5, ConcatProperties
    <2> QED BY <1>4, <1>5, <1>6, <2>1
  <1>9. DOMAIN list[n] = 1 .. 1 + Len(remote)
    BY <1>8, LenProperties
  <1>10. PICK i \in 1 .. 1 + Len(remote) : s = list[n][i].srv
    BY <1>9 DEF Servers
  <1>11. CASE i = 1
    BY <1>5, <1>8, <1>10, <1>11 DEF Entry
  <1>12. CASE i # 1
    <2>1. i - 1 \in DOMAIN remote /\ list[n][i] = tail[i - 1]
      BY <1>2, <1>8, <1>12
    <2> QED BY <1>7, <1>10, <2>1 DEF ToSet
  <1> QED BY <1>11, <1>12

(* Steps after which every reason and every meeting is still there, and    *)
(* the one list that grows has a reason for what is new.                   *)
LEMMA ReasonStays ==
    ASSUME Typed, ReasonInv, NEW k \in Node, NEW new \in SUBSET Node,
           Grown(list[k], list'[k], new), \A j \in Node \ {k} : list'[j] = list[j],
           \A n, s \in Node : Met(n, s) => Met(n, s)',
           \A n, s \in Node : Reason(n, s) => Reason(n, s)',
           \A s \in new : Reason(k, s)',
           \A m, n \in Node : handler'[m][n] # "none" => handler[m][n] # "none" \/ Met(n, m)'
    PROVE  ReasonInv'
  <1>1. ASSUME NEW n \in Node, NEW s \in Servers(list'[n]) PROVE Reason(n, s)'
    <2>1. Servers(list[n]) \subseteq Node
      BY ListType DEF Typed, ListsOK
    <2>2. s \in Servers(list[n]) \/ (n = k /\ s \in new)
      <3>1. CASE n = k
        BY <1>1, <3>1 DEF Grown
      <3>2. CASE n # k
        BY <1>1, <3>2
      <3> QED BY <3>1, <3>2
    <2> QED BY <2>1, <2>2 DEF ReasonInv
  <1>2. \A m, n \in Node : handler'[m][n] # "none" => Met(n, m)'
    BY DEF ReasonInv
  <1>3. \A n \in Node : Servers(list[n])' = Servers(list'[n])
    BY DEF Servers
  <1> QED BY <1>1, <1>2, <1>3 DEF ReasonInv

LEMMA NextReasonInv ==
    ASSUME MembershipAssumption, Typed, ReasonInv, [Next]_vars
    PROVE  ReasonInv'
  <1> USE DEF listVars, dataVars, roundVars, handlerVars, boundVars, history
  <1>1. ASSUME UNCHANGED <<greeted, synced, refused>>
        PROVE  /\ \A n, s \in Node : Met(n, s) => Met(n, s)'
               /\ \A n, s \in Node : Reason(n, s) => Reason(n, s)'
    BY <1>1 DEF Met, Reason
  <1>2. ASSUME UNCHANGED <<list, greeted, synced, refused>>,
               \A m, n \in Node : handler'[m][n] # "none" => handler[m][n] # "none"
        PROVE  ReasonInv'
    BY <1>2 DEF ReasonInv, Met, Reason
  <1>3. ASSUME NEW n \in Node, NEW p \in Node, NEW layer \in {4, 5}, Fail(n, p, layer)
        PROVE  ReasonInv'
    <2>1. Grown(list[n], list'[n], {}) /\ \A j \in Node \ {n} : list'[j] = list[j]
      BY <1>3, FailLists
    <2>2. UNCHANGED <<handler, greeted, synced, refused>>
      BY <1>3 DEF Fail
    <2> QED BY <1>1, <2>1, <2>2, ReasonStays
  <1>4. ASSUME NEW n \in Node, NEW p \in Node, UpdateAll(n, p) PROVE ReasonInv'
    <2>1. Grown(list[n], list'[n], {}) /\ \A j \in Node \ {n} : list'[j] = list[j]
      BY <1>4, UpdateAllLists
    <2>2. UNCHANGED <<handler, greeted, synced, refused>>
      BY <1>4 DEF UpdateAll
    <2> QED BY <1>1, <2>1, <2>2, ReasonStays
  <1>5. ASSUME NEW n \in Node, NEW p \in Node, UpdateUntilNew(n, p) PROVE ReasonInv'
    <2>1. PICK s \in Node \ Servers(list[n]) : Learns(n, p, s)
      BY <1>5, UpdateUntilNewLists
    <2>2. \A j \in Node \ {n} : list'[j] = list[j]
      BY <1>5, UpdateUntilNewLists
    <2>3. Grown(list[n], list'[n], {s}) /\ greeted[n][p] = None
      BY <2>1 DEF Learns, Typed, Steady
    <2>4. UNCHANGED <<synced, refused>>
      BY <1>5 DEF UpdateUntilNew
    <2>5. \A x, q, y \in Node : greeted[x][q] = y => greeted'[x][q] = y
      BY <2>1, <2>3 DEF Learns, Typed, RoundsOK, MembershipAssumption
    <2>6. greeted'[n][p] = s
      BY <2>1 DEF Learns, Typed, RoundsOK
    <2>7. \A x, y \in Node : Met(x, y) => Met(x, y)'
      BY <2>4, <2>5 DEF Met
    <2>8. \A x, y \in Node : Reason(x, y) => Reason(x, y)'
      BY <2>4, <2>5, <2>7 DEF Reason
    <2>9. Reason(n, s)' /\ Met(n, s)'
      BY <2>6 DEF Reason, Met
    <2>10. \A x, y \in Node : handler'[x][y] # "none" => handler[x][y] # "none" \/ Met(y, x)'
      BY <2>1, <2>9 DEF Learns, Typed, HandlersOK
    <2> QED BY <2>2, <2>3, <2>7, <2>8, <2>9, <2>10, ReasonStays
  <1>6. ASSUME NEW n \in Node, NEW p \in Node, Greeted(n, p) PROVE ReasonInv'
    <2> DEFINE s == greeted[n][p]
    <2>1. s \in Node
      BY <1>6 DEF Greeted, Typed, RoundsOK, Steady
    <2>2. /\ list' = list /\ refused' = refused
          /\ synced' = [synced EXCEPT ![n] = @ \union {s}]
          /\ greeted' = [greeted EXCEPT ![n][p] = None]
      BY <1>6 DEF Greeted, GreetingOver
    <2>3. \A x, y \in Node : handler'[x][y] # "none" => handler[x][y] # "none"
      BY <1>6, <2>1 DEF Greeted, Typed, HandlersOK
    <2>4. \A x, q \in Node : greeted'[x][q] = greeted[x][q] \/ (x = n /\ greeted[x][q] = s)
      <3>1. \A x, q \in Node : greeted'[x][q] = greeted[x][q] \/ (x = n /\ q = p)
        BY <2>2 DEF Typed, RoundsOK
      <3> QED BY <3>1
    <2>5. s \in synced'[n] /\ \A x \in Node : synced[x] \subseteq synced'[x]
      <3> HIDE DEF s
      <3> QED BY <2>2 DEF Typed, HandlersOK
    <2> HIDE DEF s
    <2>6. \A x, y \in Node : Met(x, y) => Met(x, y)'
      BY <2>2, <2>4, <2>5 DEF Met
    <2>7. \A x, y \in Node : Reason(x, y) => Reason(x, y)'
      BY <2>4, <2>5, <2>6 DEF Reason
    <2>8. Grown(list[n], list'[n], {})
      BY <2>2 DEF Grown, Typed, ListsOK
    <2> QED BY <2>2, <2>3, <2>6, <2>7, <2>8, ReasonStays
  <1>7. ASSUME NEW n \in Node, NEW p \in Node, GreetFails(n, p) PROVE ReasonInv'
    <2> DEFINE s == greeted[n][p]
    <2>1. s \in Node
      BY <1>7 DEF GreetFails, Typed, RoundsOK, Steady
    <2>2. Shrunk(list[n], list'[n], s) /\ \A j \in Node \ {n} : list'[j] = list[j]
      BY <1>7, GreetFailsLists
    <2>3. /\ synced' = synced
          /\ refused' = [refused EXCEPT ![n] = @ \union {s}]
          /\ greeted' = [greeted EXCEPT ![n][p] = None]
      BY <1>7 DEF GreetFails, GreetingOver
    <2>4. \A x, y \in Node : handler'[x][y] # "none" => handler[x][y] # "none"
      BY <1>7, <2>1 DEF GreetFails, Typed, HandlersOK
    <2>5. \A x, q \in Node : greeted'[x][q] = greeted[x][q] \/ (x = n /\ greeted[x][q] = s)
      <3>1. \A x, q \in Node : greeted'[x][q] = greeted[x][q] \/ (x = n /\ q = p)
        BY <2>3 DEF Typed, RoundsOK
      <3> QED BY <3>1
    <2>6. s \in refused'[n] /\ \A x \in Node : refused[x] \subseteq refused'[x]
      <3> HIDE DEF s
      <3> QED BY <2>3 DEF Typed, HandlersOK
    <2> HIDE DEF s
    <2>7. \A x, y \in Node : Met(x, y) => Met(x, y)'
      BY <2>3, <2>5, <2>6 DEF Met
    <2>8. ASSUME NEW x \in Node, NEW y \in Node, Reason(x, y), ~(x = n /\ y = s)
          PROVE  Reason(x, y)'
      <3>1. \A q \in Node : greeted[x][q] = y => greeted'[x][q] = y
        BY <2>5, <2>8
      <3> QED BY <2>3, <2>7, <2>8, <3>1 DEF Reason
    <2>9. ASSUME NEW x \in Node, NEW y \in Servers(list'[x]) PROVE Reason(x, y)'
      <3>1. Servers(list[x]) \subseteq Node
        BY ListType DEF Typed, ListsOK
      <3>2. y \in Servers(list[x]) /\ ~(x = n /\ y = s)
        BY <2>2, <2>9 DEF Shrunk
      <3> QED BY <2>8, <3>1, <3>2 DEF ReasonInv
    <2>10. \A x, y \in Node : handler'[x][y] # "none" => Met(y, x)'
      BY <2>4, <2>7 DEF ReasonInv
    <2>11. \A x \in Node : Servers(list[x])' = Servers(list'[x])
      BY DEF Servers
    <2> QED BY <2>9, <2>10, <2>11 DEF ReasonInv
  <1>8. ASSUME NEW m \in Node, NEW n \in Node, HandleList(m, n) PROVE ReasonInv'
    <2>1. Grown(list[m], list'[m], {n}) /\ \A j \in Node \ {m} : list'[j] = list[j]
      BY <1>8, HandleListLists
    <2>2. UNCHANGED <<greeted, synced, refused>> /\ handler[m][n] = "list"
      BY <1>8 DEF HandleList
    <2>3. \A x, y \in Node : handler'[x][y] # "none" => handler[x][y] # "none"
      BY <1>8 DEF HandleList, Typed, HandlersOK
    <2>4. Reason(m, n)
      BY <2>2 DEF ReasonInv, Reason
    <2> QED BY <1>1, <2>1, <2>2, <2>3, <2>4, ReasonStays
  <1>9. ASSUME NEW m \in Node, NEW n \in Node, HandleAnswer(m, n) PROVE ReasonInv'
    <2>1. \A x, y \in Node : handler'[x][y] # "none" => handler[x][y] # "none"
      BY <1>9 DEF HandleAnswer, Typed, HandlersOK
    <2>2. UNCHANGED <<list, greeted, synced, refused>>
      BY <1>9 DEF HandleAnswer
    <2> QED BY <1>2, <2>1, <2>2
  <1>10. ASSUME UNCHANGED <<list, greeted, handler, synced, refused>> PROVE ReasonInv'
    BY <1>2, <1>10
  <1>11. \A n \in Node : StartRound(n) => UNCHANGED <<list, greeted, handler, synced, refused>>
    BY DEF StartRound
  <1>12. \A n, p \in Node : Reply(n, p) => UNCHANGED <<list, greeted, handler, synced, refused>>
    BY DEF Reply
  <1>13. UNCHANGED meetingVars => UNCHANGED <<list, greeted, handler, synced, refused>>
    BY DEF meetingVars
  <1> QED BY <1>3, <1>4, <1>5, <1>6, <1>7, <1>8, <1>9, <1>10, <1>11, <1>12, <1>13,
             MeetingStepMeans

(* A list holds no server from which the blocks could not be got: the      *)
(* server itself, the configured ones, those synchronised with and those   *)
(* that introduced themselves (client.rs:401-407, get_kvmeta.rs:24-27).    *)
THEOREM NobodyListedInVain ==
    ASSUME MembershipAssumption
    PROVE  Spec => []ListedForAReason
  <1>1. Init => ReasonInv
    BY InitReasonInv
  <1>2. Typed /\ ReasonInv /\ [Next]_vars => ReasonInv'
    BY NextReasonInv
  <1>3. ReasonInv => ListedForAReason
    BY ReasonInvMeans
  <1> QED BY <1>1, <1>2, <1>3, AlwaysTyped, PTL DEF Spec

-----------------------------------------------------------------------------
(* Places.  The list begins with the servers of the clone, at the same     *)
(* places: new ones go to its end, and what a failed synchronisation takes *)
(* out is never one of the clone.                                          *)

InPlace(n) ==
    \A i \in DOMAIN clone[n] : i \in DOMAIN list[n] /\ list[n][i].srv = clone[n][i].srv

PlaceInv ==
    /\ \A n \in Node : InPlace(n)
    /\ \A n, p \in Node : greeted[n][p] # None => greeted[n][p] \notin Servers(clone[n])
    /\ \A n, p \in Node : call[n][p] = "sent" => p \in Servers(clone[n])

LEMMA PlaceInvMeans ==
    ASSUME PlaceInv
    PROVE  IndexStillRight
  <1> SUFFICES ASSUME NEW n \in Node, NEW p \in Node, call[n][p] = "sent"
               PROVE  /\ Position(clone[n], p) \in DOMAIN list[n]
                      /\ list[n][Position(clone[n], p)].srv = p
    BY DEF IndexStillRight
  <1>1. p \in Servers(clone[n])
    BY DEF PlaceInv
  <1>2. Position(clone[n], p) \in DOMAIN clone[n] /\ clone[n][Position(clone[n], p)].srv = p
    BY <1>1, PositionOf
  <1> QED BY <1>2 DEF PlaceInv, InPlace

(* Steps that start no call and leave the places as they are.              *)
LEMMA PlaceStays ==
    ASSUME PlaceInv, UNCHANGED clone, \A n \in Node : InPlace(n)',
           \A n, p \in Node : greeted'[n][p] \in {greeted[n][p], None}
                                  \/ greeted'[n][p] \notin Servers(clone[n]),
           \A n, p \in Node : call'[n][p] = "sent" => call[n][p] = "sent"
    PROVE  PlaceInv'
  <1>1. \A n, p \in Node : greeted'[n][p] # None => greeted'[n][p] \notin Servers(clone[n])
    BY DEF PlaceInv
  <1>2. \A n, p \in Node : call'[n][p] = "sent" => p \in Servers(clone[n])
    BY DEF PlaceInv
  <1>3. \A n \in Node : Servers(clone[n])' = Servers(clone[n])
    BY DEF Servers
  <1> QED BY <1>1, <1>2, <1>3 DEF PlaceInv

LEMMA GrownInPlace ==
    ASSUME PlaceInv, UNCHANGED clone, NEW k \in Node, NEW new, Grown(list[k], list'[k], new),
           \A j \in Node \ {k} : list'[j] = list[j]
    PROVE  \A n \in Node : InPlace(n)'
  <1> SUFFICES ASSUME NEW n \in Node PROVE InPlace(n)'
    OBVIOUS
  <1>1. InPlace(n)
    BY DEF PlaceInv
  <1>2. CASE n = k
    BY <1>1, <1>2 DEF InPlace, Grown
  <1>3. CASE n # k
    BY <1>1, <1>3 DEF InPlace
  <1> QED BY <1>2, <1>3

LEMMA ShrunkInPlace ==
    ASSUME Typed, PlaceInv, UNCHANGED clone, NEW k \in Node, NEW old \in Node \ Servers(clone[k]),
           Shrunk(list[k], list'[k], old), \A j \in Node \ {k} : list'[j] = list[j]
    PROVE  \A n \in Node : InPlace(n)'
  <1> SUFFICES ASSUME NEW n \in Node PROVE InPlace(n)'
    OBVIOUS
  <1>1. InPlace(n)
    BY DEF PlaceInv
  <1>2. CASE n = k
    <2> DEFINE m == Len(clone[k])
    <2>1. m \in Nat /\ DOMAIN clone[k] = 1 .. m
      BY ListType DEF Typed, RoundsOK
    <2>2. Len(list[k]) \in Nat /\ DOMAIN list[k] = 1 .. Len(list[k])
      BY ListType DEF Typed, ListsOK
    <2> HIDE DEF m
    <2>3. \A i \in 1 .. m : i \in 1 .. Len(list[k]) /\ list[k][i].srv = clone[k][i].srv
      BY <1>1, <1>2, <2>1, <2>2 DEF InPlace
    <2>4. m <= Len(list[k])
      <3>1. m # 0 => m \in 1 .. m
        BY <2>1
      <3> QED BY <2>1, <2>2, <2>3, <3>1
    <2>5. \A i \in 1 .. m : list[k][i].srv # old
      BY <2>1, <2>3 DEF Servers
    <2>6. \A i \in 1 .. m : i \in DOMAIN list'[k] /\ list'[k][i] = list[k][i]
      BY <2>1, <2>4, <2>5 DEF Shrunk
    <2> QED BY <1>2, <2>1, <2>3, <2>6 DEF InPlace
  <1>3. CASE n # k
    BY <1>1, <1>3 DEF InPlace
  <1> QED BY <1>2, <1>3

LEMMA NextPlaceInv ==
    ASSUME MembershipAssumption, Typed, PlaceInv, [Next]_vars
    PROVE  PlaceInv'
  <1> USE DEF listVars, dataVars, roundVars, handlerVars, boundVars, history
  <1>1. CASE UNCHANGED <<list, clone, call, greeted>>
    BY <1>1 DEF PlaceInv, InPlace
  <1>2. ASSUME NEW n \in Node, StartRound(n) PROVE PlaceInv'
    <2>1. /\ clone' = [clone EXCEPT ![n] = list[n]]
          /\ UNCHANGED <<list, greeted>>
          /\ call' = [call EXCEPT ![n] = [p \in Node |-> IF p \in Called(n) THEN "sent"
                                                         ELSE "none"]]
      BY <1>2 DEF StartRound
    <2>2. clone'[n] = list[n] /\ \A j \in Node \ {n} : clone'[j] = clone[j]
      BY <2>1 DEF Typed, RoundsOK
    <2>3. \A j \in Node : InPlace(j)'
      BY <2>1, <2>2 DEF PlaceInv, InPlace
    <2>4. \A p \in Node : greeted[n][p] = None
      BY <1>2 DEF StartRound, Idle, Typed, Steady
    <2>5. \A j, p \in Node : greeted'[j][p] # None => greeted'[j][p] \notin Servers(clone'[j])
      BY <2>1, <2>2, <2>4 DEF PlaceInv
    <2>6. \A p \in Called(n) : p \in Servers(list[n])
      BY DEF Called, ToSet, Servers
    <2>7. ASSUME NEW j \in Node, NEW p \in Node, call'[j][p] = "sent"
          PROVE  p \in Servers(clone'[j])
      <3>1. CASE j = n
        <4>1. p \in Called(n)
          BY <2>1, <2>7, <3>1 DEF Typed, RoundsOK
        <4> QED BY <2>2, <2>6, <3>1, <4>1
      <3>2. CASE j # n
        <4>1. call[j][p] = "sent"
          BY <2>1, <2>7, <3>2 DEF Typed, RoundsOK
        <4> QED BY <2>2, <3>2, <4>1 DEF PlaceInv
      <3> QED BY <3>1, <3>2
    <2>8. \A j \in Node : Servers(clone[j])' = Servers(clone'[j])
      BY DEF Servers
    <2> QED BY <2>3, <2>5, <2>7, <2>8 DEF PlaceInv
  <1>3. ASSUME NEW n \in Node, NEW p \in Node, Reply(n, p) PROVE PlaceInv'
    <2>1. UNCHANGED <<list, clone, greeted>>
      BY <1>3 DEF Reply
    <2>2. \A j, q \in Node : call'[j][q] = "sent" => call[j][q] = "sent"
      BY <1>3 DEF Reply, Typed, RoundsOK
    <2>3. \A j \in Node : InPlace(j)'
      BY <2>1 DEF PlaceInv, InPlace
    <2> QED BY <2>1, <2>2, <2>3, PlaceStays
  <1>4. ASSUME NEW n \in Node, NEW p \in Node, NEW layer \in {4, 5}, Fail(n, p, layer)
        PROVE  PlaceInv'
    <2>1. Grown(list[n], list'[n], {}) /\ \A j \in Node \ {n} : list'[j] = list[j]
      BY <1>4, FailLists
    <2>2. UNCHANGED <<clone, greeted>>
      BY <1>4 DEF Fail
    <2>3. \A j, q \in Node : call'[j][q] = "sent" => call[j][q] = "sent"
      BY <1>4 DEF Fail, Typed, RoundsOK
    <2> QED BY <2>1, <2>2, <2>3, GrownInPlace, PlaceStays
  <1>5. ASSUME NEW n \in Node, NEW p \in Node, UpdateAll(n, p) PROVE PlaceInv'
    <2>1. Grown(list[n], list'[n], {}) /\ \A j \in Node \ {n} : list'[j] = list[j]
      BY <1>5, UpdateAllLists
    <2>2. UNCHANGED <<clone, greeted>>
      BY <1>5 DEF UpdateAll
    <2>3. \A j, q \in Node : call'[j][q] = "sent" => call[j][q] = "sent"
      BY <1>5 DEF UpdateAll, Typed, RoundsOK
    <2> QED BY <2>1, <2>2, <2>3, GrownInPlace, PlaceStays
  <1>6. ASSUME NEW n \in Node, NEW p \in Node, UpdateUntilNew(n, p) PROVE PlaceInv'
    <2>1. PICK s \in Node \ Servers(list[n]) : Learns(n, p, s)
      BY <1>6, UpdateUntilNewLists
    <2>2. \A j \in Node \ {n} : list'[j] = list[j]
      BY <1>6, UpdateUntilNewLists
    <2>3. Grown(list[n], list'[n], {s})
      BY <2>1 DEF Learns
    <2>4. UNCHANGED clone
      BY <1>6 DEF UpdateUntilNew
    <2>5. \A j, q \in Node : call'[j][q] = "sent" => call[j][q] = "sent"
      BY <2>1 DEF Learns, Typed, RoundsOK
    <2>6. s \notin Servers(clone[n])
      BY DEF PlaceInv, InPlace, Servers
    <2>7. \A j, q \in Node : greeted'[j][q] = greeted[j][q] \/ (j = n /\ greeted'[j][q] = s)
      BY <2>1 DEF Learns, Typed, RoundsOK
    <2> QED BY <2>2, <2>3, <2>4, <2>5, <2>6, <2>7, GrownInPlace, PlaceStays
  <1>7. ASSUME NEW n \in Node, NEW p \in Node, Greeted(n, p) PROVE PlaceInv'
    <2>1. UNCHANGED <<list, clone>>
      BY <1>7 DEF Greeted
    <2>2. \A j, q \in Node : call'[j][q] = "sent" => call[j][q] = "sent"
      BY <1>7 DEF Greeted, GreetingOver, Typed, RoundsOK
    <2>3. \A j, q \in Node : greeted'[j][q] \in {greeted[j][q], None}
      BY <1>7 DEF Greeted, GreetingOver, Typed, RoundsOK
    <2>4. \A j \in Node : InPlace(j)'
      BY <2>1 DEF PlaceInv, InPlace
    <2> QED BY <2>1, <2>2, <2>3, <2>4, PlaceStays
  <1>8. ASSUME NEW n \in Node, NEW p \in Node, GreetFails(n, p) PROVE PlaceInv'
    <2>1. /\ Shrunk(list[n], list'[n], greeted[n][p])
          /\ \A j \in Node \ {n} : list'[j] = list[j]
      BY <1>8, GreetFailsLists
    <2>2. greeted[n][p] \in Node /\ greeted[n][p] \notin Servers(clone[n])
      BY <1>8 DEF GreetFails, Typed, RoundsOK, Steady, PlaceInv
    <2>3. UNCHANGED clone
      BY <1>8 DEF GreetFails
    <2>4. \A j, q \in Node : call'[j][q] = "sent" => call[j][q] = "sent"
      BY <1>8 DEF GreetFails, GreetingOver, Typed, RoundsOK
    <2>5. \A j, q \in Node : greeted'[j][q] \in {greeted[j][q], None}
      BY <1>8 DEF GreetFails, GreetingOver, Typed, RoundsOK
    <2>6. \A j \in Node : InPlace(j)'
      BY <2>1, <2>2, <2>3, ShrunkInPlace
    <2> QED BY <2>3, <2>4, <2>5, <2>6, PlaceStays
  <1>9. ASSUME NEW m \in Node, NEW n \in Node, HandleList(m, n) PROVE PlaceInv'
    <2>1. Grown(list[m], list'[m], {n}) /\ \A j \in Node \ {m} : list'[j] = list[j]
      BY <1>9, HandleListLists
    <2>2. UNCHANGED <<clone, call, greeted>>
      BY <1>9 DEF HandleList
    <2> QED BY <2>1, <2>2, GrownInPlace, PlaceStays
  <1>10. \A m, n \in Node : HandleAnswer(m, n) => UNCHANGED <<list, clone, call, greeted>>
    BY DEF HandleAnswer
  <1>11. UNCHANGED meetingVars => UNCHANGED <<list, clone, call, greeted>>
    BY DEF meetingVars
  <1> QED BY <1>1, <1>2, <1>3, <1>4, <1>5, <1>6, <1>7, <1>8, <1>9, <1>10, <1>11,
             MeetingStepMeans

(* The index taken from a clone of the list marks the server that was      *)
(* called and no other, whatever is learned, introduced and taken out      *)
(* while the call is out (client.rs:309, 343, 367, 401-405, 437-442).      *)
THEOREM IndexMarksTheCalled ==
    ASSUME MembershipAssumption
    PROVE  Spec => []IndexStillRight
  <1>1. Init => PlaceInv
    BY DEF Init, ForPairs, PlaceInv, InPlace
  <1>2. Typed /\ PlaceInv /\ [Next]_vars => PlaceInv'
    BY NextPlaceInv
  <1>3. PlaceInv => IndexStillRight
    BY PlaceInvMeans
  <1> QED BY <1>1, <1>2, <1>3, AlwaysTyped, PTL DEF Spec
=============================================================================
