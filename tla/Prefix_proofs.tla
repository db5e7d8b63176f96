----------------------------- MODULE Prefix_proofs -----------------------------
(***************************************************************************)
(* Theorems about the prefixes of a token sequence: that the hash of a     *)
(* block names the prefix it ends (TokenHash), for any tokens, block size  *)
(* and width of a digest; and that a search credits the servers that hold  *)
(* a prefix (Search), for any query, any servers and any number of changes *)
(* of the table.                                                           *)
(***************************************************************************)
EXTENDS Search, TokenHash, SequenceTheorems, WellFoundedInduction, TLAPS

(* Searches.                                                               *)
LEMMA QueryType ==
    ASSUME SearchAssumption
    PROVE  /\ Len(Query) \in Nat /\ DOMAIN Query = 1 .. Len(Query)
           /\ \A k \in 1 .. Len(Query) : Query[k] \in StoredHash
           /\ Query = <<>> <=> Len(Query) = 0
  BY LenProperties, EmptySeq DEF SearchAssumption

-----------------------------------------------------------------------------
(* Types.  While the search walks, it is at a place of the query.          *)

Record == [servers : SUBSET Server, next : SUBSET StoredHash]

Typed ==
    /\ SearchTypeOK
    /\ table \in [StoredHash -> Record] /\ always \in [StoredHash -> Record]
    /\ ever \in [StoredHash -> Record]
    /\ place \in Nat \ {0}
    /\ progress = "walk" => place <= Len(Query)
    /\ progress \in {"answer", "done"} => place <= Len(Query) \/ Len(Query) = 0
    /\ progress = "ready" => place = 1 /\ \A s \in Server : credit[s] = {}

LEMMA EntryIsRecord ==
    ASSUME SearchAssumption, NEW h \in StoredHash
    PROVE  BlockEntry(h) \subseteq Record
  <1>1. Follower(h) \subseteq StoredHash
    BY QueryType DEF Follower
  <1> QED BY <1>1 DEF BlockEntry, Record

LEMMA InitTypes ==
    ASSUME SearchAssumption, SearchInit
    PROVE  Typed
  <1>1. table \in [StoredHash -> Record] /\ \A h \in StoredHash : table[h] \in BlockEntry(h)
    BY EntryIsRecord DEF SearchInit
  <1>2. always = table /\ ever = table
    BY DEF SearchInit
  <1>3. SearchTypeOK
    BY <1>1 DEF SearchInit, SearchTypeOK
  <1>4. /\ place = 1 /\ progress = "ready" /\ \A s \in Server : credit[s] = {}
    BY DEF SearchInit
  <1> QED BY <1>1, <1>2, <1>3, <1>4 DEF Typed

LEMMA NextTypes ==
    ASSUME SearchAssumption, Typed, [SearchNext]_searchVars
    PROVE  Typed'
  <1> USE QueryType DEF Typed, SearchTypeOK
  <1>1. CASE StartWalk
    <2>1. progress' \in {"walk", "answer"} /\ (progress' = "walk" => 1 <= Len(Query))
                                           /\ (progress' = "answer" => Len(Query) = 0)
      BY <1>1 DEF StartWalk
    <2>2. place = 1 /\ UNCHANGED <<table, asked, place, credit, answer, always, ever>>
      BY <1>1 DEF StartWalk
    <2>3. SearchTypeOK'
      BY <2>1, <2>2 DEF BlockEntry
    <2> QED BY <2>1, <2>2, <2>3
  <1>2. CASE Walk
    <2>1. place \in DOMAIN Query /\ UNCHANGED <<table, asked, answer, always, ever>>
      BY <1>2 DEF Walk
    <2>2. credit' \in [Server -> SUBSET DOMAIN Query]
      BY <1>2, <2>1 DEF Walk
    <2>3. \/ progress' = "walk" /\ place' = place + 1 /\ place + 1 <= Len(Query)
          \/ progress' = "answer" /\ place' = place
      BY <1>2 DEF Walk
    <2>4. SearchTypeOK'
      BY <2>1, <2>2, <2>3 DEF BlockEntry
    <2> QED BY <2>1, <2>3, <2>4
  <1>3. CASE AnswerSearch
    <2>1. /\ UNCHANGED <<table, asked, place, credit, always, ever>>
          /\ progress = "answer" /\ progress' = "done" /\ answer' \subseteq Server
      <3>1. answer' \subseteq { s \in Reachable : credit[s] # {} }
        BY <1>3 DEF AnswerSearch, Named
      <3> QED BY <1>3, <3>1 DEF AnswerSearch, SearchAssumption
    <2> QED BY <2>1 DEF BlockEntry
  <1>4. ASSUME NEW h \in StoredHash, NEW entry \in BlockEntry(h), Change(h, entry) PROVE Typed'
    <2>1. entry \in Record /\ Record = [servers : SUBSET Server, next : SUBSET StoredHash]
      BY EntryIsRecord DEF Record
    <2>2. UNCHANGED <<asked, place, credit, answer, progress>>
      BY <1>4 DEF Change
    <2>3. /\ table' = [table EXCEPT ![h] = entry]
          /\ always' = [always EXCEPT ![h] = [servers |-> @.servers \intersect entry.servers,
                                              next |-> @.next \intersect entry.next]]
          /\ ever' = [ever EXCEPT ![h] = [servers |-> @.servers \union entry.servers,
                                          next |-> @.next \union entry.next]]
      BY <1>4 DEF Change
    <2>4. \A g \in StoredHash : table'[g] \in BlockEntry(g)
      BY <2>3
    <2>5. /\ table' \in [StoredHash -> Record] /\ always' \in [StoredHash -> Record]
          /\ ever' \in [StoredHash -> Record]
      BY <2>1, <2>3
    <2>6. \A g \in StoredHash : BlockEntry(g)' = BlockEntry(g)
      BY DEF BlockEntry, Follower
    <2> QED BY <2>2, <2>4, <2>5, <2>6
  <1>5. CASE UNCHANGED searchVars
    BY <1>5 DEF searchVars, BlockEntry
  <1> QED BY <1>1, <1>2, <1>3, <1>4, <1>5 DEF SearchNext, ChangeEntry

LEMMA AlwaysTyped ==
    ASSUME SearchAssumption
    PROVE  SearchSpec => []Typed
  <1>1. SearchInit => Typed
    BY InitTypes
  <1>2. Typed /\ [SearchNext]_searchVars => Typed'
    BY NextTypes
  <1> QED BY <1>1, <1>2, PTL DEF SearchSpec

(* The walk never leaves the query, and what it credits are its places     *)
(* (lib.rs:662-701).                                                       *)
THEOREM SearchTypesCorrect ==
    ASSUME SearchAssumption
    PROVE  SearchSpec => []SearchTypeOK
  <1>1. Typed => SearchTypeOK
    BY DEF Typed
  <1> QED BY <1>1, AlwaysTyped, PTL

-----------------------------------------------------------------------------
(* What the walk has seen.  The history brackets the table; every place it *)
(* has passed is credited to the servers that have always held the block;  *)
(* it came there over links that existed at some time, and credited nobody *)
(* who was never listed; and where it stopped, no link has always existed. *)

Bracketed ==
    \A h \in StoredHash :
        /\ always[h].servers \subseteq table[h].servers
        /\ table[h].servers \subseteq ever[h].servers
        /\ always[h].next \subseteq table[h].next
        /\ table[h].next \subseteq ever[h].next

(* The walk has passed places up to this one.                              *)
Passed(n) == n \in DOMAIN Query /\ (n < place \/ (n = place /\ progress \in {"answer", "done"}))

PassedCredited ==
    \A s \in Server, n \in DOMAIN Query :
        Passed(n) /\ s \in always[Query[n]].servers => n \in credit[s]

CreditFounded ==
    \A s \in Server, n \in DOMAIN Query :
        n \in credit[s] => n <= place /\ s \in ever[Query[n]].servers

LinksFollowed ==
    \A k \in 2 .. place : k \in DOMAIN Query /\ Query[k] \in ever[Query[k - 1]].next

StoppedForAReason ==
    progress \in {"answer", "done"} /\ place < Len(Query) =>
        Query[place + 1] \notin always[Query[place]].next

WalkInv ==
    Bracketed /\ PassedCredited /\ CreditFounded /\ LinksFollowed /\ StoppedForAReason

LEMMA InitWalk ==
    ASSUME SearchAssumption, SearchInit
    PROVE  WalkInv
  <1>1. Bracketed
    BY DEF SearchInit, Bracketed
  <1>2. PassedCredited
    BY QueryType DEF SearchInit, PassedCredited, Passed
  <1>3. CreditFounded /\ LinksFollowed /\ StoppedForAReason
    BY DEF SearchInit, CreditFounded, LinksFollowed, StoppedForAReason
  <1> QED BY <1>1, <1>2, <1>3 DEF WalkInv

(* The table changes: what was always so shrinks, what was ever so grows.  *)
LEMMA ChangeKeeps ==
    ASSUME SearchAssumption, Typed, WalkInv,
           NEW h \in StoredHash, NEW entry \in BlockEntry(h), Change(h, entry)
    PROVE  WalkInv'
  <1>1. UNCHANGED <<place, credit, progress>>
    BY DEF Change
  <1>2. /\ table' = [table EXCEPT ![h] = entry]
        /\ always' = [always EXCEPT ![h] = [servers |-> @.servers \intersect entry.servers,
                                            next |-> @.next \intersect entry.next]]
        /\ ever' = [ever EXCEPT ![h] = [servers |-> @.servers \union entry.servers,
                                        next |-> @.next \union entry.next]]
    BY DEF Change
  <1>3. /\ \A g \in StoredHash \ {h} :
            table'[g] = table[g] /\ always'[g] = always[g] /\ ever'[g] = ever[g]
        /\ table'[h] = entry
        /\ always'[h].servers = always[h].servers \intersect entry.servers
        /\ always'[h].next = always[h].next \intersect entry.next
        /\ ever'[h].servers = ever[h].servers \union entry.servers
        /\ ever'[h].next = ever[h].next \union entry.next
    BY <1>2 DEF Typed
  <1>4. \A g \in StoredHash : /\ always'[g].servers \subseteq always[g].servers
                              /\ always'[g].next \subseteq always[g].next
                              /\ ever[g].servers \subseteq ever'[g].servers
                              /\ ever[g].next \subseteq ever'[g].next
    BY <1>3
  <1>5. Bracketed'
    <2>1. \A g \in StoredHash \ {h} : /\ always'[g].servers \subseteq table'[g].servers
                                      /\ table'[g].servers \subseteq ever'[g].servers
                                      /\ always'[g].next \subseteq table'[g].next
                                      /\ table'[g].next \subseteq ever'[g].next
      BY <1>3 DEF WalkInv, Bracketed
    <2>2. /\ always'[h].servers \subseteq table'[h].servers
          /\ table'[h].servers \subseteq ever'[h].servers
          /\ always'[h].next \subseteq table'[h].next
          /\ table'[h].next \subseteq ever'[h].next
      BY <1>3
    <2> QED BY <2>1, <2>2 DEF Bracketed
  <1>6. PassedCredited'
    BY <1>1, <1>4, QueryType DEF WalkInv, PassedCredited, Passed
  <1>7. CreditFounded'
    BY <1>1, <1>4, QueryType DEF WalkInv, CreditFounded
  <1>8. LinksFollowed'
    <2> SUFFICES ASSUME NEW k \in 2 .. place
                 PROVE  k \in DOMAIN Query /\ Query[k] \in ever'[Query[k - 1]].next
      BY <1>1 DEF LinksFollowed
    <2>1. k \in DOMAIN Query /\ Query[k] \in ever[Query[k - 1]].next
      BY DEF WalkInv, LinksFollowed
    <2>2. Query[k - 1] \in StoredHash
      BY <2>1, QueryType
    <2> QED BY <1>4, <2>1, <2>2
  <1>9. StoppedForAReason'
    <2>1. progress \in {"answer", "done"} /\ place < Len(Query) => Query[place] \in StoredHash
      BY QueryType DEF Typed
    <2> QED BY <1>1, <1>4, <2>1 DEF WalkInv, StoppedForAReason
  <1> QED BY <1>5, <1>6, <1>7, <1>8, <1>9 DEF WalkInv

(* The walk credits the place it is at and goes on over a link, or stops.  *)
LEMMA WalkKeeps ==
    ASSUME SearchAssumption, Typed, WalkInv, Walk
    PROVE  WalkInv'
  <1>1. /\ place \in DOMAIN Query /\ Query[place] \in StoredHash /\ place \in Nat \ {0}
        /\ progress = "walk"
        /\ UNCHANGED <<table, always, ever>>
    BY QueryType DEF Walk, Typed
  <1>2. /\ \A s \in Server : credit[s] \subseteq credit'[s]
        /\ \A s \in Server : \A n \in credit'[s] :
              n \in credit[s] \/ (n = place /\ s \in table[Query[place]].servers)
        /\ \A s \in table[Query[place]].servers : s \in Server => place \in credit'[s]
    BY <1>1 DEF Walk, Credited
  <1>3. \/ /\ progress' = "walk" /\ place' = place + 1 /\ place + 1 \in DOMAIN Query
           /\ Query[place + 1] \in table[Query[place]].next
        \/ /\ progress' = "answer" /\ place' = place
           /\ place < Len(Query) =>
                 \/ table[Query[place]].servers = {}
                 \/ Query[place + 1] \notin table[Query[place]].next
    BY <1>1, QueryType DEF Walk, Linked, Present
  <1>4. Bracketed'
    BY <1>1 DEF WalkInv, Bracketed
  <1>5. \A n \in DOMAIN Query : Passed(n)' => Passed(n) \/ n = place
    BY <1>1, <1>3, QueryType DEF Passed
  <1>6. PassedCredited'
    <2>1. \A s \in Server : s \in always[Query[place]].servers => place \in credit'[s]
      BY <1>1, <1>2 DEF WalkInv, Bracketed
    <2> QED BY <1>1, <1>2, <1>5, <2>1 DEF WalkInv, PassedCredited
  <1>7. CreditFounded'
    <2>1. \A s \in table[Query[place]].servers : s \in ever[Query[place]].servers
      BY <1>1 DEF WalkInv, Bracketed
    <2>2. place' >= place /\ \A n \in DOMAIN Query : n \in Nat
      BY <1>1, <1>3, QueryType
    <2> SUFFICES ASSUME NEW s \in Server, NEW n \in DOMAIN Query, n \in credit'[s]
                 PROVE  n <= place' /\ s \in ever[Query[n]].servers
      BY <1>1 DEF CreditFounded
    <2>3. CASE n \in credit[s]
      <3>1. n <= place /\ s \in ever[Query[n]].servers
        BY <2>3 DEF WalkInv, CreditFounded
      <3> QED BY <1>1, <1>3, <2>2, <3>1
    <2>4. CASE n = place /\ s \in table[Query[place]].servers
      BY <1>1, <1>3, <2>1, <2>4
    <2> QED BY <1>2, <2>3, <2>4
  <1>8. LinksFollowed'
    <2> SUFFICES ASSUME NEW k \in 2 .. place'
                 PROVE  k \in DOMAIN Query /\ Query[k] \in ever[Query[k - 1]].next
      BY <1>1 DEF LinksFollowed
    <2>1. CASE k \in 2 .. place
      BY <2>1 DEF WalkInv, LinksFollowed
    <2>2. CASE k \notin 2 .. place
      <3>1. place' = place + 1 /\ k = place + 1 /\ k - 1 = place
        BY <1>1, <1>3, <2>2
      <3>2. Query[place + 1] \in ever[Query[place]].next
        BY <1>1, <1>3, <3>1 DEF WalkInv, Bracketed
      <3> QED BY <1>3, <3>1, <3>2
    <2> QED BY <2>1, <2>2
  <1>9. StoppedForAReason'
    <2>1. table[Query[place]].servers = {} => table[Query[place]].next = {}
      BY <1>1 DEF Typed, SearchTypeOK, BlockEntry
    <2>2. always[Query[place]].next \subseteq table[Query[place]].next
      BY <1>1 DEF WalkInv, Bracketed
    <2> QED BY <1>1, <1>3, <2>1, <2>2 DEF StoppedForAReason
  <1> QED BY <1>4, <1>6, <1>7, <1>8, <1>9 DEF WalkInv

LEMMA NextWalk ==
    ASSUME SearchAssumption, Typed, WalkInv, [SearchNext]_searchVars
    PROVE  WalkInv'
  <1>1. CASE StartWalk
    <2>1. /\ UNCHANGED <<table, place, credit, always, ever>> /\ place = 1 /\ progress = "ready"
          /\ (progress' = "answer" => Len(Query) = 0)
      BY <1>1, QueryType DEF StartWalk, Typed
    <2>2. \A n \in DOMAIN Query : ~Passed(n)'
      BY <1>1, <2>1, QueryType DEF StartWalk, Passed
    <2>3. StoppedForAReason'
      BY <1>1, <2>1 DEF StartWalk, StoppedForAReason
    <2> QED BY <2>1, <2>2, <2>3 DEF WalkInv, Bracketed, PassedCredited, CreditFounded,
                                    LinksFollowed
  <1>2. CASE AnswerSearch
    BY <1>2 DEF AnswerSearch, WalkInv, Bracketed, PassedCredited, Passed, CreditFounded,
                LinksFollowed,
                StoppedForAReason
  <1>3. CASE UNCHANGED searchVars
    BY <1>3 DEF searchVars, WalkInv, Bracketed, PassedCredited, Passed, CreditFounded,
                LinksFollowed,
                StoppedForAReason
  <1> QED BY <1>1, <1>2, <1>3, WalkKeeps, ChangeKeeps DEF SearchNext, ChangeEntry

(* A prefix that was held all the time is passed to its end: nothing stops *)
(* the walk at a link that has always existed.                             *)
LEMMA WalkBrackets ==
    ASSUME SearchAssumption, Typed, WalkInv
    PROVE  CreditIsBracketed
  <1> SUFFICES ASSUME progress \in {"answer", "done"}, NEW s \in Server
               PROVE  /\ \A n \in DOMAIN Query :
                            HeldThroughout(s, n) => 1 .. n \subseteq credit[s]
                      /\ \A n \in credit[s] :
                            /\ s \in ever[Query[n]].servers
                            /\ \A k \in 2 .. n : Query[k] \in ever[Query[k - 1]].next
    BY DEF CreditIsBracketed
  <1>1. ASSUME NEW n \in DOMAIN Query, HeldThroughout(s, n), NEW k \in 1 .. n
        PROVE  k \in credit[s]
    <2>1. n \in 1 .. Len(Query) /\ place \in 1 .. Len(Query)
      BY QueryType DEF Typed
    <2>2. k \in DOMAIN Query /\ s \in always[Query[k]].servers
      BY <1>1, <2>1, QueryType DEF HeldThroughout
    <2>3. n <= place
      <3> SUFFICES ASSUME place < n PROVE FALSE
        BY <2>1
      <3>1. place + 1 \in 1 .. n /\ place + 1 > 1 /\ (place + 1) - 1 = place /\ place < Len(Query)
        BY <2>1
      <3>2. Query[place + 1] \in always[Query[place]].next
        BY <1>1, <3>1 DEF HeldThroughout
      <3> QED BY <3>1, <3>2 DEF WalkInv, StoppedForAReason
    <2>4. Passed(k)
      BY <2>1, <2>2, <2>3 DEF Passed
    <2> QED BY <2>2, <2>4 DEF WalkInv, PassedCredited
  <1>2. ASSUME NEW n \in credit[s]
        PROVE  /\ s \in ever[Query[n]].servers
               /\ \A k \in 2 .. n : Query[k] \in ever[Query[k - 1]].next
    <2>1. n \in DOMAIN Query
      BY DEF Typed, SearchTypeOK
    <2>2. n <= place /\ s \in ever[Query[n]].servers /\ n \in Nat /\ place \in Nat
      BY <2>1, QueryType DEF WalkInv, CreditFounded, Typed
    <2> QED BY <2>2 DEF WalkInv, LinksFollowed
  <1> QED BY <1>1, <1>2

(* A server is credited with the prefix it held all the time, and beyond   *)
(* it only with blocks it was listed for, found over links that existed,   *)
(* however the table changes under the walk (lib.rs:656-701).              *)
THEOREM PrefixIsCredited ==
    ASSUME SearchAssumption
    PROVE  SearchSpec => []CreditIsBracketed
  <1>1. SearchInit => WalkInv
    BY InitWalk
  <1>2. Typed /\ WalkInv /\ [SearchNext]_searchVars => WalkInv'
    BY NextWalk
  <1>3. Typed /\ WalkInv => CreditIsBracketed
    BY WalkBrackets
  <1> QED BY <1>1, <1>2, <1>3, AlwaysTyped, PTL DEF SearchSpec

-----------------------------------------------------------------------------
(* Hashes.  First what can be done with numbers and sequences.             *)

(* The numbers, one after the other.  (Induction over a set instead of a  *)
(* predicate: the first number outside the set has one before it.)         *)
LEMMA NatSetInduction ==
    ASSUME NEW T \in SUBSET Nat, 0 \in T, \A n \in T : n + 1 \in T
    PROVE  T = Nat
  <1> SUFFICES ASSUME T # Nat PROVE FALSE
    OBVIOUS
  <1> DEFINE Less == {ss \in Nat \X Nat : ss[1] < ss[2]}
  <1>1. IsWellFoundedOn(Less, Nat)
    BY NatLessThanWellFounded DEF OpToRel
  <1>2. PICK m \in Nat \ T : \A y \in Nat \ T : <<y, m>> \notin Less
    <2> HIDE DEF Less
    <2>1. Nat \ T # {} /\ Nat \ T \subseteq Nat
      OBVIOUS
    <2> QED BY <1>1, <2>1, WFMin
  <1>3. m # 0 /\ m - 1 \in Nat /\ m = (m - 1) + 1
    OBVIOUS
  <1>4. <<m - 1, m>> \in Less
    BY <1>3
  <1>5. m - 1 \in T
    <2> HIDE DEF Less
    <2> QED BY <1>2, <1>3, <1>4
  <1> QED BY <1>3, <1>5

(* A function can be defined along the numbers up to N.                    *)
Along(f, X, first, N, step) ==
    /\ f \in [0 .. N -> X] /\ f[0] = first
    /\ \A n \in 1 .. N : f[n] = step[n][f[n - 1]]

LEMMA FunctionAlong ==
    ASSUME NEW X, NEW first \in X, NEW N \in Nat, NEW step \in [1 .. N -> [X -> X]]
    PROVE  \E f : Along(f, X, first, N, step)
  <1> USE DEF Along
  <1> DEFINE UpTo(f, k) == Along(f, X, first, k, step)
             T == { k \in Nat : k <= N => \E f : UpTo(f, k) }
  <1>1. 0 \in T
    <2>1. UpTo([n \in 0 .. 0 |-> first], 0)
      OBVIOUS
    <2> QED BY <2>1
  <1>2. ASSUME NEW k \in T PROVE k + 1 \in T
    <2> SUFFICES ASSUME k + 1 <= N PROVE \E f : UpTo(f, k + 1)
      OBVIOUS
    <2>1. k \in Nat /\ k <= N /\ k + 1 \in 1 .. N
      OBVIOUS
    <2>2. PICK f : UpTo(f, k)
      BY <1>2, <2>1
    <2> DEFINE last == step[k + 1][f[k]]
               g == [n \in 0 .. k + 1 |-> IF n = k + 1 THEN last ELSE f[n]]
    <2>3. f[k] \in X /\ last \in X
      BY <2>1, <2>2
    <2>4. g \in [0 .. k + 1 -> X] /\ g[0] = first /\ g[k + 1] = last
          /\ \A n \in 0 .. k : g[n] = f[n]
      <3> HIDE DEF last
      <3> QED BY <2>1, <2>2, <2>3
    <2>5. \A n \in 1 .. k + 1 : g[n] = step[n][g[n - 1]]
      <3> HIDE DEF g
      <3> TAKE n \in 1 .. k + 1
      <3>1. CASE n = k + 1
        <4>1. n - 1 = k /\ g[n - 1] = f[k]
          BY <2>1, <2>4, <3>1
        <4> QED BY <2>4, <3>1, <4>1
      <3>2. CASE n # k + 1
        <4>1. n \in 1 .. k /\ n \in 0 .. k /\ n - 1 \in 0 .. k
          BY <2>1, <3>2
        <4>2. g[n] = f[n] /\ g[n - 1] = f[n - 1]
          BY <2>4, <4>1
        <4> QED BY <2>2, <4>1, <4>2
      <3> QED BY <3>1, <3>2
    <2> HIDE DEF g
    <2>6. UpTo(g, k + 1)
      BY <2>4, <2>5
    <2> QED BY <2>6
  <1>3. T = Nat
    <2> HIDE DEF T
    <2>1. T \in SUBSET Nat
      BY DEF T
    <2> QED BY <1>1, <1>2, <2>1, NatSetInduction
  <1>4. N \in T
    <2> HIDE DEF T
    <2> QED BY <1>3
  <1>5. \E f : UpTo(f, N)
    BY <1>4
  <1> QED BY <1>5

-----------------------------------------------------------------------------
(* Integers and sequences as bytes.                                        *)

Octet == 0 .. 255

LEMMA BytesAreOctets ==
    ASSUME NEW v \in Nat, NEW i \in Nat
    PROVE  Byte(v, i) \in Octet
  <1>1. DOMAIN Weight = 1 .. 4
    BY DEF Weight
  <1>2. CASE i \in 1 .. 4
    <2>1. i = 1 \/ i = 2 \/ i = 3 \/ i = 4
      BY <1>2
    <2>2. Weight[1] = 1 /\ Weight[2] = 256 /\ Weight[3] = 65536 /\ Weight[4] = 16777216
      BY DEF Weight
    <2>3. Weight[i] \in Nat \ {0}
      BY <2>1, <2>2
    <2>4. v \div Weight[i] \in Nat
      BY <2>3
    <2>5. (v \div Weight[i]) % 256 \in 0 .. 255
      BY <2>4
    <2> QED BY <1>1, <1>2, <2>5 DEF Byte, Octet
  <1>3. CASE i \notin 1 .. 4
    BY <1>1, <1>3 DEF Byte, Octet
  <1> QED BY <1>2, <1>3

(* The four bytes of a number and what they add up to.                     *)
LEMMA FourBytes ==
    ASSUME NEW v
    PROVE  /\ Byte(v, 1) = (v \div 1) % 256 /\ Byte(v, 2) = (v \div 256) % 256
           /\ Byte(v, 3) = (v \div 65536) % 256 /\ Byte(v, 4) = (v \div 16777216) % 256
  <1>1. DOMAIN Weight = 1 .. 4
    BY DEF Weight
  <1>2. Weight[1] = 1 /\ Weight[2] = 256 /\ Weight[3] = 65536 /\ Weight[4] = 16777216
    BY DEF Weight
  <1>3. 1 \in 1 .. 4 /\ 2 \in 1 .. 4 /\ 3 \in 1 .. 4 /\ 4 \in 1 .. 4
    OBVIOUS
  <1> QED BY <1>1, <1>2, <1>3 DEF Byte

LEMMA BytesTell ==
    ASSUME NEW u, NEW v, IsU32(u), IsU32(v), \A i \in 1 .. 4 : Byte(u, i) = Byte(v, i)
    PROVE  u = v
  <1>1. /\ Byte(u, 1) = Byte(v, 1) /\ Byte(u, 2) = Byte(v, 2)
        /\ Byte(u, 3) = Byte(v, 3) /\ Byte(u, 4) = Byte(v, 4)
    OBVIOUS
  <1>2. /\ (u \div 1) % 256 = (v \div 1) % 256 /\ (u \div 256) % 256 = (v \div 256) % 256
        /\ (u \div 65536) % 256 = (v \div 65536) % 256
        /\ (u \div 16777216) % 256 = (v \div 16777216) % 256
    BY <1>1, FourBytes
  <1>3. u \in Nat /\ v \in Nat /\ u \div 65536 < 65536 /\ v \div 65536 < 65536
    BY DEF IsU32
  <1> QED BY <1>2, <1>3

LEMMA LittleEndianFacts ==
    ASSUME NEW v \in Nat, NEW n \in Nat
    PROVE  /\ LittleEndian(v, n) \in Seq(Octet) /\ Len(LittleEndian(v, n)) = n
           /\ \A i \in 1 .. n : LittleEndian(v, n)[i] = Byte(v, i)
  <1>1. \A i \in 1 .. n : Byte(v, i) \in Octet
    BY BytesAreOctets
  <1> QED BY <1>1 DEF LittleEndian

LEMMA BigEndianFacts ==
    ASSUME NEW v \in Nat, NEW n \in Nat
    PROVE  /\ BigEndian(v, n) \in Seq(Octet) /\ Len(BigEndian(v, n)) = n
           /\ \A i \in 1 .. n : BigEndian(v, n)[i] = Byte(v, n - i + 1)
  <1> DEFINE s == LittleEndian(v, n)
  <1>1. s \in Seq(Octet) /\ Len(s) = n /\ \A i \in 1 .. n : s[i] = Byte(v, i)
    BY LittleEndianFacts
  <1>2. BigEndian(v, n) = [i \in 1 .. n |-> s[(n - i) + 1]]
    BY <1>1 DEF BigEndian, Reverse
  <1>3. \A i \in 1 .. n : (n - i) + 1 \in 1 .. n
    OBVIOUS
  <1> HIDE DEF s
  <1>4. \A i \in 1 .. n : s[(n - i) + 1] \in Octet /\ s[(n - i) + 1] = Byte(v, n - i + 1)
    BY <1>1, <1>3
  <1> QED BY <1>2, <1>4

LEMMA U32sFacts ==
    ASSUME NEW ts \in Seq(Nat)
    PROVE  /\ U32s(ts) \in Seq(Octet) /\ Len(U32s(ts)) = 4 * Len(ts)
           /\ \A i \in 1 .. Len(ts), j \in 1 .. 4 :
                 /\ 4 * (i - 1) + j \in 1 .. 4 * Len(ts)
                 /\ U32s(ts)[4 * (i - 1) + j] = Byte(ts[i], j)
  <1>1. Len(ts) \in Nat /\ \A i \in 1 .. Len(ts) : ts[i] \in Nat
    OBVIOUS
  <1>2. ASSUME NEW n \in 1 .. 4 * Len(ts)
        PROVE  ((n - 1) \div 4) + 1 \in 1 .. Len(ts) /\ ((n - 1) % 4) + 1 \in 1 .. 4
    BY <1>1
  <1>3. \A n \in 1 .. 4 * Len(ts) : Byte(ts[((n - 1) \div 4) + 1], ((n - 1) % 4) + 1) \in Octet
    BY <1>1, <1>2, BytesAreOctets
  <1>4. U32s(ts) \in Seq(Octet) /\ Len(U32s(ts)) = 4 * Len(ts)
    BY <1>1, <1>3 DEF U32s
  <1>5. ASSUME NEW i \in 1 .. Len(ts), NEW j \in 1 .. 4
        PROVE  /\ 4 * (i - 1) + j \in 1 .. 4 * Len(ts)
               /\ U32s(ts)[4 * (i - 1) + j] = Byte(ts[i], j)
    <2> DEFINE n == 4 * (i - 1) + j
    <2>1. n \in 1 .. 4 * Len(ts) /\ (n - 1) \div 4 = i - 1 /\ (n - 1) % 4 = j - 1
      BY <1>1
    <2>2. ((n - 1) \div 4) + 1 = i /\ ((n - 1) % 4) + 1 = j
      BY <2>1
    <2> HIDE DEF n
    <2>3. U32s(ts)[n] = Byte(ts[i], j)
      BY <2>1, <2>2 DEF U32s
    <2> QED BY <2>1, <2>3 DEF n
  <1> QED BY <1>4, <1>5

Tokens(ts) == ts \in Seq(Nat) /\ \A i \in DOMAIN ts : IsU32(ts[i])

LEMMA U32sTell ==
    ASSUME NEW ts, NEW us, Tokens(ts), Tokens(us), U32s(ts) = U32s(us)
    PROVE  ts = us
  <1>1. ts \in Seq(Nat) /\ us \in Seq(Nat)
    BY DEF Tokens
  <1>2. 4 * Len(ts) = 4 * Len(us) /\ Len(ts) \in Nat /\ Len(us) \in Nat
    BY <1>1, U32sFacts
  <1>3. Len(ts) = Len(us)
    BY <1>2
  <1>4. ASSUME NEW i \in 1 .. Len(ts) PROVE ts[i] = us[i]
    <2>1. IsU32(ts[i]) /\ IsU32(us[i])
      <3>1. i \in DOMAIN ts /\ i \in DOMAIN us
        BY <1>1, <1>3
      <3> QED BY <3>1 DEF Tokens
    <2>2. ASSUME NEW j \in 1 .. 4 PROVE Byte(ts[i], j) = Byte(us[i], j)
      <3>1. U32s(ts)[4 * (i - 1) + j] = Byte(ts[i], j)
        BY <1>1, U32sFacts
      <3>2. i \in 1 .. Len(us)
        BY <1>3
      <3>3. U32s(us)[4 * (i - 1) + j] = Byte(us[i], j)
        BY <1>1, <3>2, U32sFacts
      <3> QED BY <3>1, <3>3
    <2> QED BY <2>1, <2>2, BytesTell
  <1> QED BY <1>1, <1>3, <1>4, SeqEqual

LEMMA SecondPart ==
    ASSUME NEW S, NEW a \in Seq(S), NEW b \in Seq(S), NEW i \in 1 .. Len(b)
    PROVE  (a \o b)[Len(a) + i] = b[i]
  <1>1. /\ Len(a) + i \in 1 .. Len(a) + Len(b) /\ ~(Len(a) + i <= Len(a))
        /\ (Len(a) + i) - Len(a) = i
    OBVIOUS
  <1> QED BY <1>1, ConcatProperties

(* Where one of two parts has its length fixed, the whole tells both.      *)
LEMMA ConcatTells ==
    ASSUME NEW S, NEW a \in Seq(S), NEW b \in Seq(S), NEW c \in Seq(S), NEW d \in Seq(S),
           Len(a) = Len(c), a \o b = c \o d
    PROVE  a = c /\ b = d
  <1>1. Len(b) = Len(d)
    OBVIOUS
  <1>2. \A i \in 1 .. Len(a) : a[i] = (a \o b)[i] /\ c[i] = (c \o d)[i]
    OBVIOUS
  <1>3. ASSUME NEW i \in 1 .. Len(b)
        PROVE  b[i] = (a \o b)[Len(a) + i] /\ d[i] = (c \o d)[Len(c) + i]
    <2>1. i \in 1 .. Len(d)
      BY <1>1
    <2>2. b[i] = (a \o b)[Len(a) + i]
      BY SecondPart
    <2>3. d[i] = (c \o d)[Len(c) + i]
      BY <2>1, SecondPart
    <2> QED BY <2>2, <2>3
  <1>4. a = c
    BY <1>2, SeqEqual
  <1>5. b = d
    BY <1>1, <1>3, SeqEqual
  <1> QED BY <1>4, <1>5

(* One sequence goes on with another.                                      *)
Continues(whole, a, b, S) == b \in Seq(S) /\ whole = a \o b

LEMMA JoinOfTwo ==
    ASSUME NEW S, NEW a \in Seq(S), NEW b, NEW whole, Continues(whole, a, b, S)
    PROVE  whole \in Seq(S) /\ Len(whole) = Len(a) + Len(b)
  BY DEF Continues

LEMMA OneOf ==
    ASSUME NEW S, NEW s \in Seq(S), NEW n \in 1 .. Len(s)
    PROVE  SubSeq(s, n, n) = <<s[n]>>
  <1>1. SubSeq(s, n, n) \in Seq(S) /\ Len(SubSeq(s, n, n)) = 1
    BY SubSeqProperties
  <1>2. SubSeq(s, n, n)[1] = s[n]
    BY SubSeqProperties
  <1>3. <<s[n]>> \in Seq(S) /\ Len(<<s[n]>>) = 1 /\ <<s[n]>>[1] = s[n]
    OBVIOUS
  <1>4. \A i \in 1 .. 1 : i = 1
    OBVIOUS
  <1> QED BY <1>1, <1>2, <1>3, <1>4, SeqEqual

LEMMA SameEnd ==
    ASSUME NEW S, NEW a \in Seq(S), NEW c \in Seq(S), NEW b \in Seq(S), a \o b = c \o b
    PROVE  a = c
  <1>1. Len(a) = Len(c)
    OBVIOUS
  <1> QED BY <1>1, ConcatTells

-----------------------------------------------------------------------------
(* The reader of CBOR.                                                     *)

LEMMA ValueSteps ==
    ASSUME NEW b \in Seq(Nat)
    PROVE  \E f : /\ f[0] = 0 /\ BigEndianValue(b) = f[Len(b)]
                 /\ \A i \in 1 .. Len(b) : f[i - 1] \in Nat /\ f[i] = 256 * f[i - 1] + b[i]
  <1> DEFINE N == Len(b)
             step == [n \in 1 .. N |-> [x \in Nat |-> 256 * x + b[n]]]
             Folds(f) == f = [i \in 0 .. N |-> IF i = 0 THEN 0 ELSE 256 * f[i - 1] + b[i]]
             g == CHOOSE f : Folds(f)
  <1>1. N \in Nat /\ \A n \in 1 .. N : b[n] \in Nat
    OBVIOUS
  <1>2. step \in [1 .. N -> [Nat -> Nat]]
    BY <1>1
  <1>3. PICK f \in [0 .. N -> Nat] :
               f[0] = 0 /\ \A n \in 1 .. N : f[n] = step[n][f[n - 1]]
    <2> DEFINE X == Nat  first == 0
    <2>1. first \in X /\ N \in Nat
      OBVIOUS
    <2>3. step \in [1 .. N -> [X -> X]]
      BY <1>2
    <2> HIDE DEF step, N, X, first
    <2>2. \E f : Along(f, X, first, N, step)
      BY <2>1, <2>3, FunctionAlong
    <2> QED BY <2>2 DEF X, first, Along
  <1>4. \A n \in 1 .. N : f[n - 1] \in Nat /\ f[n] = 256 * f[n - 1] + b[n]
    <2> TAKE n \in 1 .. N
    <2>1. n - 1 \in 0 .. N
      BY <1>1
    <2> HIDE DEF N
    <2>2. f[n - 1] \in Nat
      BY <1>3, <2>1
    <2> QED BY <1>3, <2>2
  <1>5. Folds(f)
    <2>1. \A i \in 0 .. N : f[i] = IF i = 0 THEN 0 ELSE 256 * f[i - 1] + b[i]
      <3> TAKE i \in 0 .. N
      <3>1. i = 0 \/ i \in 1 .. N
        BY <1>1
      <3> HIDE DEF N
      <3> QED BY <1>3, <1>4, <3>1
    <2> HIDE DEF N
    <2> QED BY <1>3, <2>1
  <1>6. Folds(g)
    <2>1. \E h : Folds(h)
      BY <1>5
    <2> HIDE DEF Folds
    <2> QED BY <2>1
  <1>7. BigEndianValue(b) = g[N]
    BY DEF BigEndianValue
  <1> HIDE DEF g
  <1>8. g[0] = 0 /\ \A i \in 1 .. N : g[i] = 256 * g[i - 1] + b[i]
    <2>1. 0 \in 0 .. N /\ \A i \in 1 .. N : i \in 0 .. N /\ i # 0
      BY <1>1
    <2> HIDE DEF N
    <2> QED BY <1>6, <2>1
  <1>9. \A i \in 1 .. N : g[i - 1] \in Nat
    <2> DEFINE T == { n \in Nat : n <= N => g[n] \in Nat }
    <2>1. 0 \in T
      BY <1>8
    <2>2. ASSUME NEW n \in T PROVE n + 1 \in T
      <3> SUFFICES ASSUME n + 1 <= N PROVE g[n + 1] \in Nat
        OBVIOUS
      <3>1. n \in Nat /\ n <= N /\ n + 1 \in 1 .. N /\ (n + 1) - 1 = n
        BY <1>1
      <3>2. g[n] \in Nat
        BY <2>2, <3>1
      <3>3. g[n + 1] = 256 * g[n] + b[n + 1]
        BY <1>8, <3>1
      <3> QED BY <1>1, <3>1, <3>2, <3>3
    <2>3. T = Nat
      <3>1. T \in SUBSET Nat
        OBVIOUS
      <3> HIDE DEF T
      <3> QED BY <2>1, <2>2, <3>1, NatSetInduction
    <2> TAKE i \in 1 .. N
    <2>4. i - 1 \in Nat /\ i - 1 <= N
      BY <1>1
    <2>5. i - 1 \in T
      <3> HIDE DEF T
      <3> QED BY <2>3, <2>4
    <2> QED BY <2>4, <2>5
  <1> QED BY <1>7, <1>8, <1>9

LEMMA ValuesRead ==
    ASSUME NEW v, IsU32(v)
    PROVE  /\ v <= 255 => BigEndianValue(BigEndian(v, 1)) = v
           /\ v <= 65535 => BigEndianValue(BigEndian(v, 2)) = v
           /\ BigEndianValue(BigEndian(v, 4)) = v
  <1>0. v \in Nat /\ v \div 65536 < 65536
    BY DEF IsU32
  <1>1. ASSUME NEW n \in {1, 2, 4}
        PROVE  \E f : /\ f[0] = 0 /\ BigEndianValue(BigEndian(v, n)) = f[n]
                     /\ \A i \in 1 .. n : /\ f[i - 1] \in Nat
                                          /\ f[i] = 256 * f[i - 1] + Byte(v, n - i + 1)
    <2> DEFINE b == BigEndian(v, n)
    <2>0. v \in Nat /\ n \in Nat
      BY <1>0
    <2>1. b \in Seq(Octet) /\ Len(b) = n /\ \A i \in 1 .. n : b[i] = Byte(v, n - i + 1)
      BY <2>0, BigEndianFacts, Zenon
    <2>2. b \in Seq(Nat)
      <3>1. Octet \subseteq Nat
        BY DEF Octet
      <3> HIDE DEF b
      <3> QED BY <2>1, <3>1, SeqMonotonic
    <2> HIDE DEF b
    <2>3. PICK f : /\ f[0] = 0 /\ BigEndianValue(b) = f[Len(b)]
                   /\ \A i \in 1 .. Len(b) : f[i - 1] \in Nat /\ f[i] = 256 * f[i - 1] + b[i]
      BY <2>2, ValueSteps
    <2> QED BY <2>1, <2>3 DEF b
  <1>2. ASSUME v <= 255 PROVE BigEndianValue(BigEndian(v, 1)) = v
    <2>1. PICK f : /\ f[0] = 0 /\ BigEndianValue(BigEndian(v, 1)) = f[1]
                   /\ \A i \in 1 .. 1 : /\ f[i - 1] \in Nat
                                        /\ f[i] = 256 * f[i - 1] + Byte(v, 1 - i + 1)
      BY <1>1
    <2>2. f[1] = 256 * f[0] + Byte(v, 1)
      BY <2>1
    <2>3. Byte(v, 1) = v
      BY <1>0, <1>2, FourBytes
    <2> QED BY <1>0, <2>1, <2>2, <2>3
  <1>3. ASSUME v <= 65535 PROVE BigEndianValue(BigEndian(v, 2)) = v
    <2>1. PICK f : /\ f[0] = 0 /\ BigEndianValue(BigEndian(v, 2)) = f[2]
                   /\ \A i \in 1 .. 2 : /\ f[i - 1] \in Nat
                                        /\ f[i] = 256 * f[i - 1] + Byte(v, 2 - i + 1)
      BY <1>1
    <2>2. f[1] = 256 * f[0] + Byte(v, 2) /\ f[2] = 256 * f[1] + Byte(v, 1)
      BY <2>1
    <2>3. f[2] = 256 * ((v \div 256) % 256) + ((v \div 1) % 256)
      BY <1>0, <2>1, <2>2, FourBytes
    <2>4. v = 256 * ((v \div 256) % 256) + ((v \div 1) % 256)
      BY <1>0, <1>3
    <2> QED BY <2>1, <2>3, <2>4
  <1>4. BigEndianValue(BigEndian(v, 4)) = v
    <2>1. PICK f : /\ f[0] = 0 /\ BigEndianValue(BigEndian(v, 4)) = f[4]
                   /\ \A i \in 1 .. 4 : /\ f[i - 1] \in Nat
                                        /\ f[i] = 256 * f[i - 1] + Byte(v, 4 - i + 1)
      BY <1>1
    <2>2. /\ f[1] = 256 * f[0] + Byte(v, 4) /\ f[2] = 256 * f[1] + Byte(v, 3)
          /\ f[3] = 256 * f[2] + Byte(v, 2) /\ f[4] = 256 * f[3] + Byte(v, 1)
      BY <2>1
    <2> DEFINE b1 == (v \div 1) % 256  b2 == (v \div 256) % 256
               b3 == (v \div 65536) % 256  b4 == (v \div 16777216) % 256
    <2>3. /\ b1 \in Nat /\ b2 \in Nat /\ b3 \in Nat /\ b4 \in Nat
          /\ v = 256 * (256 * (256 * b4 + b3) + b2) + b1
      BY <1>0
    <2>4. Byte(v, 1) = b1 /\ Byte(v, 2) = b2 /\ Byte(v, 3) = b3 /\ Byte(v, 4) = b4
      BY FourBytes
    <2> HIDE DEF b1, b2, b3, b4
    <2>5. f[1] = b4 /\ f[2] = 256 * b4 + b3
      BY <2>1, <2>2, <2>3, <2>4
    <2>6. f[3] = 256 * (256 * b4 + b3) + b2
      BY <2>2, <2>4, <2>5
    <2> QED BY <2>1, <2>2, <2>3, <2>4, <2>6
  <1> QED BY <1>2, <1>3, <1>4

(* A sequence begins with one part and goes on with another.               *)
LEMMA Parts ==
    ASSUME NEW S, NEW a \in Seq(S), NEW b \in Seq(S)
    PROVE  /\ a \o b \in Seq(S) /\ Len(a \o b) = Len(a) + Len(b)
           /\ SubSeq(a \o b, 1, Len(a)) = a
           /\ SubSeq(a \o b, Len(a) + 1, Len(a \o b)) = b
  OBVIOUS

(* A byte, or a byte and others, and what follows them.                    *)
LEMMA HeadByte ==
    ASSUME NEW c \in Octet, NEW rest \in Seq(Octet)
    PROVE  /\ <<c>> \in Seq(Octet)
           /\ (<<c>> \o rest)[1] = c
           /\ SubSeq(<<c>> \o rest, 2, Len(<<c>> \o rest)) = rest
  OBVIOUS

LEMMA HeadBytes ==
    ASSUME NEW c \in Octet, NEW bytes \in Seq(Octet), NEW rest \in Seq(Octet)
    PROVE  /\ <<c>> \o bytes \in Seq(Octet)
           /\ ((<<c>> \o bytes) \o rest)[1] = c
           /\ SubSeq((<<c>> \o bytes) \o rest, 2, 1 + Len(bytes)) = bytes
           /\ SubSeq((<<c>> \o bytes) \o rest, Len(bytes) + 2,
                     Len((<<c>> \o bytes) \o rest)) = rest
  OBVIOUS

(* A head and what follows it, read back.                                  *)
LEMMA ShortHeadReads ==
    ASSUME NEW major \in 0 .. 7, NEW v \in 0 .. 23, NEW rest \in Seq(Octet)
    PROVE  /\ <<32 * major + v>> \in Seq(Octet)
           /\ ReadHead(<<32 * major + v>> \o rest) = [major |-> major, value |-> v, rest |-> rest]
  <1>1. PICK c \in Octet : c = 32 * major + v /\ c % 32 = v /\ c \div 32 = major
    BY DEF Octet
  <1>2. /\ <<c>> \in Seq(Octet) /\ (<<c>> \o rest)[1] = c
        /\ SubSeq(<<c>> \o rest, 0 + 2, Len(<<c>> \o rest)) = rest
    BY HeadByte
  <1>3. ValueSize(v) = 0
    BY DEF ValueSize
  <1>4. ReadHead(<<c>> \o rest) = [major |-> major, value |-> v, rest |-> rest]
    <2> DEFINE s == <<c>> \o rest
    <2>1. s[1] % 32 = v /\ s[1] \div 32 = major /\ SubSeq(s, 0 + 2, Len(s)) = rest
      BY <1>1, <1>2
    <2> HIDE DEF s
    <2>2. ReadHead(s) = [major |-> major, value |-> v, rest |-> rest]
      BY <1>3, <2>1 DEF ReadHead
    <2> QED BY <2>2 DEF s
  <1> QED BY <1>1, <1>2, <1>4

LEMMA LongHeadReads ==
    ASSUME NEW major \in 0 .. 7, NEW info \in 24 .. 26,
           NEW bytes \in Seq(Octet), Len(bytes) = ValueSize(info), NEW rest \in Seq(Octet)
    PROVE  /\ <<32 * major + info>> \o bytes \in Seq(Octet)
           /\ ReadHead((<<32 * major + info>> \o bytes) \o rest)
                 = [major |-> major, value |-> BigEndianValue(bytes), rest |-> rest]
  <1>1. PICK c \in Octet : c = 32 * major + info /\ c % 32 = info /\ c \div 32 = major
    BY DEF Octet
  <1>2. ValueSize(info) # 0
    BY DEF ValueSize
  <1>3. <<c>> \o bytes \in Seq(Octet)
    BY HeadBytes
  <1>4. ReadHead((<<c>> \o bytes) \o rest)
          = [major |-> major, value |-> BigEndianValue(bytes), rest |-> rest]
    <2> DEFINE s == (<<c>> \o bytes) \o rest
    <2>1. /\ s[1] = c /\ SubSeq(s, 2, 1 + Len(bytes)) = bytes
          /\ SubSeq(s, Len(bytes) + 2, Len(s)) = rest
      BY HeadBytes
    <2> HIDE DEF s
    <2>2. ReadHead(s) = [major |-> major, value |-> BigEndianValue(bytes), rest |-> rest]
      BY <1>1, <1>2, <2>1 DEF ReadHead
    <2> QED BY <2>2 DEF s
  <1> QED BY <1>1, <1>3, <1>4

LEMMA WrittenHeadReads ==
    ASSUME NEW major \in 0 .. 7, NEW v, NEW info \in 24 .. 26, NEW bytes \in Seq(Octet),
           Len(bytes) = ValueSize(info), BigEndianValue(bytes) = v, NEW rest \in Seq(Octet),
           cbor_write_major_u64(major, v) = <<32 * major + info>> \o bytes
    PROVE  /\ cbor_write_major_u64(major, v) \in Seq(Octet)
           /\ ReadHead(cbor_write_major_u64(major, v) \o rest)
                 = [major |-> major, value |-> v, rest |-> rest]
  <1> DEFINE written == <<32 * major + info>> \o bytes
  <1>1. /\ written \in Seq(Octet)
        /\ ReadHead(written \o rest) = [major |-> major, value |-> BigEndianValue(bytes), rest |-> rest]
    BY LongHeadReads
  <1> HIDE DEF written
  <1>2. cbor_write_major_u64(major, v) = written
    BY DEF written
  <1> QED BY <1>1, <1>2

LEMMA HeadReads ==
    ASSUME NEW major \in 0 .. 7, NEW v, IsU32(v), NEW rest \in Seq(Octet)
    PROVE  /\ cbor_write_major_u64(major, v) \in Seq(Octet)
           /\ ReadHead(cbor_write_major_u64(major, v) \o rest)
                 = [major |-> major, value |-> v, rest |-> rest]
  <1>0. v \in Nat
    BY DEF IsU32
  <1>1. CASE v <= 23
    <2>1. cbor_write_major_u64(major, v) = <<32 * major + v>>
      BY <1>0, <1>1 DEF cbor_write_major_u64
    <2>2. v \in 0 .. 23
      BY <1>0, <1>1
    <2> QED BY <2>1, <2>2, ShortHeadReads
  <1>2. CASE v > 23 /\ v <= 255
    <2>1. cbor_write_major_u64(major, v) = <<32 * major + 24>> \o BigEndian(v, 1)
      BY <1>0, <1>2 DEF cbor_write_major_u64
    <2>2. ValueSize(24) = 1
      BY DEF ValueSize
    <2>3. BigEndian(v, 1) \in Seq(Octet) /\ Len(BigEndian(v, 1)) = ValueSize(24)
      BY <1>0, <2>2, BigEndianFacts
    <2>4. BigEndianValue(BigEndian(v, 1)) = v
      BY <1>2, ValuesRead
    <2>5. 24 \in 24 .. 26
      OBVIOUS
    <2> DEFINE bytes == BigEndian(v, 1)
    <2> HIDE DEF bytes
    <2>6. /\ bytes \in Seq(Octet) /\ Len(bytes) = ValueSize(24) /\ BigEndianValue(bytes) = v
          /\ cbor_write_major_u64(major, v) = <<32 * major + 24>> \o bytes
      BY <2>1, <2>3, <2>4 DEF bytes
    <2> QED BY <2>5, <2>6, WrittenHeadReads
  <1>3. CASE v > 255 /\ v <= 65535
    <2>1. cbor_write_major_u64(major, v) = <<32 * major + 25>> \o BigEndian(v, 2)
      BY <1>0, <1>3 DEF cbor_write_major_u64
    <2>2. ValueSize(25) = 2
      BY DEF ValueSize
    <2>3. BigEndian(v, 2) \in Seq(Octet) /\ Len(BigEndian(v, 2)) = ValueSize(25)
      BY <1>0, <2>2, BigEndianFacts
    <2>4. BigEndianValue(BigEndian(v, 2)) = v
      BY <1>3, ValuesRead
    <2>5. 25 \in 24 .. 26
      OBVIOUS
    <2> DEFINE bytes == BigEndian(v, 2)
    <2> HIDE DEF bytes
    <2>6. /\ bytes \in Seq(Octet) /\ Len(bytes) = ValueSize(25) /\ BigEndianValue(bytes) = v
          /\ cbor_write_major_u64(major, v) = <<32 * major + 25>> \o bytes
      BY <2>1, <2>3, <2>4 DEF bytes
    <2> QED BY <2>5, <2>6, WrittenHeadReads
  <1>4. CASE v > 65535
    <2>1. cbor_write_major_u64(major, v) = <<32 * major + 26>> \o BigEndian(v, 4)
      BY <1>0, <1>4 DEF cbor_write_major_u64
    <2>2. ValueSize(26) = 4
      BY DEF ValueSize
    <2>3. BigEndian(v, 4) \in Seq(Octet) /\ Len(BigEndian(v, 4)) = ValueSize(26)
      BY <1>0, <2>2, BigEndianFacts
    <2>4. BigEndianValue(BigEndian(v, 4)) = v
      BY <1>4, ValuesRead
    <2>5. 26 \in 24 .. 26
      OBVIOUS
    <2> DEFINE bytes == BigEndian(v, 4)
    <2> HIDE DEF bytes
    <2>6. /\ bytes \in Seq(Octet) /\ Len(bytes) = ValueSize(26) /\ BigEndianValue(bytes) = v
          /\ cbor_write_major_u64(major, v) = <<32 * major + 26>> \o bytes
      BY <2>1, <2>3, <2>4 DEF bytes
    <2> QED BY <2>5, <2>6, WrittenHeadReads
  <1> QED BY <1>0, <1>1, <1>2, <1>3, <1>4

(* Sequences can be joined one after the other.                            *)
Joined(f, S, N, h) ==
    /\ f \in [0 .. N -> Seq(S)] /\ f[0] = <<>>
    /\ \A n \in 1 .. N : f[n] = f[n - 1] \o h[n]

LEMMA JoinedAlong ==
    ASSUME NEW S, NEW N \in Nat, NEW h \in [1 .. N -> Seq(S)]
    PROVE  \E f : Joined(f, S, N, h)
  <1> DEFINE step == [n \in 1 .. N |-> [x \in Seq(S) |-> x \o h[n]]]
  <1>1. PICK f \in [0 .. N -> Seq(S)] :
               f[0] = <<>> /\ \A n \in 1 .. N : f[n] = step[n][f[n - 1]]
    <2> DEFINE X == Seq(S)  first == <<>>
    <2>1. first \in X
      OBVIOUS
    <2>2. step \in [1 .. N -> [X -> X]]
      BY ConcatProperties
    <2> HIDE DEF step, X, first
    <2>3. \E f : Along(f, X, first, N, step)
      BY <2>1, <2>2, FunctionAlong
    <2> QED BY <2>3 DEF X, first, Along
  <1>2. \A n \in 1 .. N : f[n] = f[n - 1] \o h[n]
    <2> TAKE n \in 1 .. N
    <2>1. f[n - 1] \in Seq(S)
      BY <1>1
    <2> QED BY <1>1, <2>1
  <1> QED BY <1>1, <1>2 DEF Joined

(* The sequences of a sequence, joined one after the other.                *)
LEMMA FlattenSteps ==
    ASSUME NEW S, NEW h \in Seq(Seq(S))
    PROVE  \E f : Joined(f, S, Len(h), h) /\ FlattenSeq(h) = f[Len(h)]
  <1> DEFINE N == Len(h)
  <1>1. N \in Nat /\ \A n \in 1 .. N : h[n] \in Seq(S)
    OBVIOUS
  <1>2. PICK f \in [0 .. N -> Seq(S)] : f[0] = <<>> /\ \A n \in 1 .. N : f[n] = f[n - 1] \o h[n]
    <2>1. h \in [1 .. N -> Seq(S)]
      OBVIOUS
    <2>2. N \in Nat
      OBVIOUS
    <2> HIDE DEF N
    <2>3. \E f : Joined(f, S, N, h)
      BY <2>1, <2>2, JoinedAlong
    <2> QED BY <2>3 DEF Joined
  <1>3. \A n \in 1 .. N : f[n] = f[n - 1] \o h[n]
    BY <1>2
  <1>4. N # 0 => f[1] = h[1]
    <2> SUFFICES ASSUME N # 0 PROVE f[1] = h[1]
      OBVIOUS
    <2>1. 1 \in 1 .. N /\ 1 - 1 = 0
      BY <1>1
    <2>2. h[1] \in Seq(S)
      BY <1>1, <2>1
    <2>3. <<>> \o h[1] = h[1]
      BY <2>2, ConcatEmptySeq
    <2> HIDE DEF N
    <2>4. f[1] = f[1 - 1] \o h[1]
      BY <1>3, <2>1
    <2>5. f[1] = f[0] \o h[1]
      BY <2>1, <2>4
    <2>6. f[0] = <<>>
      BY <1>2
    <2>7. f[0] \o h[1] = <<>> \o h[1]
      BY <2>6
    <2> QED BY <2>3, <2>5, <2>7
  <1>5. CASE N = 0
    <2>1. h = <<>>
      BY <1>5
    <2> QED BY <1>2, <1>3, <1>5, <2>1 DEF FlattenSeq, Joined
  <1>6. CASE N # 0
    <2> DEFINE Joins(g) == g = [i \in 1 .. N |-> IF i = 1 THEN h[i] ELSE g[i - 1] \o h[i]]
               g == CHOOSE g : Joins(g)
               short == [i \in 1 .. N |-> f[i]]
    <2>1. Joins(short)
      <3>1. f[1] = h[1]
        BY <1>4, <1>6
      <3>2. \A i \in 1 .. N : i # 1 => i - 1 \in 1 .. N
        BY <1>1
      <3> HIDE DEF N
      <3> QED BY <1>3, <3>1, <3>2
    <2>2. Joins(g)
      <3> HIDE DEF short
      <3> QED BY <2>1
    <2>3. FlattenSeq(h) = g[N]
      BY <1>6 DEF FlattenSeq
    <2> HIDE DEF g
    <2> DEFINE T == { n \in Nat : n + 1 <= N => g[n + 1] = f[n + 1] }
    <2>4. 0 \in T
      <3>1. 1 \in 1 .. N
        BY <1>1, <1>6
      <3>2. g[1] = h[1]
        BY <2>2, <3>1
      <3> QED BY <1>6, <1>4, <3>2
    <2>5. ASSUME NEW n \in T PROVE n + 1 \in T
      <3> SUFFICES ASSUME (n + 1) + 1 <= N PROVE g[(n + 1) + 1] = f[(n + 1) + 1]
        OBVIOUS
      <3>1. /\ n \in Nat /\ n + 1 <= N /\ (n + 1) + 1 \in 1 .. N /\ (n + 1) + 1 # 1
            /\ ((n + 1) + 1) - 1 = n + 1
        BY <1>1
      <3>2. g[n + 1] = f[n + 1]
        BY <2>5, <3>1
      <3> HIDE DEF N
      <3>3. g[(n + 1) + 1] = g[n + 1] \o h[(n + 1) + 1]
        BY <2>2, <3>1
      <3>4. f[(n + 1) + 1] = f[n + 1] \o h[(n + 1) + 1]
        BY <1>3, <3>1
      <3> QED BY <3>2, <3>3, <3>4
    <2>6. T = Nat
      <3>1. T \in SUBSET Nat
        OBVIOUS
      <3> HIDE DEF T
      <3> QED BY <2>4, <2>5, <3>1, NatSetInduction
    <2>7. N - 1 \in T /\ (N - 1) + 1 = N
      <3>1. N - 1 \in Nat /\ (N - 1) + 1 = N
        BY <1>1, <1>6
      <3> HIDE DEF T
      <3> QED BY <2>6, <3>1
    <2>8. g[N] = f[N]
      BY <2>7
    <2> QED BY <1>2, <1>3, <2>3, <2>8 DEF Joined
  <1> QED BY <1>5, <1>6

LEMMA ContinuesBefore ==
    ASSUME NEW S, NEW a \in Seq(S), NEW b \in Seq(S), NEW c, c = a \o b,
           NEW whole, NEW rest, Continues(whole, c, rest, S)
    PROVE  Continues(whole, a, b \o rest, S)
  BY ConcatProperties, ConcatAssociative DEF Continues

(* What is left to read after n of the parts.                              *)
Remains(G, S, N, h, tail) ==
    /\ G \in [0 .. N -> Seq(S)] /\ G[N] = tail
    /\ \A n \in 1 .. N : G[n - 1] = h[n] \o G[n]

LEMMA RestsOf ==
    ASSUME NEW S, NEW N \in Nat, NEW h \in [1 .. N -> Seq(S)], NEW tail \in Seq(S),
           NEW f, Joined(f, S, N, h)
    PROVE  \E G : Remains(G, S, N, h, tail) /\ G[0] = f[N] \o tail
  <1> DEFINE whole == f[N] \o tail
             Rest(n, g) == Continues(whole, f[n], g, S)
             T == { j \in Nat : j <= N => \E g : Rest(N - j, g) }
             G == [n \in 0 .. N |-> CHOOSE g : Rest(n, g)]
  <1>1. /\ f[0] = <<>> /\ \A n \in 0 .. N : f[n] \in Seq(S)
        /\ \A n \in 1 .. N : f[n] = f[n - 1] \o h[n] /\ h[n] \in Seq(S) /\ n - 1 \in 0 .. N
    <2>1. \A n \in 1 .. N : h[n] \in Seq(S) /\ n - 1 \in 0 .. N
      OBVIOUS
    <2>2. f \in [0 .. N -> Seq(S)] /\ f[0] = <<>> /\ \A n \in 1 .. N : f[n] = f[n - 1] \o h[n]
      BY Zenon DEF Joined
    <2>3. \A n \in 0 .. N : f[n] \in Seq(S)
      BY <2>2
    <2> QED BY <2>1, <2>2, <2>3, Zenon
  <1>2. ASSUME NEW n \in 1 .. N, NEW g, Rest(n, g)
        PROVE  Rest(n - 1, h[n] \o g)
    <2>1. f[n - 1] \in Seq(S) /\ h[n] \in Seq(S) /\ f[n] = f[n - 1] \o h[n]
      BY <1>1
    <2> HIDE DEF whole
    <2> QED BY <1>2, <2>1, ContinuesBefore
  <1>3. 0 \in T
    <2>1. Rest(N, tail) /\ N - 0 = N
      BY DEF Continues
    <2> HIDE DEF Rest
    <2> QED BY <2>1
  <1>4. ASSUME NEW j \in T PROVE j + 1 \in T
    <2> HIDE DEF Rest
    <2> SUFFICES ASSUME j + 1 <= N PROVE \E g : Rest(N - (j + 1), g)
      OBVIOUS
    <2>1. j \in Nat /\ j <= N /\ N - j \in 1 .. N /\ (N - j) - 1 = N - (j + 1)
      OBVIOUS
    <2>2. PICK g : Rest(N - j, g)
      BY <1>4, <2>1
    <2>3. Rest((N - j) - 1, h[N - j] \o g)
      BY <1>2, <2>1, <2>2
    <2> QED BY <2>1, <2>3
  <1>5. T = Nat
    <2>1. T \in SUBSET Nat
      OBVIOUS
    <2> HIDE DEF T
    <2> QED BY <1>3, <1>4, <2>1, NatSetInduction
  <1>6. ASSUME NEW n \in 0 .. N PROVE Rest(n, G[n])
    <2> HIDE DEF Rest
    <2>1. N - n \in Nat /\ N - n <= N /\ N - (N - n) = n
      OBVIOUS
    <2>2. N - n \in T
      <3> HIDE DEF T
      <3> QED BY <1>5, <2>1
    <2>3. \E g : Rest(n, g)
      BY <2>1, <2>2
    <2> QED BY <2>3
  <1> HIDE DEF G, T
  <1>7. \A n \in 0 .. N : G[n] \in Seq(S) /\ whole = f[n] \o G[n]
    BY <1>6 DEF Continues
  <1> HIDE DEF whole
  <1>8. \A n \in 0 .. N, g \in Seq(S) : whole = f[n] \o g => g = G[n]
    <2> TAKE n \in 0 .. N, g \in Seq(S)
    <2> HAVE whole = f[n] \o g
    <2> DEFINE a == f[n]  c == G[n]
    <2>1. a \in Seq(S) /\ c \in Seq(S) /\ a \o c = a \o g /\ Len(a) = Len(a)
      BY <1>1, <1>7
    <2> HIDE DEF a, c
    <2>2. c = g
      BY <2>1, ConcatTells
    <2> QED BY <2>2 DEF c
  <1>9. G \in [0 .. N -> Seq(S)] /\ G[N] = tail /\ G[0] = whole
    <2>1. 0 \in 0 .. N /\ N \in 0 .. N
      OBVIOUS
    <2>2. G[N] = tail
      BY <1>8, <2>1 DEF whole
    <2>3. G[0] \in Seq(S) /\ whole = <<>> \o G[0]
      BY <1>1, <1>7, <2>1
    <2>4. G[0] = whole
      BY <2>3, ConcatEmptySeq
    <2>5. G \in [0 .. N -> Seq(S)]
      BY <1>7 DEF G
    <2> QED BY <2>2, <2>4, <2>5
  <1>10. ASSUME NEW n \in 1 .. N PROVE G[n - 1] = h[n] \o G[n]
    <2>1. n \in 0 .. N /\ n - 1 \in 0 .. N
      OBVIOUS
    <2>2. Rest(n - 1, h[n] \o G[n])
      BY <1>2, <1>6, <2>1
    <2> QED BY <1>8, <2>1, <2>2 DEF Continues
  <1> QED BY <1>9, <1>10 DEF Remains, whole

(* The reader of integers takes one after the other off.                   *)
LEMMA IntsRead ==
    ASSUME NEW s, NEW ts \in Seq(Nat), NEW G, G[0] = s,
           \A n \in 1 .. Len(ts) :
              ReadHead(G[n - 1]) = [major |-> 0, value |-> ts[n], rest |-> G[n]]
    PROVE  ReadInts(s, Len(ts)) = [ints |-> ts, rest |-> G[Len(ts)]]
  <1> DEFINE N == Len(ts)
             Reads(r) == r = [i \in 0 .. N |->
                            IF i = 0 THEN [ints |-> <<>>, rest |-> s]
                            ELSE LET head == ReadHead(r[i - 1].rest)
                                 IN  [ints |-> Append(r[i - 1].ints, head.value), rest |-> head.rest]]
             f == [i \in 0 .. N |-> [ints |-> SubSeq(ts, 1, i), rest |-> G[i]]]
             r == CHOOSE r : Reads(r)
  <1>1. N \in Nat /\ SubSeq(ts, 1, N) = ts /\ SubSeq(ts, 1, 0) = <<>>
    OBVIOUS
  <1>2. ASSUME NEW i \in 1 .. N
        PROVE  /\ f[i - 1].rest = G[i - 1] /\ f[i - 1].ints = SubSeq(ts, 1, i - 1)
               /\ Append(SubSeq(ts, 1, i - 1), ts[i]) = SubSeq(ts, 1, i)
    <2>1. i - 1 \in 0 .. N
      BY <1>1
    <2>2. Append(SubSeq(ts, 1, i - 1), ts[i]) = SubSeq(ts, 1, i)
      <3>1. (i - 1) + 1 = i /\ 1 <= i
        BY <1>1
      <3> QED BY <3>1
    <2> QED BY <2>1, <2>2
  <1>3. Reads(f)
    <2>1. ASSUME NEW i \in 1 .. N
          PROVE  f[i] = LET head == ReadHead(f[i - 1].rest)
                        IN  [ints |-> Append(f[i - 1].ints, head.value), rest |-> head.rest]
      <3>1. f[i] = [ints |-> SubSeq(ts, 1, i), rest |-> G[i]]
        BY <1>1
      <3>2. ReadHead(f[i - 1].rest) = [major |-> 0, value |-> ts[i], rest |-> G[i]]
        BY <1>2
      <3>3. f[i - 1].ints = SubSeq(ts, 1, i - 1)
            /\ Append(SubSeq(ts, 1, i - 1), ts[i]) = SubSeq(ts, 1, i)
        BY <1>2
      <3> DEFINE before == SubSeq(ts, 1, i - 1)  now == SubSeq(ts, 1, i)
      <3> HIDE DEF f, N, before, now
      <3>4. ReadHead(f[i - 1].rest).value = ts[i] /\ ReadHead(f[i - 1].rest).rest = G[i]
        BY <3>2
      <3>5. Append(f[i - 1].ints, ts[i]) = now
        BY <3>3 DEF before, now
      <3>6. f[i] = [ints |-> now, rest |-> G[i]]
        BY <3>1 DEF now
      <3> QED BY <3>4, <3>5, <3>6
    <2>2. f[0] = [ints |-> <<>>, rest |-> s]
      BY <1>1
    <2>3. f = [i \in 0 .. N |-> f[i]] /\ \A i \in 0 .. N : i = 0 \/ i \in 1 .. N
      BY <1>1
    <2> HIDE DEF f, N
    <2> QED BY <2>1, <2>2, <2>3
  <1>4. Reads(r)
    <2> HIDE DEF f
    <2> QED BY <1>3
  <1>5. ReadInts(s, Len(ts)) = r[N]
    BY DEF ReadInts
  <1> HIDE DEF r, f
  <1> DEFINE T == { n \in Nat : n <= N => r[n] = f[n] }
  <1>6. 0 \in T
    <2>1. 0 \in 0 .. N
      BY <1>1
    <2> QED BY <1>3, <1>4, <2>1
  <1>7. ASSUME NEW n \in T PROVE n + 1 \in T
    <2> SUFFICES ASSUME n + 1 <= N PROVE r[n + 1] = f[n + 1]
      OBVIOUS
    <2>1. n \in Nat /\ n <= N /\ n + 1 \in 0 .. N /\ n + 1 # 0 /\ (n + 1) - 1 = n
      BY <1>1
    <2>2. r[n] = f[n]
      BY <1>7, <2>1
    <2> HIDE DEF N
    <2>3. r[n + 1] = [ints |-> Append(r[n].ints, ReadHead(r[n].rest).value),
                      rest |-> ReadHead(r[n].rest).rest]
      BY <1>4, <2>1
    <2>4. f[n + 1] = [ints |-> Append(f[n].ints, ReadHead(f[n].rest).value),
                      rest |-> ReadHead(f[n].rest).rest]
      BY <1>3, <2>1
    <2> QED BY <2>2, <2>3, <2>4
  <1>8. T = Nat
    <2>1. T \in SUBSET Nat
      OBVIOUS
    <2> HIDE DEF T
    <2> QED BY <1>6, <1>7, <2>1, NatSetInduction
  <1>9. N \in T
    <2> HIDE DEF T
    <2> QED BY <1>1, <1>8
  <1>10. f[N] = [ints |-> ts, rest |-> G[N]]
    BY <1>1 DEF f
  <1> QED BY <1>5, <1>9, <1>1, <1>10

LEMMA HeadsRead ==
    ASSUME NEW ts, Tokens(ts), NEW tail \in Seq(Octet),
           NEW heads, heads = [i \in DOMAIN ts |-> cbor_write_major_u64(0, ts[i])]
    PROVE  /\ FlattenSeq(heads) \in Seq(Octet)
           /\ ReadInts(FlattenSeq(heads) \o tail, Len(ts)) = [ints |-> ts, rest |-> tail]
  <1> DEFINE N == Len(ts)
  <1>1. N \in Nat /\ DOMAIN ts = 1 .. N /\ ts \in Seq(Nat) /\ \A i \in 1 .. N : IsU32(ts[i])
    BY DEF Tokens
  <1> HIDE DEF N
  <1>2. \A i \in 1 .. N, s \in Seq(Octet) :
           /\ cbor_write_major_u64(0, ts[i]) \in Seq(Octet)
           /\ ReadHead(cbor_write_major_u64(0, ts[i]) \o s)
                 = [major |-> 0, value |-> ts[i], rest |-> s]
    <2>1. 0 \in 0 .. 7
      OBVIOUS
    <2> QED BY <1>1, <2>1, HeadReads
  <1>3. heads \in [1 .. N -> Seq(Octet)]
    BY <1>1, <1>2
  <1>4. heads \in Seq(Seq(Octet)) /\ Len(heads) = N
    BY <1>1, <1>3
  <1>5. PICK f : Joined(f, Octet, N, heads) /\ FlattenSeq(heads) = f[N]
    <2>1. \E f : Joined(f, Octet, Len(heads), heads) /\ FlattenSeq(heads) = f[Len(heads)]
      BY <1>4, FlattenSteps
    <2> QED BY <1>4, <2>1
  <1>6. f[N] \in Seq(Octet)
    <2>1. N \in 0 .. N
      BY <1>1
    <2> QED BY <1>5, <2>1 DEF Joined
  <1>7. PICK G : Remains(G, Octet, N, heads, tail) /\ G[0] = f[N] \o tail
    BY <1>1, <1>3, <1>5, RestsOf
  <1>8. ASSUME NEW n \in 1 .. N
        PROVE  ReadHead(G[n - 1]) = [major |-> 0, value |-> ts[n], rest |-> G[n]]
    <2>1. G[n] \in Seq(Octet) /\ G[n - 1] = heads[n] \o G[n]
      <3>1. n \in 0 .. N
        BY <1>1
      <3> QED BY <1>7, <3>1 DEF Remains
    <2>2. heads[n] = cbor_write_major_u64(0, ts[n])
      BY <1>1
    <2>3. ReadHead(cbor_write_major_u64(0, ts[n]) \o G[n])
             = [major |-> 0, value |-> ts[n], rest |-> G[n]]
      BY <1>2, <2>1
    <2> QED BY <2>1, <2>2, <2>3
  <1>9. ReadInts(G[0], Len(ts)) = [ints |-> ts, rest |-> G[Len(ts)]]
    <2>1. \A n \in 1 .. Len(ts) :
             ReadHead(G[n - 1]) = [major |-> 0, value |-> ts[n], rest |-> G[n]]
      BY <1>8 DEF N
    <2> QED BY <1>1, <2>1, IntsRead
  <1>10. G[N] = tail
    BY <1>7 DEF Remains
  <1> QED BY <1>5, <1>6, <1>7, <1>9, <1>10 DEF N

(* A digest that is a prefix.                                              *)
LEMMA DigestsAreBytes ==
    ASSUME HashingAssumption, NEW p \in Bytes
    PROVE  p \in Seq(Octet) /\ Len(p) = Width /\ Width \in 1 .. 255 /\ IsU32(Width)
  BY DEF HashingAssumption, Bytes, Octet, IsU32

LEMMA ZerosAreBytes ==
    ASSUME HashingAssumption
    PROVE  Zeros(Width) \in Bytes
  BY DEF HashingAssumption, Bytes, Zeros

Regrouped(r, a, b, p, c, d, e, whole, S) ==
    /\ \A i \in 1 .. 4 : r[i] \in Seq(S)
    /\ r[4] = d \o e /\ r[3] = c \o r[4] /\ r[2] = p \o r[3] /\ r[1] = b \o r[2]
    /\ whole \in Seq(S) /\ whole = a \o r[1]

LEMMA PartsRegrouped ==
    ASSUME NEW S, NEW a \in Seq(S), NEW b \in Seq(S), NEW p \in Seq(S), NEW c \in Seq(S),
           NEW d \in Seq(S), NEW e \in Seq(S),
           NEW whole, whole = ((((a \o b) \o p) \o c) \o d) \o e
    PROVE  \E r : Regrouped(r, a, b, p, c, d, e, whole, S)
  <1> DEFINE ab == a \o b  abp == ab \o p  abpc == abp \o c  abpcd == abpc \o d
             r4 == d \o e  r3 == c \o r4  r2 == p \o r3  r1 == b \o r2
  <1>1. ab \in Seq(S)
    BY ConcatProperties
  <1>2. abp \in Seq(S)
    <2> HIDE DEF ab
    <2> QED BY <1>1, ConcatProperties
  <1>3. abpc \in Seq(S)
    <2> HIDE DEF abp
    <2> QED BY <1>2, ConcatProperties
  <1>4. Continues(whole, abpcd, e, S)
    BY DEF Continues
  <1>5. Continues(whole, abpc, r4, S)
    <2>1. abpcd = abpc \o d
      OBVIOUS
    <2> HIDE DEF abpcd, abpc
    <2> QED BY <1>3, <1>4, <2>1, ContinuesBefore
  <1>6. Continues(whole, abp, r3, S)
    <2>1. abpc = abp \o c
      OBVIOUS
    <2> HIDE DEF abpc, abp, r4
    <2> QED BY <1>2, <1>5, <2>1, ContinuesBefore
  <1>7. Continues(whole, ab, r2, S)
    <2>1. abp = ab \o p
      OBVIOUS
    <2> HIDE DEF abp, ab, r3
    <2> QED BY <1>1, <1>6, <2>1, ContinuesBefore
  <1>8. Continues(whole, a, r1, S)
    <2>1. ab = a \o b
      OBVIOUS
    <2> HIDE DEF ab, r2
    <2> QED BY <1>7, <2>1, ContinuesBefore
  <1>9. /\ r4 = d \o e /\ r3 = c \o r4 /\ r2 = p \o r3 /\ r1 = b \o r2
    OBVIOUS
  <1> HIDE DEF r1, r2, r3, r4, abpcd, abpc, abp, ab
  <1>10. /\ r4 \in Seq(S) /\ r3 \in Seq(S) /\ r2 \in Seq(S) /\ r1 \in Seq(S) /\ whole = a \o r1
    BY <1>5, <1>6, <1>7, <1>8, Zenon DEF Continues
  <1>11. whole \in Seq(S)
    BY <1>10, ConcatProperties
  <1> DEFINE r == <<r1, r2, r3, r4>>
  <1>12. r[1] = r1 /\ r[2] = r2 /\ r[3] = r3 /\ r[4] = r4
    OBVIOUS
  <1> HIDE DEF r
  <1>13. \A i \in 1 .. 4 : r[i] \in Seq(S)
    <2>1. \A i \in 1 .. 4 : i = 1 \/ i = 2 \/ i = 3 \/ i = 4
      OBVIOUS
    <2> QED BY <1>10, <1>12, <2>1, Zenon
  <1>14. Regrouped(r, a, b, p, c, d, e, whole, S)
    BY <1>9, <1>10, <1>11, <1>12, <1>13, Zenon DEF Regrouped
  <1> QED BY <1>14

LEMMA PartsOf ==
    ASSUME NEW S, NEW a \in Seq(S), NEW b, NEW whole, Continues(whole, a, b, S)
    PROVE  SubSeq(whole, 1, Len(a)) = a /\ SubSeq(whole, Len(a) + 1, Len(whole)) = b
  BY Parts DEF Continues

(* What is written with CBOR is read back.                                 *)
LEMMA CborReads ==
    ASSUME NEW p \in Seq(Octet), IsU32(Len(p)), NEW ts, Tokens(ts), IsU32(Len(ts))
    PROVE  /\ Cbor(p, ts) \in Seq(Octet)
           /\ ReadCbor(Cbor(p, ts)) = [prefix |-> p, chunk |-> ts, rest |-> <<128>>]
  <1> DEFINE heads == [i \in DOMAIN ts |-> cbor_write_major_u64(0, ts[i])]
             a == cbor_write_major_u64(4, 3)
             b == cbor_write_major_u64(2, Len(p))
             c == cbor_write_major_u64(4, Len(ts))
             d == FlattenSeq(heads)
             e == cbor_write_major_u64(4, 0)
  <1>1. IsU32(0) /\ IsU32(3) /\ 0 \in 0 .. 7 /\ 2 \in 0 .. 7 /\ 4 \in 0 .. 7
    BY DEF IsU32
  <1>2. \A s \in Seq(Octet) : a \in Seq(Octet) /\ ReadHead(a \o s) = [major |-> 4, value |-> 3, rest |-> s]
    BY <1>1, HeadReads
  <1>3. \A s \in Seq(Octet) : b \in Seq(Octet) /\ ReadHead(b \o s) = [major |-> 2, value |-> Len(p), rest |-> s]
    BY <1>1, HeadReads
  <1>4. \A s \in Seq(Octet) : c \in Seq(Octet) /\ ReadHead(c \o s) = [major |-> 4, value |-> Len(ts), rest |-> s]
    BY <1>1, HeadReads
  <1>5. e = <<128>> /\ e \in Seq(Octet)
    BY DEF cbor_write_major_u64, Octet
  <1>6. d \in Seq(Octet) /\ ReadInts(d \o e, Len(ts)) = [ints |-> ts, rest |-> e]
    <2> HIDE DEF e
    <2> QED BY <1>5, HeadsRead
  <1>7. Cbor(p, ts) = ((((a \o b) \o p) \o c) \o d) \o e
    BY DEF Cbor
  <1> HIDE DEF a, b, c, d, e, heads
  <1>8. a \in Seq(Octet) /\ b \in Seq(Octet) /\ c \in Seq(Octet)
    <2>1. <<>> \in Seq(Octet)
      OBVIOUS
    <2> QED BY <1>2, <1>3, <1>4, <2>1
  <1> DEFINE whole == Cbor(p, ts)
  <1> HIDE DEF whole
  <1>9. PICK r4, r3, r2, r1 :
           /\ r4 \in Seq(Octet) /\ r3 \in Seq(Octet) /\ r2 \in Seq(Octet) /\ r1 \in Seq(Octet)
           /\ r4 = d \o e /\ r3 = c \o r4 /\ r2 = p \o r3 /\ r1 = b \o r2
           /\ whole \in Seq(Octet) /\ whole = a \o r1
    <2>1. whole = ((((a \o b) \o p) \o c) \o d) \o e
      BY <1>7 DEF whole
    <2>2. PICK r : Regrouped(r, a, b, p, c, d, e, whole, Octet)
      BY <1>5, <1>6, <1>8, <2>1, PartsRegrouped
    <2>3. 1 \in 1 .. 4 /\ 2 \in 1 .. 4 /\ 3 \in 1 .. 4 /\ 4 \in 1 .. 4
      OBVIOUS
    <2> QED BY <2>2, <2>3, Zenon DEF Regrouped
  <1>10. /\ SubSeq(r2, 1, Len(p)) = p
         /\ SubSeq(r2, Len(p) + 1, Len(r2)) = r3
    <2>1. Continues(r2, p, r3, Octet)
      BY <1>9, Zenon DEF Continues
    <2> QED BY <2>1, PartsOf
  <1>11. ReadInts(r4, Len(ts)) = [ints |-> ts, rest |-> <<128>>]
    BY <1>5, <1>6, <1>9
  <1>12. ReadHead(whole) = [major |-> 4, value |-> 3, rest |-> r1]
    BY <1>2, <1>9
  <1>13. ReadHead(r1) = [major |-> 2, value |-> Len(p), rest |-> r2]
    BY <1>3, <1>9
  <1>14. ReadHead(r3) = [major |-> 4, value |-> Len(ts), rest |-> r4]
    BY <1>4, <1>9
  <1>15. ReadCbor(whole) = [prefix |-> p, chunk |-> ts, rest |-> <<128>>]
    <2>1. ReadHead(whole).rest = r1
      BY <1>12
    <2>2. ReadHead(r1).value = Len(p) /\ ReadHead(r1).rest = r2
      BY <1>13
    <2>3. ReadHead(r3).value = Len(ts) /\ ReadHead(r3).rest = r4
      BY <1>14
    <2>4. ReadInts(r4, Len(ts)).ints = ts /\ ReadInts(r4, Len(ts)).rest = <<128>>
      BY <1>11
    <2> QED BY <1>10, <2>1, <2>2, <2>3, <2>4, Zenon DEF ReadCbor
  <1> QED BY <1>9, <1>15 DEF whole

LEMMA CborTells ==
    ASSUME HashingAssumption, NEW p \in Bytes, NEW q \in Bytes,
           NEW ts, NEW us, Tokens(ts), Tokens(us), IsU32(Len(ts)), IsU32(Len(us)),
           Cbor(p, ts) = Cbor(q, us)
    PROVE  p = q /\ ts = us
  <1>1. /\ p \in Seq(Octet) /\ IsU32(Len(p)) /\ q \in Seq(Octet) /\ IsU32(Len(q))
    BY DigestsAreBytes
  <1>2. ReadCbor(Cbor(p, ts)) = [prefix |-> p, chunk |-> ts, rest |-> <<128>>]
    BY <1>1, CborReads
  <1>3. ReadCbor(Cbor(q, us)) = [prefix |-> q, chunk |-> us, rest |-> <<128>>]
    BY <1>1, CborReads
  <1>4. [prefix |-> p, chunk |-> ts, rest |-> <<128>>].prefix = p
        /\ [prefix |-> p, chunk |-> ts, rest |-> <<128>>].chunk = ts
        /\ [prefix |-> q, chunk |-> us, rest |-> <<128>>].prefix = q
        /\ [prefix |-> q, chunk |-> us, rest |-> <<128>>].chunk = us
    OBVIOUS
  <1> QED BY <1>2, <1>3, <1>4, Zenon

-----------------------------------------------------------------------------
(* Bincode and the cross language form: the prefix has a fixed width.      *)
LEMMA BincodeTells ==
    ASSUME HashingAssumption, NEW p \in Bytes, NEW q \in Bytes,
           NEW ts, NEW us, Tokens(ts), Tokens(us), Bincode(p, ts) = Bincode(q, us)
    PROVE  p = q /\ ts = us
  <1> DEFINE a == <<1>> \o LittleEndian(Width, 8)
             l == LittleEndian(Len(ts), 8)  m == LittleEndian(Len(us), 8)
             t == U32s(ts)  u == U32s(us)  z == <<0>>
             ap == a \o p   aq == a \o q
             apl == ap \o l  aqm == aq \o m
             aplt == apl \o t  aqmu == aqm \o u
  <1>1. /\ p \in Seq(Octet) /\ Len(p) = Width /\ q \in Seq(Octet) /\ Len(q) = Width
        /\ Width \in Nat
    BY DigestsAreBytes
  <1>2. Bincode(p, ts) = aplt \o z /\ Bincode(q, us) = aqmu \o z
    BY <1>1 DEF Bincode
  <1>3. a \in Seq(Octet)
    <2>1. LittleEndian(Width, 8) \in Seq(Octet)
      BY <1>1, LittleEndianFacts
    <2>2. <<1>> \in Seq(Octet)
      BY DEF Octet
    <2> QED BY <2>1, <2>2, ConcatProperties
  <1>4. /\ ts \in Seq(Nat) /\ us \in Seq(Nat) /\ Len(ts) \in Nat /\ Len(us) \in Nat
    BY DEF Tokens
  <1>5. l \in Seq(Octet) /\ Len(l) = 8 /\ m \in Seq(Octet) /\ Len(m) = 8
    BY <1>4, LittleEndianFacts
  <1>6. t \in Seq(Octet) /\ u \in Seq(Octet)
    BY <1>4, U32sFacts
  <1>7. z \in Seq(Octet)
    BY DEF Octet
  <1> HIDE DEF a, l, m, z
  <1>8. ap \in Seq(Octet) /\ aq \in Seq(Octet) /\ Len(ap) = Len(aq)
    <2>1. ap \in Seq(Octet) /\ Len(ap) = Len(a) + Len(p)
      BY <1>1, <1>3
    <2>2. aq \in Seq(Octet) /\ Len(aq) = Len(a) + Len(q)
      BY <1>1, <1>3
    <2> QED BY <1>1, <2>1, <2>2
  <1> HIDE DEF t, u
  <1>9. apl \in Seq(Octet) /\ aqm \in Seq(Octet) /\ Len(apl) = Len(aqm)
    <2>0. Continues(apl, ap, l, Octet) /\ Continues(aqm, aq, m, Octet)
      BY <1>5 DEF Continues
    <2> HIDE DEF ap, aq, apl, aqm
    <2>a. ap \in Seq(Octet) /\ aq \in Seq(Octet)
      BY <1>8
    <2>1. apl \in Seq(Octet) /\ Len(apl) = Len(ap) + Len(l)
      BY <2>0, <2>a, JoinOfTwo
    <2>2. aqm \in Seq(Octet) /\ Len(aqm) = Len(aq) + Len(m)
      BY <2>0, <2>a, JoinOfTwo
    <2> QED BY <1>5, <1>8, <2>1, <2>2
  <1>10. aplt \in Seq(Octet) /\ aqmu \in Seq(Octet)
    <2> HIDE DEF apl, aqm
    <2> QED BY <1>6, <1>9, ConcatProperties
  <1>11. aplt = aqmu
    <2>1. aplt \o z = aqmu \o z
      BY <1>2
    <2> HIDE DEF aplt, aqmu
    <2> QED BY <1>7, <1>10, <2>1, SameEnd
  <1>12. apl = aqm /\ t = u
    <2>1. apl \o t = aqm \o u
      BY <1>11
    <2> HIDE DEF apl, aqm
    <2> QED BY <1>6, <1>9, <2>1, ConcatTells
  <1>13. ap = aq
    <2>1. ap \o l = aq \o m
      BY <1>12
    <2> HIDE DEF ap, aq
    <2> QED BY <1>5, <1>8, <2>1, ConcatTells
  <1>14. p = q
    <2>1. a \o p = a \o q /\ Len(a) = Len(a)
      BY <1>13
    <2> QED BY <1>1, <1>3, <2>1, ConcatTells
  <1>15. ts = us
    BY <1>12, U32sTell DEF t, u
  <1> QED BY <1>14, <1>15

(* A prefix that does not start with a zero byte, or is all zeros, is      *)
(* written as it is.                                                       *)
LEMMA NormalisedKeeps ==
    ASSUME HashingAssumption, NEW p \in Bytes, ~ZeroLed(p) \/ p = Zeros(Width)
    PROVE  Normalised(p) = p
  <1> DEFINE digits == { i \in DOMAIN p : p[i] # 0 }
  <1>1. /\ p \in Seq(Octet) /\ Len(p) = Width /\ Width \in Nat /\ Width >= 1 /\ DOMAIN p = 1 .. Width
    <2>1. p \in Seq(Octet) /\ Len(p) = Width /\ Width \in 1 .. 255
      BY DigestsAreBytes
    <2>2. DOMAIN p = 1 .. Width
      BY DEF Bytes
    <2> QED BY <2>1, <2>2
  <1>2. CASE ~ZeroLed(p)
    <2>1. 1 \in digits /\ \A i \in digits : i \in Nat /\ 1 <= i
      BY <1>1, <1>2 DEF ZeroLed
    <2> HIDE DEF digits
    <2>2. digits # {} /\ Min(digits) = 1
      BY <2>1 DEF Min
    <2>3. Normalised(p) = SubSeq(p, 1, Len(p)) \o Zeros(1 - 1)
      BY <2>2 DEF Normalised, digits
    <2>4. Zeros(1 - 1) = <<>>
      BY DEF Zeros
    <2> QED BY <1>1, <2>3, <2>4
  <1>3. CASE p = Zeros(Width)
    <2>1. digits = {}
      BY <1>1, <1>3 DEF Zeros
    <2>2. Normalised(p) = SubSeq(p, Width, Width) \o Zeros(Width - 1)
      BY <1>1, <2>1 DEF Normalised
    <2>3. SubSeq(p, Width, Width) = <<0>>
      <3>1. p[Width] = 0
        BY <1>1, <1>3 DEF Zeros
      <3>2. Width \in 1 .. Len(p)
        BY <1>1
      <3> QED BY <1>1, <3>1, <3>2, OneOf
    <2>4. <<0>> \o Zeros(Width - 1) = Zeros(Width)
      BY <1>1 DEF Zeros
    <2> QED BY <1>3, <2>2, <2>3, <2>4
  <1> QED BY <1>2, <1>3

LEMMA CrossLanguageTells ==
    ASSUME HashingAssumption, NEW p \in Bytes, NEW q \in Bytes,
           ~ZeroLed(p) \/ p = Zeros(Width), ~ZeroLed(q) \/ q = Zeros(Width),
           NEW ts, NEW us, Tokens(ts), Tokens(us),
           CrossLanguage(p, ts) = CrossLanguage(q, us)
    PROVE  p = q /\ ts = us
  <1>1. /\ p \in Seq(Octet) /\ q \in Seq(Octet) /\ Len(p) = Len(q)
    BY DigestsAreBytes
  <1>2. U32s(ts) \in Seq(Octet) /\ U32s(us) \in Seq(Octet)
    BY U32sFacts DEF Tokens
  <1>3. p \o U32s(ts) = q \o U32s(us)
    BY NormalisedKeeps DEF CrossLanguage
  <1>4. p = q /\ U32s(ts) = U32s(us)
    BY <1>1, <1>2, <1>3, ConcatTells
  <1> QED BY <1>4, U32sTell

(* What is written tells the prefix and the tokens.                        *)
Algorithm == {"sha256", "cbor", "cross_language"}

Kept(p) == algorithm = "cross_language" => ~ZeroLed(p) \/ p = Zeros(Width)

Block(ts) == Tokens(ts) /\ Len(ts) \in 1 .. BlockSize /\ IsU32(Len(ts))

LEMMA WrittenTells ==
    ASSUME HashingAssumption, algorithm \in Algorithm,
           NEW p \in Bytes, NEW q \in Bytes, Kept(p), Kept(q),
           NEW ts, NEW us, Block(ts), Block(us), Written(p, ts) = Written(q, us)
    PROVE  p = q /\ ts = us
  <1>0. Tokens(ts) /\ Tokens(us) /\ IsU32(Len(ts)) /\ IsU32(Len(us))
    BY DEF Block
  <1>1. CASE algorithm = "sha256"
    <2>1. Bincode(p, ts) = Bincode(q, us)
      BY <1>1 DEF Written
    <2> QED BY <1>0, <2>1, BincodeTells
  <1>2. CASE algorithm = "cbor"
    <2>1. Cbor(p, ts) = Cbor(q, us)
      BY <1>2 DEF Written
    <2> QED BY <1>0, <2>1, CborTells
  <1>3. CASE algorithm = "cross_language"
    <2>1. CrossLanguage(p, ts) = CrossLanguage(q, us)
      BY <1>3 DEF Written
    <2>2. (~ZeroLed(p) \/ p = Zeros(Width)) /\ (~ZeroLed(q) \/ q = Zeros(Width))
      BY <1>3 DEF Kept
    <2> QED BY <1>0, <2>1, <2>2, CrossLanguageTells
  <1> QED BY <1>1, <1>2, <1>3 DEF Algorithm

(* What is written is a sequence of bytes.                                 *)
LEMMA FirstNumber ==
    ASSUME NEW S \in SUBSET Nat, S # {}
    PROVE  Min(S) \in S
  <1> DEFINE Less == {ss \in Nat \X Nat : ss[1] < ss[2]}
  <1>1. IsWellFoundedOn(Less, Nat)
    BY NatLessThanWellFounded DEF OpToRel
  <1>2. PICK m \in S : \A y \in S : <<y, m>> \notin Less
    <2> HIDE DEF Less
    <2> QED BY <1>1, WFMin
  <1>3. ASSUME NEW y \in S PROVE m <= y
    <2>1. y \in Nat /\ m \in Nat /\ <<y, m>> \notin Less
      <3> HIDE DEF Less
      <3> QED BY <1>2
    <2>2. ~(y < m)
      BY <2>1
    <2> HIDE DEF Less
    <2> QED BY <2>1, <2>2
  <1> HIDE DEF Less
  <1> QED BY <1>3 DEF Min

LEMMA LesserOfTwo ==
    ASSUME NEW a \in Nat, NEW b \in Nat
    PROVE  Min({a, b}) \in {a, b} /\ Min({a, b}) <= a /\ Min({a, b}) <= b
  <1>1. CASE a <= b
    <2>1. a \in {a, b} /\ \A y \in {a, b} : a <= y
      BY <1>1
    <2> QED BY <2>1 DEF Min
  <1>2. CASE ~(a <= b)
    <2>1. b \in {a, b} /\ \A y \in {a, b} : b <= y
      BY <1>2
    <2> QED BY <2>1 DEF Min
  <1> QED BY <1>1, <1>2

LEMMA NormalisedIsBytes ==
    ASSUME HashingAssumption, NEW p \in Bytes
    PROVE  Normalised(p) \in Seq(Octet)
  <1> DEFINE digits == { i \in DOMAIN p : p[i] # 0 }
             first == IF digits = {} THEN Len(p) ELSE Min(digits)
  <1>1. /\ p \in Seq(Octet) /\ Len(p) = Width /\ Width \in 1 .. 255
    BY DigestsAreBytes
  <1>2. first \in 1 .. Len(p)
    <2>1. CASE digits = {}
      BY <1>1, <2>1
    <2>2. CASE digits # {}
      <3>1. digits \subseteq 1 .. Len(p) /\ digits \in SUBSET Nat
        BY <1>1
      <3> HIDE DEF digits
      <3>2. Min(digits) \in digits
        BY <2>2, <3>1, FirstNumber
      <3> QED BY <2>2, <3>1, <3>2
    <2> QED BY <2>1, <2>2
  <1>3. Normalised(p) = SubSeq(p, first, Len(p)) \o Zeros(first - 1)
    BY DEF Normalised
  <1> HIDE DEF first
  <1>4. SubSeq(p, first, Len(p)) \in Seq(Octet)
    BY <1>1, <1>2
  <1>5. Zeros(first - 1) \in Seq(Octet)
    BY <1>1, <1>2 DEF Zeros, Octet
  <1> QED BY <1>3, <1>4, <1>5, ConcatProperties

LEMMA BincodeIsBytes ==
    ASSUME HashingAssumption, NEW p \in Bytes, NEW ts, Tokens(ts)
    PROVE  Bincode(p, ts) \in Seq(Octet)
  <1>1. p \in Seq(Octet) /\ Len(p) \in Nat /\ ts \in Seq(Nat) /\ Len(ts) \in Nat
    BY DigestsAreBytes DEF Tokens
  <1> DEFINE a == <<1>>  b == LittleEndian(Len(p), 8)  c == LittleEndian(Len(ts), 8)
             d == U32s(ts)  e == <<0>>
             ab == a \o b  abp == ab \o p  abpc == abp \o c  abpcd == abpc \o d
  <1>2. a \in Seq(Octet) /\ e \in Seq(Octet)
    BY DEF Octet
  <1>3. b \in Seq(Octet) /\ c \in Seq(Octet)
    BY <1>1, LittleEndianFacts
  <1>4. d \in Seq(Octet)
    BY <1>1, U32sFacts
  <1>5. Bincode(p, ts) = abpcd \o e
    BY DEF Bincode
  <1> HIDE DEF a, b, c, d, e
  <1>6. ab \in Seq(Octet)
    BY <1>2, <1>3, ConcatProperties
  <1>7. abp \in Seq(Octet)
    <2> HIDE DEF ab
    <2> QED BY <1>1, <1>6, ConcatProperties
  <1>8. abpc \in Seq(Octet)
    <2> HIDE DEF abp
    <2> QED BY <1>3, <1>7, ConcatProperties
  <1>9. abpcd \in Seq(Octet)
    <2> HIDE DEF abpc
    <2> QED BY <1>4, <1>8, ConcatProperties
  <1>10. abpcd \o e \in Seq(Octet)
    <2> HIDE DEF abpcd
    <2> QED BY <1>2, <1>9, ConcatProperties
  <1> QED BY <1>5, <1>10

LEMMA WrittenIsBytes ==
    ASSUME HashingAssumption, algorithm \in Algorithm, NEW p \in Bytes, NEW ts, Block(ts)
    PROVE  Written(p, ts) \in Seq(Octet)
  <1>0. Tokens(ts) /\ IsU32(Len(ts)) /\ ts \in Seq(Nat)
    BY DEF Block, Tokens
  <1>1. p \in Seq(Octet) /\ IsU32(Len(p))
    BY DigestsAreBytes
  <1>2. CASE algorithm = "sha256"
    BY <1>0, <1>2, BincodeIsBytes DEF Written
  <1>3. CASE algorithm = "cbor"
    BY <1>0, <1>1, <1>3, CborReads DEF Written
  <1>4. CASE algorithm = "cross_language"
    <2>1. Normalised(p) \in Seq(Octet) /\ U32s(ts) \in Seq(Octet)
      BY <1>0, NormalisedIsBytes, U32sFacts
    <2>2. Written(p, ts) = Normalised(p) \o U32s(ts)
      BY <1>4 DEF Written, CrossLanguage
    <2> QED BY <2>1, <2>2, ConcatProperties
  <1> QED BY <1>2, <1>3, <1>4 DEF Algorithm

-----------------------------------------------------------------------------
(* The blocks of a token sequence.                                         *)
LEMMA ChunksAreBlocks ==
    ASSUME HashingAssumption, NEW k, tokens[k] \in Inputs, NEW i \in 1 .. Chunks(k)
    PROVE  Block(Chunk(k, i))
  <1> DEFINE ts == tokens[k]  B == BlockSize  L == Len(ts)
             first == (i - 1) * B + 1
             last == Min({i * B, L})
  <1>1. /\ ts \in Seq(Nat) /\ L \in Nat /\ B \in Nat \ {0} /\ B \div 65536 < 65536
        /\ \A n \in 1 .. L : IsU32(ts[n])
    BY DEF HashingAssumption, IsU32
  <1>2. Chunks(k) = (L + B - 1) \div B /\ Chunk(k, i) = SubSeq(ts, first, last)
    BY DEF Chunks, Chunk
  <1> HIDE DEF ts, B, L
  <1>3. i \in Nat /\ i >= 1 /\ i * B \in Nat /\ (i - 1) * B \in Nat /\ (i - 1) * B + B = i * B
    BY <1>1
  <1>4. i * B <= L + B - 1
    <2> DEFINE n == (L + B - 1) \div B
    <2>1. n \in Nat /\ i <= n /\ n * B <= L + B - 1
      BY <1>1, <1>2, <1>3
    <2> HIDE DEF n
    <2>2. i * B <= n * B
      BY <1>1, <1>3, <2>1
    <2>3. n * B \in Nat
      BY <1>1, <2>1
    <2> QED BY <1>1, <1>3, <2>1, <2>2, <2>3
  <1>5. /\ last \in Nat /\ last <= L /\ last <= i * B
        /\ last = i * B \/ last = L
    <2> DEFINE e == i * B
    <2>1. e \in Nat
      BY <1>3
    <2> HIDE DEF e
    <2>2. Min({e, L}) \in {e, L} /\ Min({e, L}) <= e /\ Min({e, L}) <= L
      BY <1>1, <2>1, LesserOfTwo
    <2>3. last = Min({e, L})
      BY DEF e
    <2> HIDE DEF last
    <2>4. last \in Nat /\ last <= L /\ last <= e /\ (last = e \/ last = L)
      BY <1>1, <2>1, <2>2, <2>3
    <2> QED BY <2>4 DEF e
  <1> DEFINE b == (i - 1) * B  e == i * B
  <1>6. b \in Nat /\ e \in Nat /\ b + B = e /\ e <= L + B - 1 /\ first = b + 1
    BY <1>3, <1>4
  <1>7. last \in Nat /\ last <= L /\ last <= e /\ (last = e \/ last = L)
    BY <1>5
  <1> HIDE DEF b, e, first, last
  <1>8. first \in 1 .. L + 1 /\ first <= last /\ last - first + 1 \in 1 .. B
    BY <1>1, <1>6, <1>7
  <1> DEFINE c == SubSeq(ts, first, last)
  <1>9. c \in Seq(Nat) /\ Len(c) = last - first + 1
    BY <1>1, <1>7, <1>8 DEF L
  <1>10. \A n \in 1 .. Len(c) : c[n] = ts[first + n - 1] /\ first + n - 1 \in 1 .. L
    BY <1>1, <1>7, <1>8, <1>9 DEF L
  <1> HIDE DEF c
  <1>11. Tokens(c)
    <2>1. DOMAIN c = 1 .. Len(c)
      BY <1>9
    <2>2. ASSUME NEW n \in 1 .. Len(c) PROVE IsU32(c[n])
      <3>1. c[n] = ts[first + n - 1] /\ first + n - 1 \in 1 .. L
        BY <1>10
      <3> QED BY <1>1, <3>1
    <2> QED BY <1>9, <2>1, <2>2 DEF Tokens
  <1>12. IsU32(Len(c))
    BY <1>1, <1>8, <1>9 DEF IsU32
  <1>13. Chunk(k, i) = c
    BY <1>2 DEF c
  <1> QED BY <1>8, <1>9, <1>11, <1>12, <1>13 DEF Block, B

-----------------------------------------------------------------------------
LEMMA ChunksAreCounted ==
    ASSUME HashingAssumption, NEW k, tokens[k] \in Inputs
    PROVE  Chunks(k) \in Nat
  <1> DEFINE B == BlockSize  L == Len(tokens[k])
  <1>1. L \in Nat /\ B \in Nat \ {0}
    BY DEF HashingAssumption, IsU32
  <1>2. Chunks(k) = (L + B - 1) \div B
    BY DEF Chunks
  <1> HIDE DEF B, L
  <1>3. L + B - 1 \in Nat
    BY <1>1
  <1> QED BY <1>1, <1>2, <1>3

(* The types, and what the blocks so far were hashed from.                 *)

TokenBlock == [hash : Digest, offset : 1 .. BlockSize]

HashingTyped ==
    /\ algorithm \in Algorithm /\ unfull \in BOOLEAN /\ tokens \in [1 .. 2 -> Inputs]
    /\ out \in [1 .. 2 -> Seq(TokenBlock)]
    /\ seen \subseteq [written : Seq(Octet), hash : Digest]

(* The hash before block i.                                                *)
Before(k, i) == IF i = 1 THEN NoneHash ELSE out[k][i - 1].hash

Link(p, ts, h) == [written |-> Written(p, ts), hash |-> h]

Chained ==
    /\ \A k \in 1 .. 2 : /\ Len(out[k]) <= Chunks(k)
                         /\ \A i \in 1 .. Len(out[k]) :
                               Link(Before(k, i), Chunk(k, i), out[k][i].hash) \in seen
    /\ \A s, t \in seen : s.written = t.written <=> s.hash = t.hash

LastFed ==
    fed # <<>> => /\ fed.prefix \in Bytes /\ Block(fed.chunk)
                  /\ fed.written = Written(fed.prefix, fed.chunk)

HashInv == HashingTyped /\ Chained /\ LastFed

LEMMA BeforeIsBytes ==
    ASSUME HashingAssumption, HashingTyped, NEW k \in 1 .. 2, NEW i \in 1 .. Len(out[k]) + 1
    PROVE  Before(k, i) \in Bytes
  <1>1. out[k] \in Seq(TokenBlock) /\ Len(out[k]) \in Nat
    BY DEF HashingTyped
  <1>2. CASE i = 1
    <2>1. NoneHash \in Bytes
      BY ZerosAreBytes DEF NoneHash, HashingAssumption
    <2> QED BY <1>2, <2>1 DEF Before
  <1>3. CASE i # 1
    <2>1. i - 1 \in 1 .. Len(out[k])
      BY <1>1, <1>3
    <2>2. out[k][i - 1] \in TokenBlock
      BY <1>1, <2>1
    <2>3. out[k][i - 1].hash \in Digest /\ Digest \subseteq Bytes
      BY <2>2 DEF TokenBlock, HashingAssumption
    <2> QED BY <1>3, <2>3 DEF Before
  <1> QED BY <1>2, <1>3

LEMMA CurrentIsBefore ==
    ASSUME HashingTyped, NEW k \in 1 .. 2
    PROVE  current_hash(k) = Before(k, Len(out[k]) + 1)
  <1>1. out[k] \in Seq(TokenBlock) /\ Len(out[k]) \in Nat
    BY DEF HashingTyped
  <1>2. CASE out[k] = <<>>
    <2>1. Len(out[k]) + 1 = 1
      BY <1>2
    <2> QED BY <1>2, <2>1 DEF current_hash, Before
  <1>3. CASE out[k] # <<>>
    <2>1. Len(out[k]) + 1 # 1 /\ (Len(out[k]) + 1) - 1 = Len(out[k])
      BY <1>1, <1>3, EmptySeq
    <2> QED BY <1>3, <2>1 DEF current_hash, Before, Last
  <1> QED BY <1>2, <1>3

LEMMA HashingInitHolds ==
    ASSUME HashingAssumption, HashingInit
    PROVE  HashInv
  <1>1. /\ out = [k \in 1 .. 2 |-> <<>>] /\ seen = {} /\ fed = <<>>
        /\ algorithm \in Algorithm /\ unfull \in BOOLEAN /\ tokens \in [1 .. 2 -> Inputs]
    BY DEF HashingInit, Algorithm
  <1>2. HashingTyped
    BY <1>1 DEF HashingTyped
  <1>3. ASSUME NEW k \in 1 .. 2
        PROVE  Len(out[k]) <= Chunks(k) /\ 1 .. Len(out[k]) = {}
    <2>1. tokens[k] \in Inputs
      BY <1>1
    <2>2. Chunks(k) \in Nat
      BY <2>1, ChunksAreCounted
    <2>3. Len(out[k]) = 0
      BY <1>1
    <2> QED BY <2>2, <2>3
  <1> QED BY <1>1, <1>2, <1>3 DEF HashInv, Chained, LastFed

LEMMA HashBlockHolds ==
    ASSUME HashingAssumption, HashInv, NEW k \in 1 .. 2, NEW digest \in Digest,
           HashBlock(k, digest)
    PROVE  HashInv'
  <1> DEFINE n == Len(out[k]) + 1
             chunk == Chunk(k, n)
             prefix == current_hash(k)
             w == Written(prefix, chunk)
             new == [written |-> w, hash |-> digest]
             block == [hash |-> digest, offset |-> Len(chunk)]
  <1>0. HashingTyped /\ Chained /\ LastFed
    BY DEF HashInv
  <1>1. /\ algorithm' = algorithm /\ unfull' = unfull /\ tokens' = tokens
        /\ seen' = seen \union {new}
        /\ new \in seen \/ \A s \in seen : s.written # w /\ s.hash # digest
        /\ out' = [out EXCEPT ![k] = Append(out[k], block)]
        /\ fed' = [prefix |-> prefix, chunk |-> chunk, written |-> w]
        /\ n <= Chunks(k)
    BY DEF HashBlock, More, offset
  <1>2. out[k] \in Seq(TokenBlock) /\ Len(out[k]) \in Nat /\ n \in Nat /\ n >= 1
    BY <1>0 DEF HashingTyped
  <1>3. \A l \in 1 .. 2 : Chunks(l) \in Nat /\ Chunks(l)' = Chunks(l)
                          /\ \A i : Chunk(l, i)' = Chunk(l, i)
    <2> TAKE l \in 1 .. 2
    <2>1. tokens[l] \in Inputs
      BY <1>0 DEF HashingTyped
    <2>2. Chunks(l) \in Nat
      BY <2>1, ChunksAreCounted
    <2> QED BY <1>1, <2>2 DEF Chunks, Chunk
  <1>4. n \in 1 .. Chunks(k)
    BY <1>1, <1>2, <1>3
  <1>5. Block(chunk)
    <2>1. tokens[k] \in Inputs
      BY <1>0 DEF HashingTyped
    <2> QED BY <1>4, <2>1, ChunksAreBlocks
  <1>6. prefix \in Bytes /\ prefix = Before(k, n)
    <2>1. n \in 1 .. Len(out[k]) + 1
      BY <1>2
    <2> QED BY <1>0, <2>1, BeforeIsBytes, CurrentIsBefore
  <1>7. w \in Seq(Octet)
    <2> HIDE DEF prefix, chunk
    <2> QED BY <1>0, <1>5, <1>6, WrittenIsBytes DEF HashingTyped
  <1>8. block \in TokenBlock
    BY <1>5 DEF Block, TokenBlock
  <1>9. \A p, ts, h : Link(p, ts, h)' = Link(p, ts, h)
    BY <1>1 DEF Link, Written
  <1>10. /\ \A l \in 1 .. 2 : l # k => out'[l] = out[l]
         /\ out'[k] \in Seq(TokenBlock) /\ Len(out'[k]) = n /\ out'[k][n] = block
         /\ \A i \in 1 .. Len(out[k]) : out'[k][i] = out[k][i]
    <2> DEFINE after == Append(out[k], block)
    <2>1. /\ after \in Seq(TokenBlock) /\ Len(after) = n /\ after[n] = block
          /\ \A i \in 1 .. Len(out[k]) : after[i] = out[k][i]
      <3> HIDE DEF block
      <3> QED BY <1>2, <1>8, AppendProperties
    <2> HIDE DEF block
    <2>2. out'[k] = after /\ \A l \in 1 .. 2 : l # k => out'[l] = out[l]
      BY <1>0, <1>1 DEF HashingTyped
    <2> HIDE DEF after
    <2> QED BY <2>1, <2>2
  <1>11. HashingTyped'
    <2>1. out' \in [1 .. 2 -> Seq(TokenBlock)]
      <3>1. out' \in [1 .. 2 -> {out'[l] : l \in 1 .. 2}]
        BY <1>0, <1>1 DEF HashingTyped
      <3>2. \A l \in 1 .. 2 : out'[l] \in Seq(TokenBlock)
        BY <1>0, <1>10 DEF HashingTyped
      <3> QED BY <3>1, <3>2
    <2>2. seen' \subseteq [written : Seq(Octet), hash : Digest]
      <3>1. new \in [written : Seq(Octet), hash : Digest]
        BY <1>7
      <3> HIDE DEF new
      <3> QED BY <1>0, <1>1, <3>1 DEF HashingTyped
    <2> QED BY <1>0, <1>1, <2>1, <2>2 DEF HashingTyped
  <1>12. \A l \in 1 .. 2 : \A i \in 1 .. Len(out[l]) :
            /\ Before(l, i)' = Before(l, i) /\ out'[l][i] = out[l][i]
    <2> TAKE l \in 1 .. 2
    <2> TAKE i \in 1 .. Len(out[l])
    <2>0. NoneHash' = NoneHash
      BY <1>1 DEF NoneHash
    <2>1. Len(out[l]) \in Nat
      BY <1>0 DEF HashingTyped
    <2>2. i = 1 \/ i - 1 \in 1 .. Len(out[l])
      BY <2>1
    <2>3. \A j \in 1 .. Len(out[l]) : out'[l][j] = out[l][j]
      BY <1>10
    <2> QED BY <2>0, <2>2, <2>3 DEF Before
  <1>13. PICK m \in Nat : m = n
    BY <1>2
  <1>14. Before(k, m)' = prefix
    <2>0. NoneHash' = NoneHash
      BY <1>1 DEF NoneHash
    <2>1. m = 1 \/ m - 1 \in 1 .. Len(out[k])
      BY <1>2, <1>13
    <2>2. Before(k, m)' = Before(k, m)
      BY <1>10, <2>0, <2>1 DEF Before
    <2> QED BY <1>6, <1>13, <2>2
  <1>15. ASSUME NEW l \in 1 .. 2
         PROVE  /\ Len(out'[l]) <= Chunks(l)'
                /\ \A i \in 1 .. Len(out'[l]) :
                      Link(Before(l, i), Chunk(l, i), out[l][i].hash)' \in seen'
    <2>1. Len(out'[l]) <= Chunks(l)'
      BY <1>0, <1>1, <1>3, <1>10 DEF Chained
    <2>2. ASSUME NEW i \in 1 .. Len(out[l])
          PROVE  Link(Before(l, i), Chunk(l, i), out[l][i].hash)' \in seen'
      <3> DEFINE p == Before(l, i)  c == Chunk(l, i)  h == out[l][i].hash
      <3>1. Link(p, c, h) \in seen
        BY <1>0 DEF Chained
      <3>2. Before(l, i)' = p /\ Chunk(l, i)' = c /\ out'[l][i].hash = h
        BY <1>3, <1>12
      <3>3. algorithm' = algorithm
        BY <1>1
      <3>4. Link(Before(l, i), Chunk(l, i), out[l][i].hash)' = Link(p, c, h)
        <4> HIDE DEF p, c, h
        <4> QED BY <3>2, <3>3 DEF Link, Written
      <3> QED BY <1>1, <3>1, <3>4
    <2>3. ASSUME l = k
          PROVE  Link(Before(l, m), Chunk(l, m), out[l][m].hash)' \in seen'
      <3>1. Before(k, m)' = prefix /\ Chunk(k, m)' = chunk /\ out'[k][m].hash = digest
        BY <1>3, <1>10, <1>13, <1>14
      <3>2. new \in seen'
        BY <1>1
      <3> QED BY <1>1, <2>3, <3>1, <3>2 DEF Link, Written
    <2>4. ASSUME NEW i \in 1 .. Len(out'[l]) PROVE i \in 1 .. Len(out[l]) \/ (l = k /\ i = m)
      BY <1>2, <1>10, <1>13
    <2> QED BY <2>1, <2>2, <2>3, <2>4
  <1>16. ASSUME NEW s \in seen', NEW t \in seen'
         PROVE  s.written = t.written <=> s.hash = t.hash
    <2>1. \A a, b \in seen : a.written = b.written <=> a.hash = b.hash
      BY <1>0 DEF Chained
    <2>2. new.written = w /\ new.hash = digest
      OBVIOUS
    <2> HIDE DEF new, w
    <2> QED BY <1>1, <2>1, <2>2
  <1>17. Chained'
    BY <1>15, <1>16 DEF Chained
  <1>18. LastFed'
    <2>1. fed'.prefix = prefix /\ fed'.chunk = chunk /\ fed'.written = w
      BY <1>1
    <2>2. Written(prefix, chunk) = w /\ algorithm' = algorithm
      BY <1>1
    <2>3. Block(fed'.chunk)
      BY <1>5, <2>1
    <2> QED BY <1>5, <1>6, <2>1, <2>2 DEF LastFed, Written
  <1> QED BY <1>11, <1>17, <1>18 DEF HashInv

LEMMA AlwaysHashed ==
    ASSUME HashingAssumption
    PROVE  HashingSpec => []HashInv
  <1>1. HashingInit => HashInv
    BY HashingInitHolds
  <1>2. HashInv /\ [HashingNext]_hashingVars => HashInv'
    <2> SUFFICES ASSUME HashInv, [HashingNext]_hashingVars PROVE HashInv'
      OBVIOUS
    <2>1. CASE HashingNext
      <3>1. PICK k \in 1 .. 2, digest \in Digest : HashBlock(k, digest)
        BY <2>1 DEF HashingNext, HashNext
      <3> QED BY <3>1, HashBlockHolds
    <2>2. CASE UNCHANGED hashingVars
      <3>1. /\ algorithm' = algorithm /\ unfull' = unfull /\ tokens' = tokens
            /\ out' = out /\ seen' = seen /\ fed' = fed
        BY <2>2 DEF hashingVars
      <3>2. HashingTyped'
        BY <3>1 DEF HashInv, HashingTyped
      <3>3. LastFed'
        BY <3>1 DEF HashInv, LastFed, Written
      <3>4. ASSUME NEW k \in 1 .. 2
            PROVE  /\ Len(out'[k]) <= Chunks(k)'
                   /\ \A i \in 1 .. Len(out'[k]) :
                         Link(Before(k, i), Chunk(k, i), out[k][i].hash)' \in seen'
        <4>1. Chunks(k)' = Chunks(k)
          BY <3>1 DEF Chunks
        <4>2. ASSUME NEW i \in 1 .. Len(out[k])
              PROVE  Link(Before(k, i), Chunk(k, i), out[k][i].hash)'
                        = Link(Before(k, i), Chunk(k, i), out[k][i].hash)
          <5>1. Before(k, i)' = Before(k, i) /\ Chunk(k, i)' = Chunk(k, i)
            BY <3>1 DEF Before, NoneHash, Chunk
          <5> QED BY <3>1, <5>1 DEF Link, Written
        <4> QED BY <3>1, <4>1, <4>2 DEF HashInv, Chained
      <3>5. Chained'
        BY <3>1, <3>4 DEF HashInv, Chained
      <3> QED BY <3>2, <3>3, <3>5 DEF HashInv
    <2> QED BY <2>1, <2>2
  <1> QED BY <1>1, <1>2, PTL DEF HashingSpec

(* Every hash is one of the ideal digest's, no block has more tokens than  *)
(* a block holds, and only bytes are digested.                             *)
THEOREM HashingTypesCorrect ==
    ASSUME HashingAssumption
    PROVE  HashingSpec => []HashingTypeOK
  <1>1. HashInv => HashingTypeOK
    <2> SUFFICES ASSUME HashInv PROVE HashingTypeOK
      OBVIOUS
    <2>1. HashingTyped
      BY DEF HashInv
    <2>2. ASSUME NEW k \in 1 .. 2, NEW i \in DOMAIN out[k]
          PROVE  out[k][i].hash \in Digest /\ out[k][i].offset \in 1 .. BlockSize
      <3>1. out[k] \in Seq(TokenBlock)
        BY <2>1 DEF HashingTyped
      <3>2. out[k][i] \in TokenBlock
        BY <3>1
      <3> QED BY <3>2 DEF TokenBlock
    <2>3. ASSUME NEW s \in seen, NEW i \in DOMAIN s.written
          PROVE  s.written[i] \in 0 .. 255
      <3>1. s.written \in Seq(Octet)
        BY <2>1 DEF HashingTyped
      <3> DEFINE w == s.written
      <3>2. w \in Seq(Octet) /\ i \in DOMAIN w
        BY <3>1
      <3> HIDE DEF w
      <3>3. w[i] \in Octet
        BY <3>2
      <3> QED BY <3>3 DEF Octet, w
    <2> QED BY <2>1, <2>2, <2>3 DEF HashingTypeOK, HashingTyped, Algorithm
  <1> QED BY <1>1, AlwaysHashed, PTL

(* For any tokens, whatever is digested with CBOR reads back as the prefix *)
(* and the tokens.                                                         *)
THEOREM CborIsReadable ==
    ASSUME HashingAssumption
    PROVE  HashingSpec => []CborReadsBack
  <1>1. HashInv => CborReadsBack
    <2> SUFFICES ASSUME HashInv, algorithm = "cbor", fed # <<>>
                 PROVE  ReadCbor(fed.written)
                           = [prefix |-> fed.prefix, chunk |-> fed.chunk, rest |-> <<128>>]
      BY DEF CborReadsBack
    <2>1. fed.prefix \in Bytes /\ Block(fed.chunk) /\ fed.written = Written(fed.prefix, fed.chunk)
      BY DEF HashInv, LastFed
    <2>2. fed.written = Cbor(fed.prefix, fed.chunk)
      BY <2>1 DEF Written
    <2>3. fed.prefix \in Seq(Octet) /\ IsU32(Len(fed.prefix))
      BY <2>1, DigestsAreBytes
    <2>4. Tokens(fed.chunk) /\ IsU32(Len(fed.chunk))
      BY <2>1 DEF Block
    <2> QED BY <2>2, <2>3, <2>4, CborReads
  <1> QED BY <1>1, AlwaysHashed, PTL

-----------------------------------------------------------------------------
(* The hash of a block and the prefix that ends with it.                   *)

Same(k, l, i) == \A n \in 1 .. i : Chunk(k, n) = Chunk(l, n)

Clean(k, i) ==
    algorithm = "cross_language" => \A n \in 1 .. i - 1 : ~ZeroLed(out[k][n].hash)

LEMMA BlocksLinked ==
    ASSUME HashingAssumption, HashInv, NEW k \in 1 .. 2, NEW i \in 1 .. Len(out[k])
    PROVE  /\ i \in Nat /\ i >= 1
           /\ Link(Before(k, i), Chunk(k, i), out[k][i].hash) \in seen
           /\ Before(k, i) \in Bytes /\ Block(Chunk(k, i))
           /\ out[k][i].hash \in Digest
  <1>1. HashingTyped /\ Chained
    BY DEF HashInv
  <1>2. out[k] \in Seq(TokenBlock) /\ Len(out[k]) \in Nat /\ tokens[k] \in Inputs
    BY <1>1 DEF HashingTyped
  <1>3. i \in 1 .. Chunks(k) /\ i \in 1 .. Len(out[k]) + 1
    BY <1>1, <1>2, ChunksAreCounted DEF Chained
  <1>4. Before(k, i) \in Bytes
    BY <1>1, <1>3, BeforeIsBytes
  <1>5. Block(Chunk(k, i))
    BY <1>2, <1>3, ChunksAreBlocks
  <1>6. out[k][i].hash \in Digest
    <2>1. out[k][i] \in TokenBlock
      BY <1>2
    <2> QED BY <2>1 DEF TokenBlock
  <1> QED BY <1>1, <1>2, <1>4, <1>5, <1>6 DEF Chained

LEMMA SameHash ==
    ASSUME HashingAssumption, HashInv, NEW k \in 1 .. 2, NEW l \in 1 .. 2,
           NEW i \in 1 .. Len(out[k]), NEW j \in 1 .. Len(out[l])
    PROVE  out[k][i].hash = out[l][j].hash
              <=> Written(Before(k, i), Chunk(k, i)) = Written(Before(l, j), Chunk(l, j))
  <1>1. PICK s \in seen : s = Link(Before(k, i), Chunk(k, i), out[k][i].hash)
    BY BlocksLinked
  <1>2. PICK t \in seen : t = Link(Before(l, j), Chunk(l, j), out[l][j].hash)
    BY BlocksLinked
  <1>3. s.written = t.written <=> s.hash = t.hash
    BY DEF HashInv, Chained
  <1>4. /\ s.written = Written(Before(k, i), Chunk(k, i)) /\ s.hash = out[k][i].hash
        /\ t.written = Written(Before(l, j), Chunk(l, j)) /\ t.hash = out[l][j].hash
    BY <1>1, <1>2 DEF Link
  <1> QED BY <1>3, <1>4

LEMMA SamePrefixHashes ==
    ASSUME HashingAssumption, HashInv, NEW k \in 1 .. 2, NEW l \in 1 .. 2,
           NEW i \in 1 .. Len(out[k]), i \in 1 .. Len(out[l]), Same(k, l, i)
    PROVE  out[k][i].hash = out[l][i].hash
  <1> DEFINE T == { n \in Nat : n \in 1 .. i => out[k][n].hash = out[l][n].hash }
  <1>1. Len(out[k]) \in Nat /\ Len(out[l]) \in Nat
    BY DEF HashInv, HashingTyped
  <1>2. 0 \in T
    OBVIOUS
  <1>3. ASSUME NEW n \in T PROVE n + 1 \in T
    <2> SUFFICES ASSUME n + 1 \in 1 .. i PROVE out[k][n + 1].hash = out[l][n + 1].hash
      OBVIOUS
    <2>1. n \in Nat /\ n + 1 \in 1 .. Len(out[k]) /\ n + 1 \in 1 .. Len(out[l])
      BY <1>1
    <2>2. Chunk(k, n + 1) = Chunk(l, n + 1)
      BY DEF Same
    <2>3. Before(k, n + 1) = Before(l, n + 1)
      <3>1. CASE n = 0
        BY <3>1 DEF Before
      <3>2. CASE n # 0
        <4>1. n \in 1 .. i /\ n + 1 # 1 /\ (n + 1) - 1 = n
          BY <1>1, <2>1, <3>2
        <4>2. out[k][n].hash = out[l][n].hash
          BY <1>3, <4>1
        <4> QED BY <4>1, <4>2 DEF Before
      <3> QED BY <3>1, <3>2
    <2> DEFINE m == n + 1
    <2> HIDE DEF m
    <2>4. m \in 1 .. Len(out[k]) /\ m \in 1 .. Len(out[l])
          /\ Written(Before(k, m), Chunk(k, m)) = Written(Before(l, m), Chunk(l, m))
      BY <2>1, <2>2, <2>3 DEF m
    <2>5. out[k][m].hash = out[l][m].hash
      BY <2>4, SameHash
    <2> QED BY <2>5 DEF m
  <1>4. T = Nat
    <2>1. T \in SUBSET Nat
      OBVIOUS
    <2> HIDE DEF T
    <2> QED BY <1>2, <1>3, <2>1, NatSetInduction
  <1>5. i \in T /\ i \in 1 .. i
    <2>1. i \in Nat /\ i \in 1 .. i
      BY <1>1
    <2> HIDE DEF T
    <2> QED BY <1>4, <2>1
  <1> QED BY <1>5

(* No hash of a clean chain is taken for the start.                        *)
LEMMA StartIsNoHash ==
    ASSUME HashingAssumption, HashInv, NEW k \in 1 .. 2, NEW i \in 1 .. Len(out[k]),
           Clean(k, i)
    PROVE  Kept(Before(k, i)) /\ (Before(k, i) = NoneHash <=> i = 1)
  <1>1. Len(out[k]) \in Nat
    BY DEF HashInv, HashingTyped
  <1>2. CASE i = 1
    <2>1. Before(k, i) = NoneHash
      BY <1>2 DEF Before
    <2>2. Kept(NoneHash)
      BY DEF NoneHash, Kept
    <2> QED BY <1>2, <2>1, <2>2
  <1>3. CASE i # 1
    <2> DEFINE h == out[k][i - 1].hash
    <2>1. i - 1 \in 1 .. Len(out[k]) /\ i - 1 \in 1 .. i - 1
      BY <1>1, <1>3
    <2>2. h \in Digest
      BY <2>1, BlocksLinked
    <2>3. Before(k, i) = h
      BY <1>3 DEF Before
    <2>4. algorithm = "cross_language" => ~ZeroLed(h)
      BY <2>1 DEF Clean
    <2> HIDE DEF h
    <2>5. h # NoneHash
      <3>1. CASE algorithm = "cross_language"
        <4>1. ZeroLed(Zeros(Width))
          <5>1. 1 \in 1 .. Width
            BY DEF HashingAssumption
          <5> QED BY <5>1 DEF ZeroLed, Zeros
        <4> QED BY <2>4, <3>1, <4>1 DEF NoneHash
      <3>2. CASE algorithm # "cross_language"
        BY <2>2, <3>2 DEF NoneHash, HashingAssumption
      <3> QED BY <3>1, <3>2
    <2>6. Kept(h)
      BY <2>4 DEF Kept
    <2> QED BY <1>3, <2>3, <2>5, <2>6
  <1> QED BY <1>2, <1>3

LEMMA SameHashSamePrefix ==
    ASSUME HashingAssumption, HashInv, NEW k \in 1 .. 2, NEW l \in 1 .. 2,
           NEW i \in 1 .. Len(out[k]), NEW j \in 1 .. Len(out[l]),
           Clean(k, i), Clean(l, j), out[k][i].hash = out[l][j].hash
    PROVE  i = j /\ Same(k, l, i)
  <1> DEFINE Meets(a, b) == /\ a \in 1 .. Len(out[k]) /\ b \in 1 .. Len(out[l])
                            /\ Clean(k, a) /\ Clean(l, b)
                            /\ out[k][a].hash = out[l][b].hash
             T == { b \in Nat : \A a \in Nat : Meets(a, b) => a = b /\ Same(k, l, a) }
  <1>1. Len(out[k]) \in Nat /\ Len(out[l]) \in Nat
    BY DEF HashInv, HashingTyped
  <1>2. 0 \in T
    BY <1>1
  <1>3. ASSUME NEW n \in T PROVE n + 1 \in T
    <2>0. n \in Nat /\ n + 1 \in Nat
      OBVIOUS
    <2>1. ASSUME NEW a \in Nat, Meets(a, n + 1) PROVE a = n + 1 /\ Same(k, l, a)
      <3>1. PICK b \in Nat : b = n + 1
        BY <2>0
      <3>2. /\ a \in 1 .. Len(out[k]) /\ b \in 1 .. Len(out[l]) /\ Clean(k, a) /\ Clean(l, b)
            /\ out[k][a].hash = out[l][b].hash
        BY <2>1, <3>1
      <3>3. Written(Before(k, a), Chunk(k, a)) = Written(Before(l, b), Chunk(l, b))
        BY <3>2, SameHash
      <3>4. /\ Kept(Before(k, a)) /\ (Before(k, a) = NoneHash <=> a = 1)
            /\ Kept(Before(l, b)) /\ (Before(l, b) = NoneHash <=> b = 1)
        BY <3>2, StartIsNoHash
      <3>5. /\ Before(k, a) \in Bytes /\ Block(Chunk(k, a))
            /\ Before(l, b) \in Bytes /\ Block(Chunk(l, b))
        BY <3>2, BlocksLinked
      <3>6. Before(k, a) = Before(l, b) /\ Chunk(k, a) = Chunk(l, b)
        <4>1. algorithm \in Algorithm
          BY DEF HashInv, HashingTyped
        <4> QED BY <3>3, <3>4, <3>5, <4>1, WrittenTells
      <3>7. CASE n = 0
        <4>1. b = 1 /\ a = 1
          BY <3>1, <3>4, <3>6, <3>7
        <4>2. \A m \in 1 .. a : m = 1
          BY <4>1
        <4> QED BY <3>1, <3>6, <4>1, <4>2 DEF Same
      <3>8. CASE n # 0
        <4>1. b # 1 /\ a # 1 /\ b - 1 = n
          BY <2>0, <3>1, <3>4, <3>6, <3>8
        <4>2. /\ a - 1 \in Nat /\ a - 1 \in 1 .. Len(out[k]) /\ n \in 1 .. Len(out[l])
              /\ \A m \in 1 .. (a - 1) - 1 : m \in 1 .. a - 1
              /\ \A m \in 1 .. n - 1 : m \in 1 .. b - 1
          BY <1>1, <2>0, <3>1, <3>2, <3>8, <4>1
        <4>3. Clean(k, a - 1) /\ Clean(l, n)
          BY <3>2, <4>2 DEF Clean
        <4>4. out[k][a - 1].hash = out[l][n].hash
          BY <3>6, <4>1 DEF Before
        <4>5. Meets(a - 1, n)
          BY <4>2, <4>3, <4>4
        <4>6. a - 1 = n /\ Same(k, l, a - 1)
          <5> HIDE DEF Meets
          <5> QED BY <1>3, <4>2, <4>5
        <4>7. a = b
          BY <3>1, <4>6
        <4>8. \A m \in 1 .. a : m \in 1 .. a - 1 \/ m = a
          OBVIOUS
        <4>9. Same(k, l, a)
          BY <3>6, <4>6, <4>7, <4>8 DEF Same
        <4> QED BY <3>1, <4>7, <4>9
      <3> QED BY <3>7, <3>8
    <2> HIDE DEF Meets
    <2> QED BY <2>0, <2>1
  <1>4. T = Nat
    <2>1. T \in SUBSET Nat
      OBVIOUS
    <2> HIDE DEF T
    <2> QED BY <1>2, <1>3, <2>1, NatSetInduction
  <1>5. j \in T /\ i \in Nat
    <2>1. j \in Nat /\ i \in Nat
      BY <1>1
    <2> HIDE DEF T
    <2> QED BY <1>4, <2>1
  <1>6. Meets(i, j)
    OBVIOUS
  <1> HIDE DEF Meets
  <1> QED BY <1>5, <1>6

(* For any sequences of tokens, any block size and any width: blocks have  *)
(* the same hash exactly if all tokens up to their ends agree, unless the  *)
(* cross language algorithm has a hash that starts with a zero byte.       *)
THEOREM HashesNamePrefixes ==
    ASSUME HashingAssumption
    PROVE  HashingSpec => []HashNamesPrefix
  <1>1. HashInv => HashNamesPrefix
    <2> SUFFICES ASSUME HashInv, NEW k \in 1 .. 2, NEW l \in 1 .. 2,
                        NEW i \in DOMAIN out[k], NEW j \in DOMAIN out[l]
                 PROVE  LET same == i = j /\ \A n \in 1 .. i : Chunk(k, n) = Chunk(l, n)
                            zeroLed == \/ \E n \in 1 .. i - 1 : ZeroLed(out[k][n].hash)
                                       \/ \E n \in 1 .. j - 1 : ZeroLed(out[l][n].hash)
                        IN  /\ same => out[k][i].hash = out[l][j].hash
                            /\ out[k][i].hash = out[l][j].hash =>
                                  same \/ (algorithm = "cross_language" /\ zeroLed)
      BY DEF HashNamesPrefix
    <2>1. i \in 1 .. Len(out[k]) /\ j \in 1 .. Len(out[l])
      BY DEF HashInv, HashingTyped
    <2>2. i = j /\ Same(k, l, i) => out[k][i].hash = out[l][j].hash
      BY <2>1, SamePrefixHashes
    <2>3. Clean(k, i) /\ Clean(l, j) /\ out[k][i].hash = out[l][j].hash => i = j /\ Same(k, l, i)
      BY <2>1, SameHashSamePrefix
    <2> QED BY <2>2, <2>3 DEF Same, Clean
  <1> QED BY <1>1, AlwaysHashed, PTL
=============================================================================
