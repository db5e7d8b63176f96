---------------------------- MODULE RefCounts_proofs ----------------------------
(***************************************************************************)
(* Theorems about RefCounts, for any blocks, handlers, batches and any     *)
(* number of rounds.                                                       *)
(***************************************************************************)
EXTENDS RefCounts, SequenceTheorems, TLAPS

-----------------------------------------------------------------------------
(* Types.                                                                  *)

LEMMA IncrementType ==
    ASSUME NEW table \in Counts, NEW h \in Hash, NEW n \in Nat
    PROVE  Increment(table, h, n) \in Counts
  BY DEF Increment, Counts

LEMMA ZeroType == Zero \in Counts
  BY DEF Zero, Counts

LEMMA PlusType ==
    ASSUME NEW f \in Counts, NEW g \in Counts
    PROVE  Plus(f, g) \in Counts
  BY DEF Plus, Counts

LEMMA ResetType ==
    ASSUME NEW table \in Counts, NEW h \in Hash
    PROVE  [table EXCEPT ![h] = 0] \in Counts
  BY DEF Counts

LEMMA TailType ==
    ASSUME NEW S, NEW s \in Seq(S), s # <<>>
    PROVE  Tail(s) \in Seq(S) /\ (Len(s) # 1 => Tail(s) # <<>>)
  <1> DEFINE n == Len(s)
             m == Len(Tail(s))
  <1>1. n \in Nat \ {0}
    BY EmptySeq, LenProperties
  <1>2. Tail(s) \in Seq(S) /\ m = n - 1
    BY <1>1
  <1>3. Tail(s) = <<>> => m = 0
    BY EmptySeq
  <1>4. ASSUME Tail(s) = <<>> PROVE n = 1
    <2> HIDE DEF n, m
    <2> QED BY <1>1, <1>2, <1>3, <1>4
  <1> QED BY <1>2, <1>4

(* A handler that works on a block has one.                                *)
LEMMA HashOfType ==
    ASSUME CountTypeOK, NEW t \in Task, pc[t] \notin {"ready", "done"}
    PROVE  HashOf(t) \in Hash
  BY DEF CountTypeOK, HashOf

LEMMA InitTypes == CountInit => CountTypeOK
  <1> SUFFICES ASSUME CountInit PROVE CountTypeOK
    OBVIOUS
  <1>1. /\ pc \in [Task -> {"ready"}] /\ todo \in [Task -> Seq(Hash)]
        /\ \A t \in Task : pc[t] = "ready"
    BY DEF CountInit
  <1> QED BY <1>1, ZeroType DEF CountInit, CountTypeOK

LEMMA HandlerTypes ==
    ASSUME BatchesAssumption, CountTypeOK, NEW t \in Task, Handler(t)
    PROVE  CountTypeOK'
  <1> USE DEF Goto, At, countRoundVars, greetVars, tables, countHistory, taskVars
  <1>1. ASSUME NEW batch \in Batches, Upload(t, batch) PROVE CountTypeOK'
    BY <1>1 DEF Upload, Start, CountTypeOK, BatchesAssumption
  <1>2. CASE CountLocal(t)
    <2>1. HashOf(t) \in Hash
      BY <1>2, HashOfType DEF CountLocal
    <2>2. incr' \in Counts /\ hits' \in Counts /\ unsent' \in Counts /\ unmerged' \in Counts
      BY <1>2, <2>1, IncrementType DEF CountLocal, CountTypeOK
    <2> QED BY <1>2, <2>1, <2>2 DEF CountLocal, CountTypeOK
  <1>3. CASE CountGlobal(t)
    <2>1. HashOf(t) \in Hash
      BY <1>3, HashOfType DEF CountGlobal
    <2>2. global' \in Counts
      BY <1>3, <2>1, IncrementType DEF CountGlobal, CountTypeOK
    <2>3. todo[t] \in Seq(Hash) /\ todo[t] # <<>>
      BY <1>3 DEF CountGlobal, CountTypeOK
    <2>4. Tail(todo[t]) \in Seq(Hash) /\ (Len(todo[t]) # 1 => Tail(todo[t]) # <<>>)
      BY <2>3, TailType
    <2>5. todo' \in [Task -> Seq(Hash)] /\ todo' = [todo EXCEPT ![t] = Tail(todo[t])]
      BY <1>3, <2>4 DEF CountGlobal, CountTypeOK
    <2>6. pc' \in [Task -> {"ready", "countLocal", "countGlobal", "addLocal", "addGlobal",
                            "removeFull", "removeIncr", "done"}]
      BY <1>3 DEF CountGlobal, CountTypeOK
    <2>7. ASSUME NEW u \in Task, pc'[u] \notin {"ready", "done"} PROVE todo'[u] # <<>>
      <3>1. CASE u = t
        BY <1>3, <2>4, <2>5, <2>7, <3>1 DEF CountGlobal, CountTypeOK
      <3>2. CASE u # t
        BY <1>3, <2>5, <2>7, <3>2 DEF CountGlobal, CountTypeOK
      <3> QED BY <3>1, <3>2
    <2> QED BY <1>3, <2>2, <2>5, <2>6, <2>7 DEF CountGlobal, CountTypeOK
  <1>4. ASSUME NEW h \in Hash, Receive(t, h) PROVE CountTypeOK'
    BY <1>4 DEF Receive, CountTypeOK
  <1>5. ASSUME NEW h \in Hash, Migrated(t, h) PROVE CountTypeOK'
    <2>1. full' \in Counts /\ credits' \in Counts
      BY <1>5, IncrementType DEF Migrated, CountTypeOK
    <2> QED BY <1>5, <2>1 DEF Migrated, CountTypeOK
  <1>6. CASE AddLocal(t)
    <2>1. HashOf(t) \in Hash
      BY <1>6, HashOfType DEF AddLocal
    <2>2. full' \in Counts /\ credits' \in Counts
      BY <1>6, <2>1, IncrementType DEF AddLocal, CountTypeOK
    <2> QED BY <1>6, <2>2 DEF AddLocal, CountTypeOK
  <1>7. CASE AddGlobal(t)
    <2>1. HashOf(t) \in Hash
      BY <1>7, HashOfType DEF AddGlobal
    <2>2. global' \in Counts
      BY <1>7, <2>1, IncrementType DEF AddGlobal, CountTypeOK
    <2> QED BY <1>7, <2>2 DEF AddGlobal, CountTypeOK
  <1>8. ASSUME NEW h \in Hash, NEW lastServer \in BOOLEAN, RemoveBlock(t, h, lastServer)
        PROVE  CountTypeOK'
    <2>1. global' \in Counts
      BY <1>8, ResetType DEF RemoveBlock, CountTypeOK
    <2> QED BY <1>8, <2>1 DEF RemoveBlock, CountTypeOK
  <1>9. CASE RemoveFull(t)
    <2>1. HashOf(t) \in Hash
      BY <1>9, HashOfType DEF RemoveFull
    <2>2. full' \in Counts
      BY <1>9, <2>1, ResetType DEF RemoveFull, CountTypeOK
    <2> QED BY <1>9, <2>1, <2>2 DEF RemoveFull, CountTypeOK
  <1>10. CASE RemoveIncr(t)
    <2>1. HashOf(t) \in Hash
      BY <1>10, HashOfType DEF RemoveIncr
    <2>2. incr' \in Counts
      BY <1>10, <2>1, ResetType DEF RemoveIncr, CountTypeOK
    <2> QED BY <1>10, <2>2 DEF RemoveIncr, CountTypeOK
  <1> QED BY <1>1, <1>2, <1>3, <1>4, <1>5, <1>6, <1>7, <1>8, <1>9, <1>10 DEF Handler

LEMMA RoundTypes ==
    ASSUME CountTypeOK, CountRound
    PROVE  CountTypeOK'
  <1> USE DEF taskVars, greetVars, tables, countHistory
  <1>1. CASE StartCountRound
    BY <1>1, ZeroType DEF StartCountRound, CountTypeOK
  <1>2. CASE SendRound
    BY <1>2, ZeroType, PlusType DEF SendRound, CountTypeOK
  <1>3. ASSUME NEW step, NEW over \in {"merge", "clear", "send"}, NextPhase(step, over)
        PROVE  CountTypeOK'
    BY <1>3 DEF NextPhase, CountTypeOK
  <1>4. ASSUME NEW h \in Hash, CopyOne(h) PROVE CountTypeOK'
    <2>1. snap' \in Counts
      BY <1>4 DEF CopyOne, CountTypeOK, Counts
    <2> QED BY <1>4, <2>1 DEF CopyOne, Visit, CountTypeOK
  <1>5. ASSUME NEW h \in Hash, MergeOne(h) PROVE CountTypeOK'
    <2>1. incr[h] \in Nat
      BY DEF CountTypeOK, Counts
    <2>2. full' \in Counts
      BY <1>5, <2>1, IncrementType DEF MergeOne, Consolidate, CountTypeOK
    <2> QED BY <1>5, <2>2 DEF MergeOne, Visit, CountTypeOK
  <1>6. ASSUME NEW h \in Hash, ClearOne(h) PROVE CountTypeOK'
    <2>1. incr' \in Counts
      BY <1>6, ResetType DEF ClearOne, CountTypeOK
    <2> QED BY <1>6, <2>1 DEF ClearOne, Visit, CountTypeOK
  <1> QED BY <1>1, <1>2, <1>3, <1>4, <1>5, <1>6 DEF CountRound

LEMMA NewcomerTypes ==
    ASSUME CountTypeOK, Newcomer
    PROVE  CountTypeOK'
  <1> USE DEF taskVars, countRoundVars, tables, countHistory
  <1>1. CASE Greet
    BY <1>1 DEF Greet, ListedAtOnce, CountTypeOK
  <1>2. CASE ReadIncrNext
    BY <1>2 DEF ReadIncrNext, CountTypeOK
  <1>3. CASE Answer
    BY <1>3, PlusType DEF Answer, CountTypeOK
  <1>4. ASSUME NEW step, NEW table \in Counts, NEW h \in Hash, Read(step, table, h)
        PROVE  CountTypeOK'
    <2>1. heard' \in Counts
      BY <1>4, IncrementType DEF Read, CountTypeOK, Counts
    <2> QED BY <1>4, <2>1 DEF Read, CountTypeOK
  <1> QED BY <1>1, <1>2, <1>3, <1>4 DEF Newcomer, CountTypeOK

LEMMA TypesStep ==
    ASSUME BatchesAssumption, CountTypeOK, [CountNext]_countVars
    PROVE  CountTypeOK'
  <1>1. CASE UNCHANGED countVars
    BY <1>1 DEF countVars, tables, taskVars, countRoundVars, greetVars, countHistory, CountTypeOK
  <1> QED BY <1>1, HandlerTypes, RoundTypes, NewcomerTypes DEF CountNext

(* RefCounts keeps its types: no count is ever negative, and a handler     *)
(* that is at a block has one to work on.                                  *)
THEOREM CountTypesCorrect == ASSUME BatchesAssumption PROVE CountSpec => []CountTypeOK
  <1>1. CountTypeOK /\ [CountNext]_countVars => CountTypeOK'
    BY TypesStep
  <1> QED BY InitTypes, <1>1, PTL DEF CountSpec

-----------------------------------------------------------------------------
(* No count is lost or made twice.                                         *)

(* What the local counts of a block add up to.  Once the round has merged  *)
(* it, what its incremental count held is in the full one, and the         *)
(* incremental count is only waiting to be cleared.                        *)
Accounted(h) ==
    IF Merged(h)
    THEN full[h] + unmerged[h] = hits[h] + credits[h]
    ELSE full[h] + incr[h] + unmerged[h] = hits[h] + credits[h]

(* The second half of a removal is about a block that is gone.             *)
RemovalsAreGone == \A t \in Task : At(t, "removeIncr") => HashOf(t) \in gone

AccountInv == RemovalsAreGone /\ \A h \in Hash \ gone : Accounted(h)

LEMMA CountsAt ==
    ASSUME CountTypeOK, NEW h \in Hash
    PROVE  /\ incr[h] \in Nat /\ full[h] \in Nat /\ hits[h] \in Nat
           /\ credits[h] \in Nat /\ unsent[h] \in Nat /\ unmerged[h] \in Nat
           /\ snap[h] \in Nat /\ heard[h] \in Nat /\ told[h] \in Nat
  BY DEF CountTypeOK, Counts

LEMMA IncrementAt ==
    ASSUME NEW table \in Counts, NEW h \in Hash, NEW n \in Nat, NEW g \in Hash
    PROVE  Increment(table, h, n)[g] = IF g = h THEN table[g] + n ELSE table[g]
  BY DEF Increment, Counts

LEMMA ResetAt ==
    ASSUME NEW table \in Counts, NEW h \in Hash, NEW g \in Hash
    PROVE  [table EXCEPT ![h] = 0][g] = IF g = h THEN 0 ELSE table[g]
  BY DEF Counts

(* A handler's own step and block change, no other's.                      *)
LEMMA RemovalsKept ==
    ASSUME CountTypeOK, RemovalsAreGone, NEW t \in Task, gone \subseteq gone',
           pc' = [pc EXCEPT ![t] = pc'[t]],
           todo' = [todo EXCEPT ![t] = todo'[t]],
           pc'[t] = "removeIncr" => HashOf(t)' \in gone'
    PROVE  RemovalsAreGone'
  <1> SUFFICES ASSUME NEW u \in Task, pc'[u] = "removeIncr" PROVE HashOf(u)' \in gone'
    BY DEF RemovalsAreGone, At
  <1>1. CASE u = t
    BY <1>1
  <1>2. CASE u # t
    <2>1. pc'[u] = pc[u] /\ todo'[u] = todo[u]
      BY <1>2 DEF CountTypeOK
    <2> QED BY <2>1 DEF RemovalsAreGone, At, HashOf
  <1> QED BY <1>1, <1>2

LEMMA HandlerAccounts ==
    ASSUME CountTypeOK, AccountInv, NEW t \in Task, Handler(t)
    PROVE  AccountInv'
  <1> USE DEF Goto, At, countRoundVars, greetVars, tables, countHistory
  <1>1. ASSUME NEW batch \in Batches, Upload(t, batch) PROVE AccountInv'
    <2>1. RemovalsAreGone'
      BY <1>1, RemovalsKept DEF Upload, Start, CountTypeOK, AccountInv
    <2> QED BY <1>1, <2>1 DEF Upload, Start, AccountInv, Accounted, Merged
  <1>2. CASE CountLocal(t)
    <2>1. HashOf(t) \in Hash
      BY <1>2, HashOfType DEF CountLocal
    <2>2. RemovalsAreGone'
      BY <1>2, RemovalsKept DEF CountLocal, CountTypeOK, AccountInv
    <2>3. ASSUME NEW g \in Hash \ gone PROVE Accounted(g)'
      <3>1. /\ incr'[g] = IF g = HashOf(t) THEN incr[g] + 1 ELSE incr[g]
            /\ hits'[g] = IF g = HashOf(t) THEN hits[g] + 1 ELSE hits[g]
        BY <1>2, <2>1, IncrementAt DEF CountLocal, CountTypeOK
      <3>2. unmerged'[g] = IF Merged(HashOf(t)) /\ g = HashOf(t)
                           THEN unmerged[g] + 1 ELSE unmerged[g]
        BY <1>2, <2>1, IncrementAt DEF CountLocal, CountTypeOK
      <3>3. Merged(g)' <=> Merged(g)
        BY <1>2 DEF CountLocal, Merged
      <3>4. Accounted(g) /\ UNCHANGED <<full, credits>>
        BY <1>2 DEF CountLocal, AccountInv
      <3>5. CASE g = HashOf(t)
        BY <3>1, <3>2, <3>3, <3>4, <3>5, CountsAt DEF Accounted
      <3>6. CASE g # HashOf(t)
        BY <3>1, <3>2, <3>3, <3>4, <3>6 DEF Accounted
      <3> QED BY <3>5, <3>6
    <2> QED BY <1>2, <2>2, <2>3 DEF CountLocal, AccountInv
  <1>3. CASE CountGlobal(t)
    <2>1. RemovalsAreGone'
      BY <1>3, RemovalsKept DEF CountGlobal, CountTypeOK, AccountInv
    <2> QED BY <1>3, <2>1 DEF CountGlobal, AccountInv, Accounted, Merged
  <1>4. ASSUME NEW h \in Hash, Receive(t, h) PROVE AccountInv'
    <2>1. RemovalsAreGone'
      BY <1>4, RemovalsKept DEF Receive, CountTypeOK, AccountInv
    <2> QED BY <1>4, <2>1 DEF Receive, AccountInv, Accounted, Merged
  <1>5. ASSUME NEW h \in Hash, Migrated(t, h) PROVE AccountInv'
    <2>1. RemovalsAreGone'
      BY <1>5, RemovalsKept DEF Migrated, CountTypeOK, AccountInv
    <2>2. ASSUME NEW g \in Hash \ gone PROVE Accounted(g)'
      <3>1. /\ full'[g] = IF g = h THEN full[g] + 1 ELSE full[g]
            /\ credits'[g] = IF g = h THEN credits[g] + 1 ELSE credits[g]
        BY <1>5, IncrementAt DEF Migrated, CountTypeOK
      <3> QED BY <1>5, <3>1, CountsAt DEF Migrated, AccountInv, Accounted, Merged
    <2> QED BY <1>5, <2>1, <2>2 DEF Migrated, AccountInv
  <1>6. CASE AddLocal(t)
    <2>1. HashOf(t) \in Hash
      BY <1>6, HashOfType DEF AddLocal
    <2>2. RemovalsAreGone'
      BY <1>6, RemovalsKept DEF AddLocal, CountTypeOK, AccountInv
    <2>3. ASSUME NEW g \in Hash \ gone PROVE Accounted(g)'
      <3>1. /\ full'[g] = IF g = HashOf(t) THEN full[g] + 1 ELSE full[g]
            /\ credits'[g] = IF g = HashOf(t) THEN credits[g] + 1 ELSE credits[g]
        BY <1>6, <2>1, IncrementAt DEF AddLocal, CountTypeOK
      <3> QED BY <1>6, <3>1, CountsAt DEF AddLocal, AccountInv, Accounted, Merged
    <2> QED BY <1>6, <2>2, <2>3 DEF AddLocal, AccountInv
  <1>7. CASE AddGlobal(t)
    <2>1. RemovalsAreGone'
      BY <1>7, RemovalsKept DEF AddGlobal, CountTypeOK, AccountInv
    <2> QED BY <1>7, <2>1 DEF AddGlobal, AccountInv, Accounted, Merged
  <1>8. ASSUME NEW h \in Hash, NEW lastServer \in BOOLEAN, RemoveBlock(t, h, lastServer)
        PROVE  AccountInv'
    <2>1. RemovalsAreGone'
      BY <1>8, RemovalsKept DEF RemoveBlock, CountTypeOK, AccountInv
    <2> QED BY <1>8, <2>1 DEF RemoveBlock, AccountInv, Accounted, Merged
  <1>9. CASE RemoveFull(t)
    <2>1. HashOf(t) \in Hash /\ HashOf(t)' = HashOf(t)
      BY <1>9, HashOfType DEF RemoveFull, HashOf
    <2>2. RemovalsAreGone'
      BY <1>9, <2>1, RemovalsKept DEF RemoveFull, CountTypeOK, AccountInv
    <2>3. ASSUME NEW g \in Hash \ gone' PROVE Accounted(g)'
      <3>1. g \notin gone /\ full'[g] = full[g]
        BY <1>9, <2>1, ResetAt DEF RemoveFull, CountTypeOK
      <3> QED BY <1>9, <3>1 DEF RemoveFull, AccountInv, Accounted, Merged
    <2> QED BY <2>2, <2>3 DEF AccountInv
  <1>10. CASE RemoveIncr(t)
    <2>1. HashOf(t) \in Hash /\ HashOf(t) \in gone
      BY <1>10, HashOfType DEF RemoveIncr, AccountInv, RemovalsAreGone
    <2>2. RemovalsAreGone'
      BY <1>10, RemovalsKept DEF RemoveIncr, CountTypeOK, AccountInv
    <2>3. ASSUME NEW g \in Hash \ gone PROVE Accounted(g)'
      <3>1. incr'[g] = incr[g]
        BY <1>10, <2>1, ResetAt DEF RemoveIncr, CountTypeOK
      <3> QED BY <1>10, <3>1 DEF RemoveIncr, AccountInv, Accounted, Merged
    <2> QED BY <1>10, <2>2, <2>3 DEF RemoveIncr, AccountInv
  <1> QED BY <1>1, <1>2, <1>3, <1>4, <1>5, <1>6, <1>7, <1>8, <1>9, <1>10 DEF Handler

LEMMA RoundAccounts ==
    ASSUME CountTypeOK, AccountInv, CountRound
    PROVE  AccountInv'
  <1>1. UNCHANGED <<pc, todo, gone>>
    BY DEF CountRound, StartCountRound, SendRound, NextPhase, CopyOne, MergeOne, ClearOne, Visit,
           taskVars, countHistory
  <1>2. RemovalsAreGone'
    BY <1>1 DEF AccountInv, RemovalsAreGone, At, HashOf
  <1> SUFFICES ASSUME NEW g \in Hash \ gone PROVE Accounted(g)'
    BY <1>1, <1>2 DEF AccountInv
  <1> USE DEF tables, taskVars, greetVars, countHistory
  <1>3. Accounted(g) /\ g \in Hash
    BY DEF AccountInv
  <1>4. CASE StartCountRound \/ SendRound
    BY <1>3, <1>4 DEF StartCountRound, SendRound, Accounted, Merged
  <1>5. CASE NextPhase("copy", "merge")
    BY <1>3, <1>5 DEF NextPhase, Accounted, Merged
  <1>6. CASE NextPhase("merge", "clear")
    BY <1>3, <1>6 DEF NextPhase, Accounted, Merged
  <1>7. CASE NextPhase("clear", "send")
    BY <1>3, <1>7 DEF NextPhase, Accounted, Merged
  <1>8. ASSUME NEW h \in Hash, CopyOne(h) PROVE Accounted(g)'
    BY <1>3, <1>8 DEF CopyOne, Visit, Accounted, Merged
  <1>9. ASSUME NEW h \in Hash, MergeOne(h) PROVE Accounted(g)'
    <2>1. full'[g] = IF g = h THEN full[g] + incr[g] ELSE full[g]
      <3>1. full \in Counts /\ incr[h] \in Nat /\ full' = Increment(full, h, incr[h])
        BY <1>9, CountsAt DEF MergeOne, Consolidate, CountTypeOK
      <3> QED BY <3>1, IncrementAt
    <2>2. Merged(g)' <=> Merged(g) \/ g = h
      BY <1>9 DEF MergeOne, Visit, Merged
    <2>3. g = h => ~Merged(g)
      BY <1>9 DEF MergeOne, Visit, Merged
    <2> QED BY <1>3, <1>9, <2>1, <2>2, <2>3, CountsAt DEF MergeOne, Visit, Accounted
  <1>10. ASSUME NEW h \in Hash, ClearOne(h) PROVE Accounted(g)'
    <2>1. incr'[g] = IF g = h THEN 0 ELSE incr[g]
      BY <1>10, ResetAt DEF ClearOne, CountTypeOK
    <2>2. Merged(g)' <=> Merged(g) /\ g # h
      BY <1>10 DEF ClearOne, Visit, Merged
    <2>3. Merged(h)
      BY <1>10 DEF ClearOne, Visit, Merged
    <2> QED BY <1>3, <1>10, <2>1, <2>2, <2>3, CountsAt DEF ClearOne, Visit, Accounted
  <1> QED BY <1>4, <1>5, <1>6, <1>7, <1>8, <1>9, <1>10 DEF CountRound

LEMMA AccountsStep ==
    ASSUME CountTypeOK, AccountInv, [CountNext]_countVars
    PROVE  AccountInv'
  <1>1. CASE Newcomer
    BY <1>1 DEF Newcomer, Greet, ReadIncrNext, Answer, Read, tables, taskVars, countRoundVars,
                countHistory, AccountInv, RemovalsAreGone, Accounted, Merged, At, HashOf
  <1>2. CASE UNCHANGED countVars
    BY <1>2 DEF countVars, tables, taskVars, countRoundVars, countHistory, AccountInv,
                RemovalsAreGone,
                Accounted, Merged, At, HashOf
  <1> QED BY <1>1, <1>2, HandlerAccounts, RoundAccounts DEF CountNext

LEMMA InitAccounts == CountInit => AccountInv
  <1> SUFFICES ASSUME CountInit PROVE AccountInv
    OBVIOUS
  <1>1. RemovalsAreGone
    BY DEF CountInit, RemovalsAreGone, At
  <1>2. ASSUME NEW h \in Hash PROVE Accounted(h)
    <2>1. ~Merged(h)
      BY DEF CountInit, Merged
    <2>2. Zero[h] = 0
      BY DEF Zero
    <2> QED BY <2>1, <2>2 DEF CountInit, Accounted
  <1> QED BY <1>1, <1>2 DEF AccountInv

LEMMA AccountedAddUp == AccountInv => CountsAddUp
  BY DEF AccountInv, Accounted, CountsAddUp

(* CountsAddUp: however uploads, received counts, migrations, removals and *)
(* the rounds of the synchronisation interleave, the full and incremental  *)
(* counts of a block that was never removed add up to everything counted   *)
(* for it, but for hits made between a round's merge and its clear.        *)
THEOREM NoCountLost == ASSUME BatchesAssumption PROVE CountSpec => []CountsAddUp
  <1>1. CountInit => CountTypeOK /\ AccountInv
    BY InitTypes, InitAccounts
  <1>2. CountTypeOK /\ AccountInv /\ [CountNext]_countVars => (CountTypeOK /\ AccountInv)'
    BY TypesStep, AccountsStep
  <1> QED BY <1>1, <1>2, AccountedAddUp, PTL DEF CountSpec

-----------------------------------------------------------------------------
(* A removed block stays without a count.                                  *)

(* The second half of a removal is still to come.                          *)
Removing(h) == \E t \in Task : At(t, "removeIncr") /\ HashOf(t) = h

(* What was assigned to the local table before the removal is known.       *)
AssignedAreRevived ==
    \A t \in Task : At(t, "addLocal") /\ HashOf(t) \in gone => HashOf(t) \in revived

RemovedInv == AssignedAreRevived /\ RemovedIsGone

LEMMA OthersKeep ==
    ASSUME CountTypeOK, NEW t \in Task, Handler(t), NEW u \in Task, u # t
    PROVE  pc'[u] = pc[u] /\ todo'[u] = todo[u] /\ HashOf(u)' = HashOf(u)
  <1>1. pc'[u] = pc[u] /\ todo'[u] = todo[u]
    BY DEF Handler, Upload, Start, CountLocal, CountGlobal, Receive, Migrated, AddLocal,
           AddGlobal, RemoveBlock, RemoveFull, RemoveIncr, Goto, CountTypeOK
  <1> QED BY <1>1 DEF HashOf

(* A handler that is not itself in the second half of a removal ends none. *)
LEMMA RemovingKept ==
    ASSUME CountTypeOK, NEW t \in Task, Handler(t), NEW h \in Hash, Removing(h),
           ~(At(t, "removeIncr") /\ HashOf(t) = h)
    PROVE  Removing(h)'
  <1>1. PICK u \in Task : At(u, "removeIncr") /\ HashOf(u) = h
    BY DEF Removing
  <1>2. u # t
    BY <1>1
  <1>3. pc'[u] = pc[u] /\ HashOf(u)' = HashOf(u)
    BY <1>2, OthersKeep
  <1> QED BY <1>1, <1>3 DEF Removing, At

LEMMA RemovedAt ==
    ASSUME RemovedIsGone, NEW h \in gone \ revived
    PROVE  full[h] = 0 /\ (incr[h] > 0 => Removing(h))
  BY DEF RemovedIsGone, Removing

LEMMA AssignedKept ==
    ASSUME CountTypeOK, AssignedAreRevived, NEW t \in Task, Handler(t)
    PROVE  AssignedAreRevived'
  <1> SUFFICES ASSUME NEW u \in Task, At(u, "addLocal")', HashOf(u)' \in gone'
               PROVE  HashOf(u)' \in revived'
    BY DEF AssignedAreRevived
  <1> DEFINE h == HashOf(u)
  <1>1. CASE u = t
    <2>1. PICK g \in Hash : Receive(t, g)
      BY <1>1 DEF Handler, Upload, Start, CountLocal, CountGlobal, Migrated, AddLocal,
                  AddGlobal, RemoveBlock, RemoveFull, RemoveIncr, At, Goto, CountTypeOK
    <2>2. pc'[t] = "addLocal"
      BY <1>1 DEF At
    <2>3. CountsAsLocal(g)
      BY <2>1, <2>2 DEF Receive, Goto, CountTypeOK
    <2>4. todo'[t] = <<g>>
      BY <2>1 DEF Receive, CountTypeOK
    <2>5. h' = g
      BY <1>1, <2>4 DEF HashOf
    <2> QED BY <2>1, <2>3, <2>5 DEF Receive, CountsAsLocal
  <1>2. CASE u # t
    <2>1. At(u, "addLocal") /\ h' = h /\ (h \in gone => h \in revived)
      BY <1>2, OthersKeep DEF AssignedAreRevived, At
    <2>2. CASE RemoveFull(t)
      BY <2>1, <2>2 DEF RemoveFull
    <2>3. CASE ~RemoveFull(t)
      <3>1. gone' = gone /\ revived \subseteq revived'
        BY <2>3 DEF Handler, Upload, Start, CountLocal, CountGlobal, Receive, Migrated,
                    AddLocal, AddGlobal, RemoveBlock, RemoveIncr, countHistory
      <3> QED BY <2>1, <3>1
    <2> QED BY <2>2, <2>3
  <1> QED BY <1>1, <1>2

LEMMA HandlerRemoved ==
    ASSUME CountTypeOK, RemovedInv, NEW t \in Task, Handler(t)
    PROVE  RemovedInv'
  <1>1. AssignedAreRevived'
    BY AssignedKept DEF RemovedInv
  <1> SUFFICES ASSUME NEW g \in gone' \ revived'
               PROVE  full'[g] = 0 /\ (incr'[g] > 0 => Removing(g)')
    BY <1>1 DEF RemovedInv, RemovedIsGone, Removing
  <1>2. CASE RemoveFull(t)
    <2>1. HashOf(t) \in Hash /\ HashOf(t)' = HashOf(t)
      BY <1>2, HashOfType DEF RemoveFull, HashOf, At
    <2>2. CASE g = HashOf(t)
      <3>1. full'[g] = 0
        BY <1>2, <2>1, <2>2, ResetAt DEF RemoveFull, CountTypeOK
      <3>2. At(t, "removeIncr")'
        BY <1>2 DEF RemoveFull, Goto, At, CountTypeOK
      <3> QED BY <2>1, <2>2, <3>1, <3>2 DEF Removing
    <2>3. CASE g # HashOf(t)
      <3>1. g \in gone \ revived /\ g \in Hash
        BY <1>2, <2>3 DEF RemoveFull, CountTypeOK
      <3>2. full'[g] = full[g] /\ incr'[g] = incr[g]
        BY <1>2, <2>1, <2>3, <3>1, ResetAt DEF RemoveFull, CountTypeOK
      <3>3. Removing(g) => Removing(g)'
        BY <1>2, <3>1, RemovingKept DEF RemoveFull, At
      <3> QED BY <3>1, <3>2, <3>3, RemovedAt DEF RemovedInv
    <2> QED BY <2>2, <2>3
  <1>3. CASE ~RemoveFull(t)
    <2>1. g \in gone \ revived /\ g \in Hash
      BY <1>3 DEF Handler, Upload, Start, CountLocal, CountGlobal, Receive, Migrated,
                  AddLocal, AddGlobal, RemoveBlock, RemoveIncr, countHistory, CountTypeOK
    <2>2. full[g] = 0 /\ (incr[g] > 0 => Removing(g))
      BY <2>1, RemovedAt DEF RemovedInv
    <2>3. CASE RemoveIncr(t)
      <3>1. HashOf(t) \in Hash
        BY <2>3, HashOfType DEF RemoveIncr, At
      <3>2. full' = full /\ incr'[g] = IF g = HashOf(t) THEN 0 ELSE incr[g]
        BY <2>1, <2>3, <3>1, ResetAt DEF RemoveIncr, CountTypeOK
      <3>3. g # HashOf(t) => (Removing(g) => Removing(g)')
        BY <2>1, RemovingKept
      <3> QED BY <2>2, <3>2, <3>3
    <2>4. CASE ~RemoveIncr(t)
      <3>1. Removing(g) => Removing(g)'
        <4>1. CASE At(t, "removeIncr")
          BY <1>3, <2>4, <4>1 DEF Handler, Upload, Start, CountLocal, CountGlobal, Receive,
                  Migrated, AddLocal, AddGlobal, RemoveBlock, At
        <4> QED BY <2>1, <4>1, RemovingKept
      <3>2. incr'[g] = incr[g]
        <4>1. CASE CountLocal(t)
          <5>1. HashOf(t) \in Hash /\ g # HashOf(t)
            BY <4>1, HashOfType DEF CountLocal, At
          <5> QED BY <2>1, <4>1, <5>1, IncrementAt DEF CountLocal, CountTypeOK
        <4>2. CASE ~CountLocal(t)
          BY <1>3, <2>4, <4>2 DEF Handler, Upload, Start, CountGlobal, Receive, Migrated,
                  AddLocal, AddGlobal, RemoveBlock, tables
        <4> QED BY <4>1, <4>2
      <3>3. full'[g] = full[g]
        <4>1. CASE AddLocal(t)
          <5>1. HashOf(t) \in Hash
            BY <4>1, HashOfType DEF AddLocal, At
          <5>2. HashOf(t) \in gone => HashOf(t) \in revived
            BY <4>1 DEF AddLocal, RemovedInv, AssignedAreRevived
          <5> QED BY <2>1, <4>1, <5>1, <5>2, IncrementAt DEF AddLocal, CountTypeOK
        <4>2. ASSUME NEW h \in Hash, Migrated(t, h) PROVE full'[g] = full[g]
          BY <2>1, <4>2, IncrementAt DEF Migrated, CountTypeOK
        <4>3. CASE ~AddLocal(t) /\ \A h \in Hash : ~Migrated(t, h)
          BY <1>3, <2>4, <4>3 DEF Handler, Upload, Start, CountLocal, CountGlobal, Receive,
                  AddGlobal, RemoveBlock, tables
        <4> QED BY <4>1, <4>2, <4>3
      <3> QED BY <2>2, <3>1, <3>2, <3>3
    <2> QED BY <2>3, <2>4
  <1> QED BY <1>2, <1>3

LEMMA RoundRemoved ==
    ASSUME CountTypeOK, RemovedInv, CountRound
    PROVE  RemovedInv'
  <1>1. UNCHANGED <<pc, todo, gone>> /\ revived \subseteq revived'
    BY DEF CountRound, StartCountRound, SendRound, NextPhase, CopyOne, MergeOne, ClearOne, Visit,
           taskVars, countHistory
  <1>2. AssignedAreRevived'
    BY <1>1 DEF RemovedInv, AssignedAreRevived, At, HashOf
  <1> SUFFICES ASSUME NEW g \in gone' \ revived'
               PROVE  full'[g] = 0 /\ (incr'[g] > 0 => Removing(g)')
    BY <1>2 DEF RemovedInv, RemovedIsGone, Removing
  <1>3. g \in gone \ revived /\ g \in Hash /\ (Removing(g)' <=> Removing(g))
    BY <1>1 DEF CountTypeOK, Removing, At, HashOf
  <1>4. full[g] = 0 /\ (incr[g] > 0 => Removing(g))
    BY <1>3, RemovedAt DEF RemovedInv
  <1>5. ASSUME NEW h \in Hash, MergeOne(h)
        PROVE  full'[g] = 0 /\ (incr'[g] > 0 => Removing(g)')
    <2>1. full \in Counts /\ incr[h] \in Nat /\ full' = Increment(full, h, incr[h])
      BY <1>5, CountsAt DEF MergeOne, Consolidate, CountTypeOK
    <2>2. full'[g] = IF g = h THEN full[g] + incr[g] ELSE full[g]
      BY <1>3, <2>1, IncrementAt
    <2>3. g = h => incr[g] = 0
      BY <1>3, <1>4, <1>5, <2>1 DEF MergeOne, Removing
    <2> QED BY <1>3, <1>4, <1>5, <2>2, <2>3 DEF MergeOne
  <1>6. ASSUME NEW h \in Hash, ClearOne(h)
        PROVE  full'[g] = 0 /\ (incr'[g] > 0 => Removing(g)')
    <2>1. incr'[g] = IF g = h THEN 0 ELSE incr[g]
      BY <1>3, <1>6, ResetAt DEF ClearOne, CountTypeOK
    <2> QED BY <1>3, <1>4, <1>6, <2>1 DEF ClearOne
  <1>7. CASE \A h \in Hash : ~MergeOne(h) /\ ~ClearOne(h)
    <2>1. UNCHANGED <<incr, full>>
      BY <1>7 DEF CountRound, StartCountRound, SendRound, NextPhase, CopyOne, tables
    <2> QED BY <1>3, <1>4, <2>1
  <1> QED BY <1>5, <1>6, <1>7

LEMMA RemovedStep ==
    ASSUME CountTypeOK, RemovedInv, [CountNext]_countVars
    PROVE  RemovedInv'
  <1>1. CASE Newcomer
    BY <1>1 DEF Newcomer, Greet, ReadIncrNext, Answer, Read, tables, taskVars, countHistory,
                RemovedInv, AssignedAreRevived, RemovedIsGone, At, HashOf
  <1>2. CASE UNCHANGED countVars
    BY <1>2 DEF countVars, tables, taskVars, countHistory, RemovedInv, AssignedAreRevived,
                RemovedIsGone, At, HashOf
  <1> QED BY <1>1, <1>2, HandlerRemoved, RoundRemoved DEF CountNext

(* RemovedIsGone: a block that was removed has no local count, unless      *)
(* something counted it since, or a received count or a round's merge was  *)
(* caught between two of the removal's steps.                              *)
THEOREM NoCountComesBack == ASSUME BatchesAssumption PROVE CountSpec => []RemovedIsGone
  <1>1. CountInit => CountTypeOK /\ RemovedInv
    BY InitTypes DEF CountInit, RemovedInv, AssignedAreRevived, RemovedIsGone
  <1>2. CountTypeOK /\ RemovedInv /\ [CountNext]_countVars => (CountTypeOK /\ RemovedInv)'
    BY TypesStep, RemovedStep
  <1>3. RemovedInv => RemovedIsGone
    BY DEF RemovedInv
  <1> QED BY <1>1, <1>2, <1>3, PTL DEF CountSpec

-----------------------------------------------------------------------------
(* A newcomer misses nothing.                                              *)

(* What of a block's hits is still to be put in the full count.            *)
ToMerge(h) ==
    IF Merged(h) THEN 0 ELSE IF Copied(h) THEN snap[h] ELSE incr[h]

(* What of a block's hits the peers are still to be sent, now or next time.*)
Cleared(h) == phase = "send" \/ (phase = "clear" /\ h \notin left)

ToSend(h) ==
    IF Copied(h) THEN snap[h] ELSE IF Cleared(h) THEN snap[h] + incr[h] ELSE incr[h]

(* Every hit is in the full count or still to be put there, ...            *)
Kept(h) ==
    /\ full[h] + ToMerge(h) + unsent[h] >= hits[h]
    /\ Copied(h) /\ ~Merged(h) => incr[h] >= snap[h]

(* ... so a newcomer that has read the full count knows of all hits that   *)
(* the coming rounds will not tell it of.                                  *)
HasRead(h) == greet = "incr" \/ (greet = "full" /\ h \notin unread)

Knows(h) ==
    /\ HasRead(h) => told[h] + heard[h] + ToSend(h) + unsent[h] >= hits[h]
    /\ greet = "answered" => told[h] + ToSend(h) + unsent[h] >= hits[h]

ToldInv ==
    /\ greet # "new" => listed
    /\ \A h \in Hash \ gone : Kept(h) /\ Knows(h)

(* What a handler does to a block that is not removed: it adds a hit, or   *)
(* it leaves the incremental count alone and takes nothing from the full   *)
(* one.                                                                    *)
LEMMA HandlerEffect ==
    ASSUME CountTypeOK, RemovalsAreGone, NEW t \in Task, Handler(t), NEW g \in Hash \ gone'
    PROVE  /\ g \in Hash \ gone
           /\ UNCHANGED <<countRoundVars, greetVars>>
           /\ \/ /\ full'[g] = full[g]
                 /\ incr'[g] = incr[g] + 1
                 /\ hits'[g] = hits[g] + 1
                 /\ unsent'[g] = IF Copied(g) THEN unsent[g] + 1 ELSE unsent[g]
              \/ /\ full'[g] >= full[g] /\ full'[g] \in Nat
                 /\ incr'[g] = incr[g]
                 /\ hits'[g] = hits[g]
                 /\ unsent'[g] = unsent[g]
  <1>1. g \in Hash \ gone /\ UNCHANGED <<countRoundVars, greetVars>>
    BY DEF Handler, Upload, Start, CountLocal, CountGlobal, Receive, Migrated, AddLocal,
           AddGlobal, RemoveBlock, RemoveFull, RemoveIncr, countHistory
  <1> DEFINE Adds == /\ full'[g] = full[g]
                     /\ incr'[g] = incr[g] + 1
                     /\ hits'[g] = hits[g] + 1
                     /\ unsent'[g] = IF Copied(g) THEN unsent[g] + 1 ELSE unsent[g]
             Spares == /\ full'[g] >= full[g] /\ full'[g] \in Nat
                       /\ incr'[g] = incr[g]
                       /\ hits'[g] = hits[g]
                       /\ unsent'[g] = unsent[g]
  <1>2. full[g] \in Nat /\ full[g] >= full[g] /\ full[g] + 1 >= full[g] /\ full[g] + 1 \in Nat
    BY CountsAt
  <1>3. CASE CountLocal(t)
    <2>1. HashOf(t) \in Hash
      BY <1>3, HashOfType DEF CountLocal, At
    <2>2. /\ incr'[g] = IF g = HashOf(t) THEN incr[g] + 1 ELSE incr[g]
          /\ hits'[g] = IF g = HashOf(t) THEN hits[g] + 1 ELSE hits[g]
      BY <1>3, <2>1, IncrementAt DEF CountLocal, CountTypeOK
    <2>3. unsent'[g] = IF Copied(HashOf(t)) /\ g = HashOf(t)
                       THEN unsent[g] + 1 ELSE unsent[g]
      BY <1>3, <2>1, IncrementAt DEF CountLocal, CountTypeOK
    <2>4. full' = full
      BY <1>3 DEF CountLocal
    <2>5. CASE g = HashOf(t)
      <3>1. Adds
        BY <2>2, <2>3, <2>4, <2>5
      <3> QED BY <1>1, <3>1
    <2>6. CASE g # HashOf(t)
      <3>1. Spares
        BY <1>2, <2>2, <2>3, <2>4, <2>6
      <3> QED BY <1>1, <3>1
    <2> QED BY <2>5, <2>6
  <1>4. CASE AddLocal(t)
    <2>1. HashOf(t) \in Hash
      BY <1>4, HashOfType DEF AddLocal, At
    <2>2. full'[g] = IF g = HashOf(t) THEN full[g] + 1 ELSE full[g]
      BY <1>4, <2>1, IncrementAt DEF AddLocal, CountTypeOK
    <2>3. Spares
      BY <1>2, <1>4, <2>2 DEF AddLocal
    <2> QED BY <1>1, <2>3
  <1>5. ASSUME NEW h \in Hash, Migrated(t, h) PROVE Spares
    <2>1. full'[g] = IF g = h THEN full[g] + 1 ELSE full[g]
      BY <1>5, IncrementAt DEF Migrated, CountTypeOK
    <2> QED BY <1>2, <1>5, <2>1 DEF Migrated
  <1>6. CASE RemoveFull(t)
    <2>1. HashOf(t) \in Hash /\ g # HashOf(t)
      BY <1>6, HashOfType DEF RemoveFull, At
    <2>2. full'[g] = full[g]
      BY <1>6, <2>1, ResetAt DEF RemoveFull, CountTypeOK
    <2>3. Spares
      BY <1>2, <1>6, <2>2 DEF RemoveFull
    <2> QED BY <1>1, <2>3
  <1>7. CASE RemoveIncr(t)
    <2>1. HashOf(t) \in Hash /\ HashOf(t) \in gone
      BY <1>7, HashOfType DEF RemoveIncr, At, RemovalsAreGone
    <2>2. incr'[g] = incr[g]
      BY <1>1, <1>7, <2>1, ResetAt DEF RemoveIncr, CountTypeOK
    <2>3. Spares
      BY <1>2, <1>7, <2>2 DEF RemoveIncr, countHistory
    <2> QED BY <1>1, <2>3
  <1>8. CASE \/ \E batch \in Batches : Upload(t, batch)
             \/ CountGlobal(t) \/ AddGlobal(t)
             \/ \E h \in Hash : Receive(t, h)
             \/ \E h \in Hash, lastServer \in BOOLEAN : RemoveBlock(t, h, lastServer)
    <2>1. UNCHANGED <<full, incr, hits, unsent>>
      BY <1>8 DEF Upload, Start, CountGlobal, Receive, AddGlobal, RemoveBlock, countHistory, tables
    <2>2. Spares
      BY <1>2, <2>1
    <2> QED BY <1>1, <2>2
  <1> QED BY <1>1, <1>3, <1>4, <1>5, <1>6, <1>7, <1>8 DEF Handler

LEMMA HandlerTold ==
    ASSUME CountTypeOK, RemovalsAreGone, ToldInv, NEW t \in Task, Handler(t)
    PROVE  ToldInv'
  <1>1. UNCHANGED <<countRoundVars, greetVars>>
    BY DEF Handler, Upload, Start, CountLocal, CountGlobal, Receive, Migrated, AddLocal,
           AddGlobal, RemoveBlock, RemoveFull, RemoveIncr, countHistory
  <1>2. ASSUME NEW g \in Hash \ gone' PROVE Kept(g)' /\ Knows(g)'
    <2>1. g \in Hash /\ Kept(g) /\ Knows(g)
      BY HandlerEffect DEF ToldInv
    <2>2. /\ Copied(g)' = Copied(g) /\ Merged(g)' = Merged(g) /\ Cleared(g)' = Cleared(g)
          /\ HasRead(g)' = HasRead(g)
          /\ UNCHANGED <<snap, told, heard, greet>>
      BY <1>1 DEF Copied, Merged, Cleared, HasRead, countRoundVars, greetVars
    <2>3. CASE /\ full'[g] = full[g] /\ incr'[g] = incr[g] + 1 /\ hits'[g] = hits[g] + 1
               /\ unsent'[g] = IF Copied(g) THEN unsent[g] + 1 ELSE unsent[g]
      <3>1. Merged(g) => Copied(g)
        BY DEF Merged, Copied
      <3>2. Kept(g)'
        BY <2>1, <2>2, <2>3, <3>1, CountsAt DEF Kept, ToMerge
      <3>3. Knows(g)'
        BY <2>1, <2>2, <2>3, CountsAt DEF Knows, ToSend
      <3> QED BY <3>2, <3>3
    <2>4. CASE /\ full'[g] >= full[g] /\ full'[g] \in Nat /\ incr'[g] = incr[g]
               /\ hits'[g] = hits[g] /\ unsent'[g] = unsent[g]
      <3>1. Kept(g)'
        BY <2>1, <2>2, <2>4, CountsAt DEF Kept, ToMerge
      <3>2. Knows(g)'
        BY <2>1, <2>2, <2>4, CountsAt DEF Knows, ToSend
      <3> QED BY <3>1, <3>2
    <2> QED BY <2>3, <2>4, HandlerEffect
  <1> QED BY <1>1, <1>2 DEF ToldInv, greetVars

LEMMA RoundTold ==
    ASSUME CountTypeOK, ToldInv, CountRound
    PROVE  ToldInv'
  <1> USE DEF tables, taskVars, greetVars, countHistory
  <1>1. UNCHANGED <<greet, unread, heard, listed, hits, unsent, gone>>
    BY DEF CountRound, StartCountRound, SendRound, NextPhase, CopyOne, MergeOne, ClearOne, Visit
  <1> SUFFICES ASSUME NEW g \in Hash \ gone PROVE Kept(g)' /\ Knows(g)'
    BY <1>1 DEF ToldInv
  <1>2. g \in Hash /\ Kept(g) /\ Knows(g)
    BY DEF ToldInv
  <1>3. HasRead(g)' = HasRead(g)
    BY <1>1 DEF HasRead
  <1> DEFINE Frame == UNCHANGED <<incr, full, told, snap>>
  <1>4. CASE StartCountRound
    <2>1. snap'[g] = 0
      BY <1>4 DEF StartCountRound, Zero
    <2>2. ~Copied(g) /\ ~Merged(g) /\ ~Cleared(g) /\ ~Copied(g)' /\ ~Merged(g)' /\ ~Cleared(g)'
      BY <1>4 DEF StartCountRound, Copied, Merged, Cleared
    <2>3. UNCHANGED <<incr, full, told>>
      BY <1>4 DEF StartCountRound
    <2> QED BY <1>1, <1>2, <1>3, <2>2, <2>3 DEF Kept, Knows, ToMerge, ToSend
  <1>5. CASE SendRound
    <2>1. snap'[g] = 0
      BY <1>5 DEF SendRound, Zero
    <2>2. ~Copied(g) /\ ~Merged(g) /\ Cleared(g) /\ ~Copied(g)' /\ ~Merged(g)' /\ ~Cleared(g)'
      BY <1>5 DEF SendRound, Copied, Merged, Cleared
    <2>3. UNCHANGED <<incr, full>>
      BY <1>5 DEF SendRound
    <2>4. Kept(g)'
      BY <1>1, <1>2, <2>2, <2>3 DEF Kept, ToMerge
    <2>5. Knows(g)'
      <3>1. CASE greet = "new"
        BY <1>1, <3>1 DEF Knows, HasRead
      <3>2. CASE greet # "new"
        <4>1. told' = Plus(told, snap)
          BY <1>5, <3>2 DEF SendRound, ToldInv
        <4>2. told'[g] = told[g] + snap[g]
          BY <4>1 DEF Plus
        <4> QED BY <1>1, <1>2, <1>3, <2>2, <2>3, <4>2, CountsAt DEF Knows, ToSend
      <3> QED BY <3>1, <3>2
    <2> QED BY <2>4, <2>5
  <1>6. ASSUME NEW step, NEW over, NextPhase(step, over),
               <<step, over>> \in {<<"copy", "merge">>, <<"merge", "clear">>, <<"clear", "send">>}
        PROVE  Kept(g)' /\ Knows(g)'
    <2>1. Frame
      BY <1>6 DEF NextPhase
    <2>2. /\ Copied(g)' = Copied(g) /\ Merged(g)' = Merged(g) /\ Cleared(g)' = Cleared(g)
      BY <1>6 DEF NextPhase, Copied, Merged, Cleared
    <2> QED BY <1>1, <1>2, <1>3, <2>1, <2>2 DEF Kept, Knows, ToMerge, ToSend
  <1>7. ASSUME NEW h \in Hash, CopyOne(h) PROVE Kept(g)' /\ Knows(g)'
    <2>1. UNCHANGED <<incr, full, told>>
      BY <1>7 DEF CopyOne, Visit
    <2>2. snap'[g] = IF g = h THEN incr[g] ELSE snap[g]
      BY <1>7 DEF CopyOne, CountTypeOK, Counts
    <2>3. /\ ~Merged(g) /\ ~Cleared(g) /\ ~Merged(g)' /\ ~Cleared(g)'
          /\ Copied(g)' <=> Copied(g) \/ g = h
          /\ g = h => ~Copied(g)
      BY <1>7 DEF CopyOne, Visit, Copied, Merged, Cleared
    <2> QED BY <1>1, <1>2, <1>3, <2>1, <2>2, <2>3, CountsAt DEF Kept, Knows, ToMerge, ToSend
  <1>8. ASSUME NEW h \in Hash, MergeOne(h) PROVE Kept(g)' /\ Knows(g)'
    <2>1. UNCHANGED <<incr, snap, told>>
      BY <1>8 DEF MergeOne, Visit
    <2>2. full \in Counts /\ incr[h] \in Nat /\ full' = Increment(full, h, incr[h])
      BY <1>8, CountsAt DEF MergeOne, Consolidate, CountTypeOK
    <2>3. full'[g] = IF g = h THEN full[g] + incr[g] ELSE full[g]
      BY <2>2, IncrementAt
    <2>4. /\ Copied(g) /\ Copied(g)' /\ ~Cleared(g) /\ ~Cleared(g)'
          /\ Merged(g)' <=> Merged(g) \/ g = h
          /\ g = h => ~Merged(g)
      BY <1>8 DEF MergeOne, Visit, Copied, Merged, Cleared
    <2>5. Kept(g)'
      BY <1>1, <1>2, <2>1, <2>3, <2>4, CountsAt DEF Kept, ToMerge
    <2>6. Knows(g)'
      BY <1>1, <1>2, <1>3, <2>1, <2>4 DEF Knows, ToSend
    <2> QED BY <2>5, <2>6
  <1>9. ASSUME NEW h \in Hash, ClearOne(h) PROVE Kept(g)' /\ Knows(g)'
    <2>1. UNCHANGED <<full, snap, told>>
      BY <1>9 DEF ClearOne, Visit
    <2>2. incr'[g] = IF g = h THEN 0 ELSE incr[g]
      BY <1>9, ResetAt DEF ClearOne, CountTypeOK
    <2>3. /\ Copied(g) <=> ~Cleared(g)
          /\ Copied(g)' <=> ~Cleared(g)'
          /\ Merged(g) <=> Copied(g)
          /\ Merged(g)' <=> Copied(g)'
          /\ Copied(g)' <=> Copied(g) /\ g # h
          /\ Copied(h)
      BY <1>9 DEF ClearOne, Visit, Copied, Merged, Cleared
    <2>4. Kept(g)'
      BY <1>1, <1>2, <2>1, <2>2, <2>3, CountsAt DEF Kept, ToMerge
    <2>5. Knows(g)'
      BY <1>1, <1>2, <1>3, <2>1, <2>2, <2>3, CountsAt DEF Knows, ToSend
    <2> QED BY <2>4, <2>5
  <1> QED BY <1>4, <1>5, <1>6, <1>7, <1>8, <1>9 DEF CountRound

LEMMA NewcomerTold ==
    ASSUME CountTypeOK, ToldInv, Newcomer
    PROVE  ToldInv'
  <1> USE DEF tables, taskVars, countRoundVars, countHistory
  <1>1. UNCHANGED <<incr, full, phase, left, snap, hits, unsent, gone>>
    BY DEF Newcomer, Greet, ReadIncrNext, Answer, Read
  <1>2. greet' # "new" => listed'
    BY DEF Newcomer, Greet, ListedAtOnce, ReadIncrNext, Answer, Read, ToldInv
  <1> SUFFICES ASSUME NEW g \in Hash \ gone PROVE Kept(g)' /\ Knows(g)'
    BY <1>1, <1>2 DEF ToldInv
  <1>3. Kept(g) /\ Knows(g)
    BY DEF ToldInv
  <1>4. Kept(g)' /\ ToSend(g)' = ToSend(g)
    BY <1>1, <1>3 DEF Kept, ToMerge, ToSend, Copied, Merged, Cleared
  <1>5. ToSend(g) \in Nat /\ ToSend(g) >= ToMerge(g)
    BY CountsAt DEF ToSend, ToMerge
  <1>6. CASE Greet
    BY <1>4, <1>6 DEF Greet, Knows, HasRead
  <1>7. CASE ReadIncrNext
    BY <1>1, <1>3, <1>4, <1>7 DEF ReadIncrNext, Knows, HasRead
  <1>8. CASE Answer
    <2>1. told'[g] = told[g] + heard[g]
      BY <1>8 DEF Answer, Plus
    <2> QED BY <1>1, <1>3, <1>4, <1>5, <1>8, <2>1, CountsAt DEF Answer, Knows, HasRead
  <1>9. ASSUME NEW h \in Hash, Read("full", full, h) PROVE Knows(g)'
    <2>1. heard \in Counts /\ full[h] \in Nat /\ heard' = Increment(heard, h, full[h])
      BY <1>9, CountsAt DEF Read, CountTypeOK
    <2>2. heard'[g] = IF g = h THEN heard[g] + full[g] ELSE heard[g]
      BY <2>1, IncrementAt
    <2>3. UNCHANGED told /\ greet' = "full" /\ (HasRead(g)' <=> HasRead(g) \/ g = h)
      BY <1>9 DEF Read, HasRead
    <2>4. CASE g = h
      <3> DEFINE tosend == ToSend(g)
                 tomerge == ToMerge(g)
      <3>1. full[g] + tomerge + unsent[g] >= hits[g] /\ tomerge \in Nat
        BY <1>3, CountsAt DEF Kept, ToMerge
      <3>2. tosend \in Nat /\ tosend >= tomerge /\ tosend' = tosend
        BY <1>4, <1>5
      <3> HIDE DEF tosend, tomerge
      <3>3. told'[g] + heard'[g] + tosend + unsent[g] >= hits[g]
        BY <2>2, <2>3, <2>4, <3>1, <3>2, CountsAt
      <3> QED BY <1>1, <2>3, <3>2, <3>3 DEF Knows, tosend
    <2>5. CASE g # h
      BY <1>1, <1>3, <1>4, <2>2, <2>3, <2>5 DEF Knows
    <2> QED BY <2>4, <2>5
  <1>10. ASSUME NEW h \in Hash, Read("incr", incr, h) PROVE Knows(g)'
    <2>1. heard \in Counts /\ incr[h] \in Nat /\ heard' = Increment(heard, h, incr[h])
      BY <1>10, CountsAt DEF Read, CountTypeOK
    <2>2. heard'[g] = IF g = h THEN heard[g] + incr[g] ELSE heard[g]
      BY <2>1, IncrementAt
    <2>3. UNCHANGED told /\ greet' = "incr" /\ greet = "incr"
      BY <1>10 DEF Read
    <2> QED BY <1>1, <1>3, <1>4, <1>5, <2>2, <2>3, CountsAt DEF Knows, HasRead
  <1> QED BY <1>4, <1>6, <1>7, <1>8, <1>9, <1>10 DEF Newcomer

LEMMA ToldStep ==
    ASSUME CountTypeOK, RemovalsAreGone, ToldInv, [CountNext]_countVars
    PROVE  ToldInv'
  <1>1. CASE UNCHANGED countVars
    BY <1>1 DEF countVars, tables, countRoundVars, greetVars, countHistory, ToldInv, Kept, Knows,
                ToMerge,
                ToSend, HasRead, Copied, Merged, Cleared
  <1> QED BY <1>1, HandlerTold, RoundTold, NewcomerTold DEF CountNext

LEMMA InitTold == CountInit => ToldInv
  <1> SUFFICES ASSUME CountInit PROVE ToldInv
    OBVIOUS
  <1>1. ASSUME NEW h \in Hash PROVE Kept(h) /\ Knows(h)
    <2>1. ~Copied(h) /\ ~Merged(h) /\ ~Cleared(h) /\ ~HasRead(h)
      BY DEF CountInit, Copied, Merged, Cleared, HasRead
    <2>2. Zero[h] = 0
      BY DEF Zero
    <2> QED BY <2>1, <2>2 DEF CountInit, Kept, Knows, ToMerge
  <1> QED BY <1>1 DEF CountInit, ToldInv

LEMMA KnowsMissesNothing ==
    ASSUME CountTypeOK, ToldInv
    PROVE  NewcomerMissesNothing
  <1> SUFFICES ASSUME greet = "answered", phase = "idle", NEW h \in Hash \ gone
               PROVE  told[h] + incr[h] + unsent[h] >= hits[h]
    BY DEF NewcomerMissesNothing
  <1> QED BY DEF ToldInv, Knows, ToSend, Copied, Cleared

(* NewcomerMissesNothing: once it is answered, between two rounds, a       *)
(* newcomer has been told of every hit that the next round will not tell   *)
(* it of, but for hits made between a round's copy and its clear: the      *)
(* full counts it was read, and the rounds it was listed for, miss none.   *)
THEOREM NewcomerToldAll == ASSUME BatchesAssumption PROVE CountSpec => []NewcomerMissesNothing
  <1>1. CountInit => CountTypeOK /\ AccountInv /\ ToldInv
    BY InitTypes, InitAccounts, InitTold
  <1>2. CountTypeOK /\ AccountInv /\ ToldInv /\ [CountNext]_countVars =>
           (CountTypeOK /\ AccountInv /\ ToldInv)'
    BY TypesStep, AccountsStep, ToldStep DEF AccountInv
  <1> QED BY <1>1, <1>2, KnowsMissesNothing, PTL DEF CountSpec
=============================================================================
