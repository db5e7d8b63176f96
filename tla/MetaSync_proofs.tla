--------------------------- MODULE MetaSync_proofs ---------------------------
(***************************************************************************)
(* Theorems about MetaSync, for any metadata servers, data servers, hashes *)
(* and any number of requests and failures.                                *)
(***************************************************************************)
EXTENDS MetaSync, TLAPS

-----------------------------------------------------------------------------
(* Calls.                                                                  *)

(* A step changes the calls and the lists of servers in one of five ways,  *)
(* or not at all.                                                          *)
CallVarsStep ==
    \/ UNCHANGED <<call, answer, down>>
    \/ \E n \in Node : Send(n)
    \/ \E n, p \in Node : Deliver(p, n) \/ Reply(n, p) \/ Fail(n, p) \/ Answer(p, n)

LEMMA CallSteps == [Next]_vars => CallVarsStep
  <1> SUFFICES ASSUME [Next]_vars PROVE CallVarsStep
    OBVIOUS
  <1> USE DEF CallVarsStep, callVars
  <1>1. CASE UNCHANGED vars
    BY <1>1 DEF vars
  <1>2. ASSUME NEW n \in Node, DataRequest(n)
        PROVE  CallVarsStep
    BY <1>2 DEF DataRequest, Request, UploadNew, UploadReplica, UploadAgain,
                Remove, Missing, Migrated
  <1>3. ASSUME NEW n \in Node, SyncStep(n)
        PROVE  CallVarsStep
    BY <1>3 DEF SyncStep, TakeMeta, ClearMeta, TakeOps, ClearOps, TakeCounts,
                EarlyReturn
  <1>4. ASSUME NEW n \in Node, NEW p \in Node, HandlerStep(p, n)
        PROVE  CallVarsStep
    BY <1>4 DEF HandlerStep, HandleMeta, HandleWedge, HandleOp
  <1> QED BY <1>1, <1>2, <1>3, <1>4 DEF Next, CallStep

(* Calls and lists keep their types.                                       *)
LEMMA CallTypesStep == CallTypes /\ [Next]_vars => CallTypes'
  <1> SUFFICES ASSUME CallTypes, CallVarsStep PROVE CallTypes'
    BY CallSteps
  <1> USE DEF CallTypes
  <1>1. CASE UNCHANGED <<call, answer, down>>
    BY <1>1
  <1>2. ASSUME NEW n \in Node, Send(n) PROVE CallTypes'
    BY <1>2 DEF Send
  <1>3. ASSUME NEW n \in Node, NEW p \in Node, Deliver(p, n) PROVE CallTypes'
    BY <1>3 DEF Deliver
  <1>4. ASSUME NEW n \in Node, NEW p \in Node, Reply(n, p) PROVE CallTypes'
    BY <1>4 DEF Reply, CallOver
  <1>5. ASSUME NEW n \in Node, NEW p \in Node, Fail(n, p) PROVE CallTypes'
    BY <1>5 DEF Fail, CallOver
  <1>6. ASSUME NEW n \in Node, NEW p \in Node, Answer(p, n) PROVE CallTypes'
    <2>1. \/ UNCHANGED <<call, answer, down>>
          \/ /\ call' = [call EXCEPT ![n][p] = "answered"]
             /\ answer' = [answer EXCEPT ![n][p] = down[p]]
             /\ UNCHANGED down
      BY <1>6 DEF Answer
    <2>2. down[p] \in SUBSET Node
      OBVIOUS
    <2>3. /\ [call EXCEPT ![n][p] = "answered"] \in
                [Node -> [Node -> {"none", "sent", "running", "answered"}]]
          /\ [answer EXCEPT ![n][p] = down[p]] \in [Node -> [Node -> SUBSET Node]]
      BY <2>2
    <2> QED BY <2>1, <2>3
  <1> QED BY <1>1, <1>2, <1>3, <1>4, <1>5, <1>6 DEF CallVarsStep

LEMMA CallTypesCorrect == Spec => []CallTypes
  <1>1. Init => CallTypes
    BY DEF Init, CallTypes
  <1> QED BY <1>1, CallTypesStep, PTL DEF Spec

-----------------------------------------------------------------------------
(* A server nobody is going to call stays so, whatever the step.           *)
LEMMA CutOffStays ==
    ASSUME CallTypes, [Next]_vars, NEW p \in Node, CutOff(p)
    PROVE  CutOff(p)'
  <1> USE DEF CutOff, CallTypes
  <1>1. CASE UNCHANGED <<call, answer, down>>
    BY <1>1
  <1>2. ASSUME NEW n \in Node, Send(n) PROVE CutOff(p)'
    BY <1>2 DEF Send, Called
  <1>3. ASSUME NEW n \in Node, NEW q \in Node, Deliver(q, n) PROVE CutOff(p)'
    BY <1>3 DEF Deliver
  <1>4. ASSUME NEW n \in Node, NEW q \in Node, Reply(n, q) PROVE CutOff(p)'
    BY <1>4 DEF Reply, CallOver
  <1>5. ASSUME NEW n \in Node, NEW q \in Node, Fail(n, q) PROVE CutOff(p)'
    BY <1>5 DEF Fail, CallOver
  (* The answer comes from a server other than p, which calls p unavailable *)
  (* itself.                                                                *)
  <1>6. ASSUME NEW n \in Node, NEW q \in Node, Answer(q, n) PROVE CutOff(p)'
    <2>1. /\ UNCHANGED down
          /\ \/ UNCHANGED <<call, answer>>
             \/ /\ call[n][q] = "running"
                /\ call' = [call EXCEPT ![n][q] = "answered"]
                /\ answer' = [answer EXCEPT ![n][q] = down[q]]
      BY <1>6 DEF Answer
    <2>2. CASE UNCHANGED <<call, answer>>
      BY <2>1, <2>2
    <2>3. CASE /\ call[n][q] = "running"
               /\ call' = [call EXCEPT ![n][q] = "answered"]
               /\ answer' = [answer EXCEPT ![n][q] = down[q]]
      <3> SUFFICES ASSUME NEW m \in Node \ {p}
                   PROVE  /\ p \in down'[m]
                          /\ call'[m][p] = "none"
                          /\ \A r \in Node :
                                call'[m][r] = "answered" => p \in answer'[m][r]
        OBVIOUS
      <3>1. CASE m # n
        BY <2>1, <2>3, <3>1
      <3>2. CASE m = n
        <4>1. q # p /\ p \in down[q]
          BY <2>3, <3>2
        <4>2. \A r \in Node : /\ call'[n][r] = IF r = q THEN "answered" ELSE call[n][r]
                              /\ answer'[n][r] = IF r = q THEN down[q] ELSE answer[n][r]
          BY <2>3
        <4> QED BY <2>1, <3>2, <4>1, <4>2
      <3> QED BY <3>1, <3>2
    <2> QED BY <2>1, <2>2, <2>3
  <1> QED BY CallSteps, <1>1, <1>2, <1>3, <1>4, <1>5, <1>6 DEF CallVarsStep

(* Once every other server calls a server unavailable and no call to it or *)
(* answer that calls it up is left, no synchronisation brings it back:     *)
(* client.rs:309 skips it and nothing probes it.                           *)
THEOREM CutOffIsForGood == Spec => CutOffForGood
  <1>1. CallTypes /\ [Next]_vars => [\A p \in Node : CutOff(p) => CutOff(p)']_vars
    BY CutOffStays
  <1> QED BY <1>1, CallTypesCorrect, PTL DEF Spec, CutOffForGood

-----------------------------------------------------------------------------
(* The operators on blocks, tables and operations.                         *)

LEMMA BlockTypes ==
    ASSUME NEW meta \in KvBlockMeta, NEW other \in KvBlockMeta, NEW s \in ServerId
    PROVE  /\ NewBlock(s, {}) \in KvBlockMeta
           /\ WithServer(meta, s) \in KvBlockMeta
           /\ WithoutServer(meta, s) \in KvBlockMeta
           /\ Intersection(other, meta) \in KvBlockMeta
  BY DEF KvBlockMeta, NewBlock, WithServer, WithoutServer, Intersection

LEMMA TableTypes ==
    ASSUME NEW tbl \in BlockTable, NEW h \in Hash
    PROVE  /\ tbl[h] # NoMeta => tbl[h] \in KvBlockMeta
           /\ ServersOf(tbl, h) \in SUBSET ServerId
           /\ \A s \in ServerId : Withdrawn(tbl, h, s) \in BlockTable
           /\ \A meta \in KvBlockMeta : Inserted(tbl, h, meta) \in BlockTable
  <1> USE DEF BlockTable
  <1>1. tbl[h] # NoMeta => tbl[h] \in KvBlockMeta
    OBVIOUS
  <1>2. ServersOf(tbl, h) \in SUBSET ServerId
    BY <1>1 DEF ServersOf, KvBlockMeta
  <1>3. ASSUME NEW s \in ServerId PROVE Withdrawn(tbl, h, s) \in BlockTable
    <2>1. CASE tbl[h] = NoMeta
      BY <2>1 DEF Withdrawn
    <2>2. CASE tbl[h] # NoMeta
      <3>1. WithoutServer(tbl[h], s) \in KvBlockMeta
        BY <1>1, <2>2, BlockTypes
      <3> QED BY <2>2, <3>1 DEF Withdrawn
    <2> QED BY <2>1, <2>2
  <1>4. ASSUME NEW meta \in KvBlockMeta PROVE Inserted(tbl, h, meta) \in BlockTable
    <2>1. tbl[h] # NoMeta => Intersection(tbl[h], meta) \in KvBlockMeta
      BY <1>1 DEF KvBlockMeta, Intersection
    <2> QED BY <2>1 DEF Inserted
  <1> QED BY <1>1, <1>2, <1>3, <1>4

(* What an operation that is not NoOp may be.                              *)
LEMMA OpCases ==
    ASSUME NEW op \in Ops, op # NoOp
    PROVE  \/ op.operation = 1 /\ \E s \in Server : op = AddOp(s) /\ op.srv = s
           \/ op.operation = 2 /\ \E s \in ServerId : op = DelOp(s) /\ op.srv = s
  BY DEF Ops, NoOp, AddOp, DelOp

LEMMA ServerIds == Server \subseteq ServerId /\ Node \subseteq ServerId
  BY DEF ServerId, DataServer

LEMMA ExecutedType ==
    ASSUME NEW tbl \in BlockTable, NEW h \in Hash, NEW op \in Ops, op # NoOp
    PROVE  Executed(tbl, h, op) \in BlockTable
  <1>1. CASE tbl[h] = NoMeta
    BY <1>1 DEF Executed
  <1>2. CASE tbl[h] # NoMeta /\ op.operation = 1
    <2>1. op.srv \in ServerId /\ tbl[h] \in KvBlockMeta
      BY <1>2, OpCases, ServerIds, TableTypes
    <2>2. WithServer(tbl[h], op.srv) \in KvBlockMeta
      BY <2>1, BlockTypes
    <2> QED BY <1>2, <2>2, TableTypes DEF Executed
  <1>3. CASE tbl[h] # NoMeta /\ op.operation # 1
    <2>1. op.srv \in ServerId
      BY <1>3, OpCases
    <2> QED BY <1>3, <2>1, TableTypes DEF Executed
  <1> QED BY <1>1, <1>2, <1>3

LEMMA RequestTypes ==
    /\ NoBlocks \in BlockTable
    /\ NoOps \in [Hash -> Ops]
    /\ EmptyRequest \in [meta : BlockTable, ops : [Hash -> Ops], counts : SUBSET Hash]
    /\ \A s \in Server : AddOp(s) \in Ops
    /\ \A s \in ServerId : DelOp(s) \in Ops
  BY DEF NoBlocks, BlockTable, NoOps, Ops, EmptyRequest

LEMMA CarriedType ==
    ASSUME NEW meta, NEW ops
    PROVE  Carried(meta, ops) \in SUBSET Replica
  BY DEF Carried

-----------------------------------------------------------------------------
(* Each group of variables keeps its types.                                *)

(* A table that one action of node n replaces by another table.            *)
LEMMA TableStep ==
    ASSUME DirTypes, NEW n \in Node, NEW tbl \in BlockTable,
           table' = [table EXCEPT ![n] = tbl], wedged' = wedged
    PROVE  DirTypes'
  BY DEF DirTypes

LEMMA DirRequest ==
    ASSUME DirTypes, NEW n \in Node, NEW s \in Server, NEW h \in Hash,
           \/ UploadNew(n, s, h) \/ UploadReplica(n, s, h) \/ UploadAgain(n, s, h)
           \/ Remove(n, s, h) \/ Missing(n, s, h) \/ Migrated(n, s, h)
    PROVE  DirTypes'
  <1>1. s \in ServerId /\ table[n] \in BlockTable
    BY ServerIds DEF DirTypes
  <1>2. wedged' = wedged
    BY DEF UploadNew, UploadReplica, UploadAgain, Remove, Missing, Migrated, Request
  <1>3. \A meta \in KvBlockMeta :
           table' = [table EXCEPT ![n][h] = meta] => DirTypes'
    BY <1>1, <1>2 DEF DirTypes, BlockTable
  <1>4. CASE UploadNew(n, s, h)
    BY <1>1, <1>3, <1>4 DEF UploadNew, NewBlock, KvBlockMeta
  <1>5. ASSUME table[n][h] # NoMeta, table' = [table EXCEPT ![n][h] = WithServer(@, s)]
        PROVE  DirTypes'
    <2>1. table[n][h] \in KvBlockMeta
      BY <1>1, <1>5 DEF BlockTable
    <2>2. WithServer(table[n][h], s) \in KvBlockMeta
      BY <1>1, <2>1, BlockTypes
    <2> QED BY <1>3, <1>5, <2>2
  <1>6. CASE UploadReplica(n, s, h)
    BY <1>5, <1>6 DEF UploadReplica
  <1>7. CASE UNCHANGED table
    BY <1>2, <1>7 DEF DirTypes
  <1>8. CASE UploadAgain(n, s, h)
    BY <1>7, <1>8 DEF UploadAgain
  <1>9. CASE Remove(n, s, h) \/ Missing(n, s, h)
    <2>1. Withdrawn(table[n], h, s) \in BlockTable
      BY <1>1, TableTypes
    <2>2. table' = [table EXCEPT ![n] = Withdrawn(table[n], h, s)]
      BY <1>9 DEF Remove, Missing
    <2> QED BY <1>2, <2>1, <2>2, TableStep
  <1>10. CASE Migrated(n, s, h)
    BY <1>5, <1>7, <1>10 DEF Migrated
  <1> QED BY <1>4, <1>6, <1>8, <1>9, <1>10

LEMMA DirHandler ==
    ASSUME DirTypes, RoundTypes, NEW n \in Node, NEW q \in Node, HandlerStep(q, n)
    PROVE  DirTypes'
  <1>1. table[q] \in BlockTable
    BY DEF DirTypes
  <1>2. inbox[q][n] # None =>
            inbox[q][n] \in [meta : BlockTable, ops : [Hash -> Ops]]
    BY DEF RoundTypes, Received
  <1>3. ASSUME NEW h \in Hash, HandleMeta(q, n, h) PROVE DirTypes'
    <2>1. inbox[q][n].meta[h] \in KvBlockMeta
      BY <1>2, <1>3, TableTypes DEF HandleMeta
    <2>2. Inserted(table[q], h, inbox[q][n].meta[h]) \in BlockTable
      BY <1>1, <2>1, TableTypes
    <2>3. /\ table' = [table EXCEPT ![q] = Inserted(table[q], h, inbox[q][n].meta[h])]
          /\ wedged' = wedged
      BY <1>3 DEF HandleMeta
    <2> QED BY <2>2, <2>3, TableStep
  <1>4. ASSUME NEW h \in Hash, HandleWedge(q, n, h) PROVE DirTypes'
    BY <1>4 DEF HandleWedge, DirTypes
  <1>5. ASSUME NEW h \in Hash, HandleOp(q, n, h) PROVE DirTypes'
    <2>1. inbox[q][n].ops[h] \in Ops /\ inbox[q][n].ops[h] # NoOp
      BY <1>2, <1>5 DEF HandleOp
    <2>2. Executed(table[q], h, inbox[q][n].ops[h]) \in BlockTable
      BY <1>1, <2>1, ExecutedType
    <2>3. /\ table' = [table EXCEPT ![q] = Executed(table[q], h, inbox[q][n].ops[h])]
          /\ wedged' = wedged
      BY <1>5 DEF HandleOp
    <2> QED BY <2>2, <2>3, TableStep
  <1>6. CASE Answer(q, n)
    BY <1>6 DEF Answer, dirVars, DirTypes
  <1> QED BY <1>3, <1>4, <1>5, <1>6 DEF HandlerStep

LEMMA DirTypesStep ==
    DirTypes /\ RoundTypes /\ [Next]_vars => DirTypes'
  <1> SUFFICES ASSUME DirTypes, RoundTypes, [Next]_vars PROVE DirTypes'
    OBVIOUS
  <1>1. CASE UNCHANGED dirVars
    BY <1>1 DEF dirVars, DirTypes
  <1>2. CASE UNCHANGED vars
    BY <1>1, <1>2 DEF vars
  <1>3. ASSUME NEW n \in Node, DataRequest(n) PROVE DirTypes'
    BY <1>3, DirRequest DEF DataRequest
  <1>4. ASSUME NEW n \in Node, SyncStep(n) PROVE DirTypes'
    BY <1>1, <1>4 DEF SyncStep, TakeMeta, ClearMeta, TakeOps, ClearOps, TakeCounts,
                      EarlyReturn, Send
  <1>5. ASSUME NEW n \in Node, NEW p \in Node, CallStep(n, p) \/ Fail(n, p)
        PROVE  DirTypes'
    BY <1>1, <1>5 DEF CallStep, Deliver, Reply, Fail
  <1>6. ASSUME NEW n \in Node, NEW p \in Node, HandlerStep(p, n) PROVE DirTypes'
    BY <1>6, DirHandler
  <1> QED BY <1>2, <1>3, <1>4, <1>5, <1>6 DEF Next

LEMMA QueueRequest ==
    ASSUME QueueTypes, NEW n \in Node, NEW s \in Server, NEW h \in Hash,
           \/ UploadNew(n, s, h) \/ UploadReplica(n, s, h) \/ UploadAgain(n, s, h)
           \/ Remove(n, s, h) \/ Missing(n, s, h) \/ Migrated(n, s, h)
    PROVE  QueueTypes'
  <1> USE DEF QueueTypes
  <1>1. s \in ServerId /\ n \in ServerId
    BY ServerIds
  <1>2. incr' \in [Node -> SUBSET Hash]
    BY DEF UploadNew, UploadReplica, UploadAgain, Remove, Missing, Migrated
  <1>3. CASE UploadNew(n, s, h)
    <2>1. NewBlock(s, {}) \in KvBlockMeta
      BY <1>1 DEF NewBlock, KvBlockMeta
    <2>2. /\ updMeta' = [updMeta EXCEPT ![n][h] = NewBlock(s, {})]
          /\ updOp' = updOp
      BY <1>3 DEF UploadNew, insert_update_kvcache
    <2> QED BY <1>2, <2>1, <2>2 DEF BlockTable
  <1>4. ASSUME NEW op \in Ops, insert_update_kvop(n, h, op) PROVE QueueTypes'
    <2>1. updOp' = [updOp EXCEPT ![n][h] = op] /\ updMeta' = updMeta
      BY <1>4 DEF insert_update_kvop
    <2> QED BY <1>2, <2>1
  <1>5. AddOp(s) \in Ops /\ DelOp(s) \in Ops /\ DelOp(n) \in Ops
    BY <1>1, RequestTypes
  <1>6. CASE UploadReplica(n, s, h) \/ Migrated(n, s, h)
    BY <1>4, <1>5, <1>6 DEF UploadReplica, Migrated
  <1>7. CASE Remove(n, s, h) \/ Missing(n, s, h)
    BY <1>4, <1>5, <1>7 DEF Remove, Missing
  <1>8. CASE UploadAgain(n, s, h)
    BY <1>2, <1>8 DEF UploadAgain
  <1> QED BY <1>3, <1>6, <1>7, <1>8

LEMMA QueueTypesStep == QueueTypes /\ [Next]_vars => QueueTypes'
  <1> SUFFICES ASSUME QueueTypes, [Next]_vars PROVE QueueTypes'
    OBVIOUS
  <1>1. CASE UNCHANGED queueVars
    BY <1>1 DEF queueVars, QueueTypes
  <1>2. CASE UNCHANGED vars
    BY <1>1, <1>2 DEF vars
  <1>3. ASSUME NEW n \in Node, DataRequest(n) PROVE QueueTypes'
    BY <1>3, QueueRequest DEF DataRequest
  <1>4. ASSUME NEW n \in Node, SyncStep(n) PROVE QueueTypes'
    <2>1. CASE TakeMeta(n) \/ TakeOps(n) \/ TakeCounts(n)
      BY <1>1, <2>1 DEF TakeMeta, TakeOps, TakeCounts
    <2>2. CASE ClearMeta(n)
      BY <2>2, RequestTypes DEF ClearMeta, QueueTypes
    <2>3. CASE ClearOps(n)
      BY <2>3, RequestTypes DEF ClearOps, QueueTypes
    <2>4. CASE EarlyReturn(n) \/ Send(n)
      BY <2>4 DEF EarlyReturn, Send, QueueTypes
    <2> QED BY <1>4, <2>1, <2>2, <2>3, <2>4 DEF SyncStep
  <1>5. ASSUME NEW n \in Node, NEW p \in Node,
               CallStep(n, p) \/ Fail(n, p) \/ HandlerStep(p, n)
        PROVE  QueueTypes'
    BY <1>1, <1>5 DEF CallStep, Deliver, Reply, Fail, HandlerStep, HandleMeta,
                      HandleWedge, HandleOp, Answer
  <1> QED BY <1>2, <1>3, <1>4, <1>5 DEF Next

LEMMA RoundTypesStep == QueueTypes /\ RoundTypes /\ [Next]_vars => RoundTypes'
  <1> SUFFICES ASSUME QueueTypes, RoundTypes, [Next]_vars PROVE RoundTypes'
    OBVIOUS
  <1> DEFINE Sent == [meta : BlockTable, ops : [Hash -> Ops], counts : SUBSET Hash]
  <1> USE DEF RoundTypes, Received
  <1>1. CASE UNCHANGED <<phase, out, inbox>>
    BY <1>1
  <1>2. CASE UNCHANGED vars
    BY <1>1, <1>2 DEF vars, callVars
  <1>3. ASSUME NEW n \in Node, DataRequest(n) PROVE RoundTypes'
    BY <1>1, <1>3 DEF DataRequest, UploadNew, UploadReplica, UploadAgain, Remove,
                      Missing, Migrated, Request, callVars
  <1>4. ASSUME NEW n \in Node, NEW step \in Phases, Goto(n, step)
        PROVE  phase' \in [Node -> Phases]
    BY <1>4 DEF Goto
  <1>5. ASSUME NEW n \in Node, EndRound(n)
        PROVE  phase' \in [Node -> Phases] /\ out' \in [Node -> Sent]
    BY <1>4, <1>5, RequestTypes DEF EndRound, Phases
  <1>6. ASSUME NEW n \in Node, SyncStep(n) PROVE RoundTypes'
    <2>1. inbox' = inbox
      BY <1>6 DEF SyncStep, TakeMeta, ClearMeta, TakeOps, ClearOps, TakeCounts,
                  EarlyReturn, Send, callVars
    <2>2. phase' \in [Node -> Phases]
      BY <1>4, <1>5, <1>6 DEF SyncStep, TakeMeta, ClearMeta, TakeOps, ClearOps,
                              TakeCounts, EarlyReturn, Send, Phases
    <2>3. out[n] \in Sent
      OBVIOUS
    <2>4. CASE TakeMeta(n)
      <3>1. [out[n] EXCEPT !.meta = updMeta[n]] \in Sent
        BY <2>3 DEF QueueTypes
      <3> QED BY <2>1, <2>2, <2>4, <3>1 DEF TakeMeta, Copy
    <2>5. CASE TakeOps(n)
      <3>1. [out[n] EXCEPT !.ops = updOp[n]] \in Sent
        BY <2>3 DEF QueueTypes
      <3> QED BY <2>1, <2>2, <2>5, <3>1 DEF TakeOps
    <2>6. CASE TakeCounts(n)
      <3>1. [out[n] EXCEPT !.counts = incr[n]] \in Sent
        BY <2>3 DEF QueueTypes
      <3> QED BY <2>1, <2>2, <2>6, <3>1 DEF TakeCounts
    <2>7. CASE ClearMeta(n) \/ ClearOps(n)
      BY <2>1, <2>2, <2>7 DEF ClearMeta, ClearOps
    <2>8. CASE EarlyReturn(n) \/ Send(n)
      BY <1>5, <2>1, <2>2, <2>8 DEF EarlyReturn, Send
    <2> QED BY <1>6, <2>4, <2>5, <2>6, <2>7, <2>8 DEF SyncStep
  <1>7. ASSUME NEW n \in Node, NEW p \in Node, Reply(n, p) \/ Fail(n, p)
        PROVE  RoundTypes'
    BY <1>5, <1>7 DEF Reply, Fail, CallOver
  <1>8. ASSUME NEW n \in Node, NEW p \in Node, NEW left \in {None} \union Received,
               inbox' = [inbox EXCEPT ![p][n] = left], UNCHANGED <<phase, out>>
        PROVE  RoundTypes'
    BY <1>8
  <1>9. ASSUME NEW n \in Node, NEW p \in Node, Deliver(p, n) PROVE RoundTypes'
    <2>1. [meta |-> out[n].meta, ops |-> out[n].ops] \in Received
      OBVIOUS
    <2> QED BY <1>8, <1>9, <2>1 DEF Deliver
  <1>10. ASSUME NEW n \in Node, NEW p \in Node, HandlerStep(p, n) PROVE RoundTypes'
    <2>1. inbox[p][n] # None => inbox[p][n] \in Received
      OBVIOUS
    <2>2. ASSUME NEW h \in Hash, HandleMeta(p, n, h) PROVE RoundTypes'
      <3>1. [inbox[p][n] EXCEPT !.meta[h] = NoMeta] \in Received
        BY <2>1, <2>2 DEF HandleMeta, BlockTable
      <3> QED BY <1>8, <2>2, <3>1 DEF HandleMeta
    <2>3. ASSUME NEW h \in Hash, HandleOp(p, n, h) PROVE RoundTypes'
      <3>1. [inbox[p][n] EXCEPT !.ops[h] = NoOp] \in Received
        BY <2>1, <2>3 DEF HandleOp, Ops
      <3> QED BY <1>8, <2>3, <3>1 DEF HandleOp
    <2>4. ASSUME NEW h \in Hash, HandleWedge(p, n, h) PROVE RoundTypes'
      BY <1>1, <2>4 DEF HandleWedge, callVars
    <2>5. CASE Answer(p, n)
      BY <1>8, <2>5 DEF Answer
    <2> QED BY <1>10, <2>2, <2>3, <2>4, <2>5 DEF HandlerStep
  <1> QED BY <1>2, <1>3, <1>6, <1>7, <1>9, <1>10 DEF Next, CallStep

LEMMA ReplicaSets ==
    ASSUME RoundTypes, NEW n \in Node, NEW p \in Node
    PROVE  /\ Carried(out[n].meta, out[n].ops) \in SUBSET Replica
           /\ \A h \in Hash : inbox[p][n] # None /\ inbox[p][n].meta[h] # NoMeta =>
                 {h} \X inbox[p][n].meta[h].servers \in SUBSET Replica
  <1>1. ASSUME NEW h \in Hash, inbox[p][n] # None, inbox[p][n].meta[h] # NoMeta
        PROVE  {h} \X inbox[p][n].meta[h].servers \in SUBSET Replica
    <2>1. inbox[p][n].meta \in BlockTable
      BY <1>1 DEF RoundTypes, Received
    <2>2. inbox[p][n].meta[h].servers \subseteq ServerId
      BY <1>1, <2>1, TableTypes DEF KvBlockMeta
    <2> QED BY <2>2 DEF Replica
  <1> QED BY <1>1, CarriedType

LEMMA HistoryTypesStep == HistoryTypes /\ RoundTypes /\ [Next]_vars => HistoryTypes'
  <1> SUFFICES ASSUME HistoryTypes, RoundTypes, [Next]_vars PROVE HistoryTypes'
    OBVIOUS
  <1> DEFINE PerPair == [Node -> [Node -> SUBSET Replica]]
  <1> USE DEF HistoryTypes
  <1>1. CASE UNCHANGED <<told, explained, accepted, failures>>
    BY <1>1
  <1>2. CASE UNCHANGED vars
    BY <1>1, <1>2 DEF vars, history, bounds
  <1>3. ASSUME NEW n \in Node, NEW new \in SUBSET Replica, NEW lost \in SUBSET Replica,
               Announce(n, new, lost)
        PROVE  told' \in PerPair /\ explained' \in PerPair
    BY <1>3 DEF Announce
  <1>4. ASSUME NEW n \in Node, NEW h \in Hash, NEW op, insert_update_kvop(n, h, op)
        PROVE  told' \in PerPair /\ explained' \in PerPair
    <2> DEFINE new == { r \in Replica : r[1] = h /\ op = AddOp(r[2]) }
               old == { r \in Replica : r[1] = h /\ updOp[n][h] = AddOp(r[2]) }
    <2>1. Announce(n, new, IF phase[n] = "clearOps" THEN new ELSE old \ new)
      BY <1>4 DEF insert_update_kvop
    <2>2. /\ new \in SUBSET Replica
          /\ (IF phase[n] = "clearOps" THEN new ELSE old \ new) \in SUBSET Replica
      OBVIOUS
    <2> HIDE DEF new, old
    <2> QED BY <1>3, <2>1, <2>2
  <1>5. ASSUME NEW n \in Node, NEW h \in Hash, NEW s \in Server,
               insert_update_kvcache(n, h, s)
        PROVE  told' \in PerPair /\ explained' \in PerPair
    <2> DEFINE new == {<<h, s>>}
               lost == IF phase[n] = "clearMeta" THEN new ELSE {}
    <2>1. Announce(n, new, lost)
      BY <1>5 DEF insert_update_kvcache
    <2>2. new \in SUBSET Replica /\ lost \in SUBSET Replica
      BY ServerIds DEF Replica
    <2> HIDE DEF new, lost
    <2> QED BY <1>3, <2>1, <2>2
  <1>6. ASSUME NEW n \in Node, DataRequest(n) PROVE HistoryTypes'
    <2>1. accepted' \in 0 .. MaxRequests /\ failures' \in 0 .. MaxFailures
      <3>1. accepted' = accepted + 1 /\ accepted < MaxRequests /\ failures' = failures
        BY <1>6 DEF DataRequest, UploadNew, UploadReplica, UploadAgain, Remove,
                    Missing, Migrated, Request
      <3> QED BY <3>1, SyncAssumption
    <2>2. told' \in PerPair /\ explained' \in PerPair
      BY <1>4, <1>5, <1>6 DEF DataRequest, UploadNew, UploadReplica, UploadAgain,
                              Remove, Missing, Migrated, history
    <2> QED BY <2>1, <2>2
  <1>7. ASSUME NEW n \in Node, SyncStep(n) PROVE HistoryTypes'
    <2>1. UNCHANGED <<told, accepted, failures>>
      BY <1>7 DEF SyncStep, TakeMeta, ClearMeta, TakeOps, ClearOps, TakeCounts,
                  EarlyReturn, Send, history, bounds
    <2>2. CASE TakeMeta(n) \/ ClearMeta(n) \/ TakeOps(n) \/ ClearOps(n) \/ TakeCounts(n)
      BY <1>1, <2>2 DEF TakeMeta, ClearMeta, TakeOps, ClearOps, TakeCounts,
                        history, bounds
    <2>3. CASE EarlyReturn(n)
      BY <2>1, <2>3, ReplicaSets DEF EarlyReturn, ForAllPeers
    <2>4. CASE Send(n)
      BY <2>1, <2>4, ReplicaSets DEF Send
    <2> QED BY <1>7, <2>2, <2>3, <2>4 DEF SyncStep
  <1>8. ASSUME NEW n \in Node, NEW p \in Node, CallStep(n, p) PROVE HistoryTypes'
    BY <1>1, <1>8 DEF CallStep, Deliver, Reply, history, bounds
  <1>9. ASSUME NEW n \in Node, NEW p \in Node, Fail(n, p) PROVE HistoryTypes'
    BY <1>9, ReplicaSets, SyncAssumption DEF Fail
  <1>10. ASSUME NEW n \in Node, NEW p \in Node, NEW new \in SUBSET Replica,
                Told(p, n, new), UNCHANGED bounds
         PROVE  HistoryTypes'
    BY <1>10 DEF Told, bounds
  <1>11. ASSUME NEW n \in Node, NEW p \in Node, HandlerStep(p, n) PROVE HistoryTypes'
    <2>1. ASSUME NEW h \in Hash, HandleOp(p, n, h) PROVE HistoryTypes'
      <3> DEFINE new == { r \in Replica : r[1] = h /\ inbox[p][n].ops[h] = AddOp(r[2]) }
      <3>1. Told(p, n, new) /\ UNCHANGED bounds /\ new \in SUBSET Replica
        BY <2>1 DEF HandleOp
      <3> HIDE DEF new
      <3> QED BY <1>10, <3>1
    <2>2. ASSUME NEW h \in Hash, HandleMeta(p, n, h) PROVE HistoryTypes'
      <3>1. {h} \X inbox[p][n].meta[h].servers \in SUBSET Replica
        BY <2>2, ReplicaSets DEF HandleMeta
      <3> QED BY <1>10, <2>2, <3>1 DEF HandleMeta
    <2>3. ASSUME NEW h \in Hash, HandleWedge(p, n, h) PROVE HistoryTypes'
      BY <1>1, <2>3 DEF HandleWedge, history, bounds
    <2>4. CASE Answer(p, n)
      BY <1>1, <2>4 DEF Answer, history, bounds
    <2> QED BY <1>11, <2>1, <2>2, <2>3, <2>4 DEF HandlerStep
  <1> QED BY <1>2, <1>6, <1>7, <1>8, <1>9, <1>11 DEF Next

(* What is said is said by data requests.                                  *)
LEMMA WordsOfRequests ==
    ASSUME [Next]_vars
    PROVE  \/ UNCHANGED words
           \/ \E n \in Node, s \in Server, h \in Hash :
                 \/ UploadNew(n, s, h) \/ UploadReplica(n, s, h) \/ Remove(n, s, h)
                 \/ Missing(n, s, h) \/ Migrated(n, s, h)
  <1>1. CASE UNCHANGED vars
    BY <1>1 DEF vars, history
  <1>2. ASSUME NEW n \in Node, NEW s \in Server, NEW h \in Hash, UploadAgain(n, s, h)
        PROVE  UNCHANGED words
    BY <1>2 DEF UploadAgain, history
  <1>3. ASSUME NEW n \in Node, SyncStep(n) PROVE UNCHANGED words
    BY <1>3 DEF SyncStep, TakeMeta, ClearMeta, TakeOps, ClearOps, TakeCounts, EarlyReturn,
                Send, history
  <1>4. ASSUME NEW n \in Node, NEW p \in Node,
               CallStep(n, p) \/ Fail(n, p) \/ HandlerStep(p, n)
        PROVE  UNCHANGED words
    BY <1>4 DEF CallStep, Deliver, Reply, Fail, HandlerStep, HandleMeta, HandleWedge,
                HandleOp, Answer, Told, history
  <1> QED BY <1>1, <1>2, <1>3, <1>4 DEF Next, DataRequest

LEMMA WordsGrow ==
    ASSUME [Next]_vars
    PROVE  said \subseteq said' /\ denied \subseteq denied'
  <1>1. ASSUME NEW new, NEW gone, Say(new, gone)
        PROVE  said \subseteq said' /\ denied \subseteq denied'
    BY <1>1 DEF Say
  <1>2. ASSUME NEW n \in Node, NEW h \in Hash, NEW s \in Server, insert_update_kvcache(n, h, s)
        PROVE  said \subseteq said' /\ denied \subseteq denied'
    BY <1>1, <1>2 DEF insert_update_kvcache
  <1>3. ASSUME NEW n \in Node, NEW h \in Hash, NEW op, insert_update_kvop(n, h, op)
        PROVE  said \subseteq said' /\ denied \subseteq denied'
    BY <1>1, <1>3 DEF insert_update_kvop
  <1>4. CASE UNCHANGED words
    BY <1>4 DEF words
  <1>5. ASSUME NEW n \in Node, NEW s \in Server, NEW h \in Hash, UploadNew(n, s, h)
        PROVE  said \subseteq said' /\ denied \subseteq denied'
    BY <1>2, <1>5 DEF UploadNew
  <1>6. ASSUME NEW n \in Node, NEW s \in Server, NEW h \in Hash,
               \/ UploadReplica(n, s, h) \/ Remove(n, s, h)
               \/ Missing(n, s, h) \/ Migrated(n, s, h)
        PROVE  said \subseteq said' /\ denied \subseteq denied'
    BY <1>3, <1>6 DEF UploadReplica, Remove, Missing, Migrated
  <1> QED BY <1>4, <1>5, <1>6, WordsOfRequests

LEMMA WordTypesStep == WordTypes /\ [Next]_vars => WordTypes'
  <1> SUFFICES ASSUME WordTypes, [Next]_vars PROVE WordTypes'
    OBVIOUS
  <1>1. ASSUME NEW h \in Hash, NEW s \in Server, NEW n \in Node, insert_update_kvcache(n, h, s)
        PROVE  WordTypes'
    BY <1>1 DEF insert_update_kvcache, Say, WordTypes
  <1>2. ASSUME NEW h \in Hash, NEW op, NEW n \in Node, insert_update_kvop(n, h, op),
               \A s \in ServerId : op = AddOp(s) => s \in Server
        PROVE  WordTypes'
    <2> DEFINE new  == { r \in Replica : r[1] = h /\ op = AddOp(r[2]) }
               gone == { r \in Replica : r[1] = h /\ op = DelOp(r[2]) }
    <2>1. Say(new, gone)
      BY <1>2 DEF insert_update_kvop
    <2>2. new \subseteq Hash \X Server
      BY <1>2 DEF Replica
    <2>3. gone \subseteq Replica
      OBVIOUS
    <2> HIDE DEF new, gone
    <2> QED BY <2>1, <2>2, <2>3 DEF Say, WordTypes
  <1>3. ASSUME NEW n \in Node, NEW s \in Server, NEW h \in Hash,
               \/ UploadReplica(n, s, h) \/ Remove(n, s, h)
               \/ Missing(n, s, h) \/ Migrated(n, s, h)
        PROVE  WordTypes'
    <2>1. PICK op \in {AddOp(s), DelOp(s), DelOp(n)} : insert_update_kvop(n, h, op)
      BY <1>3 DEF UploadReplica, Remove, Missing, Migrated
    <2>2. \A d \in ServerId : op = AddOp(d) => d \in Server
      BY <2>1 DEF AddOp, DelOp
    <2> QED BY <1>2, <2>1, <2>2
  <1>4. CASE UNCHANGED words
    BY <1>4 DEF words, WordTypes
  <1> QED BY <1>1, <1>3, <1>4, WordsOfRequests DEF UploadNew

-----------------------------------------------------------------------------
(* Rounds and their calls.                                                 *)

(* Node n ends a call to p: the round is over if no other call is out.     *)
LEMMA CallOverWaits ==
    ASSUME CallTypes, RoundTypes, WaitsForCalls, NEW n \in Node, NEW p \in Node,
           call[n][p] # "none", CallOver(n, p)
    PROVE  WaitsForCalls'
  <1> USE DEF CallTypes, RoundTypes, WaitsForCalls
  <1>1. call' = [call EXCEPT ![n][p] = "none"] /\ phase[n] = "wait"
    BY DEF CallOver
  <1>2. CASE LastAnswer(n, p)
    <2>1. phase' = [phase EXCEPT ![n] = "idle"]
      BY <1>2 DEF CallOver, EndRound, Goto
    <2>2. \A q \in Node : call'[n][q] = "none"
      BY <1>1, <1>2 DEF LastAnswer
    <2> QED BY <1>1, <2>1, <2>2
  <1>3. CASE ~LastAnswer(n, p)
    <2>1. phase' = phase
      BY <1>3 DEF CallOver
    <2>2. \E q \in Node : call'[n][q] # "none"
      BY <1>1, <1>3 DEF LastAnswer
    <2> QED BY <1>1, <2>1, <2>2
  <1> QED BY <1>2, <1>3

(* A call that goes on is still out.                                       *)
LEMMA OneCallChanges ==
    ASSUME CallTypes, WaitsForCalls, NEW n \in Node, NEW p \in Node,
           call[n][p] # "none", phase' = phase,
           NEW state, state # "none", call' = [call EXCEPT ![n][p] = state]
    PROVE  WaitsForCalls'
  <1> USE DEF CallTypes, WaitsForCalls
  <1>1. /\ \A m, q \in Node : call'[m][q] = IF m = n /\ q = p THEN state ELSE call[m][q]
        /\ n # p
    OBVIOUS
  <1>2. \A m \in Node : (\E q \in Node : call'[m][q] # "none")
                          <=> \E q \in Node : call[m][q] # "none"
    BY <1>1
  <1> QED BY <1>1, <1>2

LEMMA WaitsStep ==
    CallTypes /\ RoundTypes /\ WaitsForCalls /\ [Next]_vars => WaitsForCalls'
  <1> SUFFICES ASSUME CallTypes, RoundTypes, WaitsForCalls, [Next]_vars
               PROVE  WaitsForCalls'
    OBVIOUS
  <1> USE DEF CallTypes, RoundTypes, WaitsForCalls
  <1>1. CASE UNCHANGED <<phase, call>>
    BY <1>1
  <1>2. CASE UNCHANGED vars
    BY <1>1, <1>2 DEF vars, callVars
  <1>3. ASSUME NEW n \in Node, DataRequest(n) PROVE WaitsForCalls'
    BY <1>1, <1>3 DEF DataRequest, UploadNew, UploadReplica, UploadAgain, Remove,
                      Missing, Migrated, Request, callVars
  <1>4. ASSUME NEW n \in Node, SyncStep(n) PROVE WaitsForCalls'
    <2>1. ASSUME NEW step \in Phases \ {"wait"}, Goto(n, step), phase[n] # "wait",
                 call' = call
          PROVE  WaitsForCalls'
      BY <2>1 DEF Goto
    <2>2. CASE TakeMeta(n) \/ ClearMeta(n) \/ TakeOps(n) \/ ClearOps(n) \/ TakeCounts(n)
      BY <2>1, <2>2 DEF TakeMeta, ClearMeta, TakeOps, ClearOps, TakeCounts,
                        callVars, Phases
    <2>3. CASE EarlyReturn(n)
      BY <2>1, <2>3 DEF EarlyReturn, EndRound, callVars, Phases
    <2>4. CASE Send(n)
      <3>1. call' = [call EXCEPT ![n] =
                        [p \in Node |-> IF p \in Called(n) THEN "sent" ELSE "none"]]
        BY <2>4 DEF Send
      <3>2. phase' = [phase EXCEPT ![n] = IF Called(n) = {} THEN "idle" ELSE "wait"]
        BY <2>4 DEF Send, EndRound, Goto
      <3>3. Called(n) \subseteq Node /\ n \notin Called(n)
        BY DEF Called
      <3>4. /\ phase'[n] = "wait" <=> \E p \in Node : call'[n][p] # "none"
            /\ call'[n][n] = "none"
        BY <3>1, <3>2, <3>3
      <3>5. ASSUME NEW m \in Node, m # n
            PROVE  call'[m] = call[m] /\ phase'[m] = phase[m]
        BY <3>1, <3>2, <3>5
      <3> SUFFICES ASSUME NEW m \in Node
                   PROVE  /\ phase'[m] = "wait" <=> \E p \in Node : call'[m][p] # "none"
                          /\ call'[m][m] = "none"
        OBVIOUS
      <3>6. CASE m # n
        BY <3>5, <3>6
      <3> QED BY <3>4, <3>6
    <2> QED BY <1>4, <2>2, <2>3, <2>4 DEF SyncStep
  <1>5. ASSUME NEW n \in Node, NEW p \in Node, CallStep(n, p) \/ Fail(n, p)
        PROVE  WaitsForCalls'
    <2>1. CASE Deliver(p, n)
      <3>1. /\ phase' = phase /\ call[n][p] = "sent"
            /\ call' = [call EXCEPT ![n][p] = "running"]
        BY <2>1 DEF Deliver
      <3> QED BY <3>1, OneCallChanges
    <2>2. CASE Reply(n, p) \/ Fail(n, p)
      BY <2>2, CallOverWaits DEF Reply, Fail
    <2> QED BY <1>5, <2>1, <2>2 DEF CallStep
  <1>6. ASSUME NEW n \in Node, NEW p \in Node, HandlerStep(p, n) PROVE WaitsForCalls'
    <2>1. CASE \E h \in Hash : HandleMeta(p, n, h) \/ HandleWedge(p, n, h) \/ HandleOp(p, n, h)
      BY <1>1, <2>1 DEF HandleMeta, HandleWedge, HandleOp, callVars
    <2>2. CASE Answer(p, n)
      <3>1. /\ phase' = phase
            /\ \/ call' = call
               \/ call[n][p] = "running" /\ call' = [call EXCEPT ![n][p] = "answered"]
        BY <2>2 DEF Answer
      <3>2. CASE call' = call
        BY <1>1, <3>1, <3>2
      <3>3. CASE call[n][p] = "running" /\ call' = [call EXCEPT ![n][p] = "answered"]
        BY <3>1, <3>3, OneCallChanges
      <3> QED BY <3>1, <3>2, <3>3
    <2> QED BY <1>6, <2>1, <2>2 DEF HandlerStep
  <1> QED BY <1>2, <1>3, <1>4, <1>5, <1>6 DEF Next

(* Whatever is requested, lost or answered, the tables and queues keep     *)
(* their types, a round waits exactly for its own calls, and a server never *)
(* calls itself: at most one request to each peer is under way at a time.  *)
THEOREM SyncTypesCorrect == Spec => []TypeOK
  <1>1. Init => TypeOK
    <2>1. Init => DirTypes /\ QueueTypes /\ RoundTypes
      BY RequestTypes DEF Init, DirTypes, QueueTypes, RoundTypes, Phases
    <2>2. Init => CallTypes /\ HistoryTypes /\ WordTypes /\ WaitsForCalls
      BY SyncAssumption DEF Init, CallTypes, HistoryTypes, WordTypes, WaitsForCalls
    <2> QED BY <2>1, <2>2 DEF TypeOK
  <1>2. TypeOK /\ [Next]_vars => TypeOK'
    BY DirTypesStep, QueueTypesStep, RoundTypesStep, CallTypesStep,
       HistoryTypesStep, WordTypesStep, WaitsStep DEF TypeOK
  <1> QED BY <1>1, <1>2, PTL DEF Spec

-----------------------------------------------------------------------------
(* The property, replica by replica.                                       *)

(* Server n lists data server s, one of its own, for block h.              *)
Listed(n, h, s) == Home[s] = n /\ s \in ServersOf(table[n], h)

Carries(meta, ops, h, s) == s \in ServersOf(meta, h) \/ ops[h] = AddOp(s)

(* The round's request is still to be delivered to p.                      *)
ToDeliver(n, p) == phase[n] \notin {"idle", "wait"} \/ call[n][p] = "sent"

(* The peer p knows of the replica, or it is on its way, or accounted for. *)
Covered(n, p, h, s) ==
    \/ <<h, s>> \in told[n][p]
    \/ <<h, s>> \in explained[n][p]
    \/ Carries(updMeta[n], updOp[n], h, s)
    \/ ToDeliver(n, p) /\ Carries(out[n].meta, out[n].ops, h, s)
    \/ inbox[p][n] # None /\ Carries(inbox[p][n].meta, inbox[p][n].ops, h, s)

(* A replica in a queue that is about to be cleared is in the copy of the  *)
(* queue, or accounted for, or in the other queue.                         *)
MetaCopied(n, p, h, s) ==
    phase[n] = "clearMeta" /\ s \in ServersOf(updMeta[n], h) =>
        \/ s \in ServersOf(out[n].meta, h)
        \/ <<h, s>> \in explained[n][p]
        \/ updOp[n][h] = AddOp(s)

OpCopied(n, p, h, s) ==
    phase[n] = "clearOps" /\ updOp[n][h] = AddOp(s) =>
        \/ out[n].ops[h] = AddOp(s)
        \/ <<h, s>> \in explained[n][p]
        \/ s \in ServersOf(updMeta[n], h)

Accounted(n, p, h, s) ==
    Covered(n, p, h, s) /\ MetaCopied(n, p, h, s) /\ OpCopied(n, p, h, s)

ReplicaInv ==
    \A n \in Node : \A p \in Node \ {n} : \A h \in Hash, s \in Server :
        Listed(n, h, s) => Accounted(n, p, h, s)

(* A server announces its own data servers only, and nothing to itself.    *)
OwnServers(n, meta) ==
    \A h \in Hash : \A s \in ServersOf(meta, h) : s \in Server /\ Home[s] = n

QueuesOwn ==
    \A n \in Node :
        /\ OwnServers(n, updMeta[n])
        /\ OwnServers(n, out[n].meta)
        /\ inbox[n][n] = None
        /\ \A q \in Node : inbox[q][n] # None => OwnServers(n, inbox[q][n].meta)

(* No operations of an earlier round are left in the request.              *)
RequestFresh ==
    \A n \in Node :
        /\ phase[n] = "idle" => out[n] = EmptyRequest
        /\ phase[n] \in {"clearMeta", "takeOps"} => out[n].ops = NoOps

-----------------------------------------------------------------------------
LEMMA CarriedIff ==
    ASSUME NEW meta, NEW ops, NEW h \in Hash, NEW s \in ServerId
    PROVE  <<h, s>> \in Carried(meta, ops) <=> Carries(meta, ops, h, s)
  BY DEF Carried, Carries, Replica

LEMMA CoveredIff ==
    ASSUME NEW n \in Node, NEW p \in Node, NEW h \in Hash, NEW s \in ServerId
    PROVE  <<h, s>> \in told[n][p] \union explained[n][p] \union Pending(n, p)
              <=> Covered(n, p, h, s)
  <1> DEFINE Delivering == IF ToDeliver(n, p) THEN Carried(out[n].meta, out[n].ops) ELSE {}
             Arrived == IF inbox[p][n] # None
                        THEN Carried(inbox[p][n].meta, inbox[p][n].ops) ELSE {}
  <1>1. Pending(n, p) = UNION { Carried(updMeta[n], updOp[n]), Delivering, Arrived }
    BY DEF Pending, ToDeliver
  <1>2. <<h, s>> \in Pending(n, p)
            <=> \/ <<h, s>> \in Carried(updMeta[n], updOp[n])
                \/ <<h, s>> \in Delivering
                \/ <<h, s>> \in Arrived
    BY <1>1
  <1>3. <<h, s>> \in Delivering
            <=> ToDeliver(n, p) /\ Carries(out[n].meta, out[n].ops, h, s)
    BY CarriedIff
  <1>4. <<h, s>> \in Arrived
            <=> inbox[p][n] # None /\ Carries(inbox[p][n].meta, inbox[p][n].ops, h, s)
    BY CarriedIff
  <1> HIDE DEF Delivering, Arrived
  <1> QED BY <1>2, <1>3, <1>4, CarriedIff DEF Covered

LEMMA AddOpsDiffer ==
    /\ \A s, t \in ServerId : AddOp(s) = AddOp(t) => s = t
    /\ \A s, t \in ServerId : AddOp(s) # DelOp(t)
    /\ \A s \in ServerId : AddOp(s) # NoOp
  <1>1. \A s : AddOp(s).operation = 1 /\ AddOp(s).srv = s
    BY DEF AddOp
  <1>2. \A s : DelOp(s).operation = 2
    BY DEF DelOp
  <1>3. NoOp.operation = 0
    BY DEF NoOp
  <1> QED BY <1>1, <1>2, <1>3

LEMMA NothingCarried ==
    ASSUME NEW h \in Hash, NEW s \in ServerId
    PROVE  /\ ~ Carries(NoBlocks, NoOps, h, s)
           /\ ServersOf(NoBlocks, h) = {}
           /\ NoOps[h] # AddOp(s)
  BY AddOpsDiffer DEF Carries, ServersOf, NoBlocks, NoOps

(* What node n and its peer p have of each other is as it was.             *)
SameView(n, p) ==
    /\ updMeta'[n] = updMeta[n] /\ updOp'[n] = updOp[n]
    /\ phase'[n] = phase[n] /\ out'[n] = out[n]
    /\ call'[n][p] = call[n][p] /\ inbox'[p][n] = inbox[p][n]
    /\ told'[n][p] = told[n][p] /\ explained'[n][p] = explained[n][p]

LEMMA SameViewAccounted ==
    ASSUME NEW n \in Node, NEW p \in Node, NEW h \in Hash, NEW s \in Server,
           SameView(n, p), Accounted(n, p, h, s)
    PROVE  Accounted(n, p, h, s)'
  BY DEF SameView, Accounted, Covered, MetaCopied, OpCopied, Carries, ToDeliver

-----------------------------------------------------------------------------
(* Data requests.                                                          *)

LEMMA NewBlockPresent ==
    ASSUME NEW s \in ServerId PROVE NewBlock(s, {}) # NoMeta
  BY SyncAssumption DEF NewBlock, KvBlockMeta

(* A new operation: the replica it adds is in the queue; another one that  *)
(* it overwrites is accounted for, or has been copied already.             *)
LEMMA PutOpAccounted ==
    ASSUME TypeOK, NEW n \in Node, NEW p \in Node, NEW g \in Hash, NEW op \in Ops,
           insert_update_kvop(n, g, op), UNCHANGED <<phase, out, callVars>>,
           NEW h \in Hash, NEW s \in Server,
           Accounted(n, p, h, s) \/ (h = g /\ op = AddOp(s))
    PROVE  Accounted(n, p, h, s)'
  <1> DEFINE r == <<h, s>>
             new == { x \in Replica : x[1] = g /\ op = AddOp(x[2]) }
             old == { x \in Replica : x[1] = g /\ updOp[n][g] = AddOp(x[2]) }
             lost == IF phase[n] = "clearOps" THEN new ELSE old \ new
  <1>1. /\ r \in Replica /\ r[1] = h /\ r[2] = s
        /\ s \in ServerId
    BY ServerIds DEF Replica
  <1>2. /\ r \in new <=> h = g /\ op = AddOp(s)
        /\ r \in old <=> h = g /\ updOp[n][g] = AddOp(s)
    BY <1>1
  <1>3. /\ updMeta' = updMeta
        /\ updOp'[n] = [updOp[n] EXCEPT ![g] = op]
        /\ Announce(n, new, lost)
    BY DEF insert_update_kvop, TypeOK, QueueTypes
  <1> HIDE DEF new, old
  <1>4. /\ told'[n][p] = told[n][p] \ new
        /\ explained'[n][p] = (explained[n][p] \ new) \union lost
    BY <1>3 DEF Announce, TypeOK, HistoryTypes
  <1>5. /\ updOp'[n][g] = op
        /\ h # g => updOp'[n][h] = updOp[n][h]
    BY <1>3 DEF TypeOK, QueueTypes
  <1>6. phase' = phase /\ out' = out /\ call' = call /\ inbox' = inbox
    BY DEF callVars
  <1>7. CASE r \in new
    <2>1. updOp'[n][h] = AddOp(s) /\ (phase[n] = "clearOps" => r \in explained'[n][p])
      BY <1>2, <1>4, <1>5, <1>7
    <2> QED BY <1>6, <2>1 DEF Accounted, Covered, MetaCopied, OpCopied, Carries
  <1>8. CASE r \notin new
    <2>1. Accounted(n, p, h, s)
      BY <1>2, <1>8
    <2>2. /\ r \in told[n][p] => r \in told'[n][p]
          /\ r \in explained[n][p] => r \in explained'[n][p]
      BY <1>4, <1>8
    <2>3. CASE updOp'[n][h] = updOp[n][h]
      BY <1>3, <1>6, <2>1, <2>2, <2>3
         DEF Accounted, Covered, MetaCopied, OpCopied, Carries, ToDeliver
    <2>4. CASE h = g /\ updOp[n][h] # AddOp(s)
      <3>1. updOp'[n][h] # AddOp(s)
        BY <1>2, <1>5, <1>8, <2>4
      <3> QED BY <1>3, <1>6, <2>1, <2>2, <2>4, <3>1
              DEF Accounted, Covered, MetaCopied, OpCopied, Carries, ToDeliver
    <2>5. CASE h = g /\ updOp[n][h] = AddOp(s)
      <3>1. r \in old /\ updOp'[n][h] # AddOp(s)
        BY <1>2, <1>5, <1>8, <2>5
      <3>2. CASE phase[n] # "clearOps"
        <4>1. r \in explained'[n][p]
          BY <1>4, <1>8, <3>1, <3>2
        <4> QED BY <1>6, <3>1, <4>1 DEF Accounted, Covered, MetaCopied, OpCopied
      <3>3. CASE phase[n] = "clearOps"
        <4>1. \/ out[n].ops[h] = AddOp(s)
              \/ r \in explained[n][p]
              \/ s \in ServersOf(updMeta[n], h)
          BY <2>1, <2>5, <3>3 DEF Accounted, OpCopied
        <4> QED BY <1>3, <1>6, <2>2, <3>1, <3>3, <4>1
                DEF Accounted, Covered, MetaCopied, OpCopied, Carries, ToDeliver
      <3> QED BY <3>2, <3>3
    <2> QED BY <1>5, <2>3, <2>4, <2>5
  <1> QED BY <1>7, <1>8

(* A new block lists one server, and is in the queue with it.              *)
LEMMA PutMetaAccounted ==
    ASSUME TypeOK, NEW n \in Node, NEW p \in Node, NEW g \in Hash, NEW d \in Server,
           insert_update_kvcache(n, g, d), UNCHANGED <<phase, out, callVars>>,
           NEW h \in Hash, NEW s \in Server,
           (h # g /\ Accounted(n, p, h, s)) \/ (h = g /\ s = d)
    PROVE  Accounted(n, p, h, s)'
  <1> DEFINE r == <<h, s>>
             new == {<<g, d>>}
             lost == IF phase[n] = "clearMeta" THEN new ELSE {}
  <1>1. /\ updOp' = updOp
        /\ updMeta'[n] = [updMeta[n] EXCEPT ![g] = NewBlock(d, {})]
        /\ Announce(n, new, lost)
    BY DEF insert_update_kvcache, TypeOK, QueueTypes
  <1>2. /\ told'[n][p] = told[n][p] \ new
        /\ explained'[n][p] = (explained[n][p] \ new) \union lost
    BY <1>1 DEF Announce, TypeOK, HistoryTypes
  <1>3. /\ updMeta'[n][g] = NewBlock(d, {})
        /\ h # g => updMeta'[n][h] = updMeta[n][h]
    BY <1>1 DEF TypeOK, QueueTypes, BlockTable
  <1>4. phase' = phase /\ out' = out /\ call' = call /\ inbox' = inbox
    BY DEF callVars
  <1>5. CASE h = g /\ s = d
    <2>1. NewBlock(d, {}) # NoMeta
      BY NewBlockPresent, ServerIds
    <2>2. s \in ServersOf(updMeta'[n], h)
      BY <1>3, <1>5, <2>1 DEF ServersOf, NewBlock
    <2>3. phase[n] = "clearMeta" => r \in explained'[n][p]
      BY <1>2, <1>5
    <2> QED BY <1>4, <2>2, <2>3 DEF Accounted, Covered, MetaCopied, OpCopied, Carries
  <1>6. CASE h # g /\ Accounted(n, p, h, s)
    <2>1. ServersOf(updMeta'[n], h) = ServersOf(updMeta[n], h)
      BY <1>3, <1>6 DEF ServersOf
    <2>2. /\ r \in told[n][p] => r \in told'[n][p]
          /\ r \in explained[n][p] => r \in explained'[n][p]
      BY <1>2, <1>6
    <2> QED BY <1>1, <1>4, <1>6, <2>1, <2>2
            DEF Accounted, Covered, MetaCopied, OpCopied, Carries, ToDeliver
  <1> QED BY <1>5, <1>6

(* What tables list after an operation on one block.                       *)
LEMMA ListsAfter ==
    ASSUME NEW tbl \in BlockTable, NEW g \in Hash, NEW d \in ServerId, NEW h \in Hash
    PROVE  /\ ServersOf(Withdrawn(tbl, g, d), h) \subseteq ServersOf(tbl, h)
           /\ tbl[g] # NoMeta =>
                 ServersOf([tbl EXCEPT ![g] = WithServer(@, d)], h)
                    \subseteq ServersOf(tbl, h) \union (IF h = g THEN {d} ELSE {})
           /\ tbl[g] = NoMeta =>
                 ServersOf([tbl EXCEPT ![g] = NewBlock(d, {})], h)
                    \subseteq IF h = g THEN {d} ELSE ServersOf(tbl, h)
           /\ \A meta \in KvBlockMeta :
                 ServersOf(Inserted(tbl, g, meta), h)
                    \subseteq ServersOf(tbl, h) \union (IF h = g THEN meta.servers ELSE {})
           /\ \A meta \in KvBlockMeta : tbl[g] # NoMeta =>
                 ServersOf(Inserted(tbl, g, meta), h) \subseteq ServersOf(tbl, h)
  <1> USE DEF ServersOf, BlockTable
  <1>1. ServersOf(Withdrawn(tbl, g, d), h) \subseteq ServersOf(tbl, h)
    BY DEF Withdrawn, WithoutServer, KvBlockMeta
  <1>2. tbl[g] # NoMeta =>
            ServersOf([tbl EXCEPT ![g] = WithServer(@, d)], h)
               \subseteq ServersOf(tbl, h) \union (IF h = g THEN {d} ELSE {})
    BY DEF WithServer, KvBlockMeta
  <1>3. tbl[g] = NoMeta =>
            ServersOf([tbl EXCEPT ![g] = NewBlock(d, {})], h)
               \subseteq IF h = g THEN {d} ELSE ServersOf(tbl, h)
    BY DEF NewBlock
  <1>4. ASSUME NEW meta \in KvBlockMeta
        PROVE  /\ ServersOf(Inserted(tbl, g, meta), h)
                     \subseteq ServersOf(tbl, h) \union (IF h = g THEN meta.servers ELSE {})
               /\ tbl[g] # NoMeta =>
                     ServersOf(Inserted(tbl, g, meta), h) \subseteq ServersOf(tbl, h)
    BY DEF Inserted, Intersection, KvBlockMeta
  <1> QED BY <1>1, <1>2, <1>3, <1>4

LEMMA RequestAccounted ==
    ASSUME TypeOK, ReplicaInv, NEW m \in Node, NEW d \in Server, NEW g \in Hash,
           \/ UploadNew(m, d, g) \/ UploadReplica(m, d, g) \/ UploadAgain(m, d, g)
           \/ Remove(m, d, g) \/ Missing(m, d, g) \/ Migrated(m, d, g)
    PROVE  ReplicaInv'
  <1> SUFFICES ASSUME NEW n \in Node, NEW p \in Node \ {n}, NEW h \in Hash, NEW s \in Server,
                      Listed(n, h, s)'
               PROVE  Accounted(n, p, h, s)'
    BY DEF ReplicaInv
  <1>0. Home[s] = n /\ s \in ServersOf(table'[n], h)
    BY DEF Listed, ServersOf
  <1> USE DEF Listed
  <1>1. d \in ServerId /\ m \in ServerId /\ s \in ServerId /\ table[m] \in BlockTable
    BY ServerIds DEF TypeOK, DirTypes
  <1>2. UNCHANGED <<phase, out, callVars>>
    BY DEF UploadNew, UploadReplica, UploadAgain, Remove, Missing, Migrated, Request
  <1>3. Listed(n, h, s) => Accounted(n, p, h, s)
    BY DEF ReplicaInv
  <1>4. ASSUME NEW op \in Ops, insert_update_kvop(m, g, op),
               n = m => Listed(n, h, s) \/ (h = g /\ op = AddOp(s)),
               n # m => table'[n] = table[n]
        PROVE  Accounted(n, p, h, s)'
    <2>1. CASE n = m
      BY <1>2, <1>3, <1>4, <2>1, PutOpAccounted
    <2>2. CASE n # m
      <3>1. SameView(n, p)
        BY <1>2, <1>4, <2>2
           DEF SameView, insert_update_kvop, Announce, callVars, TypeOK, QueueTypes, HistoryTypes
      <3> QED BY <1>3, <1>4, <2>2, <3>1, SameViewAccounted
    <2> QED BY <2>1, <2>2
  <1>5. AddOp(d) \in Ops /\ DelOp(d) \in Ops /\ DelOp(m) \in Ops
    BY <1>1, RequestTypes
  <1>6. CASE UploadNew(m, d, g)
    <2>1. /\ table' = [table EXCEPT ![m] = [table[m] EXCEPT ![g] = NewBlock(d, {})]]
          /\ table[m][g] = NoMeta
          /\ insert_update_kvcache(m, g, d)
      BY <1>6 DEF UploadNew, TypeOK, DirTypes
    <2>2. CASE n = m
      <3>1. s \in IF h = g THEN {d} ELSE ServersOf(table[m], h)
        <4>1. table'[m] = [table[m] EXCEPT ![g] = NewBlock(d, {})]
          BY <2>1 DEF TypeOK, DirTypes
        <4>2. ServersOf([table[m] EXCEPT ![g] = NewBlock(d, {})], h)
                  \subseteq IF h = g THEN {d} ELSE ServersOf(table[m], h)
          BY <1>1, <2>1, ListsAfter
        <4> QED BY <1>0, <2>2, <4>1, <4>2
      <3>2. (h # g /\ Accounted(n, p, h, s)) \/ (h = g /\ s = d)
        BY <1>3, <2>2, <3>1
      <3> QED BY <1>2, <2>1, <2>2, <3>2, PutMetaAccounted
    <2>3. CASE n # m
      <3>1. SameView(n, p) /\ table'[n] = table[n]
        BY <1>2, <2>1, <2>3
           DEF SameView, insert_update_kvcache, Announce, callVars, TypeOK, QueueTypes, HistoryTypes, DirTypes
      <3> QED BY <1>3, <3>1, SameViewAccounted
    <2> QED BY <2>2, <2>3
  <1>7. ASSUME insert_update_kvop(m, g, AddOp(d)),
               \/ table' = table
               \/ /\ table[m][g] # NoMeta
                  /\ table' = [table EXCEPT ![m] = [table[m] EXCEPT ![g] = WithServer(@, d)]]
        PROVE  Accounted(n, p, h, s)'
    <2>1. CASE table' = table
      BY <1>4, <1>5, <1>7, <2>1
    <2>2. CASE /\ table[m][g] # NoMeta
               /\ table' = [table EXCEPT ![m] = [table[m] EXCEPT ![g] = WithServer(@, d)]]
      <3>1. /\ table'[m] = [table[m] EXCEPT ![g] = WithServer(@, d)]
            /\ n # m => table'[n] = table[n]
        BY <2>2 DEF TypeOK, DirTypes
      <3>2. n = m => Listed(n, h, s) \/ (h = g /\ AddOp(d) = AddOp(s))
        <4>1. ServersOf([table[m] EXCEPT ![g] = WithServer(@, d)], h)
                  \subseteq ServersOf(table[m], h) \union (IF h = g THEN {d} ELSE {})
          BY <1>1, <2>2, ListsAfter
        <4> QED BY <1>0, <3>1, <4>1
      <3> QED BY <1>4, <1>5, <1>7, <3>1, <3>2
    <2> QED BY <1>7, <2>1, <2>2
  <1>8. CASE UploadReplica(m, d, g)
    BY <1>7, <1>8 DEF UploadReplica, TypeOK, DirTypes
  <1>9. CASE Migrated(m, d, g)
    BY <1>7, <1>9 DEF Migrated, TypeOK, DirTypes
  <1>10. CASE UploadAgain(m, d, g)
    <2>1. SameView(n, p) /\ table' = table
      BY <1>2, <1>10 DEF UploadAgain, SameView, callVars, history
    <2> QED BY <1>3, <2>1, SameViewAccounted
  <1>11. CASE Remove(m, d, g) \/ Missing(m, d, g)
    <2>1. /\ table'[m] = Withdrawn(table[m], g, d)
          /\ n # m => table'[n] = table[n]
      BY <1>11 DEF Remove, Missing, TypeOK, DirTypes
    <2>2. n = m => Listed(n, h, s)
      <3>1. ServersOf(Withdrawn(table[m], g, d), h) \subseteq ServersOf(table[m], h)
        BY <1>1, ListsAfter
      <3> QED BY <1>0, <2>1, <3>1
    <2>3. insert_update_kvop(m, g, DelOp(m)) \/ insert_update_kvop(m, g, DelOp(d))
      BY <1>11 DEF Remove, Missing
    <2> QED BY <1>4, <1>5, <2>1, <2>2, <2>3
  <1> QED BY <1>6, <1>8, <1>9, <1>10, <1>11

-----------------------------------------------------------------------------
(* The synchronisation.                                                    *)

(* Copying, clearing and sending loses no replica that is not accounted    *)
(* for.                                                                    *)
LEMMA SyncStepAccounted ==
    ASSUME TypeOK, RequestFresh, ReplicaInv, NEW m \in Node, SyncStep(m)
    PROVE  ReplicaInv'
  <1> SUFFICES ASSUME NEW n \in Node, NEW p \in Node \ {n}, NEW h \in Hash, NEW s \in Server,
                      Listed(n, h, s)'
               PROVE  Accounted(n, p, h, s)'
    BY DEF ReplicaInv
  <1> DEFINE r == <<h, s>>
  <1>1. table' = table /\ inbox' = inbox /\ told' = told
    BY DEF SyncStep, TakeMeta, ClearMeta, TakeOps, ClearOps, TakeCounts, EarlyReturn,
           Send, dirVars, callVars, history
  <1>2. Accounted(n, p, h, s)
    BY <1>1 DEF ReplicaInv, Listed, ServersOf
  <1>3. s \in ServerId
    BY ServerIds
  <1> USE DEF TypeOK, QueueTypes, RoundTypes, CallTypes, HistoryTypes
  <1>4. CASE n # m
    <2>1. SameView(n, p)
      BY <1>1, <1>4 DEF SameView, SyncStep, TakeMeta, ClearMeta, TakeOps, ClearOps,
           TakeCounts, EarlyReturn, Send, EndRound, Goto, callVars, queueVars, history
    <2> QED BY <1>2, <2>1, SameViewAccounted
  <1>5. CASE n = m
    <2> USE <1>5
    <2>1. CASE TakeMeta(m)
      <3>1. /\ UNCHANGED <<updMeta, updOp, call, explained>>
            /\ phase[n] = "idle" /\ phase'[n] = "clearMeta"
            /\ out'[n].meta = updMeta[n] /\ out'[n].ops = out[n].ops
        BY <2>1 DEF TakeMeta, Copy, Goto, queueVars, callVars, history
      <3>2. call[n][p] # "sent"
        BY <3>1 DEF WaitsForCalls
      <3> QED BY <1>1, <1>2, <3>1, <3>2
              DEF Accounted, Covered, MetaCopied, OpCopied, Carries, ToDeliver
    <2>2. CASE ClearMeta(m)
      <3>1. /\ UNCHANGED <<updOp, out, call, explained>>
            /\ phase[n] = "clearMeta" /\ phase'[n] = "takeOps"
            /\ updMeta'[n] = NoBlocks
        BY <2>2 DEF ClearMeta, Goto, callVars, history
      <3> QED BY <1>1, <1>2, <1>3, <3>1, NothingCarried
              DEF Accounted, Covered, MetaCopied, OpCopied, Carries, ToDeliver
    <2>3. CASE TakeOps(m)
      <3>1. /\ UNCHANGED <<updMeta, updOp, call, explained>>
            /\ phase[n] = "takeOps" /\ phase'[n] = "clearOps"
            /\ out'[n].meta = out[n].meta /\ out'[n].ops = updOp[n]
        BY <2>3 DEF TakeOps, Goto, queueVars, callVars, history
      <3>2. out[n].ops[h] # AddOp(s)
        BY <1>3, <3>1, NothingCarried DEF RequestFresh
      <3> QED BY <1>1, <1>2, <3>1, <3>2
              DEF Accounted, Covered, MetaCopied, OpCopied, Carries, ToDeliver
    <2>4. CASE ClearOps(m)
      <3>1. /\ UNCHANGED <<updMeta, out, call, explained>>
            /\ phase[n] = "clearOps" /\ phase'[n] = "takeCounts"
            /\ updOp'[n] = NoOps
        BY <2>4 DEF ClearOps, Goto, callVars, history
      <3> QED BY <1>1, <1>2, <1>3, <3>1, NothingCarried
              DEF Accounted, Covered, MetaCopied, OpCopied, Carries, ToDeliver
    <2>5. CASE TakeCounts(m)
      <3>1. /\ UNCHANGED <<updMeta, updOp, call, explained>>
            /\ phase[n] = "takeCounts" /\ phase'[n] = "clearCounts"
            /\ out'[n].meta = out[n].meta /\ out'[n].ops = out[n].ops
        BY <2>5 DEF TakeCounts, Goto, queueVars, callVars, history
      <3> QED BY <1>1, <1>2, <3>1
              DEF Accounted, Covered, MetaCopied, OpCopied, Carries, ToDeliver
    (* Of a round that sends p nothing all replicas are accounted for.     *)
    <2>6. ASSUME phase[n] = "clearCounts", phase'[n] \in {"idle", "wait"},
                 UNCHANGED <<updMeta, updOp>>,
                 \/ explained'[n][p] = explained[n][p] \union Carried(out[n].meta, out[n].ops)
                 \/ /\ explained'[n][p] = explained[n][p]
                    /\ call'[n][p] = "sent" /\ out'[n] = out[n]
          PROVE  Accounted(n, p, h, s)'
      BY <1>1, <1>2, <1>3, <2>6, CarriedIff
         DEF Accounted, Covered, MetaCopied, OpCopied, Carries, ToDeliver
    <2>7. CASE EarlyReturn(m)
      BY <2>6, <2>7 DEF EarlyReturn, EndRound, Goto, ForAllPeers
    <2>8. CASE Send(m)
      <3>1. /\ phase[n] = "clearCounts" /\ phase'[n] \in {"idle", "wait"}
            /\ UNCHANGED <<updMeta, updOp>>
        BY <2>8 DEF Send, EndRound, Goto
      <3>2. CASE p \in Called(n)
        BY <2>6, <2>8, <3>1, <3>2 DEF Send
      <3>3. CASE p \notin Called(n)
        BY <2>6, <2>8, <3>1, <3>3 DEF Send
      <3> QED BY <3>2, <3>3
    <2> QED BY <2>1, <2>2, <2>3, <2>4, <2>5, <2>7, <2>8 DEF SyncStep
  <1> QED BY <1>4, <1>5

(* Sending to a peer, its answer, and a call that fails.                   *)
LEMMA CallAccounted ==
    ASSUME TypeOK, ReplicaInv, NEW m \in Node, NEW q \in Node,
           CallStep(m, q) \/ Fail(m, q)
    PROVE  ReplicaInv'
  <1> SUFFICES ASSUME NEW n \in Node, NEW p \in Node \ {n}, NEW h \in Hash, NEW s \in Server,
                      Listed(n, h, s)'
               PROVE  Accounted(n, p, h, s)'
    BY DEF ReplicaInv
  <1>1. UNCHANGED <<table, updMeta, updOp, told>>
    BY DEF CallStep, Deliver, Reply, Fail, dirVars, queueVars, history
  <1>2. Accounted(n, p, h, s)
    BY <1>1 DEF ReplicaInv, Listed, ServersOf
  <1>3. s \in ServerId
    BY ServerIds
  <1> USE DEF TypeOK, QueueTypes, RoundTypes, CallTypes, HistoryTypes
  <1>4. CASE n # m
    <2>1. phase'[n] = phase[n] /\ out'[n] = out[n] /\ call'[n][p] = call[n][p]
      <3>1. CASE Deliver(q, m)
        BY <1>4, <3>1 DEF Deliver
      <3>2. CASE CallOver(m, q)
        BY <1>4, <3>2 DEF CallOver, EndRound, Goto
      <3> QED BY <3>1, <3>2 DEF CallStep, Reply, Fail
    <2>2. inbox'[p][n] = inbox[p][n] /\ explained'[n][p] = explained[n][p]
      <3>1. CASE Deliver(q, m)
        BY <1>4, <3>1 DEF Deliver, history
      <3>2. CASE Reply(m, q)
        BY <3>2 DEF Reply, history
      <3>3. CASE Fail(m, q)
        BY <1>4, <3>3 DEF Fail
      <3> QED BY <3>1, <3>2, <3>3 DEF CallStep
    <2> QED BY <1>1, <1>2, <2>1, <2>2, SameViewAccounted DEF SameView
  <1>5. CASE n = m /\ Deliver(q, m)
    <2>1. CASE p # q
      <3>1. SameView(n, p)
        BY <1>1, <1>5, <2>1 DEF SameView, Deliver, history
      <3> QED BY <1>2, <3>1, SameViewAccounted
    <2>2. CASE p = q
      <3>1. /\ UNCHANGED <<phase, out, explained>>
            /\ inbox[p][n] = None
            /\ inbox'[p][n] = [meta |-> out[n].meta, ops |-> out[n].ops]
        BY <1>5, <2>2 DEF Deliver, history
      <3>2. inbox'[p][n] # None
        BY <3>1, SyncAssumption DEF Received
      <3> QED BY <1>1, <1>2, <3>1, <3>2
              DEF Accounted, Covered, MetaCopied, OpCopied, Carries, ToDeliver
    <2> QED BY <2>1, <2>2
  <1>6. CASE n = m /\ (Reply(m, q) \/ Fail(m, q))
    <2>1. /\ call[n][q] # "none" /\ phase[n] = "wait" /\ CallOver(n, q) /\ inbox' = inbox
          /\ call' = [call EXCEPT ![n][q] = "none"]
      BY <1>6 DEF Reply, Fail, CallOver, WaitsForCalls
    <2>2. phase'[n] \in {"idle", "wait"}
      BY <2>1 DEF CallOver, EndRound, Goto
    <2>3. p # q => explained'[n][p] = explained[n][p]
      BY <1>6 DEF Reply, Fail, history
    (* A call that is still to be delivered keeps the round going.         *)
    <2>4. CASE p # q
      <3>1. call[n][p] = "sent" => call'[n][p] = "sent" /\ out'[n] = out[n]
        BY <2>1, <2>4 DEF CallOver, LastAnswer
      <3> QED BY <1>1, <1>2, <2>1, <2>2, <2>3, <2>4, <3>1
              DEF Accounted, Covered, MetaCopied, OpCopied, Carries, ToDeliver
    <2>5. CASE p = q /\ Reply(m, q)
      <3>1. call[n][p] = "answered" /\ explained' = explained
        BY <1>6, <2>5 DEF Reply, history
      <3> QED BY <1>1, <1>2, <2>1, <2>2, <3>1
              DEF Accounted, Covered, MetaCopied, OpCopied, Carries, ToDeliver
    <2>6. CASE p = q /\ Fail(m, q)
      <3>1. explained'[n][p] = explained[n][p] \union Carried(out[n].meta, out[n].ops)
        BY <1>6, <2>6 DEF Fail
      <3> QED BY <1>1, <1>2, <1>3, <2>1, <2>2, <3>1, CarriedIff
              DEF Accounted, Covered, MetaCopied, OpCopied, Carries, ToDeliver
    <2> QED BY <1>6, <2>4, <2>5, <2>6
  <1> QED BY <1>4, <1>5, <1>6 DEF CallStep

(* A peer that handles a request lists no more of its own data servers:    *)
(* what another server sends it are that server's.                         *)
LEMMA HandlerLists ==
    ASSUME TypeOK, QueuesOwn, NEW q \in Node, NEW m \in Node, HandlerStep(q, m),
           NEW n \in Node, NEW h \in Hash, NEW s \in Server, Listed(n, h, s)'
    PROVE  Listed(n, h, s)
  <1> USE DEF TypeOK, DirTypes, RoundTypes
  <1>1. Home[s] = n /\ s \in ServersOf(table'[n], h) /\ s \in ServerId
    BY ServerIds DEF Listed, ServersOf
  <1>2. ASSUME ServersOf(table'[n], h) \subseteq ServersOf(table[n], h)
        PROVE  Listed(n, h, s)
    BY <1>1, <1>2 DEF Listed
  <1>3. CASE n # q
    <2>1. table'[n] = table[n]
      BY <1>3 DEF HandlerStep, HandleMeta, HandleWedge, HandleOp, Answer, dirVars
    <2> QED BY <1>2, <2>1
  <1>4. CASE n = q
    <2>1. ASSUME NEW g \in Hash, HandleMeta(q, m, g) PROVE Listed(n, h, s)
      <3> DEFINE meta == inbox[q][m].meta[g]
      <3>1. /\ inbox[q][m] # None /\ inbox[q][m].meta \in BlockTable
            /\ meta # NoMeta
        BY <2>1 DEF HandleMeta, Received
      <3>2. meta \in KvBlockMeta /\ m # q
        BY <3>1, TableTypes DEF QueuesOwn
      <3>3. \A d \in meta.servers : Home[d] = m
        BY <3>1 DEF QueuesOwn, OwnServers, ServersOf
      <3>4. table'[q] = Inserted(table[q], g, meta)
        BY <2>1 DEF HandleMeta
      <3> HIDE DEF meta
      <3>5. ServersOf(Inserted(table[q], g, meta), h)
               \subseteq ServersOf(table[q], h) \union (IF h = g THEN meta.servers ELSE {})
        BY <3>2, <1>1, ListsAfter
      <3> QED BY <1>1, <1>4, <3>2, <3>3, <3>4, <3>5 DEF Listed
    <2>2. ASSUME NEW g \in Hash, HandleOp(q, m, g) PROVE Listed(n, h, s)
      <3> DEFINE op == inbox[q][m].ops[g]
      <3>1. op \in Ops /\ op # NoOp /\ table'[q] = Executed(table[q], g, op)
        BY <2>2 DEF HandleOp, Received
      <3> HIDE DEF op
      <3>2. op.srv \in ServerId
        BY <3>1, OpCases, ServerIds
      <3>3. ServersOf(Executed(table[q], g, op), h) \subseteq ServersOf(table[q], h)
        <4>1. CASE table[q][g] = NoMeta
          BY <4>1 DEF Executed
        <4>2. CASE table[q][g] # NoMeta /\ op.operation = 1
          <5>1. table[q][g] \in KvBlockMeta
            BY <4>2, TableTypes
          <5>2. WithServer(table[q][g], op.srv) \in KvBlockMeta
            BY <3>2, <5>1, BlockTypes
          <5>3. \A meta \in KvBlockMeta :
                   ServersOf(Inserted(table[q], g, meta), h) \subseteq ServersOf(table[q], h)
            BY <1>1, <4>2, ListsAfter
          <5> QED BY <4>2, <5>2, <5>3 DEF Executed
        <4>3. CASE table[q][g] # NoMeta /\ op.operation # 1
          <5>1. ServersOf(Withdrawn(table[q], g, op.srv), h) \subseteq ServersOf(table[q], h)
            BY <3>2, ListsAfter
          <5> QED BY <4>3, <5>1 DEF Executed
        <4> QED BY <4>1, <4>2, <4>3
      <3> QED BY <1>2, <1>4, <3>1, <3>3
    <2>3. CASE Answer(q, m) \/ \E g \in Hash : HandleWedge(q, m, g)
      <3>1. table' = table
        BY <2>3 DEF Answer, HandleWedge, dirVars
      <3> QED BY <1>2, <3>1
    <2> QED BY <2>1, <2>2, <2>3 DEF HandlerStep
  <1> QED BY <1>3, <1>4

LEMMA RequestIsSome ==
    ASSUME NEW meta \in BlockTable, NEW ops \in [Hash -> Ops]
    PROVE  [meta |-> meta, ops |-> ops] # None
  BY SyncAssumption DEF Received

(* A peer that takes a replica out of a request has been told of it.       *)
LEMMA HandlerAccounted ==
    ASSUME TypeOK, QueuesOwn, ReplicaInv, NEW q \in Node, NEW m \in Node, HandlerStep(q, m)
    PROVE  ReplicaInv'
  <1> SUFFICES ASSUME NEW n \in Node, NEW p \in Node \ {n}, NEW h \in Hash, NEW s \in Server,
                      Listed(n, h, s)'
               PROVE  Accounted(n, p, h, s)'
    BY DEF ReplicaInv
  <1> DEFINE r == <<h, s>>
  <1>1. Accounted(n, p, h, s)
    BY HandlerLists DEF ReplicaInv
  <1>2. s \in ServerId /\ r \in Replica
    BY ServerIds DEF Replica
  <1>3. UNCHANGED <<updMeta, updOp, phase, out, explained>>
    BY DEF HandlerStep, HandleMeta, HandleWedge, HandleOp, Answer, Told, queueVars, history
  <1> USE DEF TypeOK, RoundTypes, CallTypes, HistoryTypes
  (* What is left to prove of a step: what the peer has still to take in   *)
  (* it has in hand, or has been told.                                     *)
  <1>4. ASSUME call'[n][p] = "sent" <=> call[n][p] = "sent",
               r \in told[n][p] => r \in told'[n][p],
               inbox[p][n] # None /\ Carries(inbox[p][n].meta, inbox[p][n].ops, h, s) =>
                  \/ r \in told'[n][p]
                  \/ inbox'[p][n] # None /\ Carries(inbox'[p][n].meta, inbox'[p][n].ops, h, s)
        PROVE  Accounted(n, p, h, s)'
    BY <1>1, <1>3, <1>4 DEF Accounted, Covered, MetaCopied, OpCopied, Carries, ToDeliver
  <1>5. ASSUME NEW g \in Hash, HandleMeta(q, m, g) PROVE Accounted(n, p, h, s)'
    <2>1. /\ call' = call
          /\ inbox' = [inbox EXCEPT ![q][m].meta[g] = NoMeta]
          /\ told' = [told EXCEPT ![m][q] = @ \union ({g} \X inbox[q][m].meta[g].servers)]
          /\ inbox[q][m] # None
      BY <1>5 DEF HandleMeta, Told
    <2>2. CASE n = m /\ p = q
      <3>1. inbox[p][n] \in Received
        BY <2>1, <2>2
      <3>2. inbox'[p][n] = [inbox[p][n] EXCEPT !.meta[g] = NoMeta]
        BY <2>1, <2>2
      <3>3. /\ inbox'[p][n] # None
            /\ inbox'[p][n].ops = inbox[p][n].ops
            /\ inbox'[p][n].meta = [inbox[p][n].meta EXCEPT ![g] = NoMeta]
        <4>1. inbox'[p][n] = [meta |-> [inbox[p][n].meta EXCEPT ![g] = NoMeta],
                              ops |-> inbox[p][n].ops]
          BY <3>1, <3>2 DEF Received
        <4>2. [inbox[p][n].meta EXCEPT ![g] = NoMeta] \in BlockTable
          BY <3>1 DEF Received, BlockTable
        <4>3. inbox[p][n].ops \in [Hash -> Ops]
          BY <3>1 DEF Received
        <4>4. inbox'[p][n] # None
          BY <4>1, <4>2, <4>3, RequestIsSome
        <4> QED BY ONLY <4>1, <4>4
      <3>4. h # g => ServersOf(inbox'[p][n].meta, h) = ServersOf(inbox[p][n].meta, h)
        BY <3>1, <3>3 DEF ServersOf, Received, BlockTable
      <3>5. told'[n][p] = told[n][p] \union ({g} \X inbox[p][n].meta[g].servers)
        BY <2>1, <2>2
      <3>6. h = g /\ s \in ServersOf(inbox[p][n].meta, h) => r \in told'[n][p]
        BY <3>5 DEF ServersOf
      <3> QED BY <1>4, <2>1, <3>3, <3>4, <3>5, <3>6 DEF Carries
    <2>3. CASE ~(n = m /\ p = q)
      <3>1. inbox'[p][n] = inbox[p][n] /\ told'[n][p] = told[n][p]
        BY <2>1, <2>3
      <3> QED BY <1>4, <2>1, <3>1
    <2> QED BY <2>2, <2>3
  <1>6. ASSUME NEW g \in Hash, HandleOp(q, m, g) PROVE Accounted(n, p, h, s)'
    <2> DEFINE op == inbox[q][m].ops[g]
               taken == { x \in Replica : x[1] = g /\ op = AddOp(x[2]) }
    <2>1. /\ call' = call
          /\ inbox' = [inbox EXCEPT ![q][m].ops[g] = NoOp]
          /\ told' = [told EXCEPT ![m][q] = @ \union taken]
          /\ inbox[q][m] # None
      BY <1>6 DEF HandleOp, Told
    <2>2. r \in taken <=> h = g /\ op = AddOp(s)
      BY <1>2
    <2> HIDE DEF taken
    <2>3. CASE n = m /\ p = q
      <3>1. inbox[p][n] \in Received
        BY <2>1, <2>3
      <3>2. inbox'[p][n] = [inbox[p][n] EXCEPT !.ops[g] = NoOp]
        BY <2>1, <2>3
      <3>3. /\ inbox'[p][n] # None
            /\ inbox'[p][n].meta = inbox[p][n].meta
            /\ inbox'[p][n].ops = [inbox[p][n].ops EXCEPT ![g] = NoOp]
        <4>1. inbox'[p][n] = [meta |-> inbox[p][n].meta,
                              ops |-> [inbox[p][n].ops EXCEPT ![g] = NoOp]]
          BY <3>1, <3>2 DEF Received
        <4>2. [inbox[p][n].ops EXCEPT ![g] = NoOp] \in [Hash -> Ops]
          BY <3>1 DEF Received, Ops
        <4>3. inbox[p][n].meta \in BlockTable
          BY <3>1 DEF Received
        <4>4. inbox'[p][n] # None
          BY <4>1, <4>2, <4>3, RequestIsSome
        <4> QED BY ONLY <4>1, <4>4
      <3>4. h # g => inbox'[p][n].ops[h] = inbox[p][n].ops[h]
        BY <3>1, <3>3 DEF Received
      <3>5. told'[n][p] = told[n][p] \union taken
        BY <2>1, <2>3
      <3>6. h = g /\ inbox[p][n].ops[h] = AddOp(s) => r \in told'[n][p]
        BY <2>2, <2>3, <3>5
      <3> QED BY <1>4, <2>1, <3>3, <3>4, <3>5, <3>6 DEF Carries
    <2>4. CASE ~(n = m /\ p = q)
      <3>1. inbox'[p][n] = inbox[p][n] /\ told'[n][p] = told[n][p]
        BY <2>1, <2>4
      <3> QED BY <1>4, <2>1, <3>1
    <2> QED BY <2>3, <2>4
  <1>7. ASSUME NEW g \in Hash, HandleWedge(q, m, g) PROVE Accounted(n, p, h, s)'
    BY <1>4, <1>7 DEF HandleWedge, callVars, history
  <1>8. CASE Answer(q, m)
    <2>1. /\ inbox[q][m] = [meta |-> NoBlocks, ops |-> NoOps]
          /\ inbox' = [inbox EXCEPT ![q][m] = None]
          /\ told' = told
          /\ call' = call \/ (/\ call[m][q] = "running"
                              /\ call' = [call EXCEPT ![m][q] = "answered"])
      BY <1>8 DEF Answer, history
    <2>2. call'[n][p] = "sent" <=> call[n][p] = "sent"
      <3>1. CASE n = m /\ p = q
        BY <2>1, <3>1
      <3>2. CASE ~(n = m /\ p = q)
        BY <2>1, <3>2
      <3> QED BY <3>1, <3>2
    <2>3. CASE n = m /\ p = q
      <3>1. ~ Carries(inbox[p][n].meta, inbox[p][n].ops, h, s)
        BY <1>2, <2>1, <2>3, NothingCarried
      <3> QED BY <1>4, <2>1, <2>2, <3>1
    <2>4. CASE ~(n = m /\ p = q)
      <3>1. inbox'[p][n] = inbox[p][n]
        BY <2>1, <2>4
      <3> QED BY <1>4, <2>1, <2>2, <3>1
    <2> QED BY <2>3, <2>4
  <1> QED BY <1>5, <1>6, <1>7, <1>8 DEF HandlerStep

(* The invariant of the replicas, whatever the step.                       *)
LEMMA ReplicaInvStep ==
    TypeOK /\ QueuesOwn /\ RequestFresh /\ ReplicaInv /\ [Next]_vars => ReplicaInv'
  <1> SUFFICES ASSUME TypeOK, QueuesOwn, RequestFresh, ReplicaInv, [Next]_vars
               PROVE  ReplicaInv'
    OBVIOUS
  <1>1. CASE UNCHANGED vars
    <2>1. \A n, p \in Node : SameView(n, p)
      BY <1>1 DEF vars, queueVars, callVars, history, SameView
    <2>2. table' = table
      BY <1>1 DEF vars, dirVars
    <2>3. ASSUME NEW n \in Node, NEW p \in Node \ {n}, NEW h \in Hash, NEW s \in Server,
                 Listed(n, h, s)'
          PROVE  Accounted(n, p, h, s)'
      <3>1. Listed(n, h, s)
        BY <2>2, <2>3 DEF Listed, ServersOf
      <3> QED BY <2>1, <3>1, SameViewAccounted DEF ReplicaInv
    <2> QED BY <2>3 DEF ReplicaInv
  <1>2. ASSUME NEW n \in Node, DataRequest(n) PROVE ReplicaInv'
    BY <1>2, RequestAccounted DEF DataRequest
  <1>3. ASSUME NEW n \in Node, SyncStep(n) PROVE ReplicaInv'
    BY <1>3, SyncStepAccounted
  <1>4. ASSUME NEW n \in Node, NEW p \in Node, CallStep(n, p) \/ Fail(n, p)
        PROVE  ReplicaInv'
    BY <1>4, CallAccounted
  <1>5. ASSUME NEW n \in Node, NEW p \in Node, HandlerStep(p, n) PROVE ReplicaInv'
    BY <1>5, HandlerAccounted
  <1> QED BY <1>1, <1>2, <1>3, <1>4, <1>5 DEF Next

-----------------------------------------------------------------------------
(* What is announced, and to whom.                                         *)

(* How a step may change the queues, the request being made, and a request *)
(* at a peer.                                                              *)
QueueChange(n) ==
    \/ updMeta'[n] \in {updMeta[n], NoBlocks}
    \/ \E g \in Hash, d \in Server :
          /\ Home[d] = n /\ <<g, d>> \in said'
          /\ updMeta'[n] = [updMeta[n] EXCEPT ![g] = NewBlock(d, {})]

OpChange(n) ==
    \/ updOp'[n] \in {updOp[n], NoOps}
    \/ \E g \in Hash, op \in Ops :
          /\ \A d \in ServerId : op = DelOp(d) => <<g, d>> \in denied'
          /\ updOp'[n] = [updOp[n] EXCEPT ![g] = op]

OutChange(n) ==
    /\ out'[n].meta \in {out[n].meta, updMeta[n], NoBlocks}
    /\ out'[n].ops \in {out[n].ops, updOp[n], NoOps}

InboxChange(n, q) ==
    \/ inbox'[q][n] \in {inbox[q][n], None}
    \/ /\ call[n][q] = "sent"
       /\ inbox'[q][n].meta = out[n].meta /\ inbox'[q][n].ops = out[n].ops
    \/ /\ inbox[q][n] # None
       /\ \/ inbox'[q][n].meta = inbox[q][n].meta
          \/ \E g \in Hash : inbox'[q][n].meta = [inbox[q][n].meta EXCEPT ![g] = NoMeta]
       /\ \/ inbox'[q][n].ops = inbox[q][n].ops
          \/ \E g \in Hash : inbox'[q][n].ops = [inbox[q][n].ops EXCEPT ![g] = NoOp]

LEMMA QueueChanges ==
    ASSUME TypeOK, [Next]_vars, NEW n \in Node
    PROVE  QueueChange(n)
  <1> USE DEF QueueChange, TypeOK, QueueTypes
  <1>1. CASE UNCHANGED updMeta
    BY <1>1
  <1>2. CASE UNCHANGED vars
    BY <1>1, <1>2 DEF vars, queueVars
  <1>3. ASSUME NEW m \in Node, NEW d \in Server, NEW g \in Hash, UploadNew(m, d, g)
        PROVE  QueueChange(n)
    BY <1>3 DEF UploadNew, insert_update_kvcache, Say
  <1>4. ASSUME NEW m \in Node, NEW d \in Server, NEW g \in Hash,
               \/ UploadReplica(m, d, g) \/ UploadAgain(m, d, g)
               \/ Remove(m, d, g) \/ Missing(m, d, g) \/ Migrated(m, d, g)
        PROVE  QueueChange(n)
    BY <1>1, <1>4 DEF UploadReplica, UploadAgain, Remove, Missing, Migrated, insert_update_kvop
  <1>5. ASSUME NEW m \in Node, SyncStep(m) PROVE QueueChange(n)
    <2>1. CASE ClearMeta(m)
      BY <2>1 DEF ClearMeta
    <2> QED BY <1>1, <1>5, <2>1 DEF SyncStep, TakeMeta, TakeOps, ClearOps, TakeCounts,
                                    EarlyReturn, Send, queueVars
  <1>6. ASSUME NEW m \in Node, NEW q \in Node,
               CallStep(m, q) \/ Fail(m, q) \/ HandlerStep(q, m)
        PROVE  QueueChange(n)
    BY <1>1, <1>6 DEF CallStep, Deliver, Reply, Fail, HandlerStep, HandleMeta, HandleWedge,
                      HandleOp, Answer, queueVars
  <1> QED BY <1>2, <1>3, <1>4, <1>5, <1>6 DEF Next, DataRequest

LEMMA OpChanges ==
    ASSUME TypeOK, [Next]_vars, NEW n \in Node
    PROVE  OpChange(n)
  <1> USE DEF OpChange, TypeOK, QueueTypes
  <1>1. CASE UNCHANGED updOp
    BY <1>1
  <1>2. CASE UNCHANGED vars
    BY <1>1, <1>2 DEF vars, queueVars
  <1>3. ASSUME NEW m \in Node, NEW g \in Hash, NEW op \in Ops, insert_update_kvop(m, g, op)
        PROVE  OpChange(n)
    <2> DEFINE new  == { r \in Replica : r[1] = g /\ op = AddOp(r[2]) }
               gone == { r \in Replica : r[1] = g /\ op = DelOp(r[2]) }
    <2>1. Say(new, gone) /\ updOp' = [updOp EXCEPT ![m][g] = op]
      BY <1>3 DEF insert_update_kvop
    <2>2. \A d \in ServerId : op = DelOp(d) => <<g, d>> \in gone
      BY DEF Replica
    <2> HIDE DEF new, gone
    <2>3. \A d \in ServerId : op = DelOp(d) => <<g, d>> \in denied'
      BY <2>1, <2>2 DEF Say
    <2> QED BY <2>1, <2>3
  <1>4. ASSUME NEW m \in Node, NEW d \in Server, NEW g \in Hash,
               \/ UploadReplica(m, d, g) \/ Remove(m, d, g)
               \/ Missing(m, d, g) \/ Migrated(m, d, g)
        PROVE  OpChange(n)
    BY <1>3, <1>4, RequestTypes, ServerIds DEF UploadReplica, Remove, Missing, Migrated
  <1>5. ASSUME NEW m \in Node, NEW d \in Server, NEW g \in Hash,
               UploadNew(m, d, g) \/ UploadAgain(m, d, g)
        PROVE  OpChange(n)
    BY <1>1, <1>5 DEF UploadNew, UploadAgain, insert_update_kvcache
  <1>6. ASSUME NEW m \in Node, SyncStep(m) PROVE OpChange(n)
    <2>1. CASE ClearOps(m)
      BY <2>1 DEF ClearOps
    <2> QED BY <1>1, <1>6, <2>1 DEF SyncStep, TakeMeta, ClearMeta, TakeOps, TakeCounts,
                                    EarlyReturn, Send, queueVars
  <1>7. ASSUME NEW m \in Node, NEW q \in Node,
               CallStep(m, q) \/ Fail(m, q) \/ HandlerStep(q, m)
        PROVE  OpChange(n)
    BY <1>1, <1>7 DEF CallStep, Deliver, Reply, Fail, HandlerStep, HandleMeta, HandleWedge,
                      HandleOp, Answer, queueVars
  <1> QED BY <1>2, <1>4, <1>5, <1>6, <1>7 DEF Next, DataRequest

LEMMA OutChanges ==
    ASSUME TypeOK, [Next]_vars, NEW n \in Node
    PROVE  OutChange(n)
  <1> USE DEF OutChange, TypeOK, RoundTypes
  <1>1. CASE UNCHANGED out
    BY <1>1
  <1>2. ASSUME NEW m \in Node, EndRound(m) PROVE OutChange(n)
    BY <1>2 DEF EndRound, EmptyRequest
  <1>3. CASE UNCHANGED vars
    BY <1>1, <1>3 DEF vars
  <1>4. ASSUME NEW m \in Node, DataRequest(m) PROVE OutChange(n)
    BY <1>1, <1>4 DEF DataRequest, Request, UploadNew, UploadReplica, UploadAgain, Remove,
                      Missing, Migrated
  <1>5. ASSUME NEW m \in Node, SyncStep(m) PROVE OutChange(n)
    <2>1. CASE TakeMeta(m)
      BY <2>1 DEF TakeMeta, Copy
    <2>2. CASE TakeOps(m)
      BY <2>2 DEF TakeOps
    <2>3. CASE TakeCounts(m)
      BY <2>3 DEF TakeCounts
    <2> QED BY <1>1, <1>2, <1>5, <2>1, <2>2, <2>3
            DEF SyncStep, ClearMeta, ClearOps, EarlyReturn, Send
  <1>6. ASSUME NEW m \in Node, NEW q \in Node, CallOver(m, q) PROVE OutChange(n)
    BY <1>1, <1>2, <1>6 DEF CallOver
  <1>7. ASSUME NEW m \in Node, NEW q \in Node,
               CallStep(m, q) \/ Fail(m, q) \/ HandlerStep(q, m)
        PROVE  OutChange(n)
    BY <1>1, <1>6, <1>7 DEF CallStep, Deliver, Reply, Fail, HandlerStep, HandleMeta,
                            HandleWedge, HandleOp, Answer
  <1> QED BY <1>3, <1>4, <1>5, <1>7 DEF Next

LEMMA InboxChanges ==
    ASSUME TypeOK, [Next]_vars, NEW n \in Node, NEW q \in Node
    PROVE  InboxChange(n, q)
  <1> USE DEF InboxChange, TypeOK, RoundTypes
  <1>1. CASE UNCHANGED inbox
    BY <1>1
  <1>2. CASE UNCHANGED vars
    BY <1>1, <1>2 DEF vars, callVars
  <1>3. ASSUME NEW m \in Node, DataRequest(m) \/ SyncStep(m) PROVE InboxChange(n, q)
    BY <1>1, <1>3 DEF DataRequest, Request, UploadNew, UploadReplica, UploadAgain, Remove,
                      Missing, Migrated, SyncStep, TakeMeta, ClearMeta, TakeOps, ClearOps,
                      TakeCounts, EarlyReturn, Send, callVars
  <1>4. ASSUME NEW m \in Node, NEW p \in Node, Reply(m, p) \/ Fail(m, p)
        PROVE  InboxChange(n, q)
    BY <1>1, <1>4 DEF Reply, Fail
  <1>5. ASSUME NEW m \in Node, NEW p \in Node, Deliver(p, m) PROVE InboxChange(n, q)
    <2>1. /\ call[m][p] = "sent"
          /\ inbox' = [inbox EXCEPT ![p][m] = [meta |-> out[m].meta, ops |-> out[m].ops]]
      BY <1>5 DEF Deliver
    <2>2. CASE m = n /\ p = q
      <3>1. inbox'[q][n] = [meta |-> out[n].meta, ops |-> out[n].ops]
        BY <2>1, <2>2
      <3> QED BY <2>1, <2>2, <3>1
    <2>3. CASE ~(m = n /\ p = q)
      BY <2>1, <2>3
    <2> QED BY <2>2, <2>3
  <1>6. ASSUME NEW m \in Node, NEW p \in Node, HandlerStep(p, m) PROVE InboxChange(n, q)
    <2>1. ASSUME NEW g \in Hash, HandleMeta(p, m, g) PROVE InboxChange(n, q)
      <3>1. inbox[p][m] # None /\ inbox' = [inbox EXCEPT ![p][m].meta[g] = NoMeta]
        BY <2>1 DEF HandleMeta
      <3>2. CASE m = n /\ p = q
        <4>1. inbox'[q][n] = [inbox[q][n] EXCEPT !.meta[g] = NoMeta]
          BY <3>1, <3>2
        <4>2. inbox[q][n] # None /\ inbox[q][n] \in Received
          BY <3>1, <3>2
        <4>3. /\ inbox'[q][n].meta = [inbox[q][n].meta EXCEPT ![g] = NoMeta]
              /\ inbox'[q][n].ops = inbox[q][n].ops
          BY <4>1, <4>2 DEF Received
        <4> QED BY <4>2, <4>3
      <3>3. CASE ~(m = n /\ p = q)
        BY <3>1, <3>3
      <3> QED BY <3>2, <3>3
    <2>2. ASSUME NEW g \in Hash, HandleOp(p, m, g) PROVE InboxChange(n, q)
      <3>1. inbox[p][m] # None /\ inbox' = [inbox EXCEPT ![p][m].ops[g] = NoOp]
        BY <2>2 DEF HandleOp
      <3>2. CASE m = n /\ p = q
        <4>1. inbox'[q][n] = [inbox[q][n] EXCEPT !.ops[g] = NoOp]
          BY <3>1, <3>2
        <4>2. inbox[q][n] # None /\ inbox[q][n] \in Received
          BY <3>1, <3>2
        <4>3. /\ inbox'[q][n].meta = inbox[q][n].meta
              /\ inbox'[q][n].ops = [inbox[q][n].ops EXCEPT ![g] = NoOp]
          BY <4>1, <4>2 DEF Received
        <4> QED BY <4>2, <4>3
      <3>3. CASE ~(m = n /\ p = q)
        BY <3>1, <3>3
      <3> QED BY <3>2, <3>3
    <2>3. CASE Answer(p, m)
      <3>1. inbox' = [inbox EXCEPT ![p][m] = None]
        BY <2>3 DEF Answer
      <3> QED BY <3>1
    <2>4. ASSUME NEW g \in Hash, HandleWedge(p, m, g) PROVE InboxChange(n, q)
      BY <1>1, <2>4 DEF HandleWedge, callVars
    <2> QED BY <1>6, <2>1, <2>2, <2>3, <2>4 DEF HandlerStep
  <1> QED BY <1>2, <1>3, <1>4, <1>5, <1>6 DEF Next, CallStep

LEMMA QueuesOwnStep ==
    TypeOK /\ QueuesOwn /\ [Next]_vars => QueuesOwn'
  <1> SUFFICES ASSUME TypeOK, QueuesOwn, [Next]_vars, NEW n \in Node
               PROVE  /\ OwnServers(n, updMeta'[n])
                      /\ OwnServers(n, out'[n].meta)
                      /\ inbox'[n][n] = None
                      /\ \A q \in Node : inbox'[q][n] # None =>
                            OwnServers(n, inbox'[q][n].meta)
    BY DEF QueuesOwn, OwnServers
  <1>1. OwnServers(n, NoBlocks)
    BY ServerIds, NothingCarried DEF OwnServers, ServersOf, NoBlocks
  <1>2. OwnServers(n, updMeta[n]) /\ OwnServers(n, out[n].meta)
    BY DEF QueuesOwn
  <1>3. OwnServers(n, updMeta'[n])
    <2>1. CASE updMeta'[n] \in {updMeta[n], NoBlocks}
      BY <1>1, <1>2, <2>1
    <2>2. ASSUME NEW g \in Hash, NEW d \in Server, Home[d] = n,
                 updMeta'[n] = [updMeta[n] EXCEPT ![g] = NewBlock(d, {})]
          PROVE  OwnServers(n, updMeta'[n])
      <3>1. updMeta[n] \in [Hash -> KvBlockMeta \union {NoMeta}]
        BY DEF TypeOK, QueueTypes, BlockTable
      <3>2. \A h \in Hash : ServersOf(updMeta'[n], h) \subseteq
                ServersOf(updMeta[n], h) \union {d}
        BY <2>2, <3>1 DEF ServersOf, NewBlock
      <3> QED BY <1>2, <2>2, <3>2 DEF OwnServers
    <2>3. QueueChange(n)
      BY QueueChanges
    <2> QED BY ONLY <2>1, <2>2, <2>3 DEF QueueChange
  <1>4. OwnServers(n, out'[n].meta)
    BY <1>1, <1>2, OutChanges DEF OutChange
  <1>5. inbox'[n][n] = None
    <2>1. inbox[n][n] = None /\ call[n][n] # "sent"
      BY DEF QueuesOwn, TypeOK, WaitsForCalls
    <2> QED BY <2>1, InboxChanges DEF InboxChange
  <1>6. ASSUME NEW q \in Node, inbox'[q][n] # None
        PROVE  OwnServers(n, inbox'[q][n].meta)
    <2>1. inbox[q][n] # None => OwnServers(n, inbox[q][n].meta)
      BY DEF QueuesOwn
    <2>2. ASSUME inbox[q][n] # None, NEW g \in Hash,
                 inbox'[q][n].meta = [inbox[q][n].meta EXCEPT ![g] = NoMeta]
          PROVE  OwnServers(n, inbox'[q][n].meta)
      <3>1. inbox[q][n].meta \in [Hash -> KvBlockMeta \union {NoMeta}]
        BY <2>2 DEF TypeOK, RoundTypes, Received, BlockTable
      <3>2. \A h \in Hash : ServersOf(inbox'[q][n].meta, h) \subseteq
                ServersOf(inbox[q][n].meta, h)
        BY <2>2, <3>1 DEF ServersOf
      <3> QED BY <2>1, <2>2, <3>2 DEF OwnServers
    <2> QED BY <1>2, <1>6, <2>1, <2>2, InboxChanges DEF InboxChange
  <1> QED BY <1>3, <1>4, <1>5, <1>6

LEMMA RequestFreshStep ==
    TypeOK /\ RequestFresh /\ [Next]_vars => RequestFresh'
  <1> SUFFICES ASSUME TypeOK, RequestFresh, [Next]_vars, NEW n \in Node
               PROVE  /\ phase'[n] = "idle" => out'[n] = EmptyRequest
                      /\ phase'[n] \in {"clearMeta", "takeOps"} => out'[n].ops = NoOps
    BY DEF RequestFresh
  <1> DEFINE Goal == /\ phase'[n] = "idle" => out'[n] = EmptyRequest
                     /\ phase'[n] \in {"clearMeta", "takeOps"} => out'[n].ops = NoOps
  <1> USE DEF TypeOK, RoundTypes
  <1>1. CASE phase'[n] = phase[n] /\ out'[n] = out[n]
    BY <1>1 DEF RequestFresh
  <1>2. CASE UNCHANGED vars
    BY <1>1, <1>2 DEF vars
  <1>3. ASSUME NEW m \in Node, DataRequest(m) PROVE Goal
    BY <1>1, <1>3 DEF DataRequest, Request, UploadNew, UploadReplica, UploadAgain, Remove,
                      Missing, Migrated
  <1>4. ASSUME NEW m \in Node, EndRound(m) PROVE Goal
    <2>1. CASE m = n
      BY <1>4, <2>1 DEF EndRound, Goto
    <2>2. CASE m # n
      BY <1>1, <1>4, <2>2 DEF EndRound, Goto
    <2> QED BY <2>1, <2>2
  <1>5. ASSUME NEW m \in Node, SyncStep(m), m = n PROVE Goal
    <2>1. CASE TakeMeta(n)
      <3>1. out[n] = EmptyRequest /\ phase'[n] = "clearMeta" /\ out'[n].ops = out[n].ops
        BY <2>1 DEF TakeMeta, Goto, RequestFresh
      <3> QED BY <3>1 DEF EmptyRequest
    <2>2. CASE ClearMeta(n)
      BY <2>2 DEF ClearMeta, Goto, RequestFresh
    <2>3. CASE TakeOps(n)
      BY <2>3 DEF TakeOps, Goto
    <2>4. CASE ClearOps(n)
      BY <2>4 DEF ClearOps, Goto
    <2>5. CASE TakeCounts(n)
      BY <2>5 DEF TakeCounts, Goto
    <2>6. CASE EarlyReturn(n)
      BY <1>4, <2>6 DEF EarlyReturn
    <2>7. CASE Send(n)
      <3>1. CASE Called(n) = {}
        BY <1>4, <2>7, <3>1 DEF Send
      <3>2. CASE Called(n) # {}
        BY <2>7, <3>2 DEF Send, Goto
      <3> QED BY <3>1, <3>2
    <2> QED BY <1>5, <2>1, <2>2, <2>3, <2>4, <2>5, <2>6, <2>7 DEF SyncStep
  <1>6. ASSUME NEW m \in Node, SyncStep(m), m # n PROVE Goal
    <2>1. phase'[n] = phase[n] /\ out'[n] = out[n]
      BY <1>6 DEF SyncStep, TakeMeta, ClearMeta, TakeOps, ClearOps, TakeCounts,
                  EarlyReturn, Send, EndRound, Goto
    <2> QED BY <1>1, <2>1
  <1>7. ASSUME NEW m \in Node, NEW q \in Node, CallOver(m, q) PROVE Goal
    BY <1>1, <1>4, <1>7 DEF CallOver
  <1>8. ASSUME NEW m \in Node, NEW q \in Node,
               CallStep(m, q) \/ Fail(m, q) \/ HandlerStep(q, m)
        PROVE  Goal
    BY <1>1, <1>7, <1>8 DEF CallStep, Deliver, Reply, Fail, HandlerStep, HandleMeta,
                            HandleWedge, HandleOp, Answer
  <1> QED BY <1>2, <1>3, <1>5, <1>6, <1>8 DEF Next

-----------------------------------------------------------------------------
(* For any number of servers, requests and failures, a peer knows of every *)
(* replica a server lists for one of its own data servers, or is about to, *)
(* or one of the five things that the code lets happen has happened: the   *)
(* replica was queued between the copy and the clear of its queue, its     *)
(* operation was overwritten, the round returned early, the peer was       *)
(* skipped as unavailable, or the call failed (lib.rs:381-414,             *)
(* client.rs:242-380).                                                     *)
THEOREM ReplicasAreAccounted == Spec => []ReplicaToldOrExplained
  <1> DEFINE Inv == QueuesOwn /\ RequestFresh /\ ReplicaInv
  <1>1. Init => Inv
    <2> SUFFICES ASSUME Init PROVE Inv
      OBVIOUS
    <2>1. \A n \in Node, h \in Hash : ServersOf(table[n], h) = {}
      BY DEF Init, ServersOf, NoBlocks
    <2>2. ReplicaInv
      BY <2>1 DEF ReplicaInv, Listed
    <2>3. RequestFresh
      BY DEF Init, RequestFresh
    <2>4. QueuesOwn
      <3>1. \A n \in Node : OwnServers(n, NoBlocks)
        BY DEF OwnServers, ServersOf, NoBlocks
      <3>2. ASSUME NEW n \in Node
            PROVE  /\ updMeta[n] = NoBlocks /\ out[n].meta = NoBlocks
                   /\ \A q \in Node : inbox[q][n] = None
        BY DEF Init, EmptyRequest
      <3> QED BY <3>1, <3>2 DEF QueuesOwn
    <2> QED BY <2>2, <2>3, <2>4
  <1>2. TypeOK /\ Inv /\ [Next]_vars => Inv'
    BY QueuesOwnStep, RequestFreshStep, ReplicaInvStep
  <1>3. Inv => ReplicaToldOrExplained
    <2> SUFFICES ASSUME Inv, NEW n \in Node, NEW p \in Node \ {n}, NEW h \in Hash,
                        NEW s \in Server, Listed(n, h, s)
                 PROVE  <<h, s>> \in told[n][p] \union explained[n][p] \union Pending(n, p)
      BY DEF ReplicaToldOrExplained, Listed
    <2>1. Covered(n, p, h, s)
      BY DEF ReplicaInv, Accounted
    <2> QED BY <2>1, ServerIds, CoveredIff
  <1> HIDE DEF Inv
  <1> QED BY <1>1, <1>2, <1>3, SyncTypesCorrect, PTL DEF Spec

-----------------------------------------------------------------------------
(* The servers implement ReplicaGossip.  Whatever is queued, sent or being *)
(* handled are words somebody has said; and a table has no entry without   *)
(* servers, and lists data servers only.                                   *)

MetaSaid(meta, words_said) ==
    \A h \in Hash : meta[h] # NoMeta =>
        \E s \in Server : meta[h].servers = {s} /\ <<h, s>> \in words_said

OpsDenied(ops, words_denied) ==
    \A h \in Hash, s \in ServerId : ops[h] = DelOp(s) => <<h, s>> \in words_denied

QueuesSaid ==
    \A n \in Node : MetaSaid(updMeta[n], said) /\ OpsDenied(updOp[n], denied)

RequestsSaid ==
    \A n \in Node :
        /\ MetaSaid(out[n].meta, said) /\ OpsDenied(out[n].ops, denied)
        /\ \A q \in Node : inbox[q][n] # None =>
              MetaSaid(inbox[q][n].meta, said) /\ OpsDenied(inbox[q][n].ops, denied)

EntryListed(entry) == entry # NoMeta => entry.servers # {} /\ entry.servers \subseteq Server

TablesListed == \A n \in Node, h \in Hash : EntryListed(table[n][h])

WordsInv == QueuesSaid /\ RequestsSaid

LEMMA NothingSaid ==
    ASSUME NEW words_said
    PROVE  MetaSaid(NoBlocks, words_said) /\ OpsDenied(NoOps, words_said)
  <1>1. \A s : DelOp(s).operation = 2 /\ NoOp.operation = 0
    BY DEF DelOp, NoOp
  <1>2. \A s : DelOp(s) # NoOp
    BY <1>1
  <1> QED BY <1>2 DEF MetaSaid, OpsDenied, NoBlocks, NoOps

LEMMA WordsInvStep ==
    TypeOK /\ WordsInv /\ [Next]_vars => WordsInv'
  <1> SUFFICES ASSUME TypeOK, WordsInv, [Next]_vars, NEW n \in Node
               PROVE  /\ MetaSaid(updMeta'[n], said') /\ OpsDenied(updOp'[n], denied')
                      /\ MetaSaid(out'[n].meta, said') /\ OpsDenied(out'[n].ops, denied')
                      /\ \A q \in Node : inbox'[q][n] # None =>
                            /\ MetaSaid(inbox'[q][n].meta, said')
                            /\ OpsDenied(inbox'[q][n].ops, denied')
    BY DEF WordsInv, QueuesSaid, RequestsSaid, MetaSaid, OpsDenied
  <1>1. /\ \A meta : MetaSaid(meta, said) => MetaSaid(meta, said')
        /\ \A ops : OpsDenied(ops, denied) => OpsDenied(ops, denied')
    BY WordsGrow DEF MetaSaid, OpsDenied
  <1>2. /\ MetaSaid(updMeta[n], said') /\ OpsDenied(updOp[n], denied')
        /\ MetaSaid(out[n].meta, said') /\ OpsDenied(out[n].ops, denied')
        /\ MetaSaid(NoBlocks, said') /\ OpsDenied(NoOps, denied')
    BY <1>1, NothingSaid DEF WordsInv, QueuesSaid, RequestsSaid
  <1>3. MetaSaid(updMeta'[n], said')
    <2>1. ASSUME NEW g \in Hash, NEW d \in Server, <<g, d>> \in said',
                 updMeta'[n] = [updMeta[n] EXCEPT ![g] = NewBlock(d, {})]
          PROVE  MetaSaid(updMeta'[n], said')
      <3>1. updMeta[n] \in [Hash -> KvBlockMeta \union {NoMeta}]
        BY DEF TypeOK, QueueTypes, BlockTable
      <3> QED BY <1>2, <2>1, <3>1 DEF MetaSaid, NewBlock
    <2> QED BY <1>2, <2>1, QueueChanges DEF QueueChange
  <1>4. OpsDenied(updOp'[n], denied')
    <2>1. ASSUME NEW g \in Hash, NEW op \in Ops,
                 \A d \in ServerId : op = DelOp(d) => <<g, d>> \in denied',
                 updOp'[n] = [updOp[n] EXCEPT ![g] = op]
          PROVE  OpsDenied(updOp'[n], denied')
      <3>1. updOp[n] \in [Hash -> Ops]
        BY DEF TypeOK, QueueTypes
      <3> QED BY <1>2, <2>1, <3>1 DEF OpsDenied
    <2> QED BY <1>2, <2>1, OpChanges DEF OpChange
  <1>5. MetaSaid(out'[n].meta, said') /\ OpsDenied(out'[n].ops, denied')
    BY <1>2, OutChanges DEF OutChange
  <1>6. ASSUME NEW q \in Node, inbox'[q][n] # None
        PROVE  MetaSaid(inbox'[q][n].meta, said') /\ OpsDenied(inbox'[q][n].ops, denied')
    <2>1. inbox[q][n] # None =>
             /\ MetaSaid(inbox[q][n].meta, said') /\ OpsDenied(inbox[q][n].ops, denied')
             /\ inbox[q][n].meta \in [Hash -> KvBlockMeta \union {NoMeta}]
             /\ inbox[q][n].ops \in [Hash -> Ops]
      BY <1>1 DEF WordsInv, RequestsSaid, TypeOK, RoundTypes, Received, BlockTable
    <2>2. ASSUME inbox[q][n] # None, NEW g \in Hash,
                 inbox'[q][n].meta = [inbox[q][n].meta EXCEPT ![g] = NoMeta]
          PROVE  MetaSaid(inbox'[q][n].meta, said')
      BY <2>1, <2>2 DEF MetaSaid
    <2>3. ASSUME inbox[q][n] # None, NEW g \in Hash,
                 inbox'[q][n].ops = [inbox[q][n].ops EXCEPT ![g] = NoOp]
          PROVE  OpsDenied(inbox'[q][n].ops, denied')
      <3>1. \A s : DelOp(s).operation = 2 /\ NoOp.operation = 0
        BY DEF DelOp, NoOp
      <3>2. \A s : DelOp(s) # NoOp
        BY <3>1
      <3> QED BY <2>1, <2>3, <3>2 DEF OpsDenied
    <2>4. CASE inbox'[q][n] \in {inbox[q][n], None}
      BY <1>6, <2>1, <2>4
    <2>5. CASE inbox'[q][n].meta = out[n].meta /\ inbox'[q][n].ops = out[n].ops
      BY <1>2, <2>5
    <2>6. CASE /\ inbox[q][n] # None
               /\ \/ inbox'[q][n].meta = inbox[q][n].meta
                  \/ \E g \in Hash : inbox'[q][n].meta = [inbox[q][n].meta EXCEPT ![g] = NoMeta]
               /\ \/ inbox'[q][n].ops = inbox[q][n].ops
                  \/ \E g \in Hash : inbox'[q][n].ops = [inbox[q][n].ops EXCEPT ![g] = NoOp]
      <3>1. MetaSaid(inbox'[q][n].meta, said')
        BY <2>1, <2>2, <2>6
      <3>2. OpsDenied(inbox'[q][n].ops, denied')
        BY <2>1, <2>3, <2>6
      <3> QED BY <3>1, <3>2
    <2> QED BY <2>4, <2>5, <2>6, InboxChanges DEF InboxChange
  <1> QED BY <1>3, <1>4, <1>5, <1>6

-----------------------------------------------------------------------------
(* The replicas of a table, and what the operations on tables do to them.  *)

ReplicasIn(tbl) == { r \in Replica : r[2] \in ServersOf(tbl, r[1]) }

ReplicasAt(tbl, g) == { r \in ReplicasIn(tbl) : r[1] = g }

WellListed(tbl) == tbl \in BlockTable /\ \A h \in Hash : EntryListed(tbl[h])

LEMMA ReplicaIn ==
    ASSUME NEW tbl, NEW h \in Hash, NEW s \in ServerId
    PROVE  <<h, s>> \in ReplicasIn(tbl) <=> s \in ServersOf(tbl, h)
  BY DEF ReplicasIn, Replica

LEMMA SameReplicas ==
    ASSUME NEW X, NEW Y, X \subseteq Replica, Y \subseteq Replica,
           \A h \in Hash, s \in ServerId : <<h, s>> \in X <=> <<h, s>> \in Y
    PROVE  X = Y
  BY DEF Replica

ServersIn(entry) == IF entry = NoMeta THEN {} ELSE entry.servers

Put(tbl, g, entry) == [tbl EXCEPT ![g] = entry]

(* A table with another entry for g.                                       *)
LEMMA NewEntry ==
    ASSUME NEW tbl, WellListed(tbl), NEW g \in Hash,
           NEW entry \in KvBlockMeta \union {NoMeta}, EntryListed(entry)
    PROVE  /\ WellListed(Put(tbl, g, entry))
           /\ ReplicasIn(Put(tbl, g, entry)) = 
                 (ReplicasIn(tbl) \ ReplicasAt(tbl, g)) \union ({g} \X ServersIn(entry))
  <1> DEFINE new == Put(tbl, g, entry)
             rest == ReplicasIn(tbl) \ ReplicasAt(tbl, g)
             listed == ServersIn(entry)
  <1>1. tbl \in [Hash -> KvBlockMeta \union {NoMeta}] /\ \A h \in Hash : EntryListed(tbl[h])
    BY DEF WellListed, BlockTable
  <1>2. /\ new \in BlockTable /\ new[g] = entry
        /\ \A h \in Hash : h # g => new[h] = tbl[h]
    BY <1>1 DEF BlockTable, Put
  <1>3. WellListed(new)
    BY <1>1, <1>2 DEF WellListed
  <1>4. /\ ServersOf(new, g) = listed
        /\ \A h \in Hash : h # g => ServersOf(new, h) = ServersOf(tbl, h)
    BY <1>2 DEF ServersOf, ServersIn
  <1>5. listed \subseteq ServerId
    BY DEF KvBlockMeta, ServersIn
  <1> HIDE DEF listed, new
  <1>6. ReplicasIn(new) = rest \union ({g} \X listed)
    <2>1. ReplicasIn(new) \subseteq Replica /\ rest \union ({g} \X listed) \subseteq Replica
      BY <1>5 DEF ReplicasIn, Replica
    <2>2. ASSUME NEW h \in Hash, NEW s \in ServerId
          PROVE  <<h, s>> \in ReplicasIn(new) <=> <<h, s>> \in rest \union ({g} \X listed)
      <3>1. <<h, s>> \in ReplicasIn(new) <=> s \in ServersOf(new, h)
        BY ReplicaIn
      <3>2. <<h, s>> \in rest <=> h # g /\ s \in ServersOf(tbl, h)
        BY ReplicaIn DEF ReplicasAt
      <3> QED BY <1>4, <3>1, <3>2
    <2> DEFINE X == ReplicasIn(new)
               Y == rest \union ({g} \X listed)
    <2>3. /\ X \subseteq Replica /\ Y \subseteq Replica
          /\ \A h \in Hash, s \in ServerId : <<h, s>> \in X <=> <<h, s>> \in Y
      BY <2>1, <2>2
    <2> HIDE DEF X, Y
    <2>4. X = Y
      BY <2>3, SameReplicas
    <2> QED BY <2>4 DEF X, Y
  <1> QED BY <1>3, <1>6 DEF listed, new

LEMMA AbsentOrListed ==
    ASSUME NEW tbl, WellListed(tbl), NEW g \in Hash
    PROVE  /\ tbl[g] = NoMeta <=> ReplicasAt(tbl, g) = {}
           /\ ReplicasAt(tbl, g) = {g} \X ServersOf(tbl, g)
           /\ tbl[g] # NoMeta => /\ tbl[g] \in KvBlockMeta
                                 /\ ServersOf(tbl, g) = tbl[g].servers
                                 /\ tbl[g].servers # {} /\ tbl[g].servers \subseteq Server
  <1>1. tbl[g] # NoMeta => /\ tbl[g] \in KvBlockMeta
                           /\ ServersOf(tbl, g) = tbl[g].servers
                           /\ tbl[g].servers # {} /\ tbl[g].servers \subseteq Server
    BY DEF WellListed, EntryListed, BlockTable, ServersOf
  <1>2. tbl[g] = NoMeta => ServersOf(tbl, g) = {}
    BY DEF ServersOf
  <1>3. ServersOf(tbl, g) \subseteq ServerId
    BY <1>1, <1>2, ServerIds
  <1>4. ReplicasAt(tbl, g) = {g} \X ServersOf(tbl, g)
    <2> DEFINE X == ReplicasAt(tbl, g)
               Y == {g} \X ServersOf(tbl, g)
    <2>1. X \subseteq Replica /\ Y \subseteq Replica
      BY <1>3 DEF ReplicasAt, ReplicasIn, Replica
    <2>2. \A h \in Hash, s \in ServerId : <<h, s>> \in X <=> <<h, s>> \in Y
      BY ReplicaIn DEF ReplicasAt
    <2> HIDE DEF X, Y
    <2>3. X = Y
      BY <2>1, <2>2, SameReplicas
    <2> QED BY <2>3 DEF X, Y
  <1>5. {g} \X ServersOf(tbl, g) = {} <=> ServersOf(tbl, g) = {}
    <2>1. ASSUME ServersOf(tbl, g) = {} PROVE {g} \X ServersOf(tbl, g) = {}
      BY <2>1
    <2>2. ASSUME NEW d \in ServersOf(tbl, g) PROVE {g} \X ServersOf(tbl, g) # {}
      <3>1. <<g, d>> \in {g} \X ServersOf(tbl, g)
        OBVIOUS
      <3> QED BY <3>1
    <2> QED BY <2>1, <2>2
  <1> QED BY <1>1, <1>2, <1>4, <1>5

LEMMA Pairs ==
    ASSUME NEW g, NEW S, NEW d
    PROVE  /\ {g} \X (S \union {d}) = ({g} \X S) \union {<<g, d>>}
           /\ {g} \X (S \ {d}) = ({g} \X S) \ {<<g, d>>}
           /\ {g} \X {d} = {<<g, d>>}
           /\ {g} \X {} = {}
  OBVIOUS

(* An upload adds a replica, whether the block is listed or not; so does a *)
(* migration, if it is.                                                    *)
LEMMA AddedReplica ==
    ASSUME NEW tbl, WellListed(tbl), NEW g \in Hash, NEW d \in Server, NEW new,
           new = [tbl EXCEPT ![g] = IF tbl[g] = NoMeta THEN NewBlock(d, {})
                                    ELSE WithServer(tbl[g], d)]
    PROVE  WellListed(new) /\ ReplicasIn(new) = ReplicasIn(tbl) \union {<<g, d>>}
  <1> DEFINE entry == IF tbl[g] = NoMeta THEN NewBlock(d, {}) ELSE WithServer(tbl[g], d)
             old == ReplicasAt(tbl, g)
  <1>1. d \in ServerId
    BY ServerIds
  <1>2. /\ entry \in KvBlockMeta
        /\ entry.servers = ServersOf(tbl, g) \union {d}
        /\ entry.servers \subseteq Server
    BY <1>1, AbsentOrListed DEF NewBlock, WithServer, KvBlockMeta, ServersOf
  <1>3. entry # NoMeta
    BY <1>2, SyncAssumption
  <1>4. old = {g} \X ServersOf(tbl, g)
    BY AbsentOrListed
  <1>5. /\ WellListed(new)
        /\ ReplicasIn(new) = (ReplicasIn(tbl) \ old) \union ({g} \X entry.servers)
    <2> HIDE DEF entry, old
    <2>1. EntryListed(entry)
      BY <1>2 DEF EntryListed
    <2>2. new = Put(tbl, g, entry)
      BY DEF entry, Put
    <2>3. ServersIn(entry) = entry.servers
      BY ONLY <1>3 DEF ServersIn
    <2>4. /\ WellListed(Put(tbl, g, entry))
          /\ ReplicasIn(Put(tbl, g, entry)) =
                (ReplicasIn(tbl) \ ReplicasAt(tbl, g)) \union ({g} \X ServersIn(entry))
      BY <1>2, <2>1, NewEntry
    <2> QED BY ONLY <2>2, <2>3, <2>4 DEF old
  <1>6. {g} \X entry.servers = old \union {<<g, d>>}
    BY ONLY <1>2, <1>4, Pairs
  <1>7. old \subseteq ReplicasIn(tbl)
    BY DEF ReplicasAt
  <1> HIDE DEF entry, old
  <1> QED BY <1>5, <1>6, <1>7

(* A withdrawal takes it out.                                              *)
LEMMA WithdrawnReplica ==
    ASSUME NEW tbl, WellListed(tbl), NEW g \in Hash, NEW d \in ServerId
    PROVE  /\ WellListed(Withdrawn(tbl, g, d))
           /\ ReplicasIn(Withdrawn(tbl, g, d)) = ReplicasIn(tbl) \ {<<g, d>>}
  <1> DEFINE new == Withdrawn(tbl, g, d)
             old == ReplicasAt(tbl, g)
  <1>1. old = {g} \X ServersOf(tbl, g) /\ old \subseteq ReplicasIn(tbl)
    BY AbsentOrListed DEF ReplicasAt
  <1>2. CASE tbl[g] = NoMeta
    <2>1. new = tbl
      BY <1>2 DEF Withdrawn
    <2>2. <<g, d>> \notin ReplicasIn(tbl)
      BY <1>2, ReplicaIn, ServerIds DEF ServersOf
    <2> QED BY <2>1, <2>2
  <1>3. CASE tbl[g] # NoMeta
    <2> DEFINE left  == WithoutServer(tbl[g], d)
               entry == IF left.servers = {} THEN NoMeta ELSE left
    <2>1. /\ tbl[g] \in KvBlockMeta /\ ServersOf(tbl, g) = tbl[g].servers
          /\ tbl[g].servers \subseteq Server
      BY <1>3, AbsentOrListed
    <2>2. left \in KvBlockMeta /\ left.servers = ServersOf(tbl, g) \ {d}
      BY <2>1 DEF WithoutServer, KvBlockMeta
    <2>3. left # NoMeta
      BY <2>2, SyncAssumption
    <2>4. new = Put(tbl, g, entry)
      BY <1>3 DEF Withdrawn, Put
    <2> HIDE DEF left, new
    <2>5. /\ entry \in KvBlockMeta \union {NoMeta} /\ EntryListed(entry)
          /\ ServersIn(entry) = ServersOf(tbl, g) \ {d}
      BY <2>1, <2>2, <2>3 DEF EntryListed, ServersIn
    <2> HIDE DEF entry, old
    <2>6. /\ WellListed(new)
          /\ ReplicasIn(new) = (ReplicasIn(tbl) \ old)
                                  \union ({g} \X (ServersOf(tbl, g) \ {d}))
      BY <2>4, <2>5, NewEntry DEF old
    <2>7. {g} \X (ServersOf(tbl, g) \ {d}) = old \ {<<g, d>>}
      BY ONLY <1>1, Pairs
    <2>8. <<g, d>> \in ReplicasIn(tbl) => <<g, d>> \in old
      BY DEF old, ReplicasAt
    <2> QED BY <1>1, <2>6, <2>7, <2>8 DEF new
  <1> QED BY <1>2, <1>3

(* A block somebody sends is taken in, or the others are given up for the  *)
(* replica it names.                                                       *)
LEMMA InsertedReplica ==
    ASSUME NEW tbl, WellListed(tbl), NEW g \in Hash, NEW d \in Server,
           NEW meta \in KvBlockMeta, meta.servers = {d},
           tbl[g] # NoMeta => Intersection(tbl[g], meta).servers # {}
    PROVE  /\ WellListed(Inserted(tbl, g, meta))
           /\ tbl[g] # NoMeta => <<g, d>> \in ReplicasIn(tbl)
           /\ ReplicasIn(Inserted(tbl, g, meta)) =
                 (ReplicasIn(tbl) \ ReplicasAt(tbl, g)) \union {<<g, d>>}
  <1> DEFINE entry == IF tbl[g] = NoMeta THEN meta ELSE Intersection(tbl[g], meta)
             new == Inserted(tbl, g, meta)
             old == ReplicasAt(tbl, g)
  <1>1. d \in ServerId
    BY ServerIds
  <1>2. tbl[g] # NoMeta =>
           /\ tbl[g] \in KvBlockMeta /\ ServersOf(tbl, g) = tbl[g].servers
           /\ Intersection(tbl[g], meta) \in KvBlockMeta
           /\ Intersection(tbl[g], meta).servers = {d} \intersect tbl[g].servers
    BY AbsentOrListed DEF Intersection, KvBlockMeta
  <1>3. tbl[g] # NoMeta => d \in ServersOf(tbl, g)
    BY <1>2
  <1>4. entry \in KvBlockMeta /\ entry.servers = {d}
    BY <1>2, <1>3
  <1>5. new = Put(tbl, g, entry)
    BY DEF Inserted, Put
  <1>6. entry # NoMeta
    BY <1>4, SyncAssumption
  <1> HIDE DEF entry, new, old
  <1>7. EntryListed(entry)
    BY <1>4 DEF EntryListed
  <1>8. WellListed(new) /\ ReplicasIn(new) = (ReplicasIn(tbl) \ old) \union ({g} \X {d})
    BY <1>4, <1>5, <1>6, <1>7, NewEntry DEF old, ServersIn
  <1>9. {g} \X {d} = {<<g, d>>}
    BY Pairs
  <1> QED BY <1>1, <1>3, <1>8, <1>9, ReplicaIn DEF new, old

(* An operation that adds a server leaves the servers as they are.         *)
LEMMA ReinsertedReplicas ==
    ASSUME NEW tbl, WellListed(tbl), NEW g \in Hash, tbl[g] # NoMeta, NEW d \in Server
    PROVE  /\ WellListed(Inserted(tbl, g, WithServer(tbl[g], d)))
           /\ ReplicasIn(Inserted(tbl, g, WithServer(tbl[g], d))) = ReplicasIn(tbl)
  <1> DEFINE entry == Intersection(tbl[g], WithServer(tbl[g], d))
             new == Inserted(tbl, g, WithServer(tbl[g], d))
             old == ReplicasAt(tbl, g)
  <1>1. /\ tbl[g] \in KvBlockMeta /\ ServersOf(tbl, g) = tbl[g].servers
        /\ tbl[g].servers # {} /\ tbl[g].servers \subseteq Server
    BY AbsentOrListed
  <1>2. entry \in KvBlockMeta /\ entry.servers = tbl[g].servers
    BY <1>1, ServerIds DEF Intersection, WithServer, KvBlockMeta
  <1>3. new = Put(tbl, g, entry)
    BY DEF Inserted, Put
  <1>4. entry # NoMeta
    BY <1>2, SyncAssumption
  <1> HIDE DEF entry, new, old
  <1>5. EntryListed(entry)
    BY <1>1, <1>2 DEF EntryListed
  <1>6. /\ WellListed(new)
        /\ ReplicasIn(new) = (ReplicasIn(tbl) \ old) \union ({g} \X ServersOf(tbl, g))
    BY <1>1, <1>2, <1>3, <1>4, <1>5, NewEntry DEF old, ServersIn
  <1>7. {g} \X ServersOf(tbl, g) = old /\ old \subseteq ReplicasIn(tbl)
    BY AbsentOrListed DEF old, ReplicasAt
  <1> QED BY <1>6, <1>7 DEF new

-----------------------------------------------------------------------------
(* What the steps of MetaSync do to what the servers list.                 *)

LEMMA TableListed ==
    ASSUME DirTypes, TablesListed, NEW n \in Node
    PROVE  /\ WellListed(table[n]) /\ Lists[n] = ReplicasIn(table[n])
           /\ \A h \in Hash : Gossip!ReplicasOf(n, h) = ReplicasAt(table[n], h)
  BY DEF DirTypes, TablesListed, WellListed, Lists, ReplicasIn, Gossip!ReplicasOf, ReplicasAt

LEMMA OneTableChanges ==
    ASSUME DirTypes, TablesListed, NEW n \in Node, NEW new, WellListed(new),
           table' = [table EXCEPT ![n] = new]
    PROVE  TablesListed' /\ Gossip!List(n, ReplicasIn(new))
  <1>1. table'[n] = new /\ \A m \in Node : m # n => table'[m] = table[m]
    BY DEF DirTypes
  <1>2. TablesListed'
    BY <1>1 DEF TablesListed, WellListed
  <1>3. Lists' = [m \in Node |-> ReplicasIn(table'[m])]
    BY DEF Lists, ReplicasIn
  <1>4. Lists = [m \in Node |-> ReplicasIn(table[m])]
    BY DEF Lists, ReplicasIn
  <1>5. Lists' = [Lists EXCEPT ![n] = ReplicasIn(new)]
    BY <1>1, <1>3, <1>4
  <1> QED BY <1>2, <1>5 DEF Gossip!List

LEMMA NoTableChanges ==
    ASSUME TablesListed, table' = table
    PROVE  /\ TablesListed' /\ Lists' = Lists
           /\ \A n \in Node : Gossip!List(n, Lists[n])
  BY DEF TablesListed, Lists, Gossip!List

(* What queueing an operation says.                                        *)
LEMMA OpsSay ==
    ASSUME NEW n \in Node, NEW h \in Hash
    PROVE  /\ \A s \in Server : insert_update_kvop(n, h, AddOp(s)) =>
                 said' = said \union {<<h, s>>} /\ denied' = denied
           /\ \A s \in ServerId : insert_update_kvop(n, h, DelOp(s)) =>
                 said' = said /\ denied' = denied \union {<<h, s>>}
  <1>1. ASSUME NEW s \in Server, insert_update_kvop(n, h, AddOp(s))
        PROVE  said' = said \union {<<h, s>>} /\ denied' = denied
    <2> DEFINE new  == { r \in Replica : r[1] = h /\ AddOp(s) = AddOp(r[2]) }
               gone == { r \in Replica : r[1] = h /\ AddOp(s) = DelOp(r[2]) }
    <2>1. Say(new, gone)
      BY <1>1 DEF insert_update_kvop
    <2>2. \A d : (AddOp(s) = AddOp(d) <=> s = d) /\ AddOp(s) # DelOp(d)
      BY DEF AddOp, DelOp
    <2>3. new = {<<h, s>>} /\ gone = {}
      BY <2>2, ServerIds DEF Replica
    <2> HIDE DEF new, gone
    <2> QED BY <2>1, <2>3 DEF Say
  <1>2. ASSUME NEW s \in ServerId, insert_update_kvop(n, h, DelOp(s))
        PROVE  said' = said /\ denied' = denied \union {<<h, s>>}
    <2> DEFINE new  == { r \in Replica : r[1] = h /\ DelOp(s) = AddOp(r[2]) }
               gone == { r \in Replica : r[1] = h /\ DelOp(s) = DelOp(r[2]) }
    <2>1. Say(new, gone)
      BY <1>2 DEF insert_update_kvop
    <2>2. \A d : (DelOp(s) = DelOp(d) <=> s = d) /\ DelOp(s) # AddOp(d)
      BY DEF AddOp, DelOp
    <2>3. new = {} /\ gone = {<<h, s>>}
      BY <2>2 DEF Replica
    <2> HIDE DEF new, gone
    <2> QED BY <2>1, <2>3 DEF Say
  <1> QED BY <1>1, <1>2

GossipStep == Gossip!Next \/ UNCHANGED <<Lists, said, denied>>

LEMMA UploadMaps ==
    ASSUME DirTypes, TablesListed, NEW n \in Node, NEW s \in Server, NEW h \in Hash,
           UploadNew(n, s, h) \/ UploadReplica(n, s, h)
    PROVE  TablesListed' /\ Gossip!Upload(n, h, s)
  <1> DEFINE new == [table[n] EXCEPT ![h] = IF table[n][h] = NoMeta THEN NewBlock(s, {})
                                            ELSE WithServer(table[n][h], s)]
  <1>1. WellListed(table[n]) /\ Lists[n] = ReplicasIn(table[n]) /\ s \in ServerId
    BY TableListed, ServerIds
  <1>2. Home[s] = n /\ s \notin ServersOf(table[n], h)
    BY DEF UploadNew, UploadReplica, ServersOf
  <1>3. table' = [table EXCEPT ![n] = new]
    BY DEF UploadNew, UploadReplica
  <1>4. said' = said \union {<<h, s>>} /\ denied' = denied
    BY OpsSay DEF UploadNew, UploadReplica, insert_update_kvcache, Say
  <1>5. WellListed(new) /\ ReplicasIn(new) = ReplicasIn(table[n]) \union {<<h, s>>}
    BY <1>1, AddedReplica
  <1> HIDE DEF new
  <1>6. TablesListed' /\ Gossip!List(n, Lists[n] \union {<<h, s>>})
    BY <1>1, <1>3, <1>5, OneTableChanges
  <1>7. <<h, s>> \notin Lists[n]
    BY <1>1, <1>2, ReplicaIn
  <1> QED BY <1>2, <1>4, <1>6, <1>7 DEF Gossip!Upload

LEMMA MigratedMaps ==
    ASSUME DirTypes, TablesListed, NEW n \in Node, NEW s \in Server, NEW h \in Hash,
           Migrated(n, s, h)
    PROVE  TablesListed' /\ Gossip!Migrated(n, h, s)
  <1>1. /\ WellListed(table[n]) /\ Lists[n] = ReplicasIn(table[n])
        /\ table[n][h] = NoMeta <=> Gossip!ReplicasOf(n, h) = {}
    BY TableListed, AbsentOrListed
  <1>2. said' = said \union {<<h, s>>} /\ denied' = denied
    BY OpsSay DEF Migrated
  <1>3. CASE table[n][h] = NoMeta
    <2>1. table' = table
      BY <1>3 DEF Migrated
    <2> QED BY <1>1, <1>2, <1>3, <2>1, NoTableChanges DEF Gossip!Migrated
  <1>4. CASE table[n][h] # NoMeta
    <2> DEFINE new == [table[n] EXCEPT ![h] = IF table[n][h] = NoMeta THEN NewBlock(s, {})
                                              ELSE WithServer(table[n][h], s)]
    <2>1. table' = [table EXCEPT ![n] = new]
      BY <1>4 DEF Migrated
    <2>2. WellListed(new) /\ ReplicasIn(new) = ReplicasIn(table[n]) \union {<<h, s>>}
      BY <1>1, AddedReplica
    <2> HIDE DEF new
    <2>3. TablesListed' /\ Gossip!List(n, Lists[n] \union {<<h, s>>})
      BY <1>1, <2>1, <2>2, OneTableChanges
    <2> QED BY <1>1, <1>2, <1>4, <2>3 DEF Gossip!Migrated
  <1> QED BY <1>3, <1>4

LEMMA WithdrawalMaps ==
    ASSUME DirTypes, TablesListed, NEW n \in Node, NEW s \in Server, NEW h \in Hash
    PROVE  /\ Remove(n, s, h) => TablesListed' /\ Gossip!Withdraw(n, h, s)
           /\ Missing(n, s, h) => TablesListed' /\ Gossip!Missing(n, h, s)
  <1>1. WellListed(table[n]) /\ Lists[n] = ReplicasIn(table[n])
    BY TableListed
  <1>2. s \in ServerId /\ n \in ServerId
    BY ServerIds
  <1>3. /\ WellListed(Withdrawn(table[n], h, s))
        /\ ReplicasIn(Withdrawn(table[n], h, s)) = ReplicasIn(table[n]) \ {<<h, s>>}
    BY <1>1, <1>2, WithdrawnReplica
  <1>4. ASSUME table' = [table EXCEPT ![n] = Withdrawn(table[n], h, s)]
        PROVE  TablesListed' /\ Gossip!List(n, Lists[n] \ {<<h, s>>})
    BY <1>1, <1>3, <1>4, OneTableChanges
  <1>5. ASSUME Remove(n, s, h) PROVE TablesListed' /\ Gossip!Withdraw(n, h, s)
    BY <1>2, <1>4, <1>5, OpsSay DEF Remove, Gossip!Withdraw
  <1>6. ASSUME Missing(n, s, h) PROVE TablesListed' /\ Gossip!Missing(n, h, s)
    BY <1>2, <1>4, <1>6, OpsSay DEF Missing, Gossip!Missing
  <1> QED BY <1>5, <1>6

LEMMA HandledBlockMaps ==
    ASSUME TypeOK, WordsInv, TablesListed, NEW n \in Node, NEW q \in Node, NEW h \in Hash,
           HandleMeta(q, n, h)
    PROVE  /\ TablesListed'
           /\ \E d \in Server : Gossip!TakeIn(q, h, d) \/ Gossip!Prefer(q, h, d)
  <1> DEFINE meta == inbox[q][n].meta[h]
             new  == Inserted(table[q], h, meta)
  <1>1. DirTypes /\ inbox[q][n] # None /\ inbox[q][n].meta \in BlockTable /\ meta # NoMeta
    BY DEF HandleMeta, TypeOK, RoundTypes, Received
  <1>2. MetaSaid(inbox[q][n].meta, said)
    BY <1>1 DEF WordsInv, RequestsSaid
  <1>3. PICK d \in Server : meta.servers = {d} /\ <<h, d>> \in said
    BY <1>1, <1>2 DEF MetaSaid
  <1>4. meta \in KvBlockMeta
    BY <1>1, TableTypes
  <1>5. /\ WellListed(table[q]) /\ Lists[q] = ReplicasIn(table[q])
        /\ Gossip!ReplicasOf(q, h) = ReplicasAt(table[q], h)
        /\ table[q][h] = NoMeta <=> ReplicasAt(table[q], h) = {}
    BY <1>1, TableListed, AbsentOrListed
  <1>6. table[q][h] # NoMeta => Intersection(table[q][h], meta).servers # {}
    BY DEF HandleMeta, Conflict
  <1>7. table' = [table EXCEPT ![q] = new] /\ UNCHANGED words
    BY DEF HandleMeta, Told
  <1> HIDE DEF meta
  <1>8. /\ WellListed(new)
        /\ table[q][h] # NoMeta => <<h, d>> \in ReplicasIn(table[q])
        /\ ReplicasIn(new) =
              (ReplicasIn(table[q]) \ ReplicasAt(table[q], h)) \union {<<h, d>>}
    BY <1>3, <1>4, <1>5, <1>6, InsertedReplica
  <1> HIDE DEF new
  <1>9. /\ TablesListed'
        /\ Gossip!List(q, (Lists[q] \ Gossip!ReplicasOf(q, h)) \union {<<h, d>>})
    BY <1>1, <1>5, <1>7, <1>8, OneTableChanges
  <1>10. CASE table[q][h] = NoMeta
    <2>1. Gossip!List(q, Lists[q] \union {<<h, d>>}) /\ Gossip!ReplicasOf(q, h) = {}
      BY <1>5, <1>9, <1>10
    <2> QED BY <1>3, <1>7, <1>9, <2>1 DEF Gossip!TakeIn, words
  <1>11. CASE table[q][h] # NoMeta
    BY <1>3, <1>5, <1>7, <1>8, <1>9, <1>11 DEF Gossip!Prefer, words
  <1> QED BY <1>10, <1>11

LEMMA HandledOpMaps ==
    ASSUME TypeOK, WordsInv, TablesListed, NEW n \in Node, NEW q \in Node, NEW h \in Hash,
           HandleOp(q, n, h)
    PROVE  /\ TablesListed'
           /\ (\E d \in Server : Gossip!Forget(q, h, d)) \/ UNCHANGED <<Lists, said, denied>>
  <1> DEFINE op  == inbox[q][n].ops[h]
             new == Executed(table[q], h, op)
  <1>1. DirTypes /\ inbox[q][n] # None /\ op \in Ops /\ op # NoOp
    BY DEF HandleOp, TypeOK, RoundTypes, Received
  <1>2. OpsDenied(inbox[q][n].ops, denied)
    BY <1>1 DEF WordsInv, RequestsSaid
  <1>3. WellListed(table[q]) /\ Lists[q] = ReplicasIn(table[q])
    BY <1>1, TableListed
  <1>4. table' = [table EXCEPT ![q] = new] /\ UNCHANGED words
    BY DEF HandleOp, Told
  <1>5. \A d \in ServerId : op = DelOp(d) => <<h, d>> \in denied
    BY <1>2 DEF OpsDenied
  <1> HIDE DEF op
  <1>6. ASSUME WellListed(new), ReplicasIn(new) = ReplicasIn(table[q])
        PROVE  TablesListed' /\ UNCHANGED <<Lists, said, denied>>
    <2>1. TablesListed' /\ Gossip!List(q, Lists[q])
      BY <1>1, <1>3, <1>4, <1>6, OneTableChanges
    <2>2. [Lists EXCEPT ![q] = Lists[q]] = Lists
      BY DEF Lists
    <2> QED BY <1>4, <2>1, <2>2 DEF Gossip!List, words
  <1>7. CASE table[q][h] = NoMeta
    BY <1>3, <1>6, <1>7 DEF Executed
  <1>8. CASE table[q][h] # NoMeta /\ op.operation = 1
    <2>1. op.srv \in Server /\ new = Inserted(table[q], h, WithServer(table[q][h], op.srv))
      BY <1>1, <1>8, OpCases DEF Executed
    <2> QED BY <1>3, <1>6, <1>8, <2>1, ReinsertedReplicas
  <1>9. CASE table[q][h] # NoMeta /\ op.operation # 1
    <2>1. PICK d \in ServerId : op = DelOp(d) /\ op.srv = d
      BY <1>1, <1>9, OpCases
    <2>2. new = Withdrawn(table[q], h, d)
      BY <1>9, <2>1 DEF Executed
    <2>3. WellListed(new) /\ ReplicasIn(new) = ReplicasIn(table[q]) \ {<<h, d>>}
      BY <1>3, <2>2, WithdrawnReplica
    <2> HIDE DEF new
    <2>4. CASE d \in Server
      <3>1. TablesListed' /\ Gossip!List(q, Lists[q] \ {<<h, d>>})
        BY <1>1, <1>3, <1>4, <2>3, OneTableChanges
      <3> QED BY <1>4, <1>5, <2>1, <2>4, <3>1 DEF Gossip!Forget, words
    <2>5. CASE d \notin Server
      <3>1. d \notin ServersOf(table[q], h)
        BY <1>3, <1>9, <2>5, AbsentOrListed
      <3>2. <<h, d>> \notin ReplicasIn(table[q])
        BY <3>1, ReplicaIn
      <3> QED BY <1>6, <2>3, <3>2
    <2> QED BY <2>4, <2>5
  <1> QED BY <1>7, <1>8, <1>9

(* Queues, rounds, calls and answers do not show.                          *)
LEMMA QuietMaps ==
    ASSUME TablesListed, NEW n \in Node, NEW p \in Node,
           \/ \E s \in Server, h \in Hash : UploadAgain(n, s, h)
           \/ SyncStep(n) \/ CallStep(n, p) \/ Fail(n, p) \/ Answer(p, n)
           \/ \E h \in Hash : HandleWedge(p, n, h)
           \/ UNCHANGED vars
    PROVE  TablesListed' /\ UNCHANGED <<Lists, said, denied>>
  <1>1. table' = table /\ UNCHANGED words
    BY DEF UploadAgain, SyncStep, TakeMeta, ClearMeta, TakeOps, ClearOps, TakeCounts,
           EarlyReturn, Send, CallStep, Deliver, Reply, Fail, Answer, HandleWedge,
           dirVars, history, vars
  <1> QED BY <1>1, NoTableChanges DEF words

LEMMA GossipMaps ==
    ASSUME TypeOK, WordsInv, TablesListed, [Next]_vars
    PROVE  TablesListed' /\ GossipStep
  <1> USE DEF GossipStep, Gossip!Next
  <1>1. DirTypes
    BY DEF TypeOK
  <1>2. ASSUME NEW n \in Node, NEW s \in Server, NEW h \in Hash,
               \/ UploadNew(n, s, h) \/ UploadReplica(n, s, h) \/ Migrated(n, s, h)
               \/ Remove(n, s, h) \/ Missing(n, s, h)
        PROVE  TablesListed' /\ GossipStep
    BY <1>1, <1>2, UploadMaps, MigratedMaps, WithdrawalMaps
  <1>3. ASSUME NEW n \in Node, DataRequest(n) PROVE TablesListed' /\ GossipStep
    BY <1>2, <1>3, QuietMaps DEF DataRequest
  <1>4. ASSUME NEW q \in Node, NEW n \in Node, HandlerStep(q, n)
        PROVE  TablesListed' /\ GossipStep
    BY <1>4, HandledBlockMaps, HandledOpMaps, QuietMaps DEF HandlerStep
  <1>5. CASE UNCHANGED vars
    <2>1. CASE Node = {}
      BY <1>5, <2>1 DEF vars, dirVars, history, words, TablesListed, Lists
    <2> QED BY <1>5, <2>1, QuietMaps
  <1> QED BY <1>3, <1>4, <1>5, QuietMaps DEF Next

(* For any servers, hashes, requests and failures, the queues, rounds,     *)
(* calls and handlers of several servers amount to words that spread: a    *)
(* server changes what it lists by the word of its own data servers and    *)
(* migrations, and otherwise only by taking in a block it does not have,   *)
(* giving up the others for a replica it has, and forgetting what a        *)
(* migration found missing (lib.rs:328-490, remove_kvmeta.rs:88).          *)
THEOREM GossipImplemented == Spec => ImplementsGossip
  <1> DEFINE Inv == WordsInv /\ TablesListed
  <1>1. Init => Inv /\ Gossip!Init
    <2> SUFFICES ASSUME Init PROVE Inv /\ Gossip!Init
      OBVIOUS
    <2>1. TablesListed /\ Gossip!Init
      <3>1. \A n \in Node, h \in Hash : table[n][h] = NoMeta
        BY DEF Init, NoBlocks
      <3>2. \A n \in Node, r \in Replica : r[2] \notin ServersOf(table[n], r[1])
        BY <3>1 DEF ServersOf, Replica
      <3>3. Lists = [n \in Node |-> {}]
        BY <3>2 DEF Lists
      <3> QED BY <3>1, <3>3 DEF Init, TablesListed, EntryListed, Gossip!Init
    <2>2. ASSUME NEW n \in Node
          PROVE  /\ updMeta[n] = NoBlocks /\ updOp[n] = NoOps
                 /\ out[n].meta = NoBlocks /\ out[n].ops = NoOps
                 /\ \A q \in Node : inbox[q][n] = None
      BY DEF Init, EmptyRequest
    <2>3. WordsInv
      BY <2>2, NothingSaid DEF WordsInv, QueuesSaid, RequestsSaid
    <2> QED BY <2>1, <2>3
  <1>2. TypeOK /\ Inv /\ [Next]_vars => Inv' /\ [Gossip!Next]_(Gossip!vars)
    BY WordsInvStep, GossipMaps DEF GossipStep, Gossip!vars
  <1> HIDE DEF Inv
  <1> QED BY <1>1, <1>2, SyncTypesCorrect, PTL DEF Spec, ImplementsGossip, Gossip!Spec
=============================================================================
