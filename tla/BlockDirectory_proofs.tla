------------------------ MODULE BlockDirectory_proofs ------------------------
(***************************************************************************)
(* Theorems about BlockDirectory, for any tasks, hashes, servers, shards,  *)
(* uploads and peer updates.                                               *)
(***************************************************************************)
EXTENDS BlockDirectory, SequenceTheorems, FiniteSetTheorems, TLAPS

-----------------------------------------------------------------------------
(* Iterations and steps.                                                   *)

AllKinds == LocalKinds \union PeerKinds

(* An iteration starts at one of its steps, and no iteration is idle.      *)
LEMMA StepsOfKinds ==
    ASSUME NEW kind \in AllKinds
    PROVE  /\ Start(kind) \in StepsOf(kind)
           /\ StepsOf(kind) \subseteq Pcs
           /\ "idle" \notin StepsOf(kind)
  <1>1. Start(kind) \in StepsOf(kind)
    BY DEF AllKinds, LocalKinds, PeerKinds, Start, StepsOf
  <1>2. StepsOf(kind) \subseteq Pcs
    BY DEF AllKinds, Pcs
  <1>3. "idle" \notin StepsOf(kind)
    BY DEF AllKinds, LocalKinds, PeerKinds, StepsOf
  <1> QED BY <1>1, <1>2, <1>3

(* What is left of a loop after an iteration is again a loop.              *)
LEMMA JobsTail ==
    ASSUME NEW jobs, JobsOk(jobs), jobs # <<>>
    PROVE  /\ Head(jobs) \in Job
           /\ JobSource(Head(jobs))
           /\ JobsOk(Tail(jobs))
           /\ Head(jobs).kind = "block" /\ Head(jobs).next # {} =>
                 Tail(jobs) # <<>> /\ Head(Tail(jobs)).kind = "block"
  <1>1. jobs \in Seq(Job) /\ Len(jobs) \in Nat \ {0}
    BY EmptySeq, LenProperties DEF JobsOk
  <1>2. /\ Head(jobs) = jobs[1] /\ jobs[1] \in Job
        /\ Tail(jobs) \in Seq(Job) /\ Len(Tail(jobs)) = Len(jobs) - 1
        /\ \A i \in 1 .. Len(Tail(jobs)) : Tail(jobs)[i] = jobs[i + 1]
    BY <1>1
  <1>3. JobSource(Head(jobs))
    BY <1>1, <1>2 DEF JobsOk
  <1>4. JobsOk(Tail(jobs))
    <2> SUFFICES ASSUME NEW i \in 1 .. Len(Tail(jobs))
                 PROVE  /\ JobSource(Tail(jobs)[i])
                        /\ Tail(jobs)[i].kind = "block" /\ Tail(jobs)[i].next # {} =>
                              i < Len(Tail(jobs)) /\ Tail(jobs)[i + 1].kind = "block"
      BY <1>2 DEF JobsOk
    <2>1. i + 1 \in 1 .. Len(jobs) /\ Tail(jobs)[i] = jobs[i + 1]
      BY <1>1, <1>2
    <2>2. /\ JobSource(jobs[i + 1])
          /\ jobs[i + 1].kind = "block" /\ jobs[i + 1].next # {} =>
                i + 1 < Len(jobs) /\ jobs[(i + 1) + 1].kind = "block"
      BY <2>1 DEF JobsOk
    <2> QED BY <1>1, <1>2, <2>1, <2>2
  <1>5. Head(jobs).kind = "block" /\ Head(jobs).next # {} =>
            Tail(jobs) # <<>> /\ Head(Tail(jobs)).kind = "block"
    <2> SUFFICES ASSUME jobs[1].kind = "block", jobs[1].next # {}
                 PROVE  Tail(jobs) # <<>> /\ Head(Tail(jobs)).kind = "block"
      BY <1>2
    <2>1. 1 < Len(jobs) /\ jobs[1 + 1].kind = "block"
      <3>1. 1 \in 1 .. Len(jobs)
        BY <1>1
      <3> QED BY <3>1 DEF JobsOk
    <2>2. 1 \in 1 .. Len(Tail(jobs)) /\ Len(Tail(jobs)) # 0
      BY <1>1, <1>2, <2>1
    <2>3. Tail(jobs)[1] = jobs[1 + 1]
      BY <1>2, <2>2
    <2>4. Tail(jobs) # <<>>
      BY <1>2, <2>2, EmptySeq
    <2>5. Head(Tail(jobs)) = Tail(jobs)[1]
      BY <1>2, <2>4
    <2> QED BY <2>1, <2>3, <2>4, <2>5
  <1> QED BY <1>2, <1>3, <1>4, <1>5

(* The end of an iteration, and a step inside one, keep TaskTypes.         *)
LEMMA AdvanceTypes ==
    ASSUME TaskTypes, NEW t \in Task, ~At(t, "idle"), Advance(t)
    PROVE  TaskTypes'
  <1> DEFINE rest == Tail(todo[t])
  <1>1. todo[t] # <<>> /\ JobsOk(todo[t])
    BY DEF TaskTypes
  <1>2. JobsOk(rest) /\ rest \in Seq(Job)
    BY <1>1, JobsTail DEF JobsOk
  <1>3. rest # <<>> => /\ Head(rest).kind \in AllKinds
                       /\ Start(Head(rest).kind) \in StepsOf(Head(rest).kind)
                       /\ Start(Head(rest).kind) \in Pcs
                       /\ Start(Head(rest).kind) # "idle"
    <2> SUFFICES ASSUME rest # <<>>
                 PROVE  Head(rest).kind \in AllKinds
      BY StepsOfKinds
    <2>1. Head(rest) \in Job
      BY <1>2, JobsTail
    <2> QED BY <2>1 DEF Job, AllKinds
  <1>4. /\ todo' = [todo EXCEPT ![t] = rest]
        /\ pc' = [pc EXCEPT ![t] = IF rest = <<>> THEN "idle" ELSE Start(Head(rest).kind)]
        /\ clone' = [clone EXCEPT ![t] = NoMeta]
        /\ accepted' = accepted
    BY DEF Advance, Remaining, FirstStep, TaskTypes
  <1> HIDE DEF rest
  <1>5. /\ todo' \in [Task -> Seq(Job)]
        /\ pc' \in [Task -> Pcs \union {"idle"}]
        /\ clone' \in [Task -> KvBlockMeta \union {NoMeta}]
        /\ accepted' \in Nat
    BY <1>2, <1>3, <1>4 DEF TaskTypes
  <1>6. ASSUME NEW u \in Task
        PROVE  /\ JobsOk(todo'[u])
               /\ pc'[u] = "idle" <=> todo'[u] = <<>>
               /\ todo'[u] # <<>> => pc'[u] \in StepsOf(Head(todo'[u]).kind)
    <2>1. CASE u = t
      BY <1>2, <1>3, <1>4, <2>1 DEF TaskTypes
    <2>2. CASE u # t
      <3>1. todo'[u] = todo[u] /\ pc'[u] = pc[u]
        BY <1>4, <2>2 DEF TaskTypes
      <3> QED BY <3>1 DEF TaskTypes, At, KindOf, Current
    <2> QED BY <2>1, <2>2
  <1> QED BY <1>5, <1>6 DEF TaskTypes, At, KindOf, Current

LEMMA GotoTypes ==
    ASSUME TaskTypes, NEW t \in Task, ~At(t, "idle"),
           NEW step \in StepsOf(KindOf(t)), Goto(t, step)
    PROVE  TaskTypes'
  <1>1. todo[t] # <<>> /\ KindOf(t) \in AllKinds
    <2>1. todo[t] # <<>> /\ JobsOk(todo[t])
      BY DEF TaskTypes
    <2> QED BY <2>1, JobsTail DEF KindOf, Current, Job, AllKinds
  <1>2. step \in Pcs /\ step # "idle"
    BY <1>1, StepsOfKinds
  <1>3. /\ pc' = [pc EXCEPT ![t] = step] /\ todo' = todo
        /\ clone' = clone /\ accepted' = accepted
    BY DEF Goto
  <1>4. pc' \in [Task -> Pcs \union {"idle"}]
    BY <1>2, <1>3 DEF TaskTypes
  <1>5. ASSUME NEW u \in Task
        PROVE  /\ JobsOk(todo[u])
               /\ pc'[u] = "idle" <=> todo[u] = <<>>
               /\ todo[u] # <<>> => pc'[u] \in StepsOf(Head(todo[u]).kind)
    <2>1. CASE u = t
      BY <1>1, <1>2, <1>3, <2>1 DEF TaskTypes, KindOf, Current
    <2>2. CASE u # t
      BY <1>3, <2>2 DEF TaskTypes, At, KindOf, Current
    <2> QED BY <2>1, <2>2
  <1> QED BY <1>3, <1>4, <1>5 DEF TaskTypes, At, KindOf, Current

(* The fields of the current iteration, and its kind at each step.         *)
LEMMA JobTypes ==
    ASSUME TaskTypes, NEW t \in Task, ~At(t, "idle")
    PROVE  /\ todo[t] # <<>>
           /\ HashOf(t) \in Hash /\ SrvOf(t) \in ServerId /\ KindOf(t) \in AllKinds
           /\ Current(t).next \subseteq Hash
           /\ JobSource(Current(t))
           /\ pc[t] \in StepsOf(KindOf(t))
  <1>1. todo[t] # <<>> /\ JobsOk(todo[t]) /\ pc[t] \in StepsOf(KindOf(t))
    BY DEF TaskTypes
  <1>2. Current(t) \in Job /\ JobSource(Current(t))
    BY <1>1, JobsTail DEF Current
  <1> QED BY <1>1, <1>2 DEF HashOf, SrvOf, KindOf, Job, AllKinds

LEMMA KindAt ==
    ASSUME TaskTypes, NEW t \in Task
    PROVE  /\ pc[t] \in {"search", "link", "publish"} => KindOf(t) = "block"
           /\ pc[t] \in {"igk", "blind"} => KindOf(t) \in {"block", "meta", "add", "del"}
           /\ pc[t] = "hit" => KindOf(t) = "hit"
           /\ pc[t] \in {"unindex", "dropref", "unref"} => KindOf(t) = "remove"
           /\ pc[t] = "retain" => KindOf(t) \in {"remove", "missing"}
           /\ pc[t] = "drop" => KindOf(t) \in {"remove", "missing", "del"}
           /\ pc[t] = "op" => KindOf(t) \in {"remove", "missing", "migrated"}
           /\ pc[t] \in {"push", "index"} => KindOf(t) = "migrated"
           /\ pc[t] = "bump" => KindOf(t) \in {"migrated", "ref"}
           /\ pc[t] \in {"ref", "bumpglobal"} => KindOf(t) = "ref"
           /\ pc[t] \in {"reindex", "clone"} => KindOf(t) \in {"add", "del"}
  <1>1. CASE pc[t] = "idle"
    BY <1>1
  <1>2. CASE pc[t] # "idle"
    <2>1. KindOf(t) \in AllKinds /\ pc[t] \in StepsOf(KindOf(t))
      BY <1>2, JobTypes DEF At
    <2> QED BY <2>1 DEF AllKinds, LocalKinds, PeerKinds, StepsOf
  <1> QED BY <1>1, <1>2

-----------------------------------------------------------------------------
(* The clone of a replica operation lists someone: it was made by adding a *)
(* server, or it still lists one after a server was taken out.             *)
CloneReady(t) ==
    (HoldsClone(t) /\ KindOf(t) \in {"add", "del"}) =>
        clone[t] \in KvBlockMeta /\ clone[t].servers # {}

ClonesReady == \A t \in Task : CloneReady(t)

TypeInv == TypeOK /\ ClonesReady

LEMMA InHandTypes ==
    ASSUME TypeInv, NEW t \in Task, HoldsClone(t)
    PROVE  InHand(t) \in KvBlockMeta /\ InHand(t).servers # {} /\ InHand(t) # NoMeta
  <1>1. /\ SrvOf(t) \in ServerId /\ Current(t).next \subseteq Hash
        /\ KindOf(t) \in {"block", "meta", "add", "del"}
    BY JobTypes, KindAt DEF TypeInv, TypeOK, HoldsClone, At
  <1>2. CASE KindOf(t) \in {"block", "meta"}
    BY <1>1, <1>2, NoMetaAssumption DEF InHand, NewBlock, KvBlockMeta
  <1>3. CASE KindOf(t) \in {"add", "del"}
    BY <1>3, NoMetaAssumption DEF InHand, TypeInv, ClonesReady, CloneReady
  <1> QED BY <1>1, <1>2, <1>3

(* What the steps of a loop do to the clones in other tasks' hands.        *)
LEMMA AdvanceClones ==
    ASSUME TypeInv, NEW t \in Task, ~At(t, "idle"), Advance(t)
    PROVE  ClonesReady'
  <1> SUFFICES ASSUME NEW u \in Task PROVE CloneReady(u)'
    BY DEF ClonesReady
  <1> USE DEF TypeInv, TypeOK
  <1>1. CASE u # t
    <2>1. todo'[u] = todo[u] /\ pc'[u] = pc[u] /\ clone'[u] = clone[u]
      BY <1>1 DEF Advance, TaskTypes
    <2> QED BY <2>1 DEF ClonesReady, CloneReady, HoldsClone, At, KindOf, Current
  <1>2. CASE u = t
    <2>1. CASE Tail(todo[t]) = <<>>
      <3>1. pc'[u] = "idle"
        BY <1>2, <2>1 DEF Advance, TaskTypes, FirstStep, Remaining
      <3> QED BY <3>1 DEF CloneReady, HoldsClone, At
    <2>2. CASE Tail(todo[t]) # <<>>
      <3>1. todo[t] # <<>> /\ JobsOk(todo[t])
        BY JobTypes DEF TaskTypes
      <3>2. JobsOk(Tail(todo[t])) /\ Head(Tail(todo[t])) \in Job
        BY <2>2, <3>1, JobsTail
      <3>3. todo'[u] = Tail(todo[t]) /\ pc'[u] = Start(Head(Tail(todo[t])).kind)
        BY <1>2, <2>2 DEF Advance, TaskTypes, FirstStep, Remaining
      <3>4. KindOf(u)' \in {"add", "del"} => pc'[u] = "reindex"
        BY <3>3 DEF KindOf, Current, Start
      <3> QED BY <3>4 DEF CloneReady, HoldsClone, At
    <2> QED BY <2>1, <2>2
  <1> QED BY <1>1, <1>2

LEMMA GotoClones ==
    ASSUME TypeInv, NEW t \in Task, NEW step, Goto(t, step),
           step = "igk" => KindOf(t) = "block",
           step = "blind" => At(t, "igk")
    PROVE  ClonesReady'
  <1> SUFFICES ASSUME NEW u \in Task PROVE CloneReady(u)'
    BY DEF ClonesReady
  <1>1. todo' = todo /\ clone' = clone /\ pc' = [pc EXCEPT ![t] = step]
    BY DEF Goto
  <1>2. KindOf(u)' = KindOf(u) /\ clone'[u] = clone[u]
    BY <1>1 DEF KindOf, Current
  <1>3. CASE u # t
    <2>1. pc'[u] = pc[u]
      BY <1>1, <1>3 DEF TypeInv, TypeOK, TaskTypes
    <2> QED BY <1>2, <2>1 DEF TypeInv, ClonesReady, CloneReady, HoldsClone, At
  <1>4. CASE u = t
    <2>1. pc'[u] = step
      BY <1>1, <1>4 DEF TypeInv, TypeOK, TaskTypes
    <2> QED BY <1>2, <1>4, <2>1 DEF TypeInv, ClonesReady, CloneReady, HoldsClone, At
  <1> QED BY <1>3, <1>4

-----------------------------------------------------------------------------
(* The loops a request starts.                                             *)

LEMMA UploadJobs ==
    ASSUME NEW s \in LocalServer, NEW chain \in Chains
    PROVE  LET jobs == BlockJobs(s, chain) \o Jobs("hit", s, chain)
           IN  JobsOk(jobs) /\ jobs # <<>> /\ Head(jobs).kind = "block"
  <1> DEFINE blocks == BlockJobs(s, chain)
             hits   == Jobs("hit", s, chain)
             jobs   == blocks \o hits
             n      == Len(chain)
  <1>1. chain \in Seq(Hash) /\ n \in Nat \ {0} /\ \A i \in 1 .. n : chain[i] \in Hash
    BY EmptySeq, DirectoryAssumption
  <1>2. s \in ServerId /\ s \in DataServer
    BY DEF ServerId, DataServer
  <1>3. /\ blocks \in [1 .. n -> Job]
        /\ \A i \in 1 .. n : /\ blocks[i].kind = "block"
                             /\ blocks[i].srv = s
                             /\ blocks[i].next # {} => i < n
    BY <1>1, <1>2 DEF BlockJobs, Job, LocalKinds
  <1>4. /\ hits \in [1 .. n -> Job]
        /\ \A i \in 1 .. n : hits[i].kind = "hit" /\ hits[i].srv = s
    BY <1>1, <1>2 DEF Jobs, Job, LocalKinds
  <1> HIDE DEF blocks, hits
  <1>5. /\ blocks \in Seq(Job) /\ hits \in Seq(Job)
        /\ Len(blocks) = n /\ Len(hits) = n
    BY <1>1, <1>3, <1>4, SeqDef, LenProperties
  <1>6. /\ jobs \in Seq(Job) /\ Len(jobs) = n + n
        /\ \A i \in 1 .. Len(jobs) : jobs[i] = IF i <= n THEN blocks[i] ELSE hits[i - n]
    BY <1>1, <1>5, ConcatProperties
  <1> HIDE DEF jobs
  <1>7. ASSUME NEW i \in 1 .. Len(jobs)
        PROVE  /\ JobSource(jobs[i])
               /\ jobs[i].kind = "block" /\ jobs[i].next # {} =>
                     i < Len(jobs) /\ jobs[i + 1].kind = "block"
    <2>1. CASE i <= n
      <3>1. i \in 1 .. n /\ jobs[i] = blocks[i]
        BY <1>1, <1>6, <2>1
      <3>2. JobSource(jobs[i])
        BY <1>2, <1>3, <3>1 DEF JobSource, PeerKinds
      <3>3. ASSUME i < n PROVE i < Len(jobs) /\ jobs[i + 1].kind = "block"
        <4>1. i + 1 \in 1 .. n /\ i + 1 \in 1 .. Len(jobs)
          BY <1>1, <1>6, <3>1, <3>3
        <4> QED BY <1>1, <1>3, <1>6, <4>1
      <3> QED BY <1>3, <3>1, <3>2, <3>3
    <2>2. CASE i > n
      <3>1. i - n \in 1 .. n /\ jobs[i] = hits[i - n]
        BY <1>1, <1>6, <2>2
      <3> QED BY <1>2, <1>4, <3>1 DEF JobSource, PeerKinds
    <2> QED BY <1>1, <1>6, <2>1, <2>2
  <1>8. jobs # <<>> /\ Head(jobs).kind = "block"
    <2>1. 1 \in 1 .. n /\ 1 \in 1 .. Len(jobs)
      BY <1>1, <1>6
    <2>2. jobs # <<>>
      BY <1>1, <1>6, EmptySeq
    <2>3. Head(jobs) = jobs[1]
      BY <1>6, <2>2
    <2> QED BY <1>3, <1>6, <2>1, <2>2, <2>3
  <1>9. JobsOk(jobs)
    BY <1>6, <1>7 DEF JobsOk
  <1> QED BY <1>8, <1>9 DEF jobs, blocks, hits

LEMMA BatchJobs ==
    ASSUME NEW s \in DataServer, NEW hashes \in Batches,
           NEW kind \in {"remove", "missing", "migrated"}
    PROVE  LET jobs == Jobs(kind, s, hashes)
           IN  JobsOk(jobs) /\ jobs # <<>> /\ Head(jobs).kind = kind
  <1> DEFINE jobs == Jobs(kind, s, hashes)
             n    == Len(hashes)
  <1>1. hashes \in Seq(Hash) /\ n \in Nat \ {0} /\ \A i \in 1 .. n : hashes[i] \in Hash
    BY EmptySeq, DirectoryAssumption
  <1>2. /\ jobs \in [1 .. n -> Job]
        /\ \A i \in 1 .. n : jobs[i].kind = kind /\ jobs[i].srv = s
    BY <1>1 DEF Jobs, Job, LocalKinds, ServerId
  <1> HIDE DEF jobs
  <1>3. jobs \in Seq(Job) /\ Len(jobs) = n
    BY <1>1, <1>2, SeqDef, LenProperties
  <1>4. JobsOk(jobs)
    <2> SUFFICES ASSUME NEW i \in 1 .. n
                 PROVE  JobSource(jobs[i]) /\ jobs[i].kind # "block"
      BY <1>3 DEF JobsOk
    <2> QED BY <1>2 DEF JobSource, PeerKinds
  <1>5. jobs # <<>> /\ Head(jobs) = jobs[1]
    BY <1>1, <1>3, EmptySeq
  <1>6. Head(jobs).kind = kind
    <2>1. 1 \in 1 .. n
      BY <1>1
    <2> QED BY <1>2, <1>5, <2>1
  <1> QED BY <1>4, <1>5, <1>6 DEF jobs

LEMMA UpdateJobs ==
    ASSUME NEW jobs \in PeerUpdates
    PROVE  JobsOk(jobs) /\ jobs # <<>> /\ Head(jobs).kind \in PeerKinds
  <1>1. jobs \in Seq(PeerJob) /\ jobs # <<>> /\ Len(jobs) \in Nat \ {0}
    BY EmptySeq, DirectoryAssumption
  <1>2. PeerJob \subseteq Job
    BY DEF PeerJob
  <1>3. jobs \in Seq(Job) /\ \A i \in 1 .. Len(jobs) : jobs[i] \in PeerJob
    BY <1>1, <1>2
  <1>4. ASSUME NEW i \in 1 .. Len(jobs)
        PROVE  JobSource(jobs[i]) /\ jobs[i].kind # "block"
    <2>1. jobs[i] \in PeerJob /\ jobs[i].kind \in {"meta", "ref", "add", "del"}
      BY <1>3 DEF PeerJob, PeerKinds
    <2>2. CASE jobs[i].kind \in {"meta", "ref"}
      BY <2>1, <2>2, DirectoryAssumption DEF PeerJob, JobSource, PeerKinds
    <2>3. CASE jobs[i].kind = "add"
      <3>1. ToldByPeers(jobs[i].hash, jobs[i].srv)
        BY <2>3 DEF ToldByPeers
      <3> QED BY <2>1, <2>3, <3>1 DEF JobSource, PeerKinds, OwnServers
    <2>4. CASE jobs[i].kind = "del"
      BY <2>1, <2>4 DEF JobSource, PeerKinds
    <2> QED BY <2>1, <2>2, <2>3, <2>4
  <1>5. Head(jobs) = jobs[1] /\ 1 \in 1 .. Len(jobs)
    BY <1>1
  <1> QED BY <1>1, <1>3, <1>4, <1>5 DEF JobsOk, PeerJob

(* A request moves an idle task to the first step of a well-formed loop.   *)
LEMMA AcceptedTypes ==
    ASSUME TypeInv, NEW t \in Task, NEW jobs, JobsOk(jobs), jobs # <<>>,
           NEW step \in StepsOf(Head(jobs).kind),
           step = "igk" => Head(jobs).kind \notin {"add", "del"}, step # "blind",
           todo' = [todo EXCEPT ![t] = jobs],
           pc' = [pc EXCEPT ![t] = step],
           accepted' = accepted + 1, clone' = clone
    PROVE  TaskTypes' /\ ClonesReady'
  <1> USE DEF TypeInv, TypeOK
  <1>1. step \in Pcs /\ step # "idle" /\ jobs \in Seq(Job)
    <2>1. Head(jobs).kind \in AllKinds
      BY JobsTail DEF Job, AllKinds
    <2> QED BY <2>1, StepsOfKinds DEF JobsOk
  <1>2. /\ todo' \in [Task -> Seq(Job)]
        /\ pc' \in [Task -> Pcs \union {"idle"}]
        /\ clone' \in [Task -> KvBlockMeta \union {NoMeta}]
        /\ accepted' \in Nat
    BY <1>1 DEF TaskTypes
  <1>3. ASSUME NEW u \in Task
        PROVE  /\ JobsOk(todo'[u])
               /\ pc'[u] = "idle" <=> todo'[u] = <<>>
               /\ todo'[u] # <<>> => pc'[u] \in StepsOf(Head(todo'[u]).kind)
               /\ CloneReady(u)'
    <2>1. CASE u = t
      <3>1. todo'[u] = jobs /\ pc'[u] = step
        BY <2>1 DEF TaskTypes
      <3>2. CloneReady(u)'
        BY <3>1 DEF CloneReady, HoldsClone, At, KindOf, Current
      <3> QED BY <1>1, <3>1, <3>2
    <2>2. CASE u # t
      <3>1. todo'[u] = todo[u] /\ pc'[u] = pc[u]
        BY <2>2 DEF TaskTypes
      <3>2. CloneReady(u)'
        BY <3>1 DEF ClonesReady, CloneReady, HoldsClone, At, KindOf, Current
      <3> QED BY <3>1, <3>2 DEF TaskTypes, At, KindOf, Current
    <2> QED BY <2>1, <2>2
  <1>4. TaskTypes'
    BY <1>2, <1>3 DEF TaskTypes, At, KindOf, Current
  <1> QED BY <1>3, <1>4 DEF ClonesReady

-----------------------------------------------------------------------------
(* Type correctness.                                                       *)

DataTypes == TableTypes /\ QueueTypes /\ IndexTypes /\ RefTypes

LEMMA InitTypes == Init => TypeInv
  <1> SUFFICES ASSUME Init PROVE TypeInv
    OBVIOUS
  <1> USE DEF Init
  <1>1. TableTypes
    BY DEF TableTypes, BlockTable, NoBlocks
  <1>2. QueueTypes
    BY DEF QueueTypes, BlockTable, NoBlocks
  <1>3. IndexTypes /\ RefTypes
    BY DEF IndexTypes, RefTypes
  <1>4. JobsOk(<<>>)
    BY EmptySeq DEF JobsOk
  <1>5. TaskTypes
    BY <1>4, EmptySeq DEF TaskTypes, At
  <1>6. ClonesReady
    BY DEF ClonesReady, CloneReady, HoldsClone, At
  <1> QED BY <1>1, <1>2, <1>3, <1>5, <1>6 DEF TypeInv, TypeOK

LEMMA AcceptKeepsTypes ==
    ASSUME TypeInv, NEW t \in Task, Accept(t)
    PROVE  TypeInv'
  <1>1. DataTypes'
    <2>1. UNCHANGED <<dirVars, queueVars, indexVars, refVars>>
      BY DEF Accept, AcceptUpload, AcceptBatch, AcceptUpdate
    <2> QED BY <2>1 DEF TypeInv, TypeOK, DataTypes, TableTypes, QueueTypes, IndexTypes,
                        RefTypes, dirVars, queueVars, indexVars, refVars
  <1>2. CASE \E s \in LocalServer, chain \in Chains : AcceptUpload(t, s, chain)
    <2> PICK s \in LocalServer, chain \in Chains : AcceptUpload(t, s, chain)
      BY <1>2
    <2> DEFINE jobs == BlockJobs(s, chain) \o Jobs("hit", s, chain)
    <2>1. JobsOk(jobs) /\ jobs # <<>> /\ Head(jobs).kind = "block"
      BY UploadJobs
    <2>2. /\ todo' = [todo EXCEPT ![t] = jobs] /\ pc' = [pc EXCEPT ![t] = "search"]
          /\ accepted' = accepted + 1 /\ clone' = clone
      BY DEF AcceptUpload
    <2>3. "search" \in StepsOf(Head(jobs).kind)
      BY <2>1 DEF StepsOf
    <2> HIDE DEF jobs
    <2>4. TaskTypes' /\ ClonesReady'
      BY <2>1, <2>2, <2>3, AcceptedTypes
    <2> QED BY <1>1, <2>4 DEF TypeInv, TypeOK, DataTypes
  <1>3. ASSUME NEW kind \in {"remove", "missing", "migrated"}, NEW s \in DataServer,
               NEW hashes \in Batches, AcceptBatch(t, kind, s, hashes)
        PROVE  TypeInv'
    <2> DEFINE jobs == Jobs(kind, s, hashes)
    <2>1. JobsOk(jobs) /\ jobs # <<>> /\ Head(jobs).kind = kind
      BY BatchJobs
    <2>2. /\ todo' = [todo EXCEPT ![t] = jobs] /\ pc' = [pc EXCEPT ![t] = Start(kind)]
          /\ accepted' = accepted + 1 /\ clone' = clone
      BY <1>3 DEF AcceptBatch
    <2>3. Start(kind) \in StepsOf(kind) /\ Start(kind) \notin {"igk", "blind"}
      BY DEF StepsOf, Start
    <2> HIDE DEF jobs
    <2>4. TaskTypes' /\ ClonesReady'
      BY <2>1, <2>2, <2>3, AcceptedTypes
    <2> QED BY <1>1, <2>4 DEF TypeInv, TypeOK, DataTypes
  <1>4. CASE \E jobs \in PeerUpdates : AcceptUpdate(t, jobs)
    <2> PICK jobs \in PeerUpdates : AcceptUpdate(t, jobs)
      BY <1>4
    <2> DEFINE step == Start(Head(jobs).kind)
    <2>1. JobsOk(jobs) /\ jobs # <<>> /\ Head(jobs).kind \in PeerKinds
      BY UpdateJobs
    <2>2. /\ todo' = [todo EXCEPT ![t] = jobs] /\ pc' = [pc EXCEPT ![t] = step]
          /\ accepted' = accepted + 1 /\ clone' = clone
      BY <2>1 DEF AcceptUpdate, FirstStep
    <2>3. /\ step \in StepsOf(Head(jobs).kind)
          /\ step = "igk" => Head(jobs).kind \notin {"add", "del"}
          /\ step # "blind"
      BY <2>1 DEF StepsOf, Start, PeerKinds
    <2> HIDE DEF step
    <2>4. TaskTypes' /\ ClonesReady'
      BY <2>1, <2>2, <2>3, AcceptedTypes
    <2> QED BY <1>1, <2>4 DEF TypeInv, TypeOK, DataTypes
  <1> QED BY <1>2, <1>3, <1>4 DEF Accept, DataServer

(* Steps that only say where the task goes on.                             *)
LEMMA GotoKeepsTypes ==
    ASSUME TypeInv, NEW t \in Task, ~At(t, "idle"), NEW step \in StepsOf(KindOf(t)),
           Goto(t, step), step = "igk" => KindOf(t) = "block",
           step = "blind" => At(t, "igk"), DataTypes'
    PROVE  TypeInv'
  <1>1. TaskTypes'
    BY GotoTypes DEF TypeInv, TypeOK
  <1>2. ClonesReady'
    BY GotoClones
  <1> QED BY <1>1, <1>2 DEF TypeInv, TypeOK, DataTypes

LEMMA AdvanceKeepsTypes ==
    ASSUME TypeInv, NEW t \in Task, ~At(t, "idle"), Advance(t), DataTypes'
    PROVE  TypeInv'
  <1>1. TaskTypes'
    BY AdvanceTypes DEF TypeInv, TypeOK
  <1>2. ClonesReady'
    BY AdvanceClones
  <1> QED BY <1>1, <1>2 DEF TypeInv, TypeOK, DataTypes

(* The history variables keep their types.                                 *)
LEMMA HistoryTypes ==
    ASSUME TableTypes, NEW h \in Hash, NEW s \in ServerId,
           Claim(h, s) \/ Retract(h, s) \/ UNCHANGED <<claims, raced>>
    PROVE  claims' \in [Hash -> SUBSET ServerId] /\ raced' \subseteq Hash
  BY DEF TableTypes, Claim, Retract

LEMMA InsertKeepsTypes ==
    ASSUME TypeInv, NEW t \in Task,
           InsertIntersect(t) \/ InsertWedge(t) \/ InsertAbsent(t) \/ InsertBlind(t)
    PROVE  TypeInv'
  <1> USE DEF TypeInv, TypeOK
  <1>1. /\ ~At(t, "idle") /\ HoldsClone(t)
        /\ HashOf(t) \in Hash /\ SrvOf(t) \in ServerId
        /\ KindOf(t) \in {"block", "meta", "add", "del"}
        /\ InHand(t) \in KvBlockMeta
    <2>1. ~At(t, "idle") /\ HoldsClone(t)
      BY DEF InsertIntersect, InsertWedge, InsertAbsent, InsertBlind, At, HoldsClone
    <2> QED BY <2>1, JobTypes, KindAt, InHandTypes DEF HoldsClone, At
  <1>2. UNCHANGED <<queueVars, indexVars, refVars>> =>
            QueueTypes' /\ IndexTypes' /\ RefTypes'
    BY DEF QueueTypes, IndexTypes, RefTypes, queueVars, indexVars, refVars
  <1>3. HistoryOfInsert(t) => claims' \in [Hash -> SUBSET ServerId] /\ raced' \subseteq Hash
    BY <1>1, HistoryTypes DEF HistoryOfInsert
  <1>4. ASSUME AfterInsert(t), DataTypes' PROVE TypeInv'
    <2>1. CASE KindOf(t) = "block"
      <3>1. Goto(t, "publish") /\ "publish" \in StepsOf(KindOf(t))
        BY <1>4, <2>1 DEF AfterInsert, StepsOf
      <3> QED BY <1>1, <1>4, <3>1, GotoKeepsTypes
    <2>2. CASE KindOf(t) # "block"
      BY <1>1, <1>4, <2>2, AdvanceKeepsTypes DEF AfterInsert
    <2> QED BY <2>1, <2>2
  <1>5. CASE InsertIntersect(t)
    <2>1. table' \in BlockTable
      <3>1. Intersection(table[HashOf(t)], InHand(t)) \in KvBlockMeta
        BY <1>1 DEF Intersection, KvBlockMeta
      <3> QED BY <1>1, <1>5, <3>1 DEF InsertIntersect, TableTypes, BlockTable
    <2>2. DataTypes'
      BY <1>2, <1>3, <1>5, <2>1 DEF InsertIntersect, DataTypes, TableTypes
    <2> QED BY <1>4, <1>5, <2>2 DEF InsertIntersect
  <1>6. CASE InsertBlind(t)
    <2>1. table' \in BlockTable
      BY <1>1, <1>6 DEF InsertBlind, TableTypes, BlockTable
    <2>2. DataTypes'
      BY <1>2, <1>3, <1>6, <2>1 DEF InsertBlind, DataTypes, TableTypes
    <2> QED BY <1>4, <1>6, <2>2 DEF InsertBlind
  <1>7. CASE InsertWedge(t) \/ InsertAbsent(t)
    <2>1. PICK step \in {"stuck", "blind"} : Goto(t, step)
      BY <1>7 DEF InsertWedge, InsertAbsent
    <2>2. step \in StepsOf(KindOf(t)) /\ step # "igk" /\ At(t, "igk")
      BY <1>1, <1>7, <2>1 DEF StepsOf, InsertWedge, InsertAbsent
    <2>3. DataTypes'
      BY <1>2, <1>7 DEF InsertWedge, InsertAbsent, DataTypes, TableTypes, dirVars
    <2> QED BY <1>1, <2>1, <2>2, <2>3, GotoKeepsTypes
  <1> QED BY <1>5, <1>6, <1>7

LEMMA SearchKeepsTypes ==
    ASSUME TypeInv, NEW t \in Task, SearchMatch(t) \/ SearchStop(t)
    PROVE  TypeInv'
  <1> USE DEF TypeInv, TypeOK
  <1>1. DataTypes'
    <2>1. UNCHANGED <<dirVars, queueVars, indexVars, refVars>>
      BY DEF SearchMatch, SearchStop
    <2> QED BY <2>1 DEF DataTypes, TableTypes, QueueTypes, IndexTypes, RefTypes,
                        dirVars, queueVars, indexVars, refVars
  <1>2. At(t, "search") /\ ~At(t, "idle")
    BY DEF SearchMatch, SearchStop, At
  <1>3. KindOf(t) = "block" /\ todo[t] # <<>> /\ JobsOk(todo[t])
    BY <1>2, KindAt, JobTypes DEF TaskTypes, At
  <1>4. CASE SearchStop(t)
    <2>1. Goto(t, "link") /\ "link" \in StepsOf(KindOf(t))
      BY <1>3, <1>4 DEF SearchStop, StepsOf
    <2> QED BY <1>1, <1>2, <2>1, GotoKeepsTypes
  <1>5. CASE SearchMatch(t)
    <2>1. CASE Advance(t)
      BY <1>1, <1>2, <2>1, AdvanceKeepsTypes
    <2>2. CASE ~Advance(t)
      <3> DEFINE rest == Tail(todo[t])
      <3>1. /\ Current(t).next # {} /\ todo' = [todo EXCEPT ![t] = rest]
            /\ pc' = pc /\ clone' = clone /\ accepted' = accepted
        BY <1>5, <2>2 DEF SearchMatch
      <3>2. JobsOk(rest) /\ rest # <<>> /\ Head(rest).kind = "block"
        BY <1>3, <3>1, JobsTail DEF KindOf, Current
      <3> HIDE DEF rest
      <3>3. todo' \in [Task -> Seq(Job)]
        BY <3>1, <3>2 DEF TaskTypes, JobsOk
      <3>4. ASSUME NEW u \in Task
            PROVE  /\ JobsOk(todo'[u])
                   /\ pc[u] = "idle" <=> todo'[u] = <<>>
                   /\ todo'[u] # <<>> => pc[u] \in StepsOf(Head(todo'[u]).kind)
                   /\ CloneReady(u)'
        <4>1. CASE u = t
          <5>1. todo'[u] = rest /\ pc[u] = "search" /\ pc'[u] = "search"
            BY <1>2, <3>1, <4>1 DEF TaskTypes, At
          <5>2. CloneReady(u)'
            BY <5>1 DEF CloneReady, HoldsClone, At
          <5>3. "search" \in StepsOf("block")
            BY DEF StepsOf
          <5> QED BY <3>2, <5>1, <5>2, <5>3
        <4>2. CASE u # t
          <5>1. todo'[u] = todo[u]
            BY <3>1, <4>2 DEF TaskTypes
          <5>2. CloneReady(u)'
            BY <3>1, <5>1 DEF ClonesReady, CloneReady, HoldsClone, At, KindOf, Current
          <5> QED BY <5>1, <5>2 DEF TaskTypes, At, KindOf, Current
        <4> QED BY <4>1, <4>2
      <3>5. TaskTypes'
        BY <3>1, <3>3, <3>4 DEF TaskTypes, At, KindOf, Current
      <3> QED BY <1>1, <3>4, <3>5 DEF ClonesReady, DataTypes
    <2> QED BY <2>1, <2>2
  <1> QED BY <1>4, <1>5

LEMMA LinkKeepsTypes ==
    ASSUME TypeInv, NEW t \in Task,
           LinkReplica(t) \/ LinkNext(t) \/ LinkAbsent(t) \/ Publish(t) \/ Hit(t)
    PROVE  TypeInv'
  <1> USE DEF TypeInv, TypeOK
  <1>1. /\ ~At(t, "idle") /\ HashOf(t) \in Hash /\ SrvOf(t) \in ServerId
        /\ Current(t).next \subseteq Hash
    <2>1. ~At(t, "idle")
      BY DEF LinkReplica, LinkNext, LinkAbsent, Publish, Hit, At
    <2> QED BY <2>1, JobTypes
  <1>2. CASE LinkReplica(t)
    <2>1. table' \in BlockTable
      <3>1. table[HashOf(t)] \in KvBlockMeta
        BY <1>1, <1>2 DEF LinkReplica, TableTypes, BlockTable
      <3>2. WithNext(WithServer(table[HashOf(t)], SrvOf(t)), Current(t).next) \in KvBlockMeta
        BY <1>1, <3>1 DEF WithNext, WithServer, KvBlockMeta
      <3> QED BY <1>1, <1>2, <3>2 DEF LinkReplica, TableTypes, BlockTable
    <2>2. TableTypes'
      BY <1>1, <1>2, <2>1, HistoryTypes DEF LinkReplica, TableTypes
    <2>3. QueueTypes'
      BY <1>1, <1>2 DEF LinkReplica, QueueTypes, insert_update_kvop, UpdateKvOp
    <2>4. IndexTypes' /\ RefTypes'
      BY <1>1, <1>2 DEF LinkReplica, IndexTypes, RefTypes, refVars, add_one
    <2> QED BY <1>1, <1>2, <2>2, <2>3, <2>4, AdvanceKeepsTypes DEF LinkReplica, DataTypes
  <1>3. CASE LinkNext(t)
    <2>1. table' \in BlockTable
      <3>1. table[HashOf(t)] \in KvBlockMeta
        BY <1>1, <1>3 DEF LinkNext, TableTypes, BlockTable
      <3>2. WithNext(table[HashOf(t)], Current(t).next) \in KvBlockMeta
        BY <1>1, <3>1 DEF WithNext, KvBlockMeta
      <3> QED BY <1>1, <1>3, <3>2 DEF LinkNext, TableTypes, BlockTable
    <2>2. TableTypes'
      BY <1>1, <1>3, <2>1, HistoryTypes DEF LinkNext, TableTypes
    <2>3. QueueTypes' /\ IndexTypes' /\ RefTypes'
      BY <1>3 DEF LinkNext, QueueTypes, IndexTypes, RefTypes, queueVars, indexVars, refVars
    <2> QED BY <1>1, <1>3, <2>2, <2>3, AdvanceKeepsTypes DEF LinkNext, DataTypes
  <1>4. CASE LinkAbsent(t)
    <2>1. DataTypes'
      BY <1>1, <1>4 DEF LinkAbsent, DataTypes, TableTypes, QueueTypes, IndexTypes, RefTypes,
                        dirVars, queueVars, refVars, add_one
    <2>2. KindOf(t) = "block" /\ "igk" \in StepsOf(KindOf(t))
      BY <1>4, KindAt DEF LinkAbsent, At, StepsOf
    <2> QED BY <1>1, <1>4, <2>1, <2>2, GotoKeepsTypes DEF LinkAbsent
  <1>5. CASE Publish(t)
    <2>1. InHand(t) \in KvBlockMeta
      BY <1>1, <1>5, KindAt DEF Publish, At, InHand, NewBlock, KvBlockMeta
    <2>2. DataTypes'
      BY <1>1, <1>5, <2>1 DEF Publish, DataTypes, TableTypes, QueueTypes, IndexTypes, RefTypes,
                        dirVars, indexVars, refVars, insert_update_kvcache, BlockTable
    <2> QED BY <1>1, <1>5, <2>2, AdvanceKeepsTypes DEF Publish
  <1>6. CASE Hit(t)
    <2>1. DataTypes'
      BY <1>1, <1>6 DEF Hit, DataTypes, TableTypes, QueueTypes, IndexTypes, RefTypes,
                        dirVars, queueVars, indexVars
    <2> QED BY <1>1, <1>6, <2>1, AdvanceKeepsTypes DEF Hit
  <1> QED BY <1>2, <1>3, <1>4, <1>5, <1>6

(* Counting down never goes below zero.                                    *)
LEMMA CountTypes ==
    ASSUME IndexTypes, NEW s \in ServerId, NEW h \in Hash
    PROVE  /\ CountAfterRemoval(s, h) \in [ServerId -> Nat]
           /\ CountAfterInsert(s, h) \in [ServerId -> Nat]
  <1>1. \A n \in Nat : checked_sub(n) \in Nat
    BY DEF checked_sub
  <1> QED BY <1>1 DEF IndexTypes, CountAfterRemoval, CountAfterInsert, add_one

LEMMA RemoveKeepsTypes ==
    ASSUME TypeInv, NEW t \in Task,
           \/ Unindex(t) \/ Retain(t) \/ RetainAbsent(t) \/ Drop(t)
           \/ DropRef(t) \/ PutOp(t) \/ Unref(t)
    PROVE  TypeInv'
  <1> USE DEF TypeInv, TypeOK
  <1>1. ~At(t, "idle") /\ HashOf(t) \in Hash /\ SrvOf(t) \in ServerId
    <2>1. ~At(t, "idle")
      BY DEF Unindex, Retain, RetainAbsent, Drop, DropRef, PutOp, Unref, At
    <2> QED BY <2>1, JobTypes
  <1>2. CASE Unindex(t)
    <2>1. DataTypes'
      BY <1>1, <1>2, CountTypes DEF Unindex, DataTypes, TableTypes, QueueTypes, IndexTypes,
                        RefTypes, dirVars, queueVars, refVars
    <2>2. Goto(t, "retain") /\ "retain" \in StepsOf(KindOf(t))
      BY <1>2, KindAt DEF Unindex, At, StepsOf
    <2> QED BY <1>1, <2>1, <2>2, GotoKeepsTypes
  <1>3. CASE Retain(t)
    <2> DEFINE left == Retained(table[HashOf(t)], SrvOf(t))
    <2>1. left \in KvBlockMeta
      <3>1. table[HashOf(t)] \in KvBlockMeta
        BY <1>1, <1>3 DEF Retain, TableTypes, BlockTable
      <3> QED BY <3>1 DEF Retained, WithoutServer, KvBlockMeta
    <2>2. table' \in BlockTable
      BY <1>1, <1>3, <2>1 DEF Retain, TableTypes, BlockTable
    <2>3. DataTypes'
      BY <1>1, <1>3, <2>2, HistoryTypes DEF Retain, DataTypes, TableTypes, QueueTypes,
                        IndexTypes, RefTypes, queueVars, indexVars, refVars
    <2>4. Goto(t, AfterRetain(left)) /\ AfterRetain(left) \in StepsOf(KindOf(t))
          /\ AfterRetain(left) \notin {"igk", "blind"}
      BY <1>3, KindAt DEF Retain, At, StepsOf, AfterRetain
    <2> HIDE DEF left
    <2> QED BY <1>1, <2>3, <2>4, GotoKeepsTypes
  <1>4. CASE RetainAbsent(t)
    <2>1. DataTypes'
      BY <1>1, <1>4, HistoryTypes DEF RetainAbsent, DataTypes, TableTypes, QueueTypes,
                        IndexTypes, RefTypes, queueVars, indexVars, refVars
    <2>2. Goto(t, "op") /\ "op" \in StepsOf(KindOf(t))
      BY <1>4, KindAt DEF RetainAbsent, At, StepsOf
    <2> QED BY <1>1, <2>1, <2>2, GotoKeepsTypes
  <1>5. CASE Drop(t)
    <2>1. table' \in BlockTable
      BY <1>1, <1>5 DEF Drop, TableTypes, BlockTable
    <2>2. Retract(HashOf(t), SrvOf(t)) \/ UNCHANGED <<claims, raced>>
      BY <1>5 DEF Drop
    <2>3. DataTypes'
      BY <1>1, <1>5, <2>1, <2>2, HistoryTypes DEF Drop, DataTypes, TableTypes, QueueTypes,
                        IndexTypes, RefTypes, queueVars, indexVars, refVars
    <2>4. CASE KindOf(t) = "remove" /\ Goto(t, "dropref")
      BY <1>1, <2>3, <2>4, GotoKeepsTypes DEF StepsOf
    <2>5. CASE KindOf(t) = "missing" /\ Goto(t, "op")
      BY <1>1, <2>3, <2>5, GotoKeepsTypes DEF StepsOf
    <2>6. CASE Advance(t)
      BY <1>1, <2>3, <2>6, AdvanceKeepsTypes
    <2> QED BY <1>5, <2>4, <2>5, <2>6 DEF Drop
  <1>6. CASE DropRef(t)
    <2>1. DataTypes'
      BY <1>1, <1>6 DEF DropRef, DataTypes, TableTypes, QueueTypes, IndexTypes, RefTypes,
                        dirVars, queueVars, indexVars
    <2>2. Goto(t, "op") /\ "op" \in StepsOf(KindOf(t))
      BY <1>6, KindAt DEF DropRef, At, StepsOf
    <2> QED BY <1>1, <2>1, <2>2, GotoKeepsTypes
  <1>7. CASE PutOp(t)
    <2>1. Self \in ServerId
      BY DirectoryAssumption DEF ServerId
    <2>2. updOp' \in [Hash -> UpdateKvOp \union {NoOp}]
      <3>1. PICK operation \in {1, 2}, srv \in ServerId :
                 insert_update_kvop(HashOf(t), operation, srv)
        BY <1>1, <1>7, <2>1 DEF PutOp
      <3> QED BY <1>1, <3>1 DEF insert_update_kvop, UpdateKvOp, QueueTypes
    <2>3. DataTypes'
      BY <1>7, <2>2 DEF PutOp, DataTypes, TableTypes, QueueTypes, IndexTypes, RefTypes,
                        dirVars, indexVars, refVars
    <2>4. CASE KindOf(t) = "remove" /\ Goto(t, "unref")
      BY <1>1, <2>3, <2>4, GotoKeepsTypes DEF StepsOf
    <2>5. CASE Advance(t)
      BY <1>1, <2>3, <2>5, AdvanceKeepsTypes
    <2> QED BY <1>7, <2>4, <2>5 DEF PutOp
  <1>8. CASE Unref(t)
    <2>1. DataTypes'
      BY <1>1, <1>8 DEF Unref, DataTypes, TableTypes, QueueTypes, IndexTypes, RefTypes,
                        dirVars, queueVars, indexVars
    <2> QED BY <1>1, <1>8, <2>1, AdvanceKeepsTypes DEF Unref
  <1> QED BY <1>2, <1>3, <1>4, <1>5, <1>6, <1>7, <1>8

LEMMA MigrationKeepsTypes ==
    ASSUME TypeInv, NEW t \in Task,
           Push(t) \/ Index(t) \/ Bump(t) \/ Ref(t) \/ BumpGlobal(t) \/ Reindex(t)
    PROVE  TypeInv'
  <1> USE DEF TypeInv, TypeOK
  <1>1. ~At(t, "idle") /\ HashOf(t) \in Hash /\ SrvOf(t) \in ServerId
    <2>1. ~At(t, "idle")
      BY DEF Push, Index, Bump, Ref, BumpGlobal, Reindex, At
    <2> QED BY <2>1, JobTypes
  <1>2. CASE Push(t)
    <2>1. table' \in BlockTable
      <3>1. CASE table[HashOf(t)] = NoMeta
        BY <1>2, <3>1 DEF Push, TableTypes
      <3>2. CASE table[HashOf(t)] # NoMeta
        <4>1. table[HashOf(t)] \in KvBlockMeta
          BY <1>1, <3>2 DEF TableTypes, BlockTable
        <4>2. WithServer(table[HashOf(t)], SrvOf(t)) \in KvBlockMeta
          BY <1>1, <4>1 DEF WithServer, KvBlockMeta
        <4> QED BY <1>1, <1>2, <3>2, <4>2 DEF Push, TableTypes, BlockTable
      <3> QED BY <3>1, <3>2
    <2>2. DataTypes'
      BY <1>1, <1>2, <2>1, HistoryTypes DEF Push, DataTypes, TableTypes, QueueTypes,
                        IndexTypes, RefTypes, queueVars, indexVars, refVars
    <2>3. Goto(t, "index") /\ "index" \in StepsOf(KindOf(t))
      BY <1>2, KindAt DEF Push, At, StepsOf
    <2> QED BY <1>1, <2>2, <2>3, GotoKeepsTypes
  <1>3. CASE Index(t)
    <2>1. DataTypes'
      BY <1>1, <1>3, CountTypes DEF Index, DataTypes, TableTypes, QueueTypes, IndexTypes,
                        RefTypes, dirVars, queueVars, refVars
    <2>2. Goto(t, "bump") /\ "bump" \in StepsOf(KindOf(t))
      BY <1>3, KindAt DEF Index, At, StepsOf
    <2> QED BY <1>1, <2>1, <2>2, GotoKeepsTypes
  <1>4. CASE Bump(t)
    <2>1. DataTypes'
      BY <1>1, <1>4 DEF Bump, DataTypes, TableTypes, QueueTypes, IndexTypes, RefTypes,
                        dirVars, queueVars, indexVars
    <2>2. CASE KindOf(t) = "migrated" /\ Goto(t, "op")
      BY <1>1, <2>1, <2>2, GotoKeepsTypes DEF StepsOf
    <2>3. CASE Advance(t)
      BY <1>1, <2>1, <2>3, AdvanceKeepsTypes
    <2> QED BY <1>4, <2>2, <2>3 DEF Bump
  <1>5. CASE Ref(t)
    <2>1. DataTypes'
      BY <1>5 DEF Ref, DataTypes, TableTypes, QueueTypes, IndexTypes, RefTypes,
                        dirVars, queueVars, indexVars, refVars
    <2>2. PICK step \in {"bump", "bumpglobal"} : Goto(t, step)
      BY <1>5 DEF Ref
    <2>3. step \in StepsOf(KindOf(t)) /\ step \notin {"igk", "blind"}
      BY <1>5, <2>2, KindAt DEF Ref, At, StepsOf
    <2> QED BY <1>1, <2>1, <2>2, <2>3, GotoKeepsTypes
  <1>6. CASE BumpGlobal(t)
    <2>1. DataTypes'
      BY <1>1, <1>6 DEF BumpGlobal, DataTypes, TableTypes, QueueTypes, IndexTypes, RefTypes,
                        dirVars, queueVars, indexVars
    <2> QED BY <1>1, <1>6, <2>1, AdvanceKeepsTypes DEF BumpGlobal
  <1>7. CASE Reindex(t)
    <2>1. DataTypes'
      BY <1>1, <1>7, CountTypes DEF Reindex, DataTypes, TableTypes, QueueTypes, IndexTypes,
                        RefTypes, dirVars, queueVars, refVars
    <2>2. Goto(t, "clone") /\ "clone" \in StepsOf(KindOf(t))
      BY <1>7, KindAt DEF Reindex, At, StepsOf
    <2> QED BY <1>1, <2>1, <2>2, GotoKeepsTypes
  <1> QED BY <1>2, <1>3, <1>4, <1>5, <1>6, <1>7

LEMMA CloneKeepsTypes ==
    ASSUME TypeInv, NEW t \in Task, CloneAbsent(t) \/ CloneToAdd(t) \/ CloneToDelete(t)
    PROVE  TypeInv'
  <1> USE DEF TypeInv, TypeOK
  <1>1. /\ ~At(t, "idle") /\ HashOf(t) \in Hash /\ SrvOf(t) \in ServerId
        /\ todo[t] # <<>> /\ KindOf(t) \in {"add", "del"}
    <2>1. ~At(t, "idle") /\ At(t, "clone")
      BY DEF CloneAbsent, CloneToAdd, CloneToDelete, At
    <2> QED BY <2>1, JobTypes, KindAt DEF At
  <1>2. CASE CloneAbsent(t)
    <2>1. DataTypes'
      BY <1>1, <1>2, HistoryTypes DEF CloneAbsent, DataTypes, TableTypes, QueueTypes,
                        IndexTypes, RefTypes, queueVars, indexVars, refVars
    <2> QED BY <1>1, <1>2, <2>1, AdvanceKeepsTypes DEF CloneAbsent
  <1>3. ASSUME NEW copy \in KvBlockMeta, NEW step \in {"igk", "drop"},
               step = "igk" => copy.servers # {}, step = "drop" => KindOf(t) = "del",
               clone' = [clone EXCEPT ![t] = copy], pc' = [pc EXCEPT ![t] = step],
               todo' = todo, accepted' = accepted
        PROVE  TaskTypes' /\ ClonesReady'
    <2>1. step \in StepsOf(KindOf(t)) /\ step \in Pcs /\ step # "idle"
      <3>1. step \in StepsOf(KindOf(t)) /\ KindOf(t) \in AllKinds
        BY <1>1, <1>3 DEF StepsOf, AllKinds, PeerKinds
      <3> QED BY <3>1, StepsOfKinds
    <2>2. /\ clone' \in [Task -> KvBlockMeta \union {NoMeta}]
          /\ pc' \in [Task -> Pcs \union {"idle"}]
      BY <1>3, <2>1 DEF TaskTypes
    <2>3. ASSUME NEW u \in Task
          PROVE  /\ JobsOk(todo[u])
                 /\ pc'[u] = "idle" <=> todo[u] = <<>>
                 /\ todo[u] # <<>> => pc'[u] \in StepsOf(Head(todo[u]).kind)
                 /\ CloneReady(u)'
      <3>1. CASE u = t
        <4>1. pc'[u] = step /\ clone'[u] = copy
          BY <1>3, <3>1 DEF TaskTypes
        <4>2. CloneReady(u)'
          BY <1>3, <4>1 DEF CloneReady, HoldsClone, At
        <4> QED BY <1>1, <2>1, <3>1, <4>1, <4>2 DEF TaskTypes, KindOf, Current
      <3>2. CASE u # t
        <4>1. pc'[u] = pc[u] /\ clone'[u] = clone[u]
          BY <1>3, <3>2 DEF TaskTypes
        <4>2. CloneReady(u)'
          BY <1>3, <4>1 DEF ClonesReady, CloneReady, HoldsClone, At, KindOf, Current
        <4> QED BY <4>1, <4>2 DEF TaskTypes, At, KindOf, Current
      <3> QED BY <3>1, <3>2
    <2>4. TaskTypes'
      BY <1>3, <2>2, <2>3 DEF TaskTypes, At, KindOf, Current
    <2> QED BY <2>3, <2>4 DEF ClonesReady
  <1>4. CASE CloneToAdd(t)
    <2> DEFINE copy == WithServer(table[HashOf(t)], SrvOf(t))
    <2>1. copy \in KvBlockMeta /\ copy.servers # {}
      <3>1. table[HashOf(t)] \in KvBlockMeta
        BY <1>1, <1>4 DEF CloneToAdd, TableTypes, BlockTable
      <3> QED BY <1>1, <3>1 DEF WithServer, KvBlockMeta
    <2>2. /\ clone' = [clone EXCEPT ![t] = copy] /\ pc' = [pc EXCEPT ![t] = "igk"]
          /\ todo' = todo /\ accepted' = accepted
      BY <1>4 DEF CloneToAdd
    <2> HIDE DEF copy
    <2>3. TaskTypes' /\ ClonesReady'
      BY <1>3, <2>1, <2>2
    <2>4. DataTypes'
      BY <1>1, <1>4, HistoryTypes DEF CloneToAdd, DataTypes, TableTypes, QueueTypes,
                        IndexTypes, RefTypes, queueVars, indexVars, refVars
    <2> QED BY <2>3, <2>4 DEF DataTypes
  <1>5. CASE CloneToDelete(t)
    <2> DEFINE left == WithoutServer(table[HashOf(t)], SrvOf(t))
               step == IF left.servers = {} THEN "drop" ELSE "igk"
    <2>1. left \in KvBlockMeta
      <3>1. table[HashOf(t)] \in KvBlockMeta
        BY <1>1, <1>5 DEF CloneToDelete, TableTypes, BlockTable
      <3> QED BY <3>1 DEF WithoutServer, KvBlockMeta
    <2>2. /\ clone' = [clone EXCEPT ![t] = left] /\ pc' = [pc EXCEPT ![t] = step]
          /\ todo' = todo /\ accepted' = accepted /\ KindOf(t) = "del"
      BY <1>5 DEF CloneToDelete
    <2>3. step \in {"igk", "drop"} /\ (step = "igk" => left.servers # {})
      OBVIOUS
    <2> HIDE DEF left, step
    <2>4. TaskTypes' /\ ClonesReady'
      BY <1>3, <2>1, <2>2, <2>3
    <2>5. DataTypes'
      BY <1>5 DEF CloneToDelete, DataTypes, TableTypes, QueueTypes, IndexTypes, RefTypes,
                        dirVars, queueVars, indexVars, refVars
    <2> QED BY <2>4, <2>5 DEF DataTypes
  <1> QED BY <1>2, <1>4, <1>5

LEMMA NextKeepsTypes == TypeInv /\ [Next]_vars => TypeInv'
  <1> SUFFICES ASSUME TypeInv, [Next]_vars PROVE TypeInv'
    OBVIOUS
  <1>1. CASE UNCHANGED vars
    BY <1>1 DEF TypeInv, TypeOK, TableTypes, QueueTypes, IndexTypes, RefTypes, TaskTypes,
                ClonesReady, CloneReady, HoldsClone, At, KindOf, Current,
                vars, dirVars, queueVars, indexVars, refVars, taskVars
  <1>2. ASSUME NEW t \in Task, Accept(t) PROVE TypeInv'
    BY <1>2, AcceptKeepsTypes
  <1>3. ASSUME NEW t \in Task, Step(t) PROVE TypeInv'
    BY <1>3, InsertKeepsTypes, SearchKeepsTypes, LinkKeepsTypes, RemoveKeepsTypes,
       MigrationKeepsTypes, CloneKeepsTypes DEF Step
  <1> QED BY <1>1, <1>2, <1>3 DEF Next

(* The tables keep their types, no per-server block count goes below zero  *)
(* and every handler is at a step of its current iteration, whatever the   *)
(* interleaving of handlers.                                               *)
THEOREM TypeCorrect == Spec => []TypeOK
  <1>1. Init => TypeInv
    BY InitTypes
  <1>2. TypeInv /\ [Next]_vars => TypeInv'
    BY NextKeepsTypes
  <1>3. TypeInv => TypeOK
    BY DEF TypeInv
  <1> QED BY <1>1, <1>2, <1>3, PTL DEF Spec

LEMMA TypeInvariance == Spec => []TypeInv
  BY InitTypes, NextKeepsTypes, PTL DEF Spec

-----------------------------------------------------------------------------
(* The counts cover the index.                                             *)

Covered ==
    /\ IsFiniteSet(index) /\ IsFiniteSet(CountedBlocks)
    /\ CountsCoverIndex

(* What a count adds up to is the pairs of a server and a number up to it. *)
LEMMA CountedPairs ==
    ASSUME NEW c \in [ServerId -> Nat]
    PROVE  LET pairs == UNION { {s} \X (1 .. c[s]) : s \in ServerId }
           IN  /\ \A p \in pairs : p = <<p[1], p[2]>> /\ p[1] \in ServerId /\ p[2] \in 1 .. c[p[1]]
               /\ \A s \in ServerId : \A k \in 1 .. c[s] : <<s, k>> \in pairs
  OBVIOUS

(* One more counted is one pair more, one less counted one pair less.      *)
LEMMA CountUp ==
    ASSUME IndexTypes, Covered, NEW s \in ServerId, count' = add_one(s)
    PROVE  /\ IsFiniteSet(CountedBlocks')
           /\ Cardinality(CountedBlocks') = Cardinality(CountedBlocks) + 1
  <1> DEFINE top == <<s, count[s] + 1>>
  <1>1. count \in [ServerId -> Nat] /\ count' \in [ServerId -> Nat] /\ count'[s] = count[s] + 1
        /\ \A u \in ServerId \ {s} : count'[u] = count[u]
    BY DEF IndexTypes, add_one
  <1>2. top \notin CountedBlocks
    BY <1>1, CountedPairs DEF CountedBlocks
  <1>3. CountedBlocks' = CountedBlocks \union {top}
    <2>1. ASSUME NEW p \in CountedBlocks' PROVE p \in CountedBlocks \union {top}
      <3>1. p = <<p[1], p[2]>> /\ p[1] \in ServerId /\ p[2] \in 1 .. count'[p[1]]
        BY <1>1, <2>1, CountedPairs DEF CountedBlocks
      <3>2. (p[1] = s /\ p[2] = count[s] + 1) \/ p[2] \in 1 .. count[p[1]]
        BY <1>1, <3>1
      <3> QED BY <1>1, <3>1, <3>2, CountedPairs DEF CountedBlocks
    <2>2. ASSUME NEW p \in CountedBlocks PROVE p \in CountedBlocks'
      <3>1. p = <<p[1], p[2]>> /\ p[1] \in ServerId /\ p[2] \in 1 .. count[p[1]]
        BY <1>1, <2>2, CountedPairs DEF CountedBlocks
      <3>2. p[2] \in 1 .. count'[p[1]]
        BY <1>1, <3>1
      <3> QED BY <1>1, <3>1, <3>2, CountedPairs DEF CountedBlocks
    <2>3. top \in CountedBlocks'
      <3>1. count[s] + 1 \in 1 .. count'[s]
        BY <1>1
      <3> QED BY <1>1, <3>1, CountedPairs DEF CountedBlocks
    <2> QED BY <2>1, <2>2, <2>3
  <1> HIDE DEF top
  <1> QED BY <1>2, <1>3, FS_AddElement DEF Covered

LEMMA CountDown ==
    ASSUME IndexTypes, Covered, NEW s \in ServerId,
           count' = [count EXCEPT ![s] = checked_sub(@)]
    PROVE  /\ IsFiniteSet(CountedBlocks')
           /\ Cardinality(CountedBlocks') >= Cardinality(CountedBlocks) - 1
  <1>1. count \in [ServerId -> Nat] /\ count' \in [ServerId -> Nat]
        /\ count'[s] = checked_sub(count[s])
        /\ \A u \in ServerId \ {s} : count'[u] = count[u]
    BY DEF IndexTypes, checked_sub
  <1>2. CASE count[s] = 0
    <2>1. count' = count
      BY <1>1, <1>2 DEF checked_sub
    <2>2. CountedBlocks' = CountedBlocks
      BY <2>1 DEF CountedBlocks
    <2>3. Cardinality(CountedBlocks) \in Nat
      BY FS_CardinalityType DEF Covered
    <2> QED BY <2>2, <2>3 DEF Covered
  <1>3. CASE count[s] # 0
    <2> DEFINE top == <<s, count[s]>>
    <2>1. count'[s] = count[s] - 1
      BY <1>1, <1>3 DEF checked_sub
    <2>2. CountedBlocks' = CountedBlocks \ {top}
      <3>1. ASSUME NEW p \in CountedBlocks' PROVE p \in CountedBlocks /\ p # top
        <4>1. p = <<p[1], p[2]>> /\ p[1] \in ServerId /\ p[2] \in 1 .. count'[p[1]]
          BY <1>1, <3>1, CountedPairs DEF CountedBlocks
        <4>2. p[2] \in 1 .. count[p[1]] /\ ~(p[1] = s /\ p[2] = count[s])
          BY <1>1, <2>1, <4>1
        <4> QED BY <1>1, <4>1, <4>2, CountedPairs DEF CountedBlocks
      <3>2. ASSUME NEW p \in CountedBlocks, p # top PROVE p \in CountedBlocks'
        <4>1. p = <<p[1], p[2]>> /\ p[1] \in ServerId /\ p[2] \in 1 .. count[p[1]]
          BY <1>1, <3>2, CountedPairs DEF CountedBlocks
        <4>2. p[2] \in 1 .. count'[p[1]]
          BY <1>1, <2>1, <3>2, <4>1
        <4> QED BY <1>1, <4>1, <4>2, CountedPairs DEF CountedBlocks
      <3> QED BY <3>1, <3>2
    <2>3. IsFiniteSet(CountedBlocks) /\ Cardinality(CountedBlocks) \in Nat
      BY FS_CardinalityType DEF Covered
    <2> HIDE DEF top
    <2>4. /\ IsFiniteSet(CountedBlocks \ {top})
          /\ \/ Cardinality(CountedBlocks \ {top}) = Cardinality(CountedBlocks) - 1
             \/ Cardinality(CountedBlocks \ {top}) = Cardinality(CountedBlocks)
      BY <2>3, FS_RemoveElement
    <2> QED BY <2>2, <2>3, <2>4
  <1> QED BY <1>2, <1>3

(* What a step may do to the index and the counts.                         *)
LEMMA IndexSteps ==
    ASSUME TypeInv, [Next]_vars
    PROVE  \/ UNCHANGED <<index, count>>
           \/ \E s \in ServerId : count' = add_one(s) /\ index' = index
           \/ \E s \in ServerId, h \in Hash :
                 index' = index \ {h} /\ count' = CountAfterRemoval(s, h)
           \/ \E s \in ServerId, h \in Hash :
                 index' = index \union {h} /\ count' = CountAfterInsert(s, h)
  <1>1. CASE UNCHANGED vars
    BY <1>1 DEF vars, indexVars
  <1>2. ASSUME NEW t \in Task, Accept(t) PROVE UNCHANGED <<index, count>>
    BY <1>2 DEF Accept, AcceptUpload, AcceptBatch, AcceptUpdate, indexVars
  <1>3. ASSUME NEW t \in Task, Step(t),
               ~(LinkReplica(t) \/ LinkAbsent(t) \/ Unindex(t) \/ Index(t) \/ Reindex(t))
        PROVE  UNCHANGED <<index, count>>
    BY <1>3 DEF Step, InsertIntersect, InsertWedge, InsertAbsent, InsertBlind, SearchMatch,
                SearchStop, LinkNext, Publish, Hit, Retain, RetainAbsent, Drop, DropRef, PutOp,
                Unref, Push, Bump, Ref, BumpGlobal, CloneAbsent, CloneToAdd, CloneToDelete,
                indexVars
  <1>4. ASSUME NEW t \in Task,
               LinkReplica(t) \/ LinkAbsent(t) \/ Unindex(t) \/ Index(t) \/ Reindex(t)
        PROVE  HashOf(t) \in Hash /\ SrvOf(t) \in ServerId
    <2>1. ~At(t, "idle")
      BY <1>4 DEF LinkReplica, LinkAbsent, Unindex, Index, Reindex, At
    <2> QED BY <2>1, JobTypes DEF TypeInv, TypeOK
  <1>5. ASSUME NEW t \in Task, LinkReplica(t) \/ LinkAbsent(t)
        PROVE  count' = add_one(SrvOf(t)) /\ index' = index
    BY <1>5 DEF LinkReplica, LinkAbsent
  <1>6. ASSUME NEW t \in Task, Unindex(t) \/ Index(t) \/ Reindex(t)
        PROVE  \/ /\ index' = index \ {HashOf(t)}
                  /\ count' = CountAfterRemoval(SrvOf(t), HashOf(t))
               \/ /\ index' = index \union {HashOf(t)}
                  /\ count' = CountAfterInsert(SrvOf(t), HashOf(t))
    BY <1>6 DEF Unindex, Index, Reindex
  <1>7. ASSUME NEW t \in Task, Step(t)
        PROVE  \/ UNCHANGED <<index, count>>
               \/ \E s \in ServerId : count' = add_one(s) /\ index' = index
               \/ \E s \in ServerId, h \in Hash :
                     index' = index \ {h} /\ count' = CountAfterRemoval(s, h)
               \/ \E s \in ServerId, h \in Hash :
                     index' = index \union {h} /\ count' = CountAfterInsert(s, h)
    BY <1>3, <1>4, <1>5, <1>6, <1>7
  <1> QED BY <1>1, <1>2, <1>7 DEF Next

LEMMA CoveredStep ==
    ASSUME TypeInv, Covered, [Next]_vars
    PROVE  Covered'
  <1> DEFINE indexed == Cardinality(index)
             counted == Cardinality(CountedBlocks)
  <1>1. IndexTypes /\ indexed \in Nat /\ counted \in Nat /\ indexed <= counted
    BY FS_CardinalityType DEF TypeInv, TypeOK, Covered, CountsCoverIndex
  <1>2. CASE UNCHANGED <<index, count>>
    BY <1>2 DEF Covered, CountsCoverIndex, CountedBlocks
  <1>3. ASSUME NEW s \in ServerId, count' = add_one(s), index' = index PROVE Covered'
    BY <1>1, <1>3, CountUp DEF Covered, CountsCoverIndex
  <1>4. ASSUME NEW s \in ServerId, NEW h \in Hash,
               index' = index \ {h}, count' = CountAfterRemoval(s, h)
        PROVE  Covered'
    <2>1. CASE h \notin index
      <3>1. index' = index /\ count' = count
        BY <1>4, <2>1 DEF CountAfterRemoval
      <3> QED BY <1>2, <3>1
    <2>2. CASE h \in index
      <3>1. IsFiniteSet(index') /\ Cardinality(index') = indexed - 1
        BY <1>4, <2>2, FS_RemoveElement DEF Covered
      <3>2. IsFiniteSet(CountedBlocks') /\ Cardinality(CountedBlocks') >= counted - 1
        BY <1>1, <1>4, <2>2, CountDown DEF CountAfterRemoval
      <3>3. Cardinality(CountedBlocks') \in Nat
        BY <3>2, FS_CardinalityType
      <3> HIDE DEF indexed, counted
      <3> QED BY <1>1, <3>1, <3>2, <3>3 DEF Covered, CountsCoverIndex
    <2> QED BY <2>1, <2>2
  <1>5. ASSUME NEW s \in ServerId, NEW h \in Hash,
               index' = index \union {h}, count' = CountAfterInsert(s, h)
        PROVE  Covered'
    <2>1. CASE h \in index
      <3>1. index' = index /\ count' = count
        BY <1>5, <2>1 DEF CountAfterInsert
      <3> QED BY <1>2, <3>1
    <2>2. CASE h \notin index
      <3>1. IsFiniteSet(index') /\ Cardinality(index') = indexed + 1
        BY <1>5, <2>2, FS_AddElement DEF Covered
      <3>2. IsFiniteSet(CountedBlocks') /\ Cardinality(CountedBlocks') = counted + 1
        BY <1>1, <1>5, <2>2, CountUp DEF CountAfterInsert
      <3> HIDE DEF indexed, counted
      <3> QED BY <1>1, <3>1, <3>2 DEF Covered, CountsCoverIndex
    <2> QED BY <2>1, <2>2
  <1> QED BY <1>2, <1>3, <1>4, <1>5, IndexSteps

(* Whatever uploads, removals, migrations and peer updates interleave, the *)
(* per-server block counts add up to no less than the local index holds.   *)
THEOREM IndexIsCounted == Spec => []CountsCoverIndex
  <1>1. Init => Covered
    <2> SUFFICES ASSUME Init PROVE Covered
      OBVIOUS
    <2>1. index = {} /\ count \in [ServerId -> Nat] /\ \A s \in ServerId : count[s] = 0
      BY DEF Init
    <2>2. CountedBlocks = {}
      <3>1. \A s \in ServerId : 1 .. count[s] = {}
        BY <2>1
      <3> QED BY <3>1 DEF CountedBlocks
    <2> QED BY <2>1, <2>2, FS_EmptySet DEF Covered, CountsCoverIndex
  <1>2. TypeInv /\ Covered /\ [Next]_vars => Covered'
    BY CoveredStep
  <1>3. Covered => CountsCoverIndex
    BY DEF Covered
  <1> QED BY <1>1, <1>2, <1>3, TypeInvariance, PTL DEF Spec

-----------------------------------------------------------------------------
(* A step concerns the task that takes it, and the block it works on.      *)

Undisturbed(u) == pc'[u] = pc[u] /\ todo'[u] = todo[u] /\ clone'[u] = clone[u]

LEMMA GotoOthers ==
    ASSUME TypeInv, NEW t \in Task, NEW u \in Task, u # t,
           Advance(t) \/ \E step \in Pcs \union {"idle"} : Goto(t, step)
    PROVE  Undisturbed(u)
  BY DEF Advance, Goto, Undisturbed, TypeInv, TypeOK, TaskTypes

LEMMA OthersUndisturbed ==
    ASSUME TypeInv, NEW t \in Task, Accept(t) \/ Step(t), NEW u \in Task, u # t
    PROVE  Undisturbed(u)
  <1>1. CASE Accept(t)
    BY <1>1 DEF Accept, AcceptUpload, AcceptBatch, AcceptUpdate, Undisturbed,
                TypeInv, TypeOK, TaskTypes
  <1>2. CASE Advance(t) \/ \E step : Goto(t, step)
    BY <1>2 DEF Advance, Goto, Undisturbed, TypeInv, TypeOK, TaskTypes
  <1>3. CASE SearchMatch(t)
    BY <1>2, <1>3 DEF SearchMatch, Undisturbed, TypeInv, TypeOK, TaskTypes
  <1>4. CASE CloneToAdd(t) \/ CloneToDelete(t)
    BY <1>4 DEF CloneToAdd, CloneToDelete, Undisturbed, TypeInv, TypeOK, TaskTypes
  <1>5. CASE InsertIntersect(t) \/ InsertWedge(t) \/ InsertAbsent(t) \/ InsertBlind(t)
    BY <1>2, <1>5 DEF InsertIntersect, InsertWedge, InsertAbsent, InsertBlind, AfterInsert
  <1>6. CASE \/ SearchStop(t) \/ LinkReplica(t) \/ LinkNext(t) \/ LinkAbsent(t)
             \/ Publish(t) \/ Hit(t) \/ Unindex(t)
    BY <1>2, <1>6 DEF SearchStop, LinkReplica, LinkNext, LinkAbsent, Publish, Hit, Unindex
  <1>7. CASE Retain(t) \/ RetainAbsent(t) \/ Drop(t) \/ DropRef(t) \/ PutOp(t) \/ Unref(t)
    BY <1>2, <1>7 DEF Retain, RetainAbsent, Drop, DropRef, PutOp, Unref
  <1>8. CASE \/ Push(t) \/ Index(t) \/ Bump(t) \/ Ref(t) \/ BumpGlobal(t) \/ Reindex(t)
             \/ CloneAbsent(t)
    BY <1>2, <1>8 DEF Push, Index, Bump, Ref, BumpGlobal, Reindex, CloneAbsent
  <1> QED BY <1>1, <1>3, <1>4, <1>5, <1>6, <1>7, <1>8 DEF Step

(* The steps that write the table.                                         *)
Writes(t) ==
    \/ InsertIntersect(t) \/ InsertBlind(t) \/ LinkReplica(t) \/ LinkNext(t)
    \/ Retain(t) \/ Drop(t) \/ Push(t)

LEMMA TableSteps ==
    ASSUME NEW t \in Task, Accept(t) \/ Step(t), ~Writes(t)
    PROVE  table' = table
  <1>1. CASE Accept(t)
    BY <1>1 DEF Accept, AcceptUpload, AcceptBatch, AcceptUpdate, dirVars
  <1>2. CASE Step(t)
    BY <1>2 DEF Step, Writes, InsertWedge, InsertAbsent, SearchMatch, SearchStop, LinkAbsent,
       Publish, Hit, Unindex, RetainAbsent, DropRef, PutOp, Unref, Index, Bump, Ref,
       BumpGlobal, Reindex, CloneAbsent, CloneToAdd, CloneToDelete, dirVars
  <1> QED BY <1>1, <1>2

LEMMA WriterTypes ==
    ASSUME TypeInv, NEW t \in Task, Writes(t)
    PROVE  /\ ~At(t, "idle") /\ HashOf(t) \in Hash /\ SrvOf(t) \in ServerId
           /\ table \in BlockTable /\ table' \in BlockTable
           /\ \A h \in Hash : h # HashOf(t) => table'[h] = table[h]
  <1>1. ~At(t, "idle")
    BY DEF Writes, InsertIntersect, InsertBlind, LinkReplica, LinkNext, Retain, Drop, Push, At
  <1>2. HashOf(t) \in Hash /\ SrvOf(t) \in ServerId /\ table \in BlockTable
    BY <1>1, JobTypes DEF TypeInv, TypeOK, TableTypes
  <1>3. table' \in BlockTable
    <2>1. TypeInv'
      BY NextKeepsTypes DEF Next, Step, Writes
    <2> QED BY <2>1 DEF TypeInv, TypeOK, TableTypes
  <1>4. \A h \in Hash : h # HashOf(t) => table'[h] = table[h]
    BY <1>2 DEF BlockTable, Writes, InsertIntersect, InsertBlind, LinkReplica, LinkNext,
                Retain, Drop, Push
  <1> QED BY <1>1, <1>2, <1>3, <1>4

-----------------------------------------------------------------------------
(* Entries without replicas.                                               *)

Dead(h) == table[h] # NoMeta /\ table[h].servers = {}

Dropping(h) == \E t \in Task : At(t, "drop") /\ HashOf(t) = h

(* Only a retain leaves a block without replicas.                          *)
LEMMA WhoEmpties ==
    ASSUME TypeInv, NEW t \in Task, Writes(t), ~Retain(t),
           NEW h \in Hash, Dead(h)'
    PROVE  h # HashOf(t) /\ Dead(h)
  <1>1. /\ HashOf(t) \in Hash /\ table \in BlockTable
        /\ \A g \in Hash : g # HashOf(t) => table'[g] = table[g]
    BY WriterTypes
  <1>2. h # HashOf(t)
    <2> SUFFICES ASSUME h = HashOf(t) PROVE FALSE
      OBVIOUS
    <2>1. CASE InsertIntersect(t)
      BY <1>1, <2>1 DEF InsertIntersect, Shared, Dead, BlockTable
    <2>2. CASE InsertBlind(t)
      <3>1. InHand(t).servers # {}
        BY <2>2, InHandTypes DEF InsertBlind, HoldsClone
      <3> QED BY <1>1, <2>2, <3>1 DEF InsertBlind, Dead, BlockTable
    <2>3. CASE LinkReplica(t)
      <3>1. table[h] \in KvBlockMeta
        BY <1>1, <2>3 DEF LinkReplica, BlockTable
      <3>2. table'[h] = WithNext(WithServer(table[h], SrvOf(t)), Current(t).next)
        BY <1>1, <2>3 DEF LinkReplica, BlockTable
      <3> QED BY <3>1, <3>2 DEF WithNext, WithServer, KvBlockMeta, Dead
    <2>4. CASE LinkNext(t)
      <3>1. table[h] \in KvBlockMeta /\ SrvOf(t) \in table[h].servers
        BY <1>1, <2>4 DEF LinkNext, BlockTable
      <3>2. table'[h] = WithNext(table[h], Current(t).next)
        BY <1>1, <2>4 DEF LinkNext, BlockTable
      <3> QED BY <3>1, <3>2 DEF WithNext, KvBlockMeta, Dead
    <2>5. CASE Drop(t)
      BY <1>1, <2>5 DEF Drop, Dead, BlockTable
    <2>6. CASE Push(t)
      <3>1. CASE table[h] = NoMeta
        BY <2>6, <3>1 DEF Push, Dead
      <3>2. CASE table[h] # NoMeta
        <4>1. table[h] \in KvBlockMeta
          BY <1>1, <3>2 DEF BlockTable
        <4>2. table'[h] = WithServer(table[h], SrvOf(t))
          BY <1>1, <2>6, <3>2 DEF Push, BlockTable
        <4> QED BY <4>1, <4>2 DEF WithServer, KvBlockMeta, Dead
      <3> QED BY <3>1, <3>2
    <2> QED BY <2>1, <2>2, <2>3, <2>4, <2>5, <2>6 DEF Writes
  <1> QED BY <1>1, <1>2 DEF Dead

LEMMA EmptyStep ==
    TypeInv /\ EmptyOnlyWhileDropping /\ [Next]_vars => EmptyOnlyWhileDropping'
  <1> SUFFICES ASSUME TypeInv, EmptyOnlyWhileDropping, [Next]_vars,
                      NEW h \in Hash, Dead(h)'
               PROVE  Dropping(h)'
    BY DEF EmptyOnlyWhileDropping, Dead, Dropping
  <1>1. CASE UNCHANGED vars
    BY <1>1 DEF vars, dirVars, taskVars, EmptyOnlyWhileDropping, Dead, Dropping, At, HashOf,
                Current
  <1>2. ASSUME NEW t \in Task, Accept(t) \/ Step(t), Dead(h),
               ~(Drop(t) /\ HashOf(t) = h)
        PROVE  Dropping(h)'
    <2>1. PICK u \in Task : At(u, "drop") /\ HashOf(u) = h
      BY <1>2 DEF EmptyOnlyWhileDropping, Dead
    <2>2. CASE u # t
      <3>1. Undisturbed(u)
        BY <1>2, <2>2, OthersUndisturbed
      <3> QED BY <2>1, <3>1 DEF Undisturbed, Dropping, At, HashOf, Current
    <2>3. CASE u = t
      <3>1. Step(t) /\ At(t, "drop")
        BY <1>2, <2>1, <2>3 DEF Accept, AcceptUpload, AcceptBatch, AcceptUpdate, At
      <3>2. Drop(t)
        BY <3>1 DEF Step, At, InsertIntersect, InsertWedge, InsertAbsent, InsertBlind,
           SearchMatch, SearchStop, LinkReplica, LinkNext, LinkAbsent, Publish, Hit,
           Unindex, Retain, RetainAbsent, DropRef, PutOp, Unref, Push, Index, Bump, Ref,
           BumpGlobal, Reindex, CloneAbsent, CloneToAdd, CloneToDelete
      <3> QED BY <1>2, <2>1, <2>3, <3>2
    <2> QED BY <2>2, <2>3
  <1>3. ASSUME NEW t \in Task, Accept(t) \/ Step(t)
        PROVE  Dropping(h)'
    <2>1. CASE ~Writes(t)
      <3>1. Dead(h) /\ ~Drop(t)
        BY <1>3, <2>1, TableSteps DEF Dead, Writes
      <3> QED BY <1>2, <1>3, <3>1
    <2>2. CASE Writes(t) /\ ~Retain(t)
      BY <1>2, <1>3, <2>2, WhoEmpties
    <2>3. CASE Retain(t)
      <3>1. /\ HashOf(t) \in Hash /\ table \in BlockTable
            /\ \A g \in Hash : g # HashOf(t) => table'[g] = table[g]
        BY <2>3, WriterTypes DEF Writes
      <3>2. CASE h # HashOf(t)
        BY <1>2, <1>3, <3>1, <3>2 DEF Dead
      <3>3. CASE h = HashOf(t)
        <4>1. Goto(t, "drop")
          BY <2>3, <3>1, <3>3 DEF Retain, AfterRetain, Dead, BlockTable
        <4> QED BY <3>3, <4>1 DEF Goto, Dropping, At, HashOf, Current, TypeInv, TypeOK,
                                  TaskTypes
      <3> QED BY <3>2, <3>3
    <2> QED BY <2>1, <2>2, <2>3
  <1> QED BY <1>1, <1>3 DEF Next

(* However removals, uploads and peer updates interleave, a block that     *)
(* lists no replica is in the table only while some task is about to drop  *)
(* it (remove_kvmeta.rs:64-70, lib.rs:555-566).                            *)
THEOREM NoDeadEntries == Spec => []EmptyOnlyWhileDropping
  <1>1. Init => EmptyOnlyWhileDropping
    BY DEF Init, NoBlocks, EmptyOnlyWhileDropping
  <1>2. TypeInv /\ EmptyOnlyWhileDropping /\ [Next]_vars => EmptyOnlyWhileDropping'
    BY EmptyStep
  <1> QED BY <1>1, <1>2, TypeInvariance, PTL DEF Spec

-----------------------------------------------------------------------------
(* Withdrawn replicas.  A clone lists only servers that claim the block    *)
(* too, unless the block is in raced; and the clone of a deletion lacks    *)
(* the server that is deleted.                                             *)

HasClone(t) == HoldsClone(t) /\ KindOf(t) \in {"add", "del"}

CloneClaimed(t) ==
    HasClone(t) =>
        /\ HashOf(t) \notin raced => clone[t].servers \subseteq claims[HashOf(t)]
        /\ KindOf(t) = "del" => SrvOf(t) \notin clone[t].servers

ClonesClaimed == \A t \in Task : CloneClaimed(t)

ClaimInv == TypeInv /\ ListedIsClaimed /\ ClonesClaimed

LEMMA ClaimsGrow ==
    ASSUME TypeInv, NEW h \in Hash, NEW s \in ServerId, Claim(h, s)
    PROVE  /\ raced' = raced
           /\ \A g \in Hash : claims[g] \subseteq claims'[g]
           /\ s \in claims'[h]
  BY DEF Claim, TypeInv, TypeOK, TableTypes

LEMMA ClaimsShrink ==
    ASSUME TypeInv, NEW h \in Hash, NEW s \in ServerId, Retract(h, s)
    PROVE  /\ raced \subseteq raced'
           /\ claims'[h] = claims[h] \ {s}
           /\ \A g \in Hash : g # h => claims'[g] = claims[g]
           /\ \A u \in Task : HasClone(u) /\ HashOf(u) = h /\ s \in clone[u].servers
                                 => h \in raced'
  BY DEF Retract, StaleClone, HasClone, TypeInv, TypeOK, TableTypes

(* What a step may do to the history.                                      *)
HistoryStep(t) ==
    \/ Claim(HashOf(t), SrvOf(t))
    \/ Retract(HashOf(t), SrvOf(t))
    \/ UNCHANGED <<claims, raced>>

LEMMA StepHistory ==
    ASSUME TypeInv, NEW t \in Task, Accept(t) \/ Step(t)
    PROVE  HistoryStep(t)
  <1>1. CASE Accept(t)
    BY <1>1 DEF Accept, AcceptUpload, AcceptBatch, AcceptUpdate, dirVars, HistoryStep
  <1>2. CASE InsertIntersect(t) \/ InsertBlind(t)
    <2>1. HistoryOfInsert(t) /\ KindOf(t) \in {"block", "meta", "add", "del"}
      BY <1>2, KindAt DEF InsertIntersect, InsertBlind, At, TypeInv, TypeOK
    <2> QED BY <2>1 DEF HistoryOfInsert, HistoryStep
  <1>3. CASE LinkReplica(t) \/ LinkNext(t) \/ Push(t) \/ CloneToAdd(t)
    BY <1>3 DEF LinkReplica, LinkNext, Push, CloneToAdd, HistoryStep
  <1>4. CASE Retain(t) \/ RetainAbsent(t) \/ Drop(t) \/ CloneAbsent(t)
    BY <1>4 DEF Retain, RetainAbsent, Drop, CloneAbsent, HistoryStep
  <1>5. CASE \/ InsertWedge(t) \/ InsertAbsent(t) \/ SearchMatch(t) \/ SearchStop(t)
             \/ LinkAbsent(t) \/ Publish(t) \/ Hit(t) \/ Unindex(t) \/ DropRef(t)
             \/ PutOp(t) \/ Unref(t) \/ Index(t) \/ Bump(t) \/ Ref(t)
             \/ BumpGlobal(t) \/ Reindex(t) \/ CloneToDelete(t)
    BY <1>5 DEF InsertWedge, InsertAbsent, SearchMatch, SearchStop, LinkAbsent,
       Publish, Hit, Unindex, DropRef, PutOp, Unref, Index, Bump, Ref,
       BumpGlobal, Reindex, CloneToDelete, dirVars, HistoryStep
  <1> QED BY <1>1, <1>2, <1>3, <1>4, <1>5 DEF Step

(* Clones already in a task's hands stay good.                             *)
LEMMA CloneStaysClaimed ==
    ASSUME ClaimInv, NEW t \in Task, ~At(t, "idle"), HistoryStep(t),
           NEW u \in Task, HasClone(u)
    PROVE  HashOf(u) \notin raced' => clone[u].servers \subseteq claims'[HashOf(u)]
  <1> SUFFICES ASSUME HashOf(u) \notin raced'
               PROVE  clone[u].servers \subseteq claims'[HashOf(u)]
    OBVIOUS
  <1>1. HashOf(t) \in Hash /\ SrvOf(t) \in ServerId /\ HashOf(u) \in Hash
    BY JobTypes DEF ClaimInv, TypeInv, TypeOK, HasClone, HoldsClone, At
  <1>2. HashOf(u) \notin raced => clone[u].servers \subseteq claims[HashOf(u)]
    BY DEF ClaimInv, ClonesClaimed, CloneClaimed
  <1>3. CASE Claim(HashOf(t), SrvOf(t))
    BY <1>1, <1>2, <1>3, ClaimsGrow DEF ClaimInv
  <1>4. CASE Retract(HashOf(t), SrvOf(t))
    <2>1. clone[u].servers \subseteq claims[HashOf(u)]
      BY <1>1, <1>2, <1>4, ClaimsShrink DEF ClaimInv
    <2>2. CASE HashOf(u) # HashOf(t)
      BY <1>1, <1>4, <2>1, <2>2, ClaimsShrink DEF ClaimInv
    <2>3. CASE HashOf(u) = HashOf(t)
      <3>1. SrvOf(t) \notin clone[u].servers
        BY <1>1, <1>4, <2>3, ClaimsShrink DEF ClaimInv
      <3>2. claims'[HashOf(u)] = claims[HashOf(u)] \ {SrvOf(t)}
        BY <1>1, <1>4, <2>3, ClaimsShrink DEF ClaimInv
      <3> QED BY <2>1, <3>1, <3>2
    <2> QED BY <2>2, <2>3
  <1>5. CASE UNCHANGED <<claims, raced>>
    BY <1>2, <1>5
  <1> QED BY <1>3, <1>4, <1>5 DEF HistoryStep

(* A task that holds a clone after a step held it before, or has just      *)
(* taken it from the table.                                                *)
LEMMA WhoHoldsClones ==
    ASSUME TypeInv, NEW t \in Task, Accept(t) \/ Step(t), HasClone(t)',
           ~CloneToAdd(t), ~CloneToDelete(t)
    PROVE  HasClone(t) /\ todo'[t] = todo[t] /\ clone'[t] = clone[t]
  <1> USE DEF TypeInv, TypeOK, TaskTypes
  <1>1. ~Advance(t)
    <2> SUFFICES ASSUME Advance(t) PROVE FALSE
      OBVIOUS
    <2>1. todo'[t] = Tail(todo[t]) /\ pc'[t] = FirstStep(Tail(todo[t]))
      BY DEF Advance, Remaining
    <2>2. Tail(todo[t]) # <<>>
      BY <2>1 DEF FirstStep, HasClone, HoldsClone, At
    <2>3. pc'[t] = Start(KindOf(t)')
      BY <2>1, <2>2 DEF FirstStep, KindOf, Current
    <2> QED BY <2>3 DEF Start, HasClone, HoldsClone, At
  <1>2. ASSUME NEW step, Goto(t, step), step = "igk" => KindOf(t) = "block",
               step = "blind" => At(t, "igk")
        PROVE  HasClone(t) /\ todo'[t] = todo[t] /\ clone'[t] = clone[t]
    <2>1. pc'[t] = step /\ todo' = todo /\ clone' = clone /\ KindOf(t)' = KindOf(t)
      BY <1>2 DEF Goto, KindOf, Current
    <2> QED BY <1>2, <2>1 DEF HasClone, HoldsClone, At
  <1>3. ~Accept(t)
    <2>1. \A s \in LocalServer, chain \in Chains : ~AcceptUpload(t, s, chain)
      <3> SUFFICES ASSUME NEW s \in LocalServer, NEW chain \in Chains, AcceptUpload(t, s, chain)
                   PROVE FALSE
        OBVIOUS
      <3>1. pc'[t] = "search"
        BY DEF AcceptUpload
      <3> QED BY <3>1 DEF HasClone, HoldsClone, At
    <2>2. \A kind \in {"remove", "missing", "migrated"}, s \in DataServer, hs \in Batches :
             ~AcceptBatch(t, kind, s, hs)
      <3> SUFFICES ASSUME NEW kind \in {"remove", "missing", "migrated"}, NEW s \in DataServer,
                          NEW hs \in Batches, AcceptBatch(t, kind, s, hs)
                   PROVE FALSE
        OBVIOUS
      <3>1. pc'[t] = Start(kind)
        BY DEF AcceptBatch
      <3> QED BY <3>1 DEF Start, HasClone, HoldsClone, At
    <2>3. \A jobs \in PeerUpdates : ~AcceptUpdate(t, jobs)
      <3> SUFFICES ASSUME NEW jobs \in PeerUpdates, AcceptUpdate(t, jobs)
                   PROVE FALSE
        OBVIOUS
      <3>1. jobs # <<>> /\ pc'[t] = FirstStep(jobs) /\ todo'[t] = jobs
        BY DirectoryAssumption DEF AcceptUpdate
      <3>2. pc'[t] = Start(KindOf(t)')
        BY <3>1 DEF FirstStep, KindOf, Current
      <3> QED BY <3>2 DEF Start, HasClone, HoldsClone, At
    <2> QED BY <2>1, <2>2, <2>3 DEF Accept, DataServer
  <1>4. CASE InsertIntersect(t) \/ InsertWedge(t) \/ InsertAbsent(t) \/ InsertBlind(t)
    BY <1>1, <1>2, <1>4 DEF InsertIntersect, InsertWedge, InsertAbsent, InsertBlind,
       AfterInsert
  <1>5. CASE SearchMatch(t)
    <2>1. pc'[t] = "search"
      BY <1>1, <1>5 DEF SearchMatch, At
    <2> QED BY <2>1 DEF HasClone, HoldsClone, At
  <1>6. CASE \/ SearchStop(t) \/ LinkReplica(t) \/ LinkNext(t) \/ Publish(t) \/ Hit(t)
             \/ Unindex(t)
    BY <1>1, <1>2, <1>6 DEF SearchStop, LinkReplica, LinkNext, Publish, Hit, Unindex
  <1>7. CASE LinkAbsent(t)
    BY <1>2, <1>7, KindAt DEF LinkAbsent, At
  <1>8. CASE Retain(t)
    BY <1>2, <1>8 DEF Retain, AfterRetain
  <1>9. CASE RetainAbsent(t) \/ Drop(t) \/ DropRef(t) \/ PutOp(t) \/ Unref(t)
    BY <1>1, <1>2, <1>9 DEF RetainAbsent, Drop, DropRef, PutOp, Unref
  <1>10. CASE \/ Push(t) \/ Index(t) \/ Bump(t) \/ Ref(t) \/ BumpGlobal(t) \/ Reindex(t)
              \/ CloneAbsent(t)
    BY <1>1, <1>2, <1>10 DEF Push, Index, Bump, Ref, BumpGlobal, Reindex, CloneAbsent
  <1> QED BY <1>3, <1>4, <1>5, <1>6, <1>7, <1>8, <1>9, <1>10 DEF Step

LEMMA ClonesStep ==
    ClaimInv /\ [Next]_vars => ClonesClaimed'
  <1> SUFFICES ASSUME ClaimInv, [Next]_vars, NEW u \in Task PROVE CloneClaimed(u)'
    BY DEF ClonesClaimed
  <1> SUFFICES ASSUME HasClone(u)'
               PROVE  /\ HashOf(u)' \notin raced' => clone'[u].servers \subseteq claims'[HashOf(u)']
                      /\ KindOf(u)' = "del" => SrvOf(u)' \notin clone'[u].servers
    BY DEF CloneClaimed
  <1>1. CASE UNCHANGED vars
    BY <1>1 DEF vars, dirVars, taskVars, ClaimInv, ClonesClaimed, CloneClaimed, HasClone,
                HoldsClone, At, HashOf, KindOf, SrvOf, Current
  <1>2. ASSUME NEW t \in Task, Accept(t) \/ Step(t), HasClone(u),
               todo'[u] = todo[u], clone'[u] = clone[u]
        PROVE  /\ HashOf(u)' \notin raced' => clone'[u].servers \subseteq claims'[HashOf(u)']
               /\ KindOf(u)' = "del" => SrvOf(u)' \notin clone'[u].servers
    <2>1. HashOf(u)' = HashOf(u) /\ KindOf(u)' = KindOf(u) /\ SrvOf(u)' = SrvOf(u)
      BY <1>2 DEF HashOf, KindOf, SrvOf, Current
    <2>2. KindOf(u) = "del" => SrvOf(u) \notin clone[u].servers
      BY <1>2 DEF ClaimInv, ClonesClaimed, CloneClaimed
    <2>3. HashOf(u) \notin raced' => clone[u].servers \subseteq claims'[HashOf(u)]
      <3>1. CASE ~At(t, "idle")
        BY <1>2, <3>1, StepHistory, CloneStaysClaimed DEF ClaimInv
      <3>2. CASE At(t, "idle")
        <4>1. Accept(t)
          BY <1>2, <3>2 DEF Step, At, InsertIntersect, InsertWedge, InsertAbsent, InsertBlind,
             SearchMatch, SearchStop, LinkReplica, LinkNext, LinkAbsent, Publish, Hit,
             Unindex, Retain, RetainAbsent, Drop, DropRef, PutOp, Unref, Push, Index, Bump,
             Ref, BumpGlobal, Reindex, CloneAbsent, CloneToAdd, CloneToDelete
        <4>2. UNCHANGED <<claims, raced>>
          BY <4>1 DEF Accept, AcceptUpload, AcceptBatch, AcceptUpdate, dirVars
        <4> QED BY <1>2, <4>2 DEF ClaimInv, ClonesClaimed, CloneClaimed
      <3> QED BY <3>1, <3>2
    <2> QED BY <1>2, <2>1, <2>2, <2>3
  <1>3. ASSUME NEW t \in Task, Accept(t) \/ Step(t)
        PROVE  /\ HashOf(u)' \notin raced' => clone'[u].servers \subseteq claims'[HashOf(u)']
               /\ KindOf(u)' = "del" => SrvOf(u)' \notin clone'[u].servers
    <2>1. CASE u # t
      <3>1. Undisturbed(u)
        BY <1>3, <2>1, OthersUndisturbed DEF ClaimInv
      <3>2. HasClone(u)
        BY <3>1 DEF Undisturbed, HasClone, HoldsClone, At, KindOf, Current
      <3> QED BY <1>2, <1>3, <3>1, <3>2 DEF Undisturbed
    <2>2. CASE u = t /\ ~CloneToAdd(t) /\ ~CloneToDelete(t)
      <3>1. HasClone(u) /\ todo'[u] = todo[u] /\ clone'[u] = clone[u]
        BY <1>3, <2>2, WhoHoldsClones DEF ClaimInv
      <3> QED BY <1>2, <1>3, <3>1
    <2>3. CASE u = t /\ (CloneToAdd(t) \/ CloneToDelete(t))
      <3>1. /\ HashOf(t) \in Hash /\ SrvOf(t) \in ServerId
            /\ table[HashOf(t)] \in KvBlockMeta
            /\ HashOf(t)' = HashOf(t) /\ KindOf(t)' = KindOf(t) /\ SrvOf(t)' = SrvOf(t)
        <4>1. ~At(t, "idle") /\ todo' = todo /\ table[HashOf(t)] # NoMeta
          BY <2>3 DEF CloneToAdd, CloneToDelete, At
        <4>2. HashOf(t) \in Hash /\ SrvOf(t) \in ServerId
          BY <4>1, JobTypes DEF ClaimInv, TypeInv, TypeOK
        <4> QED BY <4>1, <4>2 DEF ClaimInv, TypeInv, TypeOK, TableTypes, BlockTable,
                                  HashOf, KindOf, SrvOf, Current
      <3>2. HashOf(t) \notin raced => table[HashOf(t)].servers \subseteq claims[HashOf(t)]
        BY <3>1, NoMetaAssumption DEF ClaimInv, ListedIsClaimed, ServersOf
      <3>3. CASE CloneToAdd(t)
        <4>1. clone'[t].servers = table[HashOf(t)].servers \union {SrvOf(t)}
          BY <3>1, <3>3 DEF CloneToAdd, WithServer, KvBlockMeta, ClaimInv, TypeInv, TypeOK,
                            TaskTypes
        <4>2. /\ raced' = raced /\ SrvOf(t) \in claims'[HashOf(t)]
              /\ claims[HashOf(t)] \subseteq claims'[HashOf(t)]
          BY <3>1, <3>3, ClaimsGrow DEF CloneToAdd, ClaimInv
        <4>3. KindOf(t) # "del"
          BY <3>3 DEF CloneToAdd
        <4> QED BY <2>3, <3>1, <3>2, <4>1, <4>2, <4>3
      <3>4. CASE CloneToDelete(t)
        <4>1. clone'[t].servers = table[HashOf(t)].servers \ {SrvOf(t)}
          BY <3>1, <3>4 DEF CloneToDelete, WithoutServer, KvBlockMeta, ClaimInv, TypeInv,
                            TypeOK, TaskTypes
        <4>2. raced' = raced /\ claims' = claims
          BY <3>4 DEF CloneToDelete, dirVars
        <4> QED BY <2>3, <3>1, <3>2, <4>1, <4>2
      <3> QED BY <2>3, <3>3, <3>4
    <2> QED BY <2>1, <2>2, <2>3
  <1> QED BY <1>1, <1>3 DEF Next

(* What a write leaves listed for the block it writes.                     *)
LEMMA WrittenIsClaimed ==
    ASSUME ClaimInv, NEW t \in Task, Writes(t), HashOf(t) \notin raced'
    PROVE  ServersOf(table', HashOf(t)) \subseteq claims'[HashOf(t)]
  <1> DEFINE h == HashOf(t)
             s == SrvOf(t)
  <1>1. h \in Hash /\ s \in ServerId /\ table \in BlockTable /\ table' \in BlockTable
    BY WriterTypes DEF ClaimInv
  <1>2. HistoryStep(t) /\ raced \subseteq raced'
    <2>1. HistoryStep(t)
      BY StepHistory DEF Writes, Step, ClaimInv
    <2> QED BY <1>1, <2>1, ClaimsGrow, ClaimsShrink DEF HistoryStep, ClaimInv
  <1>3. h \notin raced /\ ServersOf(table, h) \subseteq claims[h]
    BY <1>1, <1>2 DEF ClaimInv, ListedIsClaimed
  <1>4. ASSUME Claim(h, s), ServersOf(table', h) \subseteq ServersOf(table, h) \union {s}
        PROVE  ServersOf(table', h) \subseteq claims'[h]
    BY <1>1, <1>3, <1>4, ClaimsGrow DEF ClaimInv
  <1>5. CASE LinkReplica(t)
    <2>1. table[h] \in KvBlockMeta /\ table[h] # NoMeta
      BY <1>1, <1>5 DEF LinkReplica, BlockTable
    <2>2. table'[h] = WithNext(WithServer(table[h], s), Current(t).next)
      BY <1>1, <1>5 DEF LinkReplica, BlockTable
    <2>3. table'[h].servers = table[h].servers \union {s}
      BY <2>1, <2>2 DEF WithNext, WithServer, KvBlockMeta
    <2> QED BY <1>4, <1>5, <2>1, <2>3 DEF LinkReplica, ServersOf
  <1>6. CASE LinkNext(t)
    <2>1. table[h] \in KvBlockMeta /\ table[h] # NoMeta
      BY <1>1, <1>6 DEF LinkNext, BlockTable
    <2>2. table'[h] = WithNext(table[h], Current(t).next)
      BY <1>1, <1>6 DEF LinkNext, BlockTable
    <2>3. table'[h].servers = table[h].servers
      BY <2>1, <2>2 DEF WithNext, KvBlockMeta
    <2> QED BY <1>4, <1>6, <2>1, <2>3 DEF LinkNext, ServersOf
  <1>7. CASE Push(t)
    <2>1. CASE table[h] = NoMeta
      BY <1>4, <1>7, <2>1 DEF Push
    <2>2. CASE table[h] # NoMeta
      <3>1. table[h] \in KvBlockMeta
        BY <1>1, <2>2 DEF BlockTable
      <3>2. table'[h] = WithServer(table[h], s)
        BY <1>1, <1>7, <2>2 DEF Push, BlockTable
      <3>3. table'[h].servers = table[h].servers \union {s}
        BY <3>1, <3>2 DEF WithServer, KvBlockMeta
      <3> QED BY <1>4, <1>7, <2>2, <3>3 DEF Push, ServersOf
    <2> QED BY <2>1, <2>2
  <1>8. CASE Retain(t)
    <2>1. table[h] \in KvBlockMeta /\ table[h] # NoMeta
      BY <1>1, <1>8 DEF Retain, BlockTable
    <2>2. table'[h] = WithoutServer(table[h], s)
      BY <1>1, <1>8 DEF Retain, Retained, BlockTable
    <2>3. table'[h].servers = table[h].servers \ {s}
      BY <2>1, <2>2 DEF WithoutServer, KvBlockMeta
    <2>4. claims'[h] = claims[h] \ {s}
      BY <1>1, <1>8, ClaimsShrink DEF Retain, ClaimInv
    <2> QED BY <1>3, <2>1, <2>3, <2>4 DEF ServersOf
  <1>9. CASE Drop(t)
    BY <1>1, <1>9 DEF Drop, BlockTable, ServersOf
  <1>10. CASE InsertIntersect(t) \/ InsertBlind(t)
    <2>1. /\ KindOf(t) \in {"block", "meta", "add", "del"} /\ HoldsClone(t)
          /\ HistoryOfInsert(t) /\ InHand(t) \in KvBlockMeta
      BY <1>10, KindAt, InHandTypes DEF InsertIntersect, InsertBlind, HoldsClone, At,
         ClaimInv, TypeInv, TypeOK
    <2>2. table'[h] # NoMeta /\ table'[h].servers \subseteq InHand(t).servers
      <3>1. CASE InsertIntersect(t)
        <4>1. table'[h] = Intersection(table[h], InHand(t)) /\ Shared(t) # {}
          BY <1>1, <3>1 DEF InsertIntersect, BlockTable
        <4>2. table[h] \in KvBlockMeta
          BY <1>1, <3>1 DEF InsertIntersect, BlockTable
        <4>3. Intersection(table[h], InHand(t)) \in KvBlockMeta
          BY <2>1, <4>2 DEF Intersection, KvBlockMeta
        <4> QED BY <2>1, <4>1, <4>3, NoMetaAssumption DEF Intersection, KvBlockMeta
      <3>2. CASE InsertBlind(t)
        BY <1>1, <2>1, <3>2, NoMetaAssumption DEF InsertBlind, BlockTable
      <3> QED BY <1>10, <3>1, <3>2
    <2>3. CASE KindOf(t) \in {"block", "meta"}
      <3>1. InHand(t).servers = {s} /\ Claim(h, s)
        BY <2>1, <2>3 DEF InHand, NewBlock, HistoryOfInsert
      <3> QED BY <1>4, <2>2, <3>1 DEF ServersOf
    <2>4. CASE KindOf(t) = "add"
      <3>1. InHand(t) = clone[t] /\ claims' = claims
        BY <2>1, <2>4 DEF InHand, HistoryOfInsert
      <3>2. clone[t].servers \subseteq claims[h]
        BY <1>3, <2>1, <2>4 DEF ClaimInv, ClonesClaimed, CloneClaimed, HasClone
      <3> QED BY <2>2, <3>1, <3>2 DEF ServersOf
    <2>5. CASE KindOf(t) = "del"
      <3>1. InHand(t) = clone[t] /\ Retract(h, s)
        BY <2>1, <2>5 DEF InHand, HistoryOfInsert
      <3>2. clone[t].servers \subseteq claims[h] /\ s \notin clone[t].servers
        BY <1>3, <2>1, <2>5 DEF ClaimInv, ClonesClaimed, CloneClaimed, HasClone
      <3>3. claims'[h] = claims[h] \ {s}
        BY <1>1, <3>1, ClaimsShrink DEF ClaimInv
      <3> QED BY <2>2, <3>1, <3>2, <3>3 DEF ServersOf
    <2> QED BY <2>1, <2>3, <2>4, <2>5
  <1> QED BY <1>5, <1>6, <1>7, <1>8, <1>9, <1>10 DEF Writes

LEMMA ListedStep ==
    ClaimInv /\ [Next]_vars => ListedIsClaimed'
  <1> SUFFICES ASSUME ClaimInv, [Next]_vars, NEW h \in Hash, h \notin raced'
               PROVE  ServersOf(table', h) \subseteq claims'[h]
    BY DEF ListedIsClaimed, ServersOf
  <1>1. CASE UNCHANGED vars
    BY <1>1 DEF vars, dirVars, ClaimInv, ListedIsClaimed, ServersOf
  <1>2. ASSUME NEW t \in Task, Accept(t) \/ Step(t)
        PROVE  ServersOf(table', h) \subseteq claims'[h]
    <2>1. HistoryStep(t)
      BY <1>2, StepHistory DEF ClaimInv
    <2>2. CASE Writes(t) /\ h = HashOf(t)
      BY <2>2, WrittenIsClaimed
    <2>3. CASE ~(Writes(t) /\ h = HashOf(t))
      <3>1. table'[h] = table[h]
        BY <1>2, <2>3, TableSteps, WriterTypes DEF ClaimInv
      <3>2. CASE UNCHANGED <<claims, raced>>
        BY <3>1, <3>2 DEF ClaimInv, ListedIsClaimed, ServersOf
      <3>3. CASE ~At(t, "idle")
        <4>1. HashOf(t) \in Hash /\ SrvOf(t) \in ServerId
          BY <3>3, JobTypes DEF ClaimInv, TypeInv, TypeOK
        <4>2. CASE Claim(HashOf(t), SrvOf(t))
          BY <3>1, <4>1, <4>2, ClaimsGrow DEF ClaimInv, ListedIsClaimed, ServersOf
        <4>3. CASE Retract(HashOf(t), SrvOf(t)) /\ h # HashOf(t)
          BY <3>1, <4>1, <4>3, ClaimsShrink DEF ClaimInv, ListedIsClaimed, ServersOf
        <4>4. CASE Retract(HashOf(t), SrvOf(t)) /\ h = HashOf(t) /\ ~Writes(t)
              /\ ~UNCHANGED <<claims, raced>>
          <5>1. ~CloneToAdd(t)
            <6> SUFFICES ASSUME CloneToAdd(t) PROVE FALSE
              OBVIOUS
            <6>1. Claim(HashOf(t), SrvOf(t))
              BY DEF CloneToAdd
            <6> QED BY <4>1, <4>4, <6>1, ClaimsGrow, ClaimsShrink DEF ClaimInv
          <5>2. table[h] = NoMeta
            BY <1>2, <4>4, <5>1 DEF Accept, AcceptUpload, AcceptBatch, AcceptUpdate, Step, Writes,
               InsertWedge, InsertAbsent, SearchMatch, SearchStop, LinkAbsent, Publish, Hit,
               Unindex, RetainAbsent, DropRef, PutOp, Unref, Index, Bump, Ref, BumpGlobal,
               Reindex, CloneAbsent, CloneToDelete, dirVars
          <5> QED BY <3>1, <5>2 DEF ServersOf
        <4> QED BY <2>1, <2>3, <3>2, <4>2, <4>3, <4>4 DEF HistoryStep
      <3>4. CASE At(t, "idle")
        <4>1. Accept(t)
          BY <1>2, <3>4 DEF Step, At, InsertIntersect, InsertWedge, InsertAbsent, InsertBlind,
             SearchMatch, SearchStop, LinkReplica, LinkNext, LinkAbsent, Publish, Hit,
             Unindex, Retain, RetainAbsent, Drop, DropRef, PutOp, Unref, Push, Index, Bump,
             Ref, BumpGlobal, Reindex, CloneAbsent, CloneToAdd, CloneToDelete
        <4>2. UNCHANGED <<claims, raced>>
          BY <4>1 DEF Accept, AcceptUpload, AcceptBatch, AcceptUpdate, dirVars
        <4> QED BY <3>2, <4>2
      <3> QED BY <3>3, <3>4
    <2> QED BY <2>2, <2>3
  <1> QED BY <1>1, <1>2 DEF Next

LEMMA ClaimInvariance == Spec => []ClaimInv
  <1>1. Init => ListedIsClaimed /\ ClonesClaimed
    BY DEF Init, NoBlocks, ListedIsClaimed, ServersOf, ClonesClaimed, CloneClaimed, HasClone,
           HoldsClone, At
  <1>2. Init => ClaimInv
    BY <1>1, InitTypes DEF ClaimInv
  <1>3. ClaimInv /\ [Next]_vars => ClaimInv'
    BY NextKeepsTypes, ClonesStep, ListedStep DEF ClaimInv
  <1> QED BY <1>2, <1>3, PTL DEF Spec

(* No stale clone, received update or concurrent upload lists a server     *)
(* again that has withdrawn from a block, except where an operation from a *)
(* peer straddled the withdrawal (lib.rs:328-355, 416-490, 553-584).       *)
THEOREM WithdrawnStaysOut == Spec => []ListedIsClaimed
  <1>1. ClaimInv => ListedIsClaimed
    BY DEF ClaimInv
  <1> QED BY <1>1, ClaimInvariance, PTL

-----------------------------------------------------------------------------
(* Announcements.  What is known about a block is queued, or in the hands  *)
(* of a task that is about to queue it; and a clone that lists a server of *)
(* this domain was taken from an entry of which that was true.             *)

Known(h) == Queued(h) \/ \E t \in Task : Announcing(t, h)

LocalIn(h, servers) == servers \intersect OwnServers(h) # {}

CloneKnown(t) == HasClone(t) /\ LocalIn(HashOf(t), clone[t].servers) => Known(HashOf(t))

QueueInv == TypeInv /\ EveryListingQueued /\ \A t \in Task : CloneKnown(t)

LEMMA StillQueued ==
    ASSUME TypeInv, [Next]_vars, NEW h \in Hash, Queued(h)
    PROVE  Queued(h)'
  <1>1. CASE UNCHANGED vars
    BY <1>1 DEF vars, queueVars, Queued
  <1>2. ASSUME NEW t \in Task, Publish(t)
        PROVE  Queued(h)'
    <2>1. HashOf(t) \in Hash /\ InHand(t) # NoMeta
      <3>1. ~At(t, "idle") /\ KindOf(t) = "block"
        BY <1>2, KindAt DEF Publish, At, TypeInv, TypeOK
      <3>2. HashOf(t) \in Hash /\ InHand(t) \in KvBlockMeta
        BY <3>1, JobTypes DEF InHand, NewBlock, KvBlockMeta, TypeInv, TypeOK
      <3> QED BY <3>2, NoMetaAssumption
    <2> QED BY <1>2, <2>1 DEF Publish, insert_update_kvcache, Queued, TypeInv, TypeOK,
                              QueueTypes, BlockTable
  <1>3. ASSUME NEW t \in Task, LinkReplica(t) \/ PutOp(t)
        PROVE  Queued(h)'
    <2>1. PICK operation, srv :
            operation \in {1, 2} /\ insert_update_kvop(HashOf(t), operation, srv)
      BY <1>3 DEF LinkReplica, PutOp
    <2>2. [operation |-> operation, srv |-> srv] # NoOp
      BY <2>1 DEF NoOp
    <2>3. updMeta' = updMeta
      BY <1>3 DEF LinkReplica, PutOp
    <2> QED BY <2>1, <2>2, <2>3 DEF insert_update_kvop, Queued, TypeInv, TypeOK, QueueTypes
  <1>4. ASSUME NEW t \in Task, Accept(t) \/ Step(t), ~Publish(t), ~LinkReplica(t), ~PutOp(t)
        PROVE  Queued(h)'
    <2>1. UNCHANGED queueVars
      BY <1>4 DEF Accept, AcceptUpload, AcceptBatch, AcceptUpdate, Step,
         InsertIntersect, InsertWedge, InsertAbsent, InsertBlind, SearchMatch, SearchStop,
         LinkNext, LinkAbsent, Hit, Unindex, Retain, RetainAbsent, Drop, DropRef, Unref,
         Push, Index, Bump, Ref, BumpGlobal, Reindex, CloneAbsent, CloneToAdd, CloneToDelete
    <2> QED BY <2>1 DEF queueVars, Queued
  <1> QED BY <1>1, <1>2, <1>3, <1>4 DEF Next

(* A task that is about to announce does, or is again about to.            *)
LEMMA AnnouncerProceeds ==
    ASSUME TypeInv, NEW t \in Task, Accept(t) \/ Step(t), NEW h \in Hash, Announcing(t, h)
    PROVE  Queued(h)' \/ Announcing(t, h)'
  <1>1. pc[t] \in {"publish", "index", "bump", "op"} /\ HashOf(t) = h /\ KindOf(t) # "ref"
    BY DEF Announcing
  <1>2. Publish(t) \/ Index(t) \/ Bump(t) \/ PutOp(t)
    BY <1>1 DEF Accept, AcceptUpload, AcceptBatch, AcceptUpdate, Step, At, InsertIntersect,
       InsertWedge, InsertAbsent, InsertBlind, SearchMatch, SearchStop, LinkReplica,
       LinkNext, LinkAbsent, Hit, Unindex, Retain, RetainAbsent, Drop, DropRef, Unref, Push,
       Ref, BumpGlobal, Reindex, CloneAbsent, CloneToAdd, CloneToDelete
  <1>3. CASE Publish(t)
    <2>1. InHand(t) # NoMeta
      <3>1. ~At(t, "idle") /\ KindOf(t) = "block"
        BY <1>3, KindAt DEF Publish, At, TypeInv, TypeOK
      <3>2. InHand(t) \in KvBlockMeta
        BY <3>1, JobTypes DEF InHand, NewBlock, KvBlockMeta, TypeInv, TypeOK
      <3> QED BY <3>2, NoMetaAssumption
    <2> QED BY <1>1, <1>3, <2>1 DEF Publish, insert_update_kvcache, Queued, TypeInv, TypeOK,
                                    QueueTypes, BlockTable
  <1>4. CASE PutOp(t)
    <2>1. PICK operation, srv :
            operation \in {1, 2} /\ insert_update_kvop(h, operation, srv)
      BY <1>1, <1>4 DEF PutOp
    <2>2. [operation |-> operation, srv |-> srv] # NoOp
      BY <2>1 DEF NoOp
    <2> QED BY <2>1, <2>2 DEF insert_update_kvop, Queued, TypeInv, TypeOK, QueueTypes
  <1>5. CASE Index(t) \/ Bump(t)
    <2>1. PICK step \in {"bump", "op"} : Goto(t, step)
      <3>1. CASE Index(t)
        BY <3>1 DEF Index
      <3>2. CASE Bump(t)
        BY <1>1, <3>2 DEF Bump
      <3> QED BY <1>5, <3>1, <3>2
    <2> QED BY <1>1, <2>1 DEF Goto, Announcing, HashOf, KindOf, Current, TypeInv, TypeOK,
                              TaskTypes
  <1> QED BY <1>2, <1>3, <1>4, <1>5

LEMMA StillKnown ==
    ASSUME TypeInv, NEW t \in Task, Accept(t) \/ Step(t), NEW h \in Hash, Known(h)
    PROVE  Known(h)'
  <1>1. CASE Queued(h)
    BY <1>1, StillQueued DEF Known, Next
  <1>2. ASSUME NEW u \in Task, Announcing(u, h)
        PROVE  Known(h)'
    <2>1. CASE u = t
      BY <1>2, <2>1, AnnouncerProceeds DEF Known
    <2>2. CASE u # t
      <3>1. Undisturbed(u)
        BY <2>2, OthersUndisturbed
      <3> QED BY <1>2, <3>1 DEF Undisturbed, Known, Announcing, HashOf, KindOf, Current
    <2> QED BY <2>1, <2>2
  <1> QED BY <1>1, <1>2 DEF Known

(* A write that lists a local server knows the block, or lists no local    *)
(* server that was not listed before.                                      *)
LEMMA WrittenIsKnown ==
    ASSUME QueueInv, NEW t \in Task, Writes(t), NEW h \in Hash, h = HashOf(t),
           LocalIn(h, ServersOf(table', h))
    PROVE  Known(h)'
  <1> DEFINE s == SrvOf(t)
  <1>1. h \in Hash /\ s \in ServerId /\ table \in BlockTable /\ ~At(t, "idle")
    BY WriterTypes DEF QueueInv
  <1>2. Known(h) => Known(h)'
    BY <1>1, StillKnown DEF Writes, Step, QueueInv
  <1>3. LocalIn(h, ServersOf(table, h)) => Known(h)
    BY <1>1 DEF QueueInv, EveryListingQueued, LocalIn, Known
  <1>4. CASE LinkReplica(t)
    <2>1. [operation |-> 1, srv |-> s] # NoOp
      BY DEF NoOp
    <2>2. Queued(h)'
      BY <1>1, <1>4, <2>1 DEF LinkReplica, insert_update_kvop, Queued, QueueInv, TypeInv,
                              TypeOK, QueueTypes
    <2> QED BY <2>2 DEF Known
  <1>5. CASE LinkNext(t)
    <2>1. table[h] \in KvBlockMeta /\ table[h] # NoMeta
      BY <1>1, <1>5 DEF LinkNext, BlockTable
    <2>2. table'[h] = WithNext(table[h], Current(t).next)
      BY <1>1, <1>5 DEF LinkNext, BlockTable
    <2>3. table'[h].servers = table[h].servers
      BY <2>1, <2>2 DEF WithNext, KvBlockMeta
    <2> QED BY <1>2, <1>3, <2>1, <2>3 DEF ServersOf, LocalIn
  <1>6. CASE Push(t)
    <2>1. Goto(t, "index") /\ KindOf(t) = "migrated"
      BY <1>6, KindAt DEF Push, At, QueueInv, TypeInv, TypeOK
    <2>2. Announcing(t, h)'
      BY <2>1 DEF Goto, Announcing, HashOf, KindOf, Current, QueueInv, TypeInv, TypeOK,
                  TaskTypes
    <2> QED BY <2>2 DEF Known
  <1>7. CASE Retain(t)
    <2>1. table[h] \in KvBlockMeta /\ table[h] # NoMeta
      BY <1>1, <1>7 DEF Retain, BlockTable
    <2>2. table'[h] = WithoutServer(table[h], s)
      BY <1>1, <1>7 DEF Retain, Retained, BlockTable
    <2>3. table'[h].servers \subseteq table[h].servers
      BY <2>1, <2>2 DEF WithoutServer, KvBlockMeta
    <2> QED BY <1>2, <1>3, <2>1, <2>3 DEF ServersOf, LocalIn
  <1>8. CASE Drop(t)
    BY <1>1, <1>8 DEF Drop, BlockTable, ServersOf, LocalIn
  <1>9. CASE InsertIntersect(t) \/ InsertBlind(t)
    <2>1. /\ KindOf(t) \in {"block", "meta", "add", "del"} /\ HoldsClone(t)
          /\ InHand(t) \in KvBlockMeta /\ AfterInsert(t)
      BY <1>9, KindAt, InHandTypes DEF InsertIntersect, InsertBlind, HoldsClone, At,
         QueueInv, TypeInv, TypeOK
    <2>2. ServersOf(table', h) \subseteq InHand(t).servers
      <3>1. CASE InsertIntersect(t)
        <4>1. table'[h] = Intersection(table[h], InHand(t))
          BY <1>1, <3>1 DEF InsertIntersect, BlockTable
        <4> QED BY <2>1, <4>1 DEF Intersection, KvBlockMeta, ServersOf
      <3>2. CASE InsertBlind(t)
        BY <1>1, <2>1, <3>2 DEF InsertBlind, BlockTable, ServersOf
      <3> QED BY <1>9, <3>1, <3>2
    <2>3. LocalIn(h, InHand(t).servers)
      BY <2>2 DEF LocalIn
    <2>4. CASE KindOf(t) = "block"
      <3>1. Goto(t, "publish")
        BY <2>1, <2>4 DEF AfterInsert
      <3>2. Announcing(t, h)'
        BY <2>4, <3>1 DEF Goto, Announcing, HashOf, KindOf, Current, QueueInv, TypeInv,
                          TypeOK, TaskTypes
      <3> QED BY <3>2 DEF Known
    <2>5. CASE KindOf(t) = "meta"
      <3>1. s \notin LocalServer
        BY <1>1, <2>5, JobTypes DEF JobSource, PeerKinds, KindOf, SrvOf, QueueInv, TypeInv,
                                    TypeOK
      <3>2. InHand(t).servers = {s}
        BY <2>5 DEF InHand, NewBlock
      <3> QED BY <2>3, <3>1, <3>2 DEF LocalIn, OwnServers
    <2>6. CASE KindOf(t) \in {"add", "del"}
      <3>1. InHand(t) = clone[t]
        BY <2>6 DEF InHand
      <3>2. Known(h)
        BY <2>1, <2>3, <2>6, <3>1 DEF QueueInv, CloneKnown, HasClone
      <3> QED BY <1>2, <3>2
    <2> QED BY <2>1, <2>4, <2>5, <2>6
  <1> QED BY <1>4, <1>5, <1>6, <1>7, <1>8, <1>9 DEF Writes

LEMMA QueueStep ==
    QueueInv /\ [Next]_vars => EveryListingQueued' /\ \A u \in Task : CloneKnown(u)'
  <1> SUFFICES ASSUME QueueInv, [Next]_vars
               PROVE  EveryListingQueued' /\ \A u \in Task : CloneKnown(u)'
    OBVIOUS
  <1>1. CASE UNCHANGED vars
    BY <1>1 DEF vars, dirVars, queueVars, taskVars, QueueInv, EveryListingQueued, ServersOf,
       Queued, Announcing, CloneKnown, HasClone, HoldsClone, At, HashOf, KindOf, Current,
       Known
  <1>2. ASSUME NEW t \in Task, Accept(t) \/ Step(t), NEW h \in Hash,
               LocalIn(h, ServersOf(table', h))
        PROVE  Known(h)'
    <2>1. CASE Writes(t) /\ h = HashOf(t)
      BY <1>2, <2>1, WrittenIsKnown
    <2>2. CASE ~(Writes(t) /\ h = HashOf(t))
      <3>1. table'[h] = table[h]
        BY <1>2, <2>2, TableSteps, WriterTypes DEF QueueInv
      <3>2. Known(h)
        BY <1>2, <3>1 DEF QueueInv, EveryListingQueued, LocalIn, Known, ServersOf
      <3> QED BY <1>2, <3>2, StillKnown DEF QueueInv
    <2> QED BY <2>1, <2>2
  <1>3. ASSUME NEW t \in Task, Accept(t) \/ Step(t), NEW u \in Task,
               HasClone(u)', LocalIn(HashOf(u)', clone'[u].servers)
        PROVE  Known(HashOf(u))'
    <2>1. ASSUME HasClone(u), todo'[u] = todo[u], clone'[u] = clone[u]
          PROVE  Known(HashOf(u))'
      <3>1. HashOf(u)' = HashOf(u) /\ HashOf(u) \in Hash
        BY <2>1, JobTypes DEF HasClone, HoldsClone, At, HashOf, Current, QueueInv, TypeInv,
                              TypeOK
      <3>2. Known(HashOf(u))
        <4>1. LocalIn(HashOf(u), clone[u].servers)
          BY <1>3, <2>1, <3>1 DEF LocalIn
        <4> QED BY <1>3, <2>1, <4>1 DEF QueueInv, CloneKnown
      <3>3. \A h \in Hash : Known(h) => Known(h)'
        BY <1>3, StillKnown DEF QueueInv
      <3> QED BY <3>1, <3>2, <3>3 DEF Known, Queued, Announcing
    <2>2. CASE u # t
      <3>1. Undisturbed(u)
        BY <1>3, <2>2, OthersUndisturbed DEF QueueInv
      <3>2. HasClone(u)
        BY <1>3, <3>1 DEF Undisturbed, HasClone, HoldsClone, At, KindOf, Current
      <3> QED BY <2>1, <3>1, <3>2 DEF Undisturbed
    <2>3. CASE u = t /\ ~CloneToAdd(t) /\ ~CloneToDelete(t)
      BY <1>3, <2>1, <2>3, WhoHoldsClones DEF QueueInv
    <2>4. CASE u = t /\ (CloneToAdd(t) \/ CloneToDelete(t))
      <3>1. /\ HashOf(t) \in Hash /\ table[HashOf(t)] \in KvBlockMeta
            /\ KindOf(t) \in {"add", "del"} /\ JobSource(Current(t))
            /\ HashOf(t)' = HashOf(t) /\ table[HashOf(t)] # NoMeta
        <4>1. ~At(t, "idle") /\ todo' = todo /\ table[HashOf(t)] # NoMeta
              /\ KindOf(t) \in {"add", "del"}
          BY <2>4 DEF CloneToAdd, CloneToDelete, At
        <4>2. HashOf(t) \in Hash /\ JobSource(Current(t))
          BY <4>1, JobTypes DEF QueueInv, TypeInv, TypeOK
        <4> QED BY <4>1, <4>2 DEF QueueInv, TypeInv, TypeOK, TableTypes, BlockTable,
                                  HashOf, Current
      <3>2. /\ clone'[t].servers \subseteq table[HashOf(t)].servers \union {SrvOf(t)}
            /\ CloneToDelete(t) => clone'[t].servers \subseteq table[HashOf(t)].servers
        BY <2>4, <3>1 DEF CloneToAdd, CloneToDelete, WithServer, WithoutServer, KvBlockMeta,
                          QueueInv, TypeInv, TypeOK, TaskTypes
      <3>3. CloneToAdd(t) => SrvOf(t) \notin OwnServers(HashOf(t))
        <4>1. CloneToAdd(t) => KindOf(t) = "add"
          BY DEF CloneToAdd
        <4> QED BY <3>1, <4>1 DEF JobSource, PeerKinds, KindOf, SrvOf, HashOf, OwnServers
      <3>4. LocalIn(HashOf(t), table[HashOf(t)].servers)
        BY <1>3, <2>4, <3>1, <3>2, <3>3 DEF LocalIn
      <3>5. Known(HashOf(t))
        BY <3>1, <3>4 DEF QueueInv, EveryListingQueued, ServersOf, LocalIn, Known
      <3>6. \A h \in Hash : Known(h) => Known(h)'
        BY <1>3, StillKnown DEF QueueInv
      <3> QED BY <2>4, <3>1, <3>5, <3>6 DEF Known, Queued, Announcing
    <2> QED BY <2>2, <2>3, <2>4
  <1>4. CASE \E t \in Task : Accept(t) \/ Step(t)
    <2>1. EveryListingQueued'
      BY <1>2, <1>4 DEF EveryListingQueued, LocalIn, Known, ServersOf
    <2>2. \A u \in Task : CloneKnown(u)'
      BY <1>3, <1>4 DEF CloneKnown
    <2> QED BY <2>1, <2>2
  <1> QED BY <1>1, <1>4 DEF Next

(* A replica on a server of this domain never becomes visible here without *)
(* something about its block being queued for the peers, or about to be    *)
(* (lib.rs:803-863, 1135-1149).                                            *)
THEOREM ListingsAreQueued == Spec => []EveryListingQueued
  <1>1. Init => EveryListingQueued /\ \A t \in Task : CloneKnown(t)
    BY DEF Init, NoBlocks, EveryListingQueued, ServersOf, CloneKnown, HasClone, HoldsClone, At
  <1>2. Init => QueueInv
    BY <1>1, InitTypes DEF QueueInv
  <1>3. QueueInv /\ [Next]_vars => QueueInv'
    BY NextKeepsTypes, QueueStep DEF QueueInv
  <1>4. QueueInv => EveryListingQueued
    BY DEF QueueInv
  <1> QED BY <1>2, <1>3, <1>4, PTL DEF Spec

-----------------------------------------------------------------------------
(* How a replica gets lost.                                                *)

LEMMA ShorterLoop ==
    ASSUME TypeInv, NEW t \in Task, ~At(t, "idle"), Advance(t)
    PROVE  todo'[t] # todo[t]
  <1>1. todo[t] \in Seq(Job) /\ todo[t] # <<>>
    BY JobTypes DEF TypeInv, TypeOK, TaskTypes
  <1>2. Tail(todo[t]) # todo[t]
    <2> DEFINE jobs == todo[t]
               rest == Tail(todo[t])
    <2>1. Len(rest) = Len(jobs) - 1 /\ Len(jobs) \in Nat
      BY <1>1
    <2> HIDE DEF jobs, rest
    <2>2. rest # jobs
      BY <2>1
    <2> QED BY <2>2 DEF jobs, rest
  <1> QED BY <1>2 DEF Advance, Remaining, TypeInv, TypeOK, TaskTypes

(* Every write moves the task that makes it.                               *)
LEMMA WritersMove ==
    ASSUME TypeInv, NEW t \in Task, Writes(t)
    PROVE  Moves(t)
  <1>1. ~At(t, "idle")
    BY WriterTypes
  <1>2. Advance(t) => Moves(t)
    BY <1>1, ShorterLoop DEF Moves
  <1>3. \A step : Goto(t, step) /\ step # pc[t] => Moves(t)
    BY DEF Goto, Moves, TypeInv, TypeOK, TaskTypes
  <1>4. CASE InsertIntersect(t) \/ InsertBlind(t)
    BY <1>2, <1>3, <1>4 DEF InsertIntersect, InsertBlind, AfterInsert, At
  <1>5. CASE LinkReplica(t) \/ LinkNext(t)
    BY <1>2, <1>5 DEF LinkReplica, LinkNext
  <1>6. CASE Retain(t)
    BY <1>3, <1>6 DEF Retain, AfterRetain, At
  <1>7. CASE Drop(t) \/ Push(t)
    BY <1>2, <1>3, <1>7 DEF Drop, Push, At
  <1> QED BY <1>4, <1>5, <1>6, <1>7 DEF Writes

LossExplained ==
    \A h \in Hash : \A s \in ServersOf(table, h) \ ServersOf(table', h) :
        \E t \in Task :
           /\ Moves(t)
           /\ HashOf(t) = h
           /\ \/ At(t, "retain") /\ SrvOf(t) = s
              \/ At(t, "drop") \/ At(t, "igk") \/ At(t, "blind")

LEMMA LossStep ==
    ASSUME TypeInv, [Next]_vars
    PROVE  LossExplained
  <1> SUFFICES ASSUME NEW h \in Hash, NEW s \in ServersOf(table, h) \ ServersOf(table', h)
               PROVE  \E t \in Task :
                         /\ Moves(t)
                         /\ HashOf(t) = h
                         /\ \/ At(t, "retain") /\ SrvOf(t) = s
                            \/ At(t, "drop") \/ At(t, "igk") \/ At(t, "blind")
    BY DEF LossExplained
  <1>1. table' # table
    BY DEF ServersOf
  <1>2. PICK t \in Task : Accept(t) \/ Step(t)
    BY <1>1 DEF Next, vars, dirVars
  <1>3. Writes(t) /\ h = HashOf(t)
    <2>1. Writes(t)
      BY <1>1, <1>2, TableSteps
    <2>2. h # HashOf(t) => table'[h] = table[h]
      BY <2>1, WriterTypes
    <2> QED BY <2>1, <2>2 DEF ServersOf
  <1>4. Moves(t) /\ table \in BlockTable /\ SrvOf(t) \in ServerId
    BY <1>3, WritersMove, WriterTypes
  <1>5. table[h] \in KvBlockMeta /\ table[h] # NoMeta /\ s \in table[h].servers
    BY <1>4 DEF BlockTable, ServersOf
  <1>6. ASSUME table'[h] \in KvBlockMeta, table[h].servers \subseteq table'[h].servers
        PROVE FALSE
    BY <1>5, <1>6, NoMetaAssumption DEF ServersOf
  <1>7. ~LinkReplica(t)
    <2> SUFFICES ASSUME LinkReplica(t) PROVE FALSE
      OBVIOUS
    <2>1. table'[h] = WithNext(WithServer(table[h], SrvOf(t)), Current(t).next)
      BY <1>3, <1>4 DEF LinkReplica, BlockTable
    <2>2. Current(t).next \subseteq Hash
      BY JobTypes DEF LinkReplica, At, TypeInv, TypeOK
    <2> DEFINE more == WithServer(table[h], SrvOf(t))
    <2>3. more \in KvBlockMeta /\ table[h].servers \subseteq more.servers
      BY <1>4, <1>5 DEF WithServer, KvBlockMeta
    <2>4. /\ WithNext(more, Current(t).next) \in KvBlockMeta
          /\ WithNext(more, Current(t).next).servers = more.servers
      BY <2>2, <2>3 DEF WithNext, KvBlockMeta
    <2> QED BY <1>6, <2>1, <2>3, <2>4
  <1>8. ~LinkNext(t)
    <2> SUFFICES ASSUME LinkNext(t) PROVE FALSE
      OBVIOUS
    <2>1. table'[h] = WithNext(table[h], Current(t).next)
      BY <1>3, <1>4 DEF LinkNext, BlockTable
    <2>2. Current(t).next \subseteq Hash
      BY JobTypes DEF LinkNext, At, TypeInv, TypeOK
    <2> QED BY <1>5, <1>6, <2>1, <2>2 DEF WithNext, KvBlockMeta
  <1>9. ~Push(t)
    <2> SUFFICES ASSUME Push(t) PROVE FALSE
      OBVIOUS
    <2>1. table'[h] = WithServer(table[h], SrvOf(t))
      BY <1>3, <1>4, <1>5 DEF Push, BlockTable
    <2> QED BY <1>4, <1>5, <1>6, <2>1 DEF WithServer, KvBlockMeta
  <1>10. CASE Retain(t)
    <2>1. table'[h] = WithoutServer(table[h], SrvOf(t))
      BY <1>3, <1>4, <1>10 DEF Retain, Retained, BlockTable
    <2>2. WithoutServer(table[h], SrvOf(t)) \in KvBlockMeta
      BY <1>5 DEF WithoutServer, KvBlockMeta
    <2>3. table'[h].servers = table[h].servers \ {SrvOf(t)}
      BY <1>5, <2>1 DEF WithoutServer, KvBlockMeta
    <2>4. s = SrvOf(t)
      BY <1>5, <2>1, <2>2, <2>3, NoMetaAssumption DEF ServersOf
    <2> QED BY <1>3, <1>4, <1>10, <2>4 DEF Retain
  <1>11. CASE Drop(t) \/ InsertIntersect(t) \/ InsertBlind(t)
    BY <1>3, <1>4, <1>11 DEF Drop, InsertIntersect, InsertBlind
  <1> QED BY <1>3, <1>7, <1>8, <1>9, <1>10, <1>11 DEF Writes

(* Uploads and migrations that add replicas never lose one of another      *)
(* server: a loss is the server's own withdrawal, a drop, or an insertion  *)
(* by insert_global_kvcache (lib.rs:803-843, 1136-1140).                   *)
THEOREM LossesAreExplained == Spec => ReplicaLossExplained
  <1>1. TypeInv /\ [Next]_vars => LossExplained
    BY LossStep
  <1> QED BY <1>1, TypeInvariance, PTL DEF Spec, ReplicaLossExplained, LossExplained

-----------------------------------------------------------------------------
(* Every step brings a handler closer to its end.                          *)

LEMMA StepsLeftTypes == \A step \in Pcs \union {"idle"} : StepsLeft(step) \in 0 .. 7
  <1>1. ASSUME NEW step \in Pcs PROVE StepsLeft(step) \in 0 .. 7
    <2>1. PICK kind \in AllKinds : step \in StepsOf(kind)
      BY DEF Pcs, AllKinds
    <2> QED BY <2>1 DEF AllKinds, LocalKinds, PeerKinds, StepsOf, StepsLeft
  <1>2. StepsLeft("idle") \in 0 .. 7
    BY DEF StepsLeft
  <1> QED BY <1>1, <1>2

(* An iteration less outweighs any step.                                   *)
LEMMA WorkOrder ==
    ASSUME NEW long \in Nat, NEW short \in Nat, NEW a \in 0 .. 7, NEW b \in 0 .. 7
    PROVE  /\ 8 * long + a \in Nat
           /\ short = long - 1 => 8 * short + b < 8 * long + a
           /\ short = long /\ b < a => 8 * short + b < 8 * long + a
  OBVIOUS

LEMMA ShorterLoopShrinks ==
    ASSUME TypeInv, TypeInv', NEW t \in Task, ~At(t, "idle"), todo'[t] = Tail(todo[t])
    PROVE  Work(t)' < Work(t)
  <1>1. /\ todo[t] \in Seq(Job) /\ todo[t] # <<>>
        /\ StepsLeft(pc[t]) \in 0 .. 7 /\ StepsLeft(pc'[t]) \in 0 .. 7
    BY JobTypes, StepsLeftTypes DEF TypeInv, TypeOK, TaskTypes
  <1>2. /\ Len(todo'[t]) = Len(todo[t]) - 1
        /\ Len(todo[t]) \in Nat /\ Len(todo'[t]) \in Nat
    BY <1>1, EmptySeq
  <1> QED BY <1>1, <1>2, WorkOrder DEF Work

LEMMA AdvanceShrinks ==
    ASSUME TypeInv, TypeInv', NEW t \in Task, ~At(t, "idle"), Advance(t)
    PROVE  Work(t)' < Work(t)
  BY ShorterLoopShrinks DEF Advance, Remaining, TypeInv, TypeOK, TaskTypes

LEMMA LaterStepShrinks ==
    ASSUME TypeInv, TypeInv', NEW t \in Task, todo' = todo,
           NEW step \in Pcs, pc' = [pc EXCEPT ![t] = step],
           StepsLeft(step) < StepsLeft(pc[t])
    PROVE  Work(t)' < Work(t)
  <1>1. pc'[t] = step /\ Len(todo[t]) \in Nat
    BY DEF TypeInv, TypeOK, TaskTypes
  <1>2. StepsLeft(pc[t]) \in 0 .. 7 /\ StepsLeft(step) \in 0 .. 7
    BY StepsLeftTypes DEF TypeInv, TypeOK, TaskTypes
  <1> QED BY <1>1, <1>2, WorkOrder DEF Work

LEMMA StepShrinks ==
    ASSUME TypeInv, TypeInv', NEW t \in Task, Step(t)
    PROVE  Work(t)' < Work(t)
  <1>1. Step(t) => ~At(t, "idle")
    BY DEF Step, InsertIntersect, InsertWedge, InsertAbsent, InsertBlind, SearchMatch,
           SearchStop, LinkReplica, LinkNext, LinkAbsent, Publish, Hit, Unindex, Retain,
           RetainAbsent, Drop, DropRef, PutOp, Unref, Push, Index, Bump, Ref, BumpGlobal,
           Reindex, CloneAbsent, CloneToAdd, CloneToDelete, At
  <1>2. /\ {"search", "link", "igk", "blind", "stuck", "publish", "unindex", "retain", "drop",
            "dropref", "op", "unref", "push", "index", "bump", "ref", "bumpglobal", "reindex",
            "clone", "hit"} \subseteq Pcs
    BY DEF Pcs, StepsOf, LocalKinds, PeerKinds
  <1>3. ASSUME Advance(t) PROVE Work(t)' < Work(t)
    BY <1>1, <1>3, AdvanceShrinks
  <1>4. ASSUME NEW step \in Pcs, Goto(t, step), StepsLeft(step) < StepsLeft(pc[t])
        PROVE  Work(t)' < Work(t)
    BY <1>4, LaterStepShrinks DEF Goto
  <1> USE DEF At, StepsLeft
  <1>5. CASE InsertIntersect(t) \/ InsertBlind(t)
    BY <1>2, <1>3, <1>4, <1>5 DEF InsertIntersect, InsertBlind, AfterInsert
  <1>6. CASE InsertWedge(t) \/ InsertAbsent(t) \/ SearchStop(t) \/ LinkAbsent(t)
    BY <1>2, <1>4, <1>6 DEF InsertWedge, InsertAbsent, SearchStop, LinkAbsent
  <1>7. CASE SearchMatch(t)
    <2>1. Advance(t) \/ todo'[t] = Tail(todo[t])
      BY <1>7 DEF SearchMatch, TypeInv, TypeOK, TaskTypes
    <2> QED BY <1>1, <1>3, <2>1, ShorterLoopShrinks
  <1>8. CASE LinkReplica(t) \/ LinkNext(t) \/ Publish(t) \/ Hit(t)
    BY <1>3, <1>8 DEF LinkReplica, LinkNext, Publish, Hit
  <1>9. CASE Unindex(t) \/ RetainAbsent(t) \/ DropRef(t)
    BY <1>2, <1>4, <1>9 DEF Unindex, RetainAbsent, DropRef
  <1>10. CASE Retain(t)
    BY <1>2, <1>4, <1>10 DEF Retain, AfterRetain
  <1>11. CASE Drop(t) \/ PutOp(t) \/ Unref(t)
    BY <1>2, <1>3, <1>4, <1>11 DEF Drop, PutOp, Unref
  <1>12. CASE Push(t) \/ Index(t) \/ Ref(t) \/ Reindex(t)
    BY <1>2, <1>4, <1>12 DEF Push, Index, Ref, Reindex
  <1>13. CASE Bump(t) \/ BumpGlobal(t) \/ CloneAbsent(t)
    BY <1>2, <1>3, <1>4, <1>13 DEF Bump, BumpGlobal, CloneAbsent
  <1>14. CASE CloneToAdd(t)
    <2>1. pc' = [pc EXCEPT ![t] = "igk"] /\ todo' = todo /\ pc[t] = "clone"
      BY <1>14 DEF CloneToAdd
    <2>2. StepsLeft("igk") < StepsLeft(pc[t])
      BY <2>1
    <2> QED BY <1>2, <2>1, <2>2, LaterStepShrinks
  <1>15. CASE CloneToDelete(t)
    <2>1. PICK step \in {"drop", "igk"} : pc' = [pc EXCEPT ![t] = step]
      BY <1>15 DEF CloneToDelete
    <2>2. todo' = todo /\ pc[t] = "clone"
      BY <1>15 DEF CloneToDelete
    <2>3. step \in Pcs /\ StepsLeft(step) < StepsLeft(pc[t])
      BY <1>2, <2>1, <2>2
    <2> QED BY <2>1, <2>2, <2>3, LaterStepShrinks
  <1> QED BY <1>5, <1>6, <1>7, <1>8, <1>9, <1>10, <1>11, <1>12, <1>13, <1>14, <1>15 DEF Step

WorkStep ==
    \A t \in Task : ~At(t, "idle") =>
        Work(t)' <= Work(t) /\ (Step(t) => Work(t)' < Work(t))

LEMMA WorkSteps ==
    ASSUME TypeInv, TypeInv', [Next]_vars
    PROVE  WorkStep
  <1> SUFFICES ASSUME NEW t \in Task, ~At(t, "idle")
               PROVE  Work(t)' <= Work(t) /\ (Step(t) => Work(t)' < Work(t))
    BY DEF WorkStep
  <1>1. Work(t) \in Nat /\ Work(t)' \in Nat
    <2>1. /\ Len(todo[t]) \in Nat /\ Len(todo'[t]) \in Nat
          /\ StepsLeft(pc[t]) \in 0 .. 7 /\ StepsLeft(pc'[t]) \in 0 .. 7
      BY StepsLeftTypes DEF TypeInv, TypeOK, TaskTypes
    <2> QED BY <2>1, WorkOrder DEF Work
  <1>2. Step(t) => Work(t)' < Work(t)
    BY StepShrinks
  <1>3. ~Accept(t)
    BY DEF Accept, AcceptUpload, AcceptBatch, AcceptUpdate
  <1>4. ASSUME NEW u \in Task, u # t, Accept(u) \/ Step(u) PROVE Work(t)' = Work(t)
    BY <1>4, OthersUndisturbed DEF Undisturbed, Work
  <1>5. UNCHANGED vars => Work(t)' = Work(t)
    BY DEF vars, taskVars, Work
  <1> QED BY <1>1, <1>2, <1>3, <1>4, <1>5 DEF Next

(* For any tasks, blocks and requests, every step of a handler leaves it   *)
(* with less to do and no step of another one adds to it: a request of n   *)
(* iterations that is never barred from a shard is over after at most      *)
(* 8 n + 7 steps (lib.rs:303-876, remove_kvmeta.rs:28-110).                *)
THEOREM WorkAlwaysShrinks == Spec => WorkShrinks
  <1>1. TypeInv /\ TypeInv' /\ [Next]_vars => WorkStep
    BY WorkSteps
  <1> QED BY <1>1, TypeInvariance, PTL DEF Spec, WorkShrinks, WorkStep

-----------------------------------------------------------------------------
(* The directory implements ReplicaRegistry.                               *)

(* The lists of the other blocks stay as they are.                         *)
LEMMA OneBlockListed ==
    ASSUME NEW h \in Hash, \A g \in Hash : g # h => table'[g] = table[g]
    PROVE  Registry!Lists(h, ServersOf(table', h))
  <1>1. \A g \in Hash : Listed'[g] = [Listed EXCEPT ![h] = ServersOf(table', h)][g]
    BY DEF Listed, ServersOf
  <1>2. /\ Listed' = [g \in Hash |-> Listed'[g]]
        /\ [Listed EXCEPT ![h] = ServersOf(table', h)]
              = [g \in Hash |-> [Listed EXCEPT ![h] = ServersOf(table', h)][g]]
    BY DEF Listed
  <1> QED BY <1>1, <1>2 DEF Registry!Lists

(* What a step has to show of the block it works on.                       *)
Explained(h, s) ==
    LET before == ServersOf(table, h)
        after  == ServersOf(table', h)
        back   == { r \in ServerId : r \in claims'[h] \/ h \in raced' }
    IN  \/ Claim(h, s) /\ after \in {before, before \union {s}, {s}}
        \/ /\ Retract(h, s)
           /\ s \notin after
           /\ after \subseteq before \/ after \subseteq back
        \/ /\ UNCHANGED <<claims, raced>>
           /\ after \subseteq before \/ after \subseteq back

LEMMA ExplainedMaps ==
    ASSUME NEW h \in Hash, NEW s \in ServerId, Explained(h, s),
           \A g \in Hash : g # h => table'[g] = table[g]
    PROVE  Registry!Next
  <1> DEFINE before == ServersOf(table, h)
             after  == ServersOf(table', h)
             back   == { r \in ServerId : r \in claims'[h] \/ h \in raced' }
  <1>1. Registry!Lists(h, after) /\ Listed[h] = before
    BY OneBlockListed DEF Listed
  <1>2. Registry!Reinstated(h) = back
    BY DEF Registry!Reinstated
  <1>3. CASE Claim(h, s) /\ after \in {before, before \union {s}, {s}}
    <2>1. Registry!Claim(h, s)
      BY <1>1, <1>3 DEF Claim, Registry!Claim
    <2> QED BY <2>1 DEF Registry!Next
  <1>4. CASE Retract(h, s) /\ s \notin after /\ (after \subseteq before \/ after \subseteq back)
    <2>1. after \in (SUBSET (before \ {s})) \union (SUBSET (back \ {s}))
      <3> HIDE DEF before, after, back
      <3> QED BY <1>4
    <2>2. raced' \in {raced, raced \union {h}} /\ claims' = [claims EXCEPT ![h] = @ \ {s}]
      BY <1>4 DEF Retract
    <2>3. Registry!Withdraw(h, s)
      BY <1>1, <1>2, <2>1, <2>2 DEF Registry!Withdraw
    <2> QED BY <2>3 DEF Registry!Next
  <1>5. CASE UNCHANGED <<claims, raced>> /\ (after \subseteq before \/ after \subseteq back)
    <2>1. after \in (SUBSET before) \union (SUBSET back)
      <3> HIDE DEF before, after, back
      <3> QED BY <1>5
    <2>2. Registry!Rewrite(h)
      BY <1>1, <1>2, <1>5, <2>1 DEF Registry!Rewrite
    <2> QED BY <2>2 DEF Registry!Next
  <1> QED BY <1>3, <1>4, <1>5 DEF Explained

(* The insertion of a clone brings back only servers that claim the block, *)
(* or anybody on a raced block, and never the server it deletes.           *)
LEMMA CloneExplained ==
    ASSUME ClaimInv, NEW t \in Task, HasClone(t), HistoryOfInsert(t),
           ServersOf(table', HashOf(t)) \subseteq clone[t].servers
    PROVE  Explained(HashOf(t), SrvOf(t))
  <1> DEFINE h == HashOf(t)
             s == SrvOf(t)
             after == ServersOf(table', h)
  <1>1. h \in Hash /\ s \in ServerId /\ clone[t].servers \subseteq ServerId
    BY JobTypes DEF ClaimInv, TypeInv, TypeOK, ClonesReady, CloneReady, HasClone, HoldsClone,
                    At, KvBlockMeta
  <1>2. h \notin raced => clone[t].servers \subseteq claims[h]
    BY DEF ClaimInv, ClonesClaimed, CloneClaimed
  <1>3. CASE KindOf(t) = "add"
    <2>1. UNCHANGED <<claims, raced>>
      BY <1>3 DEF HistoryOfInsert
    <2> QED BY <1>1, <1>2, <2>1 DEF Explained
  <1>4. CASE KindOf(t) = "del"
    <2>1. Retract(h, s) /\ s \notin after
      BY <1>4 DEF HistoryOfInsert, ClaimInv, ClonesClaimed, CloneClaimed
    <2>2. claims'[h] = claims[h] \ {s} /\ raced \subseteq raced'
      BY <1>1, <2>1, ClaimsShrink DEF ClaimInv
    <2> QED BY <1>1, <1>2, <2>1, <2>2 DEF Explained
  <1> QED BY <1>3, <1>4 DEF HasClone

LEMMA InsertExplained ==
    ASSUME ClaimInv, NEW t \in Task, InsertIntersect(t) \/ InsertBlind(t)
    PROVE  Explained(HashOf(t), SrvOf(t))
  <1> DEFINE h == HashOf(t)
             s == SrvOf(t)
  <1>1. h \in Hash /\ s \in ServerId /\ table \in BlockTable /\ table' \in BlockTable
    BY WriterTypes DEF ClaimInv, Writes
  <1>2. /\ KindOf(t) \in {"block", "meta", "add", "del"} /\ HoldsClone(t)
        /\ HistoryOfInsert(t) /\ InHand(t) \in KvBlockMeta
    BY KindAt, InHandTypes DEF InsertIntersect, InsertBlind, HoldsClone, At,
       ClaimInv, TypeInv, TypeOK
  <1>3. ServersOf(table', h) # {} /\ ServersOf(table', h) \subseteq InHand(t).servers
    <2>1. CASE InsertIntersect(t)
      <3>1. /\ table'[h] = Intersection(table[h], InHand(t)) /\ Shared(t) # {}
            /\ table[h] \in KvBlockMeta
        BY <1>1, <2>1 DEF InsertIntersect, BlockTable
      <3>2. Intersection(table[h], InHand(t)) \in KvBlockMeta
        BY <1>2, <3>1 DEF Intersection, KvBlockMeta
      <3>3. table'[h].servers = Shared(t) /\ table'[h] # NoMeta
        BY <3>1, <3>2, NoMetaAssumption DEF Shared
      <3>4. Shared(t) \subseteq InHand(t).servers
        BY <1>2, <3>1 DEF Shared, Intersection, KvBlockMeta
      <3> QED BY <3>1, <3>3, <3>4 DEF ServersOf
    <2>2. CASE InsertBlind(t)
      BY <1>1, <1>2, <2>2, InHandTypes DEF InsertBlind, BlockTable, ServersOf, ClaimInv
    <2> QED BY <2>1, <2>2
  <1>4. CASE KindOf(t) \in {"block", "meta"}
    <2>1. InHand(t).servers = {s} /\ Claim(h, s)
      BY <1>2, <1>4 DEF InHand, NewBlock, HistoryOfInsert
    <2>2. ServersOf(table', h) = {s}
      BY <1>3, <2>1
    <2> QED BY <2>1, <2>2 DEF Explained
  <1>5. CASE KindOf(t) \in {"add", "del"}
    <2>1. InHand(t) = clone[t] /\ HasClone(t)
      BY <1>2, <1>5 DEF InHand, HasClone
    <2> QED BY <1>2, <1>3, <2>1, CloneExplained
  <1> QED BY <1>2, <1>4, <1>5

(* The other writes change the list under one guard.                       *)
LEMMA EditExplained ==
    ASSUME ClaimInv, NEW t \in Task,
           LinkReplica(t) \/ LinkNext(t) \/ Push(t) \/ Retain(t) \/ Drop(t)
    PROVE  Explained(HashOf(t), SrvOf(t))
  <1> DEFINE h == HashOf(t)
             s == SrvOf(t)
  <1>1. /\ h \in Hash /\ s \in ServerId /\ table \in BlockTable /\ table' \in BlockTable
        /\ ~At(t, "idle")
    BY WriterTypes DEF ClaimInv, Writes
  <1>2. Current(t).next \subseteq Hash
    BY <1>1, JobTypes DEF ClaimInv, TypeInv, TypeOK
  <1>3. ASSUME NEW meta \in KvBlockMeta, table'[h] = meta
        PROVE  ServersOf(table', h) = meta.servers
    BY <1>3, NoMetaAssumption DEF ServersOf
  <1>4. table[h] # NoMeta => table[h] \in KvBlockMeta /\ ServersOf(table, h) = table[h].servers
    BY <1>1 DEF BlockTable, ServersOf
  <1>5. CASE LinkReplica(t)
    <2> DEFINE more == WithServer(table[h], s)
    <2>1. table[h] # NoMeta /\ Claim(h, s) /\ table'[h] = WithNext(more, Current(t).next)
      BY <1>1, <1>5 DEF LinkReplica, BlockTable
    <2>2. more \in KvBlockMeta /\ more.servers = table[h].servers \union {s}
      BY <1>1, <1>4, <2>1 DEF WithServer, KvBlockMeta
    <2>3. /\ WithNext(more, Current(t).next) \in KvBlockMeta
          /\ WithNext(more, Current(t).next).servers = more.servers
      BY <1>2, <2>2 DEF WithNext, KvBlockMeta
    <2>4. ServersOf(table', h) = ServersOf(table, h) \union {s}
      BY <1>3, <1>4, <2>1, <2>2, <2>3
    <2> QED BY <2>1, <2>4 DEF Explained
  <1>6. CASE LinkNext(t)
    <2>1. table[h] # NoMeta /\ Claim(h, s) /\ table'[h] = WithNext(table[h], Current(t).next)
      BY <1>1, <1>6 DEF LinkNext, BlockTable
    <2>2. /\ WithNext(table[h], Current(t).next) \in KvBlockMeta
          /\ WithNext(table[h], Current(t).next).servers = table[h].servers
      BY <1>2, <1>4, <2>1 DEF WithNext, KvBlockMeta
    <2>3. ServersOf(table', h) = ServersOf(table, h)
      BY <1>3, <1>4, <2>1, <2>2
    <2> QED BY <2>1, <2>3 DEF Explained
  <1>7. CASE Push(t)
    <2>1. Claim(h, s)
      BY <1>7 DEF Push
    <2>2. CASE table[h] = NoMeta
      <3>1. ServersOf(table', h) = ServersOf(table, h)
        BY <1>7, <2>2 DEF Push
      <3> QED BY <2>1, <3>1 DEF Explained
    <2>3. CASE table[h] # NoMeta
      <3>1. table'[h] = WithServer(table[h], s)
        BY <1>1, <1>7, <2>3 DEF Push, BlockTable
      <3>2. /\ WithServer(table[h], s) \in KvBlockMeta
            /\ WithServer(table[h], s).servers = table[h].servers \union {s}
        BY <1>1, <1>4, <2>3 DEF WithServer, KvBlockMeta
      <3>3. ServersOf(table', h) = ServersOf(table, h) \union {s}
        BY <1>3, <1>4, <2>3, <3>1, <3>2
      <3> QED BY <2>1, <3>3 DEF Explained
    <2> QED BY <2>2, <2>3
  <1>8. CASE Retain(t)
    <2>1. table[h] # NoMeta /\ Retract(h, s) /\ table'[h] = WithoutServer(table[h], s)
      BY <1>1, <1>8 DEF Retain, Retained, BlockTable
    <2>2. /\ WithoutServer(table[h], s) \in KvBlockMeta
          /\ WithoutServer(table[h], s).servers = table[h].servers \ {s}
      BY <1>4, <2>1 DEF WithoutServer, KvBlockMeta
    <2>3. ServersOf(table', h) = ServersOf(table, h) \ {s}
      BY <1>3, <1>4, <2>1, <2>2
    <2> QED BY <2>1, <2>3 DEF Explained
  <1>9. CASE Drop(t)
    <2>1. ServersOf(table', h) = {}
      BY <1>1, <1>9 DEF Drop, BlockTable, ServersOf
    <2>2. Retract(h, s) \/ UNCHANGED <<claims, raced>>
      BY <1>9 DEF Drop
    <2> QED BY <2>1, <2>2 DEF Explained
  <1> QED BY <1>5, <1>6, <1>7, <1>8, <1>9

(* A step that leaves the table alone withdraws a server only from a block *)
(* that is not there.                                                      *)
LEMMA QuietExplained ==
    ASSUME ClaimInv, NEW t \in Task, Step(t), ~Writes(t)
    PROVE  Explained(HashOf(t), SrvOf(t))
  <1>1. table' = table
    BY TableSteps
  <1>2. CASE CloneToAdd(t)
    <2>1. Claim(HashOf(t), SrvOf(t))
      BY <1>2 DEF CloneToAdd
    <2> QED BY <1>1, <2>1 DEF Explained
  <1>3. CASE RetainAbsent(t) \/ CloneAbsent(t)
    <2>1. ServersOf(table, HashOf(t)) = {}
      BY <1>3 DEF RetainAbsent, CloneAbsent, ServersOf
    <2>2. Retract(HashOf(t), SrvOf(t)) \/ UNCHANGED <<claims, raced>>
      BY <1>3 DEF RetainAbsent, CloneAbsent
    <2> QED BY <1>1, <2>1, <2>2 DEF Explained
  <1>4. CASE ~CloneToAdd(t) /\ ~RetainAbsent(t) /\ ~CloneAbsent(t)
    <2>1. UNCHANGED <<claims, raced>>
      BY <1>4 DEF Step, Writes, InsertWedge, InsertAbsent, SearchMatch, SearchStop, LinkAbsent,
         Publish, Hit, Unindex, DropRef, PutOp, Unref, Index, Bump, Ref, BumpGlobal, Reindex,
         CloneToDelete, dirVars
    <2> QED BY <1>1, <2>1 DEF Explained
  <1> QED BY <1>2, <1>3, <1>4

LEMMA StepMaps ==
    ASSUME ClaimInv, NEW t \in Task, Step(t)
    PROVE  Registry!Next
  <1>1. ~At(t, "idle")
    BY DEF Step, At, InsertIntersect, InsertWedge, InsertAbsent, InsertBlind,
       SearchMatch, SearchStop, LinkReplica, LinkNext, LinkAbsent, Publish, Hit,
       Unindex, Retain, RetainAbsent, Drop, DropRef, PutOp, Unref, Push, Index, Bump,
       Ref, BumpGlobal, Reindex, CloneAbsent, CloneToAdd, CloneToDelete
  <1>2. HashOf(t) \in Hash /\ SrvOf(t) \in ServerId
    BY <1>1, JobTypes DEF ClaimInv, TypeInv, TypeOK
  <1>3. Explained(HashOf(t), SrvOf(t))
    BY InsertExplained, EditExplained, QuietExplained DEF Writes
  <1>4. \A g \in Hash : g # HashOf(t) => table'[g] = table[g]
    <2>1. CASE Writes(t)
      BY <2>1, WriterTypes DEF ClaimInv
    <2>2. CASE ~Writes(t)
      BY <2>2, TableSteps
    <2> QED BY <2>1, <2>2
  <1> QED BY <1>2, <1>3, <1>4, ExplainedMaps

LEMMA NextMaps ==
    ASSUME ClaimInv, [Next]_vars
    PROVE  [Registry!Next]_(Registry!vars)
  <1>1. CASE UNCHANGED dirVars
    BY <1>1 DEF dirVars, Registry!vars, Listed, ServersOf
  <1>2. ASSUME NEW t \in Task, Accept(t)
        PROVE  UNCHANGED dirVars
    BY <1>2 DEF Accept, AcceptUpload, AcceptBatch, AcceptUpdate
  <1> QED BY <1>1, <1>2, StepMaps DEF Next, vars

(* Tasks, clones, double lookups and shard locks amount to single claims,  *)
(* withdrawals and rewrites of one block each: the block directory         *)
(* implements ReplicaRegistry (lib.rs:303-876, remove_kvmeta.rs:28-110).   *)
THEOREM RegistryImplemented == Spec => ImplementsRegistry
  <1>1. Init => Registry!Init
    BY DEF Init, Registry!Init, Listed, NoBlocks, ServersOf
  <1>2. ClaimInv /\ [Next]_vars => [Registry!Next]_(Registry!vars)
    BY NextMaps
  <1> QED BY <1>1, <1>2, ClaimInvariance, PTL DEF Spec, ImplementsRegistry, Registry!Spec
=============================================================================
