--------------------------- MODULE BlockDirectory ---------------------------
(***************************************************************************)
(* The block directory of one metadata server: the RPC handlers that write *)
(* global_kvcache_table, and the tables they write along with it.          *)
(*                                                                         *)
(* Handlers run concurrently on a multi-threaded runtime and share the     *)
(* tables through DashMaps, whose locks are taken per call.  A step here   *)
(* is one critical section: one guard on global_kvcache_table, one write   *)
(* guard on local_kv_index, one entry of a queue or of a counter.  Every   *)
(* handler is a loop over block hashes; a task holds the iterations still  *)
(* to do (todo), the step the current one is at (pc) and the block         *)
(* metadata it has cloned out of the table (clone).                        *)
(*                                                                         *)
(* Reference counts are kept as the sets of hashes that have one: no step  *)
(* looks at the numbers, and two counters of one hash that a call writes   *)
(* one after the other are written in one step.                            *)
(*                                                                         *)
(* The synchronisation that empties the two queues is not part of this     *)
(* module: a queue here tells whether a block was ever queued.             *)
(***************************************************************************)
EXTENDS KvBlocks, FiniteSets

CONSTANTS
    Task,         \* handler invocations that may run at the same time
    Shard,        \* [Hash -> shard of global_kvcache_table]
    Self,         \* hash_id() of this metadata server
    Chains,       \* hash sequences of the token sequences uploaded
    Batches,      \* hash lists of removals and of migrations
    PeerUpdates,  \* contents of UpdateKvMeta requests, as Seq(Job)
    MaxRequests   \* bound on the requests accepted in a behaviour

VARIABLES
    table,        \* global_kvcache_table
    updMeta,      \* update_kvmeta_table
    updOp,        \* update_kvop_table
    index,        \* local_kv_index
    count,        \* local_kv_cache_block_count
    incrRefs,     \* keys of ref_count.local_incremental_count
    localRefs,    \* keys of ref_count.local_ref_counts
    globalRefs,   \* keys of ref_count.global_ref_counts
    pc,           \* [Task -> the step its current iteration is at]
    todo,         \* [Task -> iterations still to do, the current one first]
    clone,        \* [Task -> metadata cloned by execute_update_kvop]
    accepted,     \* requests accepted so far
    claims,       \* history: [Hash -> servers that last claimed the block]
    raced         \* history: blocks retracted while an older clone was held

dirVars   == <<table, claims, raced>>
queueVars == <<updMeta, updOp>>
indexVars == <<index, count>>
refVars   == <<incrRefs, localRefs, globalRefs>>
taskVars  == <<pc, todo, clone, accepted>>
vars == <<dirVars, queueVars, indexVars, refVars, taskVars>>

-----------------------------------------------------------------------------
(* Iterations.                                                             *)

LocalKinds == {"block", "hit", "remove", "migrated", "missing"}
PeerKinds  == {"meta", "ref", "add", "del"}

Job == [kind : LocalKinds \union PeerKinds, hash : Hash, srv : ServerId,
        next : SUBSET Hash]

(* A peer announces its own servers' new blocks; its replica operations    *)
(* may name any server, since migrations cross domains both ways.          *)
PeerJob == { job \in Job : /\ job.kind \in PeerKinds
                           /\ job.kind \in {"meta", "ref"} => job.srv \in PeerServer }

(* UpdateKvOp: 1 adds a replica, 2 deletes one.                            *)
UpdateKvOp == [operation : {1, 2}, srv : ServerId]

NoOp == [operation |-> 0, srv |-> Self]

ASSUME DirectoryAssumption ==
    /\ Self \in MetaServer
    /\ Chains \subseteq Seq(Hash) \ {<<>>}
    /\ Batches \subseteq Seq(Hash) \ {<<>>}
    /\ PeerUpdates \subseteq Seq(PeerJob) \ {<<>>}
    /\ LocalServer \intersect (PeerServer \union MetaServer) = {}
    /\ MaxRequests \in Nat

(* Some peer says that a server holds a block.                             *)
ToldByPeers(h, s) ==
    \E jobs \in PeerUpdates : \E i \in 1 .. Len(jobs) :
        jobs[i].kind = "add" /\ jobs[i].hash = h /\ jobs[i].srv = s

(* The servers of this domain that no peer knows to hold the block unless  *)
(* this metadata server tells it.                                          *)
OwnServers(h) == { s \in LocalServer : ~ToldByPeers(h, s) }

(* The iterations of a loop over hashes; an iteration of                   *)
(* create_new_kvblock also knows the block that follows.                   *)
BlockJobs(s, chain) ==
    [i \in 1 .. Len(chain) |->
        [kind |-> "block", hash |-> chain[i], srv |-> s,
         next |-> IF i < Len(chain) THEN {chain[i + 1]} ELSE {}]]

Jobs(kind, s, hashes) ==
    [i \in 1 .. Len(hashes) |->
        [kind |-> kind, hash |-> hashes[i], srv |-> s, next |-> {}]]

(* The first step of an iteration.                                         *)
Start(kind) ==
    CASE kind = "block"    -> "link"
      [] kind = "hit"      -> "hit"
      [] kind = "remove"   -> "unindex"
      [] kind = "migrated" -> "push"
      [] kind = "missing"  -> "retain"
      [] kind = "meta"     -> "igk"
      [] kind = "ref"      -> "ref"
      [] kind = "add"      -> "reindex"
      [] kind = "del"      -> "reindex"

(* The steps an iteration goes through.                                    *)
StepsOf(kind) ==
    CASE kind = "block"    -> {"search", "link", "igk", "blind", "stuck", "publish"}
      [] kind = "hit"      -> {"hit"}
      [] kind = "remove"   -> {"unindex", "retain", "drop", "dropref", "op", "unref"}
      [] kind = "migrated" -> {"push", "index", "bump", "op"}
      [] kind = "missing"  -> {"retain", "drop", "op"}
      [] kind = "meta"     -> {"igk", "blind", "stuck"}
      [] kind = "ref"      -> {"ref", "bump", "bumpglobal"}
      [] kind = "add"      -> {"reindex", "clone", "igk", "blind", "stuck"}
      [] kind = "del"      -> {"reindex", "clone", "igk", "blind", "stuck", "drop"}

Current(t) == Head(todo[t])
HashOf(t)  == Current(t).hash
SrvOf(t)   == Current(t).srv
KindOf(t)  == Current(t).kind

(* The metadata a task hands to insert_global_kvcache: its own for a new   *)
(* or a received block, the clone it edited for a replica operation.       *)
InHand(t) ==
    IF KindOf(t) \in {"block", "meta"}
    THEN NewBlock(SrvOf(t), Current(t).next)
    ELSE clone[t]

(* remove called under the guard of get_mut waits for the shard that guard *)
(* holds, so the task keeps the shard for ever.                            *)
Wedged(t) == pc[t] = "stuck"

Locked(h) == \E t \in Task : Wedged(t) /\ Shard[HashOf(t)] = Shard[h]

-----------------------------------------------------------------------------
(* Moving from step to step.                                               *)

At(t, step) == pc[t] = step

Goto(t, step) ==
    /\ pc' = [pc EXCEPT ![t] = step]
    /\ UNCHANGED <<todo, clone, accepted>>

(* A wrong loop that never gets to the next hash.                          *)
RemainingSame(jobs) == IF Len(jobs) > 1 THEN Tail(jobs) ELSE jobs

Remaining(jobs) == Tail(jobs)

FirstStep(jobs) == IF jobs = <<>> THEN "idle" ELSE Start(Head(jobs).kind)

(* The iteration ends; the loop goes on, or the handler returns.           *)
Advance(t) ==
    /\ todo'  = [todo EXCEPT ![t] = Remaining(@)]
    /\ pc'    = [pc EXCEPT ![t] = FirstStep(Remaining(todo[t]))]
    /\ clone' = [clone EXCEPT ![t] = NoMeta]
    /\ UNCHANGED accepted

(* History: which servers' last word on a block was that they hold it.     *)
Claim(h, s) ==
    /\ claims' = [claims EXCEPT ![h] = @ \union {s}]
    /\ UNCHANGED raced

HoldsClone(t) == At(t, "igk") \/ At(t, "blind")

StaleClone(h, s) ==
    \E t \in Task : /\ HoldsClone(t)
                    /\ KindOf(t) \in {"add", "del"}
                    /\ HashOf(t) = h
                    /\ s \in clone[t].servers

Retract(h, s) ==
    /\ claims' = [claims EXCEPT ![h] = @ \ {s}]
    /\ raced' = IF StaleClone(h, s) THEN raced \union {h} ELSE raced

-----------------------------------------------------------------------------
(* The queues of what the next synchronisation tells the peers.            *)

(* A wrong put that only refreshes an entry that is already there.         *)
put_if_present(queue, h, item) ==
    IF queue[h] = NoMeta THEN queue ELSE [queue EXCEPT ![h] = item]

insert_update_kvcache(queue, h, item) == [queue EXCEPT ![h] = item]

insert_update_kvop(h, operation, s) ==
    updOp' = [updOp EXCEPT ![h] = [operation |-> operation, srv |-> s]]

-----------------------------------------------------------------------------
(* local_kv_cache_block_count.                                             *)

add_one(s) == [count EXCEPT ![s] = @ + 1]

(* A decrement that does not look whether there is anything to take.       *)
unchecked_sub(n) == n - 1

checked_sub(n) == IF n = 0 THEN 0 ELSE n - 1

(* A wrong removal that counts down whether or not the index had the block.*)
CountRemoval(s, h) == [count EXCEPT ![s] = checked_sub(@)]

CountAfterRemoval(s, h) ==
    IF h \in index THEN [count EXCEPT ![s] = checked_sub(@)] ELSE count

(* A wrong insertion that counts the block in the other branch.            *)
CountKnown(s, h) == IF h \in index THEN add_one(s) ELSE count

CountAfterInsert(s, h) == IF h \in index THEN count ELSE add_one(s)

-----------------------------------------------------------------------------
(* insert_global_kvcache(InHand(t)).                                       *)

AfterInsert(t) == IF KindOf(t) = "block" THEN Goto(t, "publish") ELSE Advance(t)

HistoryOfInsert(t) ==
    CASE KindOf(t) \in {"block", "meta"} -> Claim(HashOf(t), SrvOf(t))
      [] KindOf(t) = "del" -> Retract(HashOf(t), SrvOf(t))
      [] KindOf(t) = "add" -> UNCHANGED <<claims, raced>>

Shared(t) ==
    Intersection(table[HashOf(t)], InHand(t)).servers

(* The block is there and some server is listed on both sides.             *)
InsertIntersect(t) ==
    /\ At(t, "igk")
    /\ ~Locked(HashOf(t))
    /\ table[HashOf(t)] # NoMeta
    /\ Shared(t) # {}
    /\ table' = [table EXCEPT ![HashOf(t)] = Intersection(@, InHand(t))]
    /\ HistoryOfInsert(t)
    /\ AfterInsert(t)
    /\ UNCHANGED <<queueVars, indexVars, refVars>>

(* No server is listed on both sides: the entry is to be removed, under    *)
(* the guard that get_mut returned.                                        *)
InsertWedge(t) ==
    /\ At(t, "igk")
    /\ ~Locked(HashOf(t))
    /\ table[HashOf(t)] # NoMeta
    /\ Shared(t) = {}
    /\ Goto(t, "stuck")
    /\ UNCHANGED <<dirVars, queueVars, indexVars, refVars>>

(* get_mut finds nothing and lets go of the shard ...                      *)
InsertAbsent(t) ==
    /\ At(t, "igk")
    /\ ~Locked(HashOf(t))
    /\ table[HashOf(t)] = NoMeta
    /\ Goto(t, "blind")
    /\ UNCHANGED <<dirVars, queueVars, indexVars, refVars>>

(* ... and insert writes whatever is there by then.                        *)
InsertBlind(t) ==
    /\ At(t, "blind")
    /\ ~Locked(HashOf(t))
    /\ table' = [table EXCEPT ![HashOf(t)] = InHand(t)]
    /\ HistoryOfInsert(t)
    /\ AfterInsert(t)
    /\ UNCHANGED <<queueVars, indexVars, refVars>>

-----------------------------------------------------------------------------
(* UploadKvMeta: create_new_kvblock, then a reference on every block.      *)

AcceptUpload(t, s, chain) ==
    /\ At(t, "idle")
    /\ accepted < MaxRequests
    /\ todo' = [todo EXCEPT ![t] = BlockJobs(s, chain) \o Jobs("hit", s, chain)]
    /\ pc' = [pc EXCEPT ![t] = "search"]
    /\ accepted' = accepted + 1
    /\ UNCHANGED <<clone, dirVars, queueVars, indexVars, refVars>>

(* search_tokens_with_server reads one block of the prefix at a time.      *)
SearchMatch(t) ==
    LET h == HashOf(t)
        linked == Current(t).next # {} /\ Current(t).next \subseteq NextOf(table, h)
    IN  /\ At(t, "search")
        /\ ~Locked(h)
        /\ SrvOf(t) \in ServersOf(table, h)
        /\ IF linked
           THEN /\ todo' = [todo EXCEPT ![t] = Tail(@)]
                /\ UNCHANGED <<pc, clone, accepted>>
           ELSE Advance(t)
        /\ UNCHANGED <<dirVars, queueVars, indexVars, refVars>>

SearchStop(t) ==
    /\ At(t, "search")
    /\ ~Locked(HashOf(t))
    /\ SrvOf(t) \notin ServersOf(table, HashOf(t))
    /\ Goto(t, "link")
    /\ UNCHANGED <<dirVars, queueVars, indexVars, refVars>>

(* The block exists without this server: one more replica.                 *)
LinkReplica(t) ==
    LET h == HashOf(t)  s == SrvOf(t)
    IN  /\ At(t, "link")
        /\ ~Locked(h)
        /\ table[h] # NoMeta
        /\ s \notin table[h].servers
        /\ table' = [table EXCEPT ![h] = WithNext(WithServer(@, s), Current(t).next)]
        /\ count' = add_one(s)
        /\ insert_update_kvop(h, 1, s)
        /\ Claim(h, s)
        /\ Advance(t)
        /\ UNCHANGED <<updMeta, index, refVars>>

(* The block exists with this server: only its links may change.           *)
LinkNext(t) ==
    LET h == HashOf(t)
    IN  /\ At(t, "link")
        /\ ~Locked(h)
        /\ table[h] # NoMeta
        /\ SrvOf(t) \in table[h].servers
        /\ table' = [table EXCEPT ![h] = WithNext(@, Current(t).next)]
        /\ Claim(h, SrvOf(t))
        /\ Advance(t)
        /\ UNCHANGED <<queueVars, indexVars, refVars>>

(* The block does not exist: count it and go on to insert it.              *)
LinkAbsent(t) ==
    /\ At(t, "link")
    /\ ~Locked(HashOf(t))
    /\ table[HashOf(t)] = NoMeta
    /\ count' = add_one(SrvOf(t))
    /\ Goto(t, "igk")
    /\ UNCHANGED <<dirVars, queueVars, index, refVars>>

(* insert_update_kvcache(new_meta)                                         *)
Publish(t) ==
    /\ At(t, "publish")
    /\ updMeta' = insert_update_kvcache(updMeta, HashOf(t), InHand(t))
    /\ Advance(t)
    /\ UNCHANGED <<dirVars, updOp, indexVars, refVars>>

(* batch_increment_local_incremental_count, one hash.                      *)
Hit(t) ==
    /\ At(t, "hit")
    /\ incrRefs' = incrRefs \union {HashOf(t)}
    /\ globalRefs' = globalRefs \union {HashOf(t)}
    /\ Advance(t)
    /\ UNCHANGED <<dirVars, queueVars, indexVars, localRefs>>

-----------------------------------------------------------------------------
(* RemoveKvMeta, and what a migration does to the metadata: a block was    *)
(* copied to a server (update_kv_meta_after_migration), or turned out to   *)
(* be missing on one (remove_server_from_kv_meta).                         *)

AcceptBatch(t, kind, s, hashes) ==
    /\ At(t, "idle")
    /\ accepted < MaxRequests
    /\ todo' = [todo EXCEPT ![t] = Jobs(kind, s, hashes)]
    /\ pc' = [pc EXCEPT ![t] = Start(kind)]
    /\ accepted' = accepted + 1
    /\ UNCHANGED <<clone, dirVars, queueVars, indexVars, refVars>>

Unindex(t) ==
    /\ At(t, "unindex")
    /\ index' = index \ {HashOf(t)}
    /\ count' = CountAfterRemoval(SrvOf(t), HashOf(t))
    /\ Goto(t, "retain")
    /\ UNCHANGED <<dirVars, queueVars, refVars>>

(* A wrong removal that leaves an entry without replicas behind.           *)
AlwaysKeep(meta) == "op"

AfterRetain(meta) == IF meta.servers = {} THEN "drop" ELSE "op"

(* A wrong retain: it takes out everybody else.                            *)
OnlyServer(meta, s) == [meta EXCEPT !.servers = @ \intersect {s}]

Retained(meta, s) == WithoutServer(meta, s)

Retain(t) ==
    LET h == HashOf(t)  left == Retained(table[h], SrvOf(t))
    IN  /\ At(t, "retain")
        /\ ~Locked(h)
        /\ table[h] # NoMeta
        /\ table' = [table EXCEPT ![h] = left]
        /\ Retract(h, SrvOf(t))
        /\ Goto(t, AfterRetain(left))
        /\ UNCHANGED <<queueVars, indexVars, refVars>>

RetainAbsent(t) ==
    /\ At(t, "retain")
    /\ ~Locked(HashOf(t))
    /\ table[HashOf(t)] = NoMeta
    /\ Retract(HashOf(t), SrvOf(t))
    /\ Goto(t, "op")
    /\ UNCHANGED <<table, queueVars, indexVars, refVars>>

(* The guard is gone; the entry is removed whatever it lists by now.       *)
Drop(t) ==
    LET h == HashOf(t)
    IN  /\ At(t, "drop")
        /\ ~Locked(h)
        /\ table' = [table EXCEPT ![h] = NoMeta]
        /\ \/ KindOf(t) = "remove"  /\ Goto(t, "dropref") /\ UNCHANGED <<claims, raced>>
           \/ KindOf(t) = "missing" /\ Goto(t, "op") /\ UNCHANGED <<claims, raced>>
           \/ KindOf(t) = "del"     /\ Advance(t) /\ Retract(h, SrvOf(t))
        /\ UNCHANGED <<queueVars, indexVars, refVars>>

(* remove_global_ref_count                                                 *)
DropRef(t) ==
    /\ At(t, "dropref")
    /\ globalRefs' = globalRefs \ {HashOf(t)}
    /\ Goto(t, "op")
    /\ UNCHANGED <<dirVars, queueVars, indexVars, incrRefs, localRefs>>

(* The operation for the peers.  A removal names this metadata server.     *)
PutOp(t) ==
    LET h == HashOf(t)
    IN  /\ At(t, "op")
        /\ \/ KindOf(t) = "remove"   /\ insert_update_kvop(h, 2, Self) /\ Goto(t, "unref")
           \/ KindOf(t) = "missing"  /\ insert_update_kvop(h, 2, SrvOf(t)) /\ Advance(t)
           \/ KindOf(t) = "migrated" /\ insert_update_kvop(h, 1, SrvOf(t)) /\ Advance(t)
        /\ UNCHANGED <<dirVars, updMeta, indexVars, refVars>>

(* remove_local_ref_count                                                  *)
Unref(t) ==
    /\ At(t, "unref")
    /\ localRefs' = localRefs \ {HashOf(t)}
    /\ incrRefs' = incrRefs \ {HashOf(t)}
    /\ Advance(t)
    /\ UNCHANGED <<dirVars, queueVars, indexVars, globalRefs>>

(* The migrated block lists the target, if it is still known.              *)
Push(t) ==
    LET h == HashOf(t)
    IN  /\ At(t, "push")
        /\ ~Locked(h)
        /\ table' = IF table[h] = NoMeta THEN table
                    ELSE [table EXCEPT ![h] = WithServer(@, SrvOf(t))]
        /\ Claim(h, SrvOf(t))
        /\ Goto(t, "index")
        /\ UNCHANGED <<queueVars, indexVars, refVars>>

(* insert_local_kvcache                                                    *)
Index(t) ==
    /\ At(t, "index")
    /\ index' = index \union {HashOf(t)}
    /\ count' = CountAfterInsert(SrvOf(t), HashOf(t))
    /\ Goto(t, "bump")
    /\ UNCHANGED <<dirVars, queueVars, refVars>>

(* increment_local_ref_count                                               *)
Bump(t) ==
    /\ At(t, "bump")
    /\ localRefs' = localRefs \union {HashOf(t)}
    /\ \/ KindOf(t) = "migrated" /\ Goto(t, "op")
       \/ KindOf(t) = "ref" /\ Advance(t)
    /\ UNCHANGED <<dirVars, queueVars, indexVars, incrRefs, globalRefs>>

-----------------------------------------------------------------------------
(* UpdateKvMeta from a peer: its new blocks, its reference counts, its     *)
(* replica operations.                                                     *)

AcceptUpdate(t, jobs) ==
    /\ At(t, "idle")
    /\ accepted < MaxRequests
    /\ todo' = [todo EXCEPT ![t] = jobs]
    /\ pc' = [pc EXCEPT ![t] = FirstStep(jobs)]
    /\ accepted' = accepted + 1
    /\ UNCHANGED <<clone, dirVars, queueVars, indexVars, refVars>>

(* increment_global_ref_count asks first whether the count is a local one. *)
Ref(t) ==
    /\ At(t, "ref")
    /\ Goto(t, IF HashOf(t) \in localRefs THEN "bump" ELSE "bumpglobal")
    /\ UNCHANGED <<dirVars, queueVars, indexVars, refVars>>

BumpGlobal(t) ==
    /\ At(t, "bumpglobal")
    /\ globalRefs' = globalRefs \union {HashOf(t)}
    /\ Advance(t)
    /\ UNCHANGED <<dirVars, queueVars, indexVars, incrRefs, localRefs>>

(* execute_update_kvop starts with the index.                              *)
Reindex(t) ==
    LET h == HashOf(t)  s == SrvOf(t)
    IN  /\ At(t, "reindex")
        /\ \/ /\ KindOf(t) = "add"
              /\ index' = index \union {h}
              /\ count' = CountAfterInsert(s, h)
           \/ /\ KindOf(t) = "del"
              /\ index' = index \ {h}
              /\ count' = CountAfterRemoval(s, h)
        /\ Goto(t, "clone")
        /\ UNCHANGED <<dirVars, queueVars, refVars>>

CloneAbsent(t) ==
    LET h == HashOf(t)
    IN  /\ At(t, "clone")
        /\ ~Locked(h)
        /\ table[h] = NoMeta
        /\ IF KindOf(t) = "del" THEN Retract(h, SrvOf(t)) ELSE UNCHANGED <<claims, raced>>
        /\ Advance(t)
        /\ UNCHANGED <<table, queueVars, indexVars, refVars>>

CloneToAdd(t) ==
    LET h == HashOf(t)
    IN  /\ At(t, "clone")
        /\ ~Locked(h)
        /\ KindOf(t) = "add"
        /\ table[h] # NoMeta
        /\ clone' = [clone EXCEPT ![t] = WithServer(table[h], SrvOf(t))]
        /\ pc' = [pc EXCEPT ![t] = "igk"]
        /\ Claim(h, SrvOf(t))
        /\ UNCHANGED <<todo, accepted, table, queueVars, indexVars, refVars>>

CloneToDelete(t) ==
    LET h == HashOf(t)  left == WithoutServer(table[h], SrvOf(t))
    IN  /\ At(t, "clone")
        /\ ~Locked(h)
        /\ KindOf(t) = "del"
        /\ table[h] # NoMeta
        /\ clone' = [clone EXCEPT ![t] = left]
        /\ pc' = [pc EXCEPT ![t] = IF left.servers = {} THEN "drop" ELSE "igk"]
        /\ UNCHANGED <<todo, accepted, dirVars, queueVars, indexVars, refVars>>

-----------------------------------------------------------------------------
Init ==
    /\ table = NoBlocks
    /\ updMeta = NoBlocks
    /\ updOp = [h \in Hash |-> NoOp]
    /\ index = {}
    /\ count = [s \in ServerId |-> 0]
    /\ incrRefs = {} /\ localRefs = {} /\ globalRefs = {}
    /\ pc = [t \in Task |-> "idle"]
    /\ todo = [t \in Task |-> <<>>]
    /\ clone = [t \in Task |-> NoMeta]
    /\ accepted = 0
    /\ claims = [h \in Hash |-> {}]
    /\ raced = {}

Accept(t) ==
    \/ \E s \in LocalServer, chain \in Chains : AcceptUpload(t, s, chain)
    \/ \E s \in LocalServer, hs \in Batches : AcceptBatch(t, "remove", s, hs)
    \/ \E kind \in {"missing", "migrated"}, s \in DataServer, hs \in Batches :
          AcceptBatch(t, kind, s, hs)
    \/ \E jobs \in PeerUpdates : AcceptUpdate(t, jobs)

Step(t) ==
    \/ InsertIntersect(t) \/ InsertWedge(t) \/ InsertAbsent(t) \/ InsertBlind(t)
    \/ SearchMatch(t) \/ SearchStop(t)
    \/ LinkReplica(t) \/ LinkNext(t) \/ LinkAbsent(t) \/ Publish(t) \/ Hit(t)
    \/ Unindex(t) \/ Retain(t) \/ RetainAbsent(t) \/ Drop(t) \/ DropRef(t)
    \/ PutOp(t) \/ Unref(t) \/ Push(t) \/ Index(t) \/ Bump(t)
    \/ Ref(t) \/ BumpGlobal(t) \/ Reindex(t)
    \/ CloneAbsent(t) \/ CloneToAdd(t) \/ CloneToDelete(t)

Next == \E t \in Task : Accept(t) \/ Step(t)

Spec == Init /\ [][Next]_vars

(* The runtime keeps polling a handler that can go on, as long as it has a *)
(* worker thread left: a task that waits for a shard blocks one.  Requests *)
(* need not arrive.                                                        *)
FairSpec == Spec /\ \A t \in Task : WF_vars(Step(t))

-----------------------------------------------------------------------------
(* Types, and which step belongs to which iteration.                       *)

Pcs == UNION { StepsOf(kind) : kind \in LocalKinds \union PeerKinds }

TableTypes ==
    /\ table \in BlockTable
    /\ claims \in [Hash -> SUBSET ServerId]
    /\ raced \subseteq Hash

QueueTypes ==
    /\ updMeta \in BlockTable
    /\ updOp \in [Hash -> UpdateKvOp \union {NoOp}]

IndexTypes ==
    /\ index \subseteq Hash
    /\ count \in [ServerId -> Nat]

RefTypes == incrRefs \subseteq Hash /\ localRefs \subseteq Hash /\ globalRefs \subseteq Hash

(* A local iteration is about a data server.  What a peer sends about a    *)
(* server of this domain is a replica operation.                           *)
JobSource(job) ==
    IF job.kind \in PeerKinds
    THEN job.srv \in LocalServer =>
            \/ job.kind = "del"
            \/ job.kind = "add" /\ job.srv \notin OwnServers(job.hash)
    ELSE job.srv \in DataServer

(* A block of a chain that is not the last one is followed by a block.     *)
JobsOk(jobs) ==
    /\ jobs \in Seq(Job)
    /\ \A i \in 1 .. Len(jobs) :
          /\ JobSource(jobs[i])
          /\ jobs[i].kind = "block" /\ jobs[i].next # {} =>
                i < Len(jobs) /\ jobs[i + 1].kind = "block"

TaskTypes ==
    /\ todo \in [Task -> Seq(Job)]
    /\ pc \in [Task -> Pcs \union {"idle"}]
    /\ clone \in [Task -> KvBlockMeta \union {NoMeta}]
    /\ accepted \in Nat
    /\ \A t \in Task :
          /\ JobsOk(todo[t])
          /\ At(t, "idle") <=> todo[t] = <<>>
          /\ todo[t] # <<>> => pc[t] \in StepsOf(KindOf(t))

(* Every table holds what its Rust type says, no per-server count goes     *)
(* below zero, and a handler is at a step of the iteration it is working   *)
(* on (the handlers of lib.rs:303-876 and operation/).                     *)
TypeOK == TableTypes /\ QueueTypes /\ IndexTypes /\ RefTypes /\ TaskTypes

-----------------------------------------------------------------------------
(* A server that has withdrawn from a block (RemoveKvMeta, a block found   *)
(* missing, a peer's deletion) is not listed for it again until it claims  *)
(* the block again: insert_global_kvcache's intersection keeps every clone *)
(* taken before the withdrawal from bringing the server back.  The one way *)
(* around is in raced: a clone that was in a task's hands during the       *)
(* withdrawal, and is inserted after the block has been dropped.           *)
ListedIsClaimed ==
    \A h \in Hash \ raced : ServersOf(table, h) \subseteq claims[h]

(* A block without replicas stays in the table only while a task that      *)
(* emptied it is about to drop it (remove_kvmeta.rs:64-70, lib.rs:555-566):*)
(* no order of removals, uploads and peer updates leaves a dead entry.     *)
EmptyOnlyWhileDropping ==
    \A h \in Hash :
        table[h] # NoMeta /\ table[h].servers = {} =>
            \E t \in Task : At(t, "drop") /\ HashOf(t) = h

(* A task that has listed a server and is about to queue the announcement. *)
Announcing(t, h) ==
    /\ pc[t] \in {"publish", "index", "bump", "op"}
    /\ HashOf(t) = h
    /\ KindOf(t) # "ref"

Queued(h) == updMeta[h] # NoMeta \/ updOp[h] # NoOp

(* No replica in this domain is known here only: when the table lists a    *)
(* local server for a block, something about the block is queued for the   *)
(* peers, or the task that listed it is about to queue it, or a peer has   *)
(* said itself that the server holds the block.                            *)
EveryListingQueued ==
    \A h \in Hash :
        ServersOf(table, h) \intersect OwnServers(h) # {} =>
            Queued(h) \/ \E t \in Task : Announcing(t, h)

(* What the per-server block counts add up to, as a set: the first,        *)
(* second, ... block counted for each server.                              *)
CountedBlocks == UNION { {s} \X (1 .. count[s]) : s \in ServerId }

(* The per-server block counts never fall behind the local index: each     *)
(* indexed block was counted for some server and not yet discounted        *)
(* (lib.rs:303-318, 427-432, 449-462, remove_kvmeta.rs:43-58).             *)
CountsCoverIndex == Cardinality(index) <= Cardinality(CountedBlocks)

(* The step of task t changes where it is.                                 *)
Moves(t) == pc'[t] # pc[t] \/ todo'[t] # todo[t]

(* A listed replica is lost only through its own withdrawal, through a     *)
(* drop decided when the block was empty, or through                       *)
(* insert_global_kvcache; an upload or a migration that adds a replica     *)
(* never costs another one (lib.rs:803-843, 1136-1140).                    *)
ReplicaLossExplained ==
    [][\A h \in Hash : \A s \in ServersOf(table, h) \ ServersOf(table', h) :
          \E t \in Task :
             /\ Moves(t)
             /\ HashOf(t) = h
             /\ \/ At(t, "retain") /\ SrvOf(t) = s
                \/ At(t, "drop") \/ At(t, "igk") \/ At(t, "blind")]_vars

(* How many more steps an iteration takes at most, and a handler in all: a *)
(* loop has to come to its end whatever the others do to the table.        *)
StepsLeft(step) ==
    CASE step \in {"idle", "stuck"} -> 0
      [] step \in {"hit", "unref"} -> 1
      [] step \in {"publish", "op"} -> 2
      [] step \in {"blind", "dropref", "bump", "bumpglobal"} -> 3
      [] step \in {"igk", "drop", "index", "ref"} -> 4
      [] step \in {"link", "retain", "push"} -> 5
      [] step \in {"clone", "search", "unindex"} -> 6
      [] step = "reindex" -> 7

Work(t) == 8 * Len(todo[t]) + StepsLeft(pc[t])

(* No handler runs for ever: every step it takes leaves it with less to    *)
(* do, what the table has turned into notwithstanding, and no step of      *)
(* another one adds to it.  A request of n iterations is over, or waits    *)
(* for a shard, after at most 8 n + 7 steps (lib.rs:303-876,               *)
(* remove_kvmeta.rs:28-110).                                               *)
WorkShrinks ==
    [][\A t \in Task : ~At(t, "idle") =>
          Work(t)' <= Work(t) /\ (Step(t) => Work(t)' < Work(t))]_vars

(* The directory without its handlers: the servers it lists per block.     *)
Listed == [h \in Hash |-> ServersOf(table, h)]

Registry ==
    INSTANCE ReplicaRegistry
        WITH Hash <- Hash, ServerId <- ServerId, listed <- Listed,
             claims <- claims, raced <- raced

(* Whatever handlers interleave, clone, merge, drop and write back, the    *)
(* replica sets change as if by single claims, withdrawals and rewrites of *)
(* one block (lib.rs:303-876, remove_kvmeta.rs:28-110).                    *)
ImplementsRegistry == Registry!Spec

(* A task that waits for a shard whose guard is never released.            *)
Barred(t) ==
    /\ ~At(t, "idle")
    /\ Locked(HashOf(t))
    /\ pc[t] \in {"stuck", "search", "link", "igk", "blind", "retain", "drop", "push", "clone"}

(* Every accepted request is answered, except by a task that waits for a   *)
(* shard on which insert_global_kvcache waits for itself: the deadlock     *)
(* never spreads to requests that stay off that shard.                     *)
RequestsFinish ==
    \A t \in Task : ~At(t, "idle") ~> (At(t, "idle") \/ Barred(t))

-----------------------------------------------------------------------------
(* What comments in the code say of it.                                    *)

(* lib.rs:333: the intersection is kept, and if it is empty the block is   *)
(* deleted.                                                                *)
EmptyIntersectionDeletes ==
    \A t \in Task, h \in Hash :
        (Wedged(t) /\ HashOf(t) = h) ~> (table[h] = NoMeta)

(* remove_kvmeta.rs:66: a removal deletes the block if no server holds it. *)
DropsOnlyUnheld ==
    [][\A t \in Task :
          At(t, "drop") /\ KindOf(t) = "remove" /\ Moves(t) =>
              ServersOf(table, HashOf(t)) = {}]_vars

(* lib.rs:649: search_tokens finds the longest matching prefix.            *)
SearchFindsLongestPrefix ==
    (\A t \in Task : At(t, "idle")) =>
        \A chain \in Chains : SearchReach(table, chain) = LongestPrefix(table, chain)
=============================================================================
