------------------------------ MODULE Migration ------------------------------
(***************************************************************************)
(* Migrations at one metadata server.  NewRequest queues a migration for a *)
(* request whose blocks several requests hold; RequestEnd takes it from    *)
(* the queue and runs it in the background; a timer pulls popular blocks   *)
(* (execute_kv_migration).  RemoveKvMeta takes blocks away meanwhile.      *)
(*                                                                         *)
(* A step is one access to a shared map, or one wait: the handlers and the *)
(* background jobs interleave between them.  What becomes of the counts,   *)
(* the queue of operations and the active sequences is in RefCounts,       *)
(* BlockDirectory and ActiveSequences.                                     *)
(***************************************************************************)
EXTENDS Integers, SequencesExt

CONSTANTS
    MovedHash,        \* block hashes
    Request,     \* request ids; a client may use one again
    Chain,       \* [Request -> Seq(Hash): the blocks of its tokens]
    Source,      \* [Request -> data server that NewRequest names]
    Local,       \* local_data_server_collect
    AllServers,  \* all data servers, in the order of global_data_server_collect
    Worker,      \* handlers and background jobs that may run at a time
    Placed,      \* [Hash -> data servers that hold the block at first]
    NoTask,      \* no entry in pending_migrations
    TransferOn,  \* config.transfer_strategy
    Ttl,         \* PENDING_MIGRATION_TTL_SECS
    Cooldown,    \* MIGRATION_COOLDOWN_SECS
    MaxTime,     \* bound on the clock
    MaxWork      \* bound on the calls

VARIABLES
    now,         \* Instant::now()
    pending,     \* pending_migrations
    recent,      \* recent_migrations; Never stands for no entry
    known,       \* keys of global_kvcache_table
    holders,     \* [Hash -> server_id of the block]
    index,       \* local_kv_index
    rr,          \* migration_target_rr_index
    job,         \* [Worker -> Job]
    work,        \* what the calls accepted add up to
    crossed      \* history: blocks dropped without their index entry

tasks  == <<pending, recent, rr>>
blocks == <<known, holders, index, crossed>>
migrationVars   == <<now, tasks, blocks, job, work>>

-----------------------------------------------------------------------------
Never == -1 - Cooldown

DataServer == ToSet(AllServers)

(* filter(..).collect(): the elements of s that are in T, in their order.  *)
Only(s, T) ==
    LET chosen[n \in 0 .. Len(s)] ==
            IF n = 0 THEN <<>>
            ELSE IF s[n] \in T THEN Append(chosen[n - 1], s[n]) ELSE chosen[n - 1]
    IN  chosen[Len(s)]

(* PendingMigrationTask.  overtaken and outrun are history: whether a      *)
(* cleanup was about to remove this id when the task was queued, and which *)
(* blocks have been migrated since the task was vetted.                    *)
PendingTask == [source : Local, blocks : Seq(MovedHash), created : Nat,
         overtaken : BOOLEAN, outrun : SUBSET MovedHash]

Item == [hash : MovedHash, source : DataServer \ Local, target : Local]

Step == {"ready", "filter", "queue", "pop", "resolve", "plan", "choose", "next",
         "transfer", "list", "index", "record", "retract", "drop", "unindex"}

(* What a handler or job works on.  reindexed is history: a migration put  *)
(* the block back into the index since this removal took it out.           *)
Job == [step : Step, kind : {"request", "pull", "remove"}, request : Request,
        expired : SUBSET Request, blocks : Seq(MovedHash), source : DataServer,
        target : DataServer, items : Seq(Item), answered : Nat,
        outrun : SUBSET MovedHash, reindexed : BOOLEAN]

NoJob ==
    [step |-> "ready", kind |-> "request", request |-> CHOOSE r \in Request : TRUE,
     expired |-> {}, blocks |-> <<>>, source |-> AllServers[1], target |-> AllServers[1],
     items |-> <<>>, answered |-> 0, outrun |-> {}, reindexed |-> FALSE]

(* The requests name blocks, the servers of the domain and the holders of  *)
(* blocks are data servers, and there is a request and a server to name.   *)
MigrationAssumption ==
    /\ Request # {} /\ AllServers \in Seq(DataServer) \ {<<>>}
    /\ Chain \in [Request -> Seq(MovedHash)]
    /\ Local \subseteq DataServer
    /\ Placed \in [MovedHash -> SUBSET DataServer]
    /\ NoTask \notin PendingTask
    /\ Ttl \in Nat /\ Cooldown \in Nat /\ MaxTime \in Nat /\ MaxWork \in Nat

JobAt(w, step) == job[w].step = step

(* A job that is over is forgotten.                                        *)
Settled(j) == IF j.step = "ready" THEN NoJob ELSE j

Update(w, j) == job' = [job EXCEPT ![w] = Settled(j)]

GoTo(w, step) == Update(w, [job[w] EXCEPT !.step = step])

(* The bound allows for one request more than for pulls and removals.      *)
Cost(j) == IF j.kind = "request" THEN 3 ELSE 4

Accept(w, j) ==
    /\ JobAt(w, "ready")
    /\ work + Cost(j) <= MaxWork
    /\ work' = work + Cost(j)
    /\ Update(w, j)
    /\ UNCHANGED <<now, tasks, blocks>>

(* A wrong comparison that is one tick early.                              *)
NearlyExpired(task) == now - task.created >= Ttl

is_expired(task) == now - task.created > Ttl

(* A wrong test that never looks at recent_migrations.                     *)
AlwaysCool(h) == TRUE

(* last.elapsed() >= cooldown, or no record                                *)
CooledDown(h) == now - recent[h] >= Cooldown

-----------------------------------------------------------------------------
(* cleanup_expired_pending_migrations, at the start of both handlers: the  *)
(* expired ids are collected, then removed by id one after the other.      *)

Cleanup(w, r, step) ==
    Accept(w, [NoJob EXCEPT !.step = step, !.request = r,
                           !.expired = { x \in Request : pending[x] # NoTask /\
                              is_expired(pending[x]) }])

NewRequest(w, r) == Cleanup(w, r, "filter")

RequestEnd(w, r) == Cleanup(w, r, "pop")

RemoveExpired(w, x) ==
    /\ x \in job[w].expired
    /\ pending' = [pending EXCEPT ![x] = NoTask]
    /\ job' = [job EXCEPT ![w].expired = @ \ {x}]
    /\ UNCHANGED <<now, recent, rr, blocks, work>>

(* Of the blocks that two or more requests hold, those that have cooled    *)
(* down.  (The gate of migrate_hash_seq_with_rr_target asks for the same   *)
(* two holders again; it never cuts.)                                      *)
Filter(w, held) ==
    LET eligible == Only(Chain[job[w].request], { h \in held : CooledDown(h) })
    IN  /\ JobAt(w, "filter")
        /\ job[w].expired = {}
        /\ Update(w, [job[w] EXCEPT !.step = IF eligible = <<>> THEN "ready" ELSE "queue",
                                    !.blocks = eligible])
        /\ UNCHANGED <<now, tasks, blocks, work>>

(* resolve_source_server waits for a lock; then the task is queued.        *)
Queue(w) ==
    LET r == job[w].request
        task == [source |-> Source[r], blocks |-> job[w].blocks, created |-> now,
                 overtaken |-> \E v \in Worker : r \in job[v].expired,
                 outrun |-> job[w].outrun]
    IN  /\ JobAt(w, "queue")
        /\ pending' = IF Source[r] \in Local THEN [pending EXCEPT ![r] = task] ELSE pending
        /\ GoTo(w, "ready")
        /\ UNCHANGED <<now, recent, rr, blocks, work>>

-----------------------------------------------------------------------------
(* RequestEnd takes the task of its request; an expired one is forgotten.  *)

Pop(w) ==
    LET task == pending[job[w].request]
    IN  /\ JobAt(w, "pop")
        /\ job[w].expired = {}
        /\ pending' = [pending EXCEPT ![job[w].request] = NoTask]
        /\ IF task # NoTask /\ ~is_expired(task)
           THEN Update(w, [job[w] EXCEPT !.step = "resolve", !.blocks = task.blocks,
                                         !.source = task.source,
                                         !.outrun = task.outrun])
           ELSE GoTo(w, "ready")
        /\ UNCHANGED <<now, recent, rr, blocks, work>>

(* resolve_source_server waits for a lock; then the migration is spawned.  *)
Spawn(w) ==
    /\ JobAt(w, "resolve")
    /\ GoTo(w, IF job[w].source \in Local /\ TransferOn THEN "plan" ELSE "ready")
    /\ UNCHANGED <<now, tasks, blocks, work>>

(* migrate_hash_seq_with_rr_target: the blocks that have metadata.         *)
Candidates(w) == Only(AllServers, DataServer \ {job[w].source})

Plan(w) ==
    LET found == Only(job[w].blocks, known)
        more == Candidates(w) # <<>> /\ found # <<>>
    IN  /\ JobAt(w, "plan")
        /\ Update(w, [job[w] EXCEPT !.step = IF more THEN "choose" ELSE "ready",
                                    !.blocks = found])
        /\ UNCHANGED <<now, tasks, blocks, work>>

(* The target is the first candidate, from the start of the round robin    *)
(* on, that lacks one of the blocks; all of them are sent.                 *)
Lacks(s, hashes) == \E i \in DOMAIN hashes : s \notin holders[hashes[i]]

(* A wrong scan that stops at the end of the candidates.                   *)
UpToTheEnd(start, candidates) == SubSeq(candidates, start + 1, Len(candidates))

(* The candidates in the order of (start + step) % candidates.len()        *)
RingFrom(start, candidates) ==
    [i \in DOMAIN candidates |-> candidates[((start + i - 1) % Len(candidates)) + 1]]

Choose(w) ==
    LET ring == RingFrom(rr % Len(Candidates(w)), Candidates(w))
        lacking == { i \in DOMAIN ring : Lacks(ring[i], job[w].blocks) }
    IN  /\ JobAt(w, "choose")
        /\ rr' = rr + 1
        /\ \/ lacking = {} /\ GoTo(w, "ready")
           \/ \E i \in lacking :
                 /\ \A k \in lacking : i <= k
                 /\ Update(w, [job[w] EXCEPT !.step = "transfer", !.target = ring[i]])
        /\ UNCHANGED <<now, pending, recent, blocks, work>>

-----------------------------------------------------------------------------
(* cross_domain_kv_migration: blocks that a remote server holds and a      *)
(* local one lacks (Popularity tells which), pulled one after the other.   *)

Pullable ==
    { i \in Item : /\ i.hash \in known
                   /\ i.source \in holders[i.hash] /\ i.target \notin holders[i.hash] }

(* One block, or two: the bound on a pull.                                 *)
Pulls ==
    { <<i>> : i \in Pullable }
      \union { x \in Pullable \X Pullable : x[1].hash # x[2].hash }

StartPull(w, items) ==
    Accept(w, [NoJob EXCEPT !.step = "next", !.kind = "pull", !.items = items])

PullNext(w) ==
    LET item == Head(job[w].items)
    IN  /\ JobAt(w, "next")
        /\ job[w].items # <<>>
        /\ Update(w, [job[w] EXCEPT !.step = "transfer", !.blocks = <<item.hash>>,
                                    !.source = item.source, !.target = item.target,
                                    !.items = Tail(@)])
        /\ UNCHANGED <<now, tasks, blocks, work>>

PullOver(w) ==
    /\ JobAt(w, "next")
    /\ job[w].items = <<>>
    /\ GoTo(w, "ready")
    /\ UNCHANGED <<now, tasks, blocks, work>>

-----------------------------------------------------------------------------
(* The source answers send_transfer_request: it has copied the blocks, or  *)
(* does not have them (-1), or it failed.  A pull goes on with its next    *)
(* item.                                                                   *)

Finish(w) == IF job[w].kind = "pull" THEN "next" ELSE "ready"

Answered(w, step) ==
    /\ JobAt(w, "transfer")
    /\ Update(w, [job[w] EXCEPT !.step = step, !.answered = now])
    /\ UNCHANGED <<now, tasks, blocks, work>>

TransferDone(w) == Answered(w, "list")

NotFound(w) == Answered(w, "retract")

Failed(w) == Answered(w, Finish(w))

Current(w) == Head(job[w].blocks)

(* On to the next block in hand, or the end.                               *)
Proceed(w, step) ==
    [job[w] EXCEPT !.step = IF Len(job[w].blocks) = 1 THEN Finish(w) ELSE step,
                   !.blocks = Tail(@)]

(* update_kv_meta_after_migration: the target is listed, if the block is   *)
(* still known, ...                                                        *)
ListTarget(w) ==
    LET h == Current(w)
    IN  /\ JobAt(w, "list")
        /\ holders' = IF h \in known THEN [holders EXCEPT ![h] = @ \union {job[w].target}]
                      ELSE holders
        /\ GoTo(w, "index")
        /\ UNCHANGED <<now, tasks, known, index, crossed, work>>

Removing(v, h) ==
    job[v].kind = "remove" /\ job[v].step \in {"retract", "drop"} /\ Current(v) = h

(* ... the block is indexed in any case, ...                               *)
Index(w) ==
    LET h == Current(w)
        next == IF job[w].kind = "pull" THEN Proceed(w, "list")
                ELSE [job[w] EXCEPT !.step = "record"]
    IN  /\ JobAt(w, "index")
        /\ index' = index \union {h}
        /\ job' = [v \in Worker |->
                     IF v = w THEN Settled(next)
                     ELSE [job[v] EXCEPT !.reindexed = @ \/ Removing(v, h)]]
        /\ UNCHANGED <<now, tasks, known, holders, crossed, work>>

(* ... and a migration for a request records when it had its answer.       *)
(* (History: whoever has vetted the block by now has been outrun.)         *)
Outrun(x, h) ==
    [x EXCEPT !.outrun = IF h \in ToSet(x.blocks) THEN @ \union {h} ELSE @]

Record(w) ==
    LET h == Current(w)
    IN  /\ JobAt(w, "record")
        /\ recent' = [recent EXCEPT ![h] = job[w].answered]
        /\ job' = [v \in Worker |->
                     IF v = w THEN Settled(Proceed(w, "list"))
                     ELSE Outrun(job[v], h)]
        /\ pending' = [r \in Request |->
                         IF pending[r] = NoTask THEN NoTask ELSE Outrun(pending[r], h)]
        /\ UNCHANGED <<now, rr, blocks, work>>

-----------------------------------------------------------------------------
(* RemoveKvMeta of one block: the index, then the table.                   *)

RemoveKvMeta(w, h, s) ==
    Accept(w, [NoJob EXCEPT !.step = "unindex", !.kind = "remove", !.blocks = <<h>>,
                           !.source = s])

(* A wrong removal that leaves the index alone.                            *)
Kept(h) == index

Unindexed(h) == index \ {h}

Unindex(w) ==
    /\ JobAt(w, "unindex")
    /\ index' = Unindexed(Current(w))
    /\ GoTo(w, "retract")
    /\ UNCHANGED <<now, tasks, known, holders, crossed, work>>

(* RemoveKvMeta and remove_server_from_kv_meta take the server out of the  *)
(* entry, and once its guard is released, drop the entry if it was empty.  *)
Retract(w) ==
    LET h == Current(w)  rest == holders[h] \ {job[w].source}
    IN  /\ JobAt(w, "retract")
        /\ holders' = [holders EXCEPT ![h] = rest]
        /\ Update(w, IF h \in known /\ rest = {} THEN [job[w] EXCEPT !.step = "drop"]
                     ELSE Proceed(w, "retract"))
        /\ UNCHANGED <<now, tasks, known, index, crossed, work>>

(* History: the index entry may stay, or come, when the source reported    *)
(* the block missing, when a migration has the block in hand, and when one *)
(* has put it back since the removal took it out.                          *)
InHand(v) ==
    { i.hash : i \in ToSet(job[v].items) }
      \union IF job[v].step \in {"choose", "next", "transfer", "list", "index", "record"}
             THEN ToSet(job[v].blocks) ELSE {}

Crosses(w, h) ==
    \/ job[w].kind # "remove" \/ job[w].reindexed
    \/ \E v \in Worker : h \in InHand(v)

Drop(w) ==
    LET h == Current(w)
    IN  /\ JobAt(w, "drop")
        /\ known' = known \ {h}
        /\ holders' = [holders EXCEPT ![h] = {}]
        /\ crossed' = IF Crosses(w, h) THEN crossed \union {h} ELSE crossed
        /\ Update(w, Proceed(w, "retract"))
        /\ UNCHANGED <<now, tasks, index, work>>

-----------------------------------------------------------------------------
Tick ==
    /\ now < MaxTime
    /\ now' = now + 1
    /\ UNCHANGED <<tasks, blocks, job, work>>

MigrationInit ==
    /\ now = 0
    /\ pending = [r \in Request |-> NoTask]
    /\ recent = [h \in MovedHash |-> Never]
    /\ known = MovedHash
    /\ holders = Placed
    /\ index = { h \in MovedHash : \E s, t \in Placed[h] : s # t }
    /\ rr = 0
    /\ job = [w \in Worker |-> NoJob]
    /\ work = 0
    /\ crossed = {}

ForRequest(w) ==
    \/ \E r \in Request : NewRequest(w, r) \/ RequestEnd(w, r) \/ RemoveExpired(w, r)
    \/ \E held \in SUBSET MovedHash : Filter(w, held)
    \/ Queue(w) \/ Pop(w) \/ Spawn(w) \/ Plan(w) \/ Choose(w)

Pull(w) ==
    \/ \E items \in Pulls : StartPull(w, items)
    \/ PullNext(w) \/ PullOver(w)

Transfer(w) ==
    \/ TransferDone(w) \/ NotFound(w) \/ Failed(w)
    \/ ListTarget(w) \/ Index(w) \/ Record(w) \/ Retract(w) \/ Drop(w)

Removal(w) ==
    \/ \E h \in MovedHash, s \in Local : RemoveKvMeta(w, h, s)
    \/ Unindex(w)

MigrationNext == Tick \/ \E w \in Worker : ForRequest(w) \/ Pull(w) \/ Transfer(w) \/ Removal(w)

MigrationSpec == MigrationInit /\ [][MigrationNext]_migrationVars

-----------------------------------------------------------------------------
(* The tables and jobs hold what their Rust types say.                     *)
MigrationTypeOK ==
    /\ now \in 0 .. MaxTime /\ work \in 0 .. MaxWork /\ rr \in Nat
    /\ pending \in [Request -> PendingTask \union {NoTask}]
    /\ \A r \in Request : pending[r] # NoTask => pending[r].created <= now
    /\ recent \in [MovedHash -> {Never} \union 0 .. now]
    /\ known \subseteq MovedHash /\ index \subseteq MovedHash /\ crossed \subseteq MovedHash
    /\ holders \in [MovedHash -> SUBSET DataServer]
    /\ job \in [Worker -> Job]
    /\ \A w \in Worker : job[w].answered <= now

(* Within the cooldown of a block, a request migrates it again only when   *)
(* it was vetted before the last migration had been recorded, however long *)
(* it waited in the queue (new_request.rs:87-97, lib.rs:115, 1104-1108).   *)
RepeatedOnlyWhenOutrun ==
    \A w \in Worker : JobAt(w, "transfer") /\ job[w].kind = "request" =>
        \A h \in ToSet(job[w].blocks) :
            now >= recent[h] + Cooldown \/ h \in job[w].outrun

(* A cleanup takes a task that is not too old only when it had collected   *)
(* the id before the task was queued: its request used the id of an        *)
(* expired one again (lib.rs:266-283).                                     *)
CleanupSpares ==
    \A w \in Worker, r \in Request :
        r \in job[w].expired \ job'[w].expired /\ pending[r] # NoTask =>
            now > pending[r].created + Ttl \/ pending[r].overtaken

CleanupSparesTheFresh == [][CleanupSpares]_migrationVars

(* An indexed block is in the table, unless its drop crossed a migration   *)
(* or the source reported it missing, which leaves the index alone         *)
(* (lib.rs:1104-1112, 1141, client.rs:221, remove_kvmeta.rs:50-69).        *)
IndexedIsKnown == index \subseteq known \union crossed

(* A migration finds no target only if every other data server already has *)
(* all of its blocks: the ring misses none (lib.rs:1039-1083).             *)
PassesNobody ==
    \A w \in Worker : JobAt(w, "choose") /\ job'[w].step = "ready" =>
        \A s \in DataServer \ {job[w].source} : ~Lacks(s, job[w].blocks)

NobodyPassedOver == [][PassesNobody]_migrationVars
=============================================================================
