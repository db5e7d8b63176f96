# CedFs-KV, verified

TLA+ models of the metadata server of CedFs-KV (`src/cedfs-kv`), TLC runs on
small instances and TLAPS proofs for every instance. File names below are
relative to `src/cedfs-kv/src/` unless they start with `tla/`.

## 1. The system

CedFs-KV keeps track of which inference instance (*data server*) holds which
KV-cache block. A block is named by a hash of all tokens up to its end. Each
domain has one *metadata server*; data servers report to theirs, and metadata
servers tell each other what changed.

| Component | State | Operations | Interacts with |
|---|---|---|---|
| Server and `Shared` (lib.rs:65-246) | every table below, behind `Arc` | start, dispatch of two gRPC services | everything |
| Block directory (lib.rs:303-507, 767-876) | `global_kvcache_table`, `local_kv_index`, `local_kv_cache_block_count` | `create_new_kvblock`, `insert_global_kvcache`, `execute_update_kvop`, `remove_server_from_kv_meta` | called by the three metadata handlers and by migrations |
| `UploadKvMeta`, `RemoveKvMeta` (operation/upload_kvmeta.rs, remove_kvmeta.rs) | none | a data server reports stored or evicted blocks | block directory, queues, reference counts |
| `UpdateKvMeta` (operation/update_kvmeta.rs) | none | a peer's new blocks, counts and replica operations | block directory, reference counts |
| Update queues | `update_kvmeta_table`, `update_kvop_table` | one entry per hash, overwritten | filled by the directory, emptied by the synchronisation |
| Reference counts (types.rs:32-404) | incremental, local and global counts | increment, consolidate, remove | upload, update, removal, migration, synchronisation, popularity |
| Synchronisation (client.rs:242-380) | none of its own | periodic snapshot, clear, one RPC per peer | queues, counts, server lists |
| Full synchronisation (operation/get_kvmeta.rs, client.rs:451-497) | none | a new peer fetches the indexed blocks | block directory, server lists |
| Membership (operation/register_instance.rs, client.rs:383-443) | lists of metadata and data servers, layers | register, gossip with every reply, mark unavailable | synchronisation, search, migration |
| Search (lib.rs:656-755, operation/search_kv.rs) | none | longest prefix per server | block directory, membership |
| Active sequences (transfer/squnence.rs) | running requests, shared blocks, expiry timer | `add_request`, `free`, `force_expiry`, hold counts | `NewRequest`, `RequestEnd` |
| Migration (operation/new_request.rs, request_end.rs, lib.rs:950-1149, client.rs:90-239) | pending tasks, cooldowns, round-robin index | queue at request start, run at request end; periodic pull from other domains | active sequences, membership, block directory, transfer RPC |
| Popularity (operation/popularity_score.rs) | none | top k blocks, source and target of each | counts, directory, membership |
| Hashing, tokenizers, config, protobuf conversion | none that changes | pure | uploads, searches |
| Unused: `scheduler`, `InferenceLoadTracker`, `start_periodic_clear`, `sync_now`, `move_kv_replica`, `KvCacheClient::transfer_kv`, `get_replica_counts`, `try_trigger_intra_domain_migration_for_token` | | | nothing calls them |

What is hard. Handlers run on a multi-threaded tokio runtime and share
everything through DashMaps whose locks are taken *per call*. A handler is a
loop over hashes, and each iteration is a chain of such calls, so everything
that looks like a check-then-act is two steps. Nothing is persisted: a restart
is an empty server, and there is no recovery to get wrong. Messages between
metadata servers are sent once. The hazards at their lines are in
`PROJECT.json`.

What makes each component correct:

* Directory: it lists who claimed a block and not who withdrew; it loses no
  replica and keeps no dead entry; it never stops answering.
* Queues and synchronisation: what a domain knows, the peers learn.
* Active sequences: a block counts as held exactly while a request holds it;
  no running request escapes the expiry; no stale one stays.
* Migration: a block is not migrated again within its cooldown, unless it was
  picked before; what expires is forgotten, and nothing else; a target is found
  if there is one; the index names blocks that exist.
* Reference counts: none is lost or doubled, none outlives its block, and a
  newcomer hears of all of them.
* Membership: a server is listed for a reason, and marked by its own index; who
  synchronised with a server is told what follows; the address of a mapped data
  server can be found.
* Popularity: the best blocks are pulled, predecessors first.
* Search: the longest cached prefix is found, and each server credited with
  what it holds of it.
* Hashing: a hash names the tokens up to the end of its block, and other
  engines that follow the same format compute the same one.

## 2. The modules

| Module | Content |
|---|---|
| `KvBlocks` | block metadata and its pure operations: `WithServer`, `WithoutServer`, `Intersection`, `search_tokens` |
| `BlockDirectory` | the directory and all handlers that write it, lock by lock |
| `ReplicaRegistry` | what the directory amounts to: replica sets that change by single claims and withdrawals |
| `MCBlockDirectory` | instances of it: requests, shards, peer updates |
| `BlockDirectory_proofs` | its safety properties proved, and that it implements `ReplicaRegistry` |
| `ActiveSequences` | running requests and hold counts |
| `MCActiveSequences` | instances of it |
| `ActiveSequences_proofs` | its safety properties proved |
| `MetaSync` | several metadata servers: queues, the periodic synchronisation, the handlers of its requests |
| `ReplicaGossip` | what the synchronisation amounts to: words about replicas that spread, or get lost |
| `MCMetaSync` | instances of it |
| `MetaSync_proofs` | its safety properties proved, and that it implements `ReplicaGossip` |
| `RefCounts` | the numbers in the three tables of counts, a round of the synchronisation, a newcomer |
| `RefCounts_proofs` | its properties proved |
| `Membership` | registrations, lists of metadata servers, gossip, introductions |
| `Membership_proofs` | its properties proved |
| `Migration` | pending tasks, cooldowns, targets, transfers, pulls, and removals that cross them |
| `Migration_proofs` | its properties proved |
| `Popularity` | which blocks to pull, from where, to where |
| `Popularity_proofs` | its properties proved |
| `Search` | a search of a table that changes |
| `TokenHash` | blocks of a token sequence and their hashes |
| `Prefix_proofs` | the properties of both, hashes and searches of prefixes, proved |
| `MCServices` | one instance of each of the last six models |

### BlockDirectory

A *task* is one handler invocation. `todo` is the list of loop iterations it
has left, `pc` the step the first of them is at, `clone` the metadata that
`execute_update_kvop` has copied out of the table. An iteration has a kind:

| kind | code | steps |
|---|---|---|
| `block` | an iteration of `create_new_kvblock` | search, link, igk, blind, publish |
| `hit` | `batch_increment_local_incremental_count` | hit |
| `remove` | an iteration of `RemoveKvMetaOp::run` | unindex, retain, drop, dropref, op, unref |
| `migrated` | `update_kv_meta_after_migration` | push, index, bump, op |
| `missing` | `remove_server_from_kv_meta` | retain, drop, op |
| `meta`, `ref`, `add`, `del` | the loops of `UpdateKvMetaOp::run` | igk, blind; ref, bump; reindex, clone, igk, blind, drop |

A step is one critical section. `get_mut` followed by work under its guard is
one step; `get_mut` that finds nothing followed by `insert` is two
(`InsertAbsent`, `InsertBlind`); so is a test under a guard followed by a
`remove` after it (`Retain`, `Drop`). `remove` *under* the guard waits for the
guard's own shard: the task stays at `stuck`, and `Locked` bars every step
that needs the shard (`Shard` maps hashes to shards).

Two history variables: `claims[h]` holds the servers whose last word on `h`
was that they hold it; `raced` the blocks a server withdrew from while some
task had a clone listing it in hand.

Abstractions: `pre_token` and `offset` are determined by the hash and left
out; a `Vec` that is pushed to behind a `contains` test is a set; the numbers
of the reference counts are left out and their keys kept; two counters of one
hash written by one call are one step; tasks do not end early (tonic may drop a
handler at an await); the queues are not emptied, so an entry tells that the
block was ever queued.

### ActiveSequences

A *call* is one `NewRequest` or `RequestEnd`. An `Arc` is named by the call
that made it, since a call makes at most one per block. `holds` says which Arc
each request or call owns, `unique` which Arc the Weak in `unique_blocks`
points to; the strong count is the number of owners of that Arc. The gap in
`touch_block` between the failed upgrade and the insert, and the gap in
`try_remove_block` between the count and the removal, are the program counters
`weak` and `erase`. `force_expiry` holds `mutex` from its test to its end; its
snapshot, clear, frees and re-enlisting are steps of their own. `raced`
(history) collects blocks written while another call was in such a gap.
Abstractions: a pass over a whole map is one step; time is a counter; a prompt
does not contain a block twice, since a block hash covers its prefix.

### MetaSync

One copy of the directory and its queues per metadata server (`table`,
`updMeta`, `updOp`, `incr`), and one synchronisation per server: `phase` says
where `sync_metadata` (client.rs:242-380) is, `out` is the request it is
building or sending, `call[n][p]` the state of the task that sends it to `p`,
`inbox[p][n]` what the handler at `p` has left of it, `answer` and `down` the
lists of servers it deems unavailable (layer 3 and more).

| Code | Action |
|---|---|
| upload, removal, migration, missing block (BlockDirectory) | `UploadNew`, `UploadReplica`, `UploadAgain`, `Remove`, `Migrated`, `Missing` |
| snapshot and clear of each queue | `TakeMeta`, `ClearMeta`, `TakeOps`, `ClearOps`, `TakeCounts` |
| last clear, then the early return or one task per available peer | `EarlyReturn`, `Send` |
| connect and RPC | `Deliver`, `Fail` |
| `UpdateKvMetaOp::run` at the peer | `HandleMeta`, `HandleWedge`, `HandleOp`, `Answer` |
| `update_server_status` with the reply | `Reply` |

A round ends with the last of its calls. A failed call is one step at any time
after `Send`: the peer may have got nothing, be in the middle of the request,
or have answered, and the handler goes on without anybody listening.

Two history variables, per sender and peer: `told` holds the replicas the peer
has taken in, `explained` those that one of five things has kept from it. Two
more, `said` and `denied`, collect the replicas that an upload or a migration
has announced and those that a removal or a failed migration has taken back.

Abstractions: `BlockDirectory` has the steps of the handlers that fill the
queues, so here each is one step; the snapshot of a DashMap is one step, which
for a single hash it is; the steps between the last clear and the spawned
tasks are one, since the list of servers is cloned once; a peer handles one
request of a sender at a time; the set of metadata servers is fixed;
successors and the numbers of the reference counts are left out; each hash has
a shard of its own.

`BlockDirectory` and `MetaSync` share `KvBlocks`. What one server does lock by
lock to a peer's update is in the first (`AcceptUpdate`), what several servers
do to each other is in the second.

### ReplicaRegistry and ReplicaGossip

Two abstract specifications say what the two models above are for, and each of
them is a property of the detailed model (`INSTANCE ... WITH`, checked by TLC
and proved).

`ReplicaRegistry` is one directory without tasks, clones, locks or queues: a
set of servers per block, changed by one step per word of a server. `Claim`
brings in the server that claims and nobody else; `Withdraw` takes the server
out; `Rewrite`, with nobody saying anything, forgets replicas or reinstates
those of servers that still claim the block (anybody, if it is raced).
`BlockDirectory` maps `listed` to the servers in its table (`Listed`), and
`claims` and `raced` to themselves. A step that only moves a task along is a
stutter.

`ReplicaGossip` is any number of metadata servers without queues, rounds or
calls. A server changes its own listing on the word of its data servers and
migrations (`Upload`, `Migrated`, `Withdraw`, `Missing`) and otherwise only on
what somebody said: it takes in a replica of a block it does not have
(`TakeIn`), prefers the one it hears of to its others (`Prefer`, which is what
the intersection of lib.rs:332-348 does to a listing of several servers), and
forgets one that is denied (`Forget`). There is no action by which a server
adds a replica it hears of to others it has, and `Withdraw` denies the metadata
server's id, because that is what RemoveKvMeta queues (operation/
remove_kvmeta.rs:88). `MetaSync` maps `lists` to the pairs of block and server
in each table (`Lists`). Handling, losing, repeating and reordering messages
are stutters or one of these steps.

### RefCounts

The tables are functions from blocks to numbers: no entry of the code is ever
zero, so zero stands for no entry. A handler is a `Task` that runs once. An
upload counts each hash in the incremental table and then in the global one
(`CountLocal`, `CountGlobal`). `Receive` is `increment_global_ref_count`, whose
test and whose write are two steps. A removal writes the global, the full and
the incremental table one after the other. A round copies the incremental
counts for the peers, merges them into the full ones and clears them, key by
key; a newcomer's `GetKvMeta` lists it first and then reads the full and the
incremental counts key by key. History variables say what really happened:
`hits`, `credits`, what fell between copy, merge and clear (`unsent`,
`unmerged`), and which blocks were removed and counted again.

### Membership

Per metadata server: `list` (a sequence, because the code keeps positions in
it), the data servers it has registered (`local`), the groups and the mapping
of data servers. In a round every called server is a task of its own (`call`);
`rest` is what the task has left of the answer's list. `UpdateAll` and
`UpdateUntilNew` are what `update_server_status` does under the write lock: it
replaces entries up to the first server it does not know, lists that one and
lets go of the lock while it fetches everything from it (`Greeted`,
`GreetFails`). `handler` is the newcomer's request at the other side, which
goes on when the caller has given up. The blocks and counts that the calls
carry are in `MetaSync` and `RefCounts`.

### Migration

A `job` is a handler or a background task; its `step` names the next access to
a shared map or the next wait. The cooldown and the time to live are both 60
seconds in the code and one tick here, so that they differ from the bound of
the clock. Which blocks are held by two requests is arbitrary (`held`), as
`ActiveSequences` does not restrict it for long. The answer of a data server
is one of three: copied, not found, failed. What a migration does to counts
and queues is in `BlockDirectory`, `RefCounts` and `MetaSync`; here it lists
the target, indexes the block and records the cooldown. `RemoveKvMeta` runs
against all that. History: which blocks of a task were migrated after it was
vetted (`outrun`), whether a cleanup had already collected the id of a task
when it was queued (`overtaken`), which drops crossed a migration (`crossed`).

### Popularity, Search, TokenHash

`Popularity` visits the counts in any order and keeps the best in a bounded
heap; ties break arbitrarily, where the code takes the smaller hash. `Search`
walks one query while any entry of the table may become any other
(`Change`); `always` and `ever` collect what the table said throughout and at
some time. `TokenHash` writes the very bytes that three algorithms digest;
SHA-256 is ideal, that is, a new string gets a digest that no other string
has. A digest is two bytes wide instead of 32, which changes the head of a
CBOR byte string and nothing else.

### MCServices

These six models share no state, and their behaviours are independent of each
other. The module extends all of them, and one run checks them: a behaviour is
one of a single service, its `part`, and every other service stays as it is at
one of its starts, so the states add up and do not multiply.
What couples the services in the code is modelled where it matters:
a removal against a migration in `Migration`, a round against a newcomer in
`RefCounts`, registration against introduction in `Membership`.

## 3. The runs

TLC with two workers; `deadlock` is off because a server without requests
rests.

| Run | Instance | Shows |
|---|---|---|
| `bd_local` | 2 blocks on 2 shards, 2 local servers, 2 tasks, 3 requests; fair | types, claims, dead entries and queues; that no handler runs for ever (`WorkShrinks`, `RequestsFinish`) |
| `bd_peers` | 1 block, 2 local servers and one of a peer, 3 tasks, 3 requests, a peer that sends 6 kinds of update; tasks symmetric | claims, dead entries, queues, counts and losses against peer updates; that the directory implements `ReplicaRegistry` |
| `as_calls` | 4 calls, 2 requests on 1 block, timer runs out once; calls symmetric | the safety of hold counts and expiry |
| `as_finish` | 3 calls, prompts of 0 and 2 blocks; fair | every call returns |
| `sync_rounds` | 2 metadata servers with 1 data server each, 1 block, 2 requests, 2 failed calls; fair | what peers learn, that rounds end, that an unavailable server stays so, that the servers implement `ReplicaGossip` |
| `services` | the six services, see below; 702,967 states | counts, membership, migration, popularity, search, hashing |
| `bd_wedge` | 2 uploads of one new block | finding 1 |
| `bd_drop` | removal against upload | finding 2 |
| `bd_prefix` | one upload after another | finding 3 |
| `as_holds` | 2 requests at the same time | finding 4 |
| `as_young` | 2 requests, timer of 2 ticks | finding 5 |
| `sync_add` | 3 requests, no failure | finding 6 |

Properties of the directory:

* `ListedIsClaimed`: a server that withdrew is not listed until it claims the
  block again, except for raced blocks. A clone taken before a withdrawal
  cannot bring the server back, because it is merged by intersection, unless
  the block has been dropped in between and the clone is inserted blindly.
* `EmptyOnlyWhileDropping`: no dead entry survives.
* `EveryListingQueued`: a local replica is never known only here.
* `CountsCoverIndex`: the per-server counts never fall behind the index.
* `ReplicaLossExplained` (action property): only a withdrawal, a drop or
  `insert_global_kvcache` takes a replica out of the table.
* `ImplementsRegistry` (refinement): see `ReplicaRegistry` above. It bounds the
  gains of the table as `ReplicaLossExplained` bounds its losses: no clone, late
  insert or merge brings in a server that has withdrawn, but on a raced block.
* `WorkShrinks` (action property): each step of a handler leaves it with less
  to do, whatever the others do to the table meanwhile, and no step of another
  adds to it: after at most 8 n + 7 steps of its own, a request of n iterations
  has ended or waits for a shard.
* `RequestsFinish` (liveness): each task ends, or waits for a shard on which
  `insert_global_kvcache` waits for itself.

Properties of the active sequences: `NoBlockOutlivesHolders` (no leak in
`active_blocks()`), `NoActiveForgotten` (the expiry can find each active
request), `ExactUnlessRaced` (the hold count is right unless a gap was hit),
`HandlersFinish` (liveness).

Properties of the synchronisation:

* `ReplicaToldOrExplained`: a peer knows of each replica that a server lists
  for a data server of its own, or the replica is in a queue, in the request
  or at the peer's handler, or it is in `explained`, for one of five reasons:
  it was queued between the snapshot and the clear of its queue; its operation
  was overwritten by another one for the block; the round returned early,
  which looks at blocks and counts only; the peer was skipped as unavailable;
  the call failed. These are the losses the code has; the property says that
  there are no others, and that they stop counting once the replica is queued
  again.
* `CutOffForGood` (action property): a server that all the others call
  unavailable, with no call or answer on its way that says otherwise, is never
  called again, whoever answers whom.
* `ImplementsGossip` (refinement): see `ReplicaGossip` above. No queue, round,
  snapshot or lost call makes a server list a replica that nobody announced,
  or forget one that nobody denied or outbid.
* `RoundsEnd` (liveness): a round ends, unless a handler of it waits for a
  wedged shard: then it never does, since the calls have no timeout.

Properties of the services (`TypeOK` is that of `Membership`; `ServicesTyped`
holds the other type invariants, among them that the offset of a hashed block
is the number of its tokens and not, as hash.rs:366 says, where it ends):

* `CountsAddUp`: the local counts of a block are its uploads and the counts
  credited to it, but for uploads between the round's merge and its clear.
* `NewcomerMissesNothing`: between its first answer and the rounds it is sent,
  a newcomer hears of every upload except those between copy and clear: being
  listed first makes up for totals that are read while a round moves them.
* `RemovedIsGone`: a removed block has no local count but through three named
  races.
* `IndexStillRight`: a position taken from the copy of the list a round goes
  by names the same server when the call fails, because only servers that were
  learned later are ever taken out.
* `ListedForAReason`, `SyncedIsMutual`: learning of a server, its introduction
  and a failure in between leave no server listed that gave nothing, and none
  unlisted that got everything, unless the fetch in the other direction failed.
* `MappedIsGrouped`: two maps written one after the other, by registrations
  and introductions at once, always allow the lookup from one to the other.
* `RepeatedOnlyWhenOutrun`, `CleanupSparesTheFresh`, `IndexedIsKnown`: the
  checks that a migration makes early and uses late go wrong in exactly the
  named races. `NobodyPassedOver` (action property): the ring misses no target.
* `BestAreChosen`, `PredecessorPulledFirst`: whatever order the map gives.
* `CreditIsBracketed`: a server gets no less than the prefix it held all the
  time and nothing it was never listed for.
* `HashNamesPrefix`, `CborReadsBack`: equal hashes mean equal prefixes, and
  the bytes are CBOR as RFC 8949 reads it. The cross-language algorithm is
  exempt after a hash that starts with a zero byte, since it drops leading
  zeros and fills up at the end, so that two hashes may become one.

Bounds. In `bd_peers` every request can meet both others at any of its steps;
longer sequences of requests are covered by the theorems, which state all of
its properties for any number of tasks, requests and servers. In `services`: counts of one block with three handlers, one round and
one newcomer, since counts are kept block by block; three metadata servers in
a chain of configurations, each with one round and one failed call among them,
so that one learns of another from a third; two jobs, two blocks, two request
ids and twelve units of work, which is four requests or three calls of other
kinds, enough for a request to wait while another migrates its block, and for
a removal to cross; three blocks with counts around the threshold and a heap
of two; a query of three blocks that changes once at any time; token sequences
around the boundaries of CBOR's heads and of the block size of two. The
handlers of the counts and the jobs of the migration are symmetric.

`MaxRequests` bounds the requests of a behaviour, `MaxTime` the clock,
and each call is made once. Two tasks and two blocks meet every pair of
handlers on the same block, a chain with a successor, and a wedged shard next
to a free one; three tasks let a third one act between the two steps of
another's clone, which is what `raced` needs. Four calls on one block give
two adds of one request, its free, and an expiry in the middle. Two requests
and two failures on two metadata servers let a replica meet each of the five
losses, two uploads of one block wedge a peer, and both servers give each
other up; the safety properties were also checked with three requests and one
failure (889,626 states, too many for the liveness property). The proofs
remove these bounds for the properties they cover.

Fairness. `FairSpec` is weak fairness of each task's (call's) steps, never of
the arrival of requests or of time. The runtime polls a task that can go on,
and a DashMap or Mutex lock that becomes free is eventually handed over. It
assumes that a worker thread is left: a wedged task blocks one for good, so
the run shows less than the program could suffer once every thread is wedged.
The locks of finished steps are short, so a step is never enabled only now and
then by them; a shard that a wedged task keeps is never enabled again, which
`RequestsFinish` excludes explicitly. In `MetaSync` each server's rounds, each
call and each handler have their own weak fairness: a request that was sent is
delivered or fails, which TCP and tonic see to while the peer is alive, and a
peer that is not makes the call fail. Failures themselves need not happen.

Every property of a passing run has a mutant in `PROJECT.json`: a plausible bug
of the code under which TLC refutes it.

### Findings

1. `bd_wedge`: `insert_global_kvcache` (lib.rs:342) removes an entry while it
   holds its guard: self-deadlock. Two first uploads of the same block at the
   same time are enough, and so is a peer announcing a block that only local
   servers hold.
2. `bd_drop`: a removal drops a block that another server has just joined
   (operation/remove_kvmeta.rs:68-69).
3. `bd_prefix`: an extended sequence is not linked to its old end
   (lib.rs:782), so `search_tokens` stops there.
4. `as_holds`: simultaneous requests for the same new block are counted once
   (transfer/squnence.rs:42-49); the migration trigger reads that count.
5. `as_young`: the expiry frees requests that have just started
   (transfer/squnence.rs:111, 176).
6. `sync_add`: a peer that is told to add a replica does not (lib.rs:438): the
   intersection with the entry it already has takes the new server out again.

Remarks that no run shows. The comment at operation/popularity_score.rs:91
says blocks asked for more than twice are pulled, the code wants more than
three times (:92). The doc of `hash_tokens_with_blocks_all` (hash.rs:365-366)
calls the offset the place where the block ends, the code returns its length
(:409). The doc of the cross-language algorithm (hash.rs:437) says tokens are
big-endian, the code writes them little-endian (:465).

## 4. The proofs

Checked by TLAPS for arbitrary sets of blocks, servers, calls, handlers,
chains, batches, updates, configuration files and queries, and without the
bounds of the runs. Each theorem is of the form `Spec => []P` for an invariant,
`Spec => [][A]_vars` for an action property, or `Spec => Abstract!Spec` for a
refinement.

What is assumed of the constants, by name:

* `DirectoryAssumption`: the metadata server has an id that no data server has;
  chains, batches and updates are nonempty sequences. `NoMetaAssumption`: the
  marker for no metadata is none.
* `SyncAssumption`: each data server has a home, no id is both a data server's
  and a metadata server's, and the markers for "nothing" are none of the
  things they stand in for.
* `SequencesAssumption`: requests and calls are told apart, a prompt is a
  sequence of blocks, the timer takes some time. `CountsExact` assumes besides
  that they are finitely many (`FinitelyMany`), as a strong count is a
  cardinality.
* `BatchesAssumption`: an upload that counts anything counts a block.
* `MembershipAssumption`: a configuration file names other metadata servers,
  each once.
* `SearchAssumption`: a query is a sequence of hashes, and only servers are
  reachable.

* `MigrationAssumption`: chains and the ring of candidates are sequences; some
  request and some data server exist; the marker for no task is none.
* `PopularityAssumption`: finitely many blocks, and predecessors that are
  acyclic: some rank falls along them. The hash of a block is made from the
  one before, so a chain of them has a start.
* `HashingAssumption`: tokens are `u32`, the block size fits in one and is not
  zero, a digest has between 1 and 255 bytes, and the digest of the seed is
  that of nothing else.

TLC evaluates the first three groups in every run of their modules, and the
others in `services` (`ServicesAssumption`).

| Theorem | Property | Argument |
|---|---|---|
| `TypeCorrect` | `TypeOK` of `BlockDirectory` | `TypeInv`: `TypeOK`, and what a task has in hand before `insert_global_kvcache` is block metadata that lists a server; one lemma per group of variables. That a task is at a step of its iteration is what lets every later proof know whose metadata is in hand. |
| `NoDeadEntries` | `EmptyOnlyWhileDropping` | inductive with `TypeInv`: what is inserted is never empty |
| `WithdrawnStaysOut` | `ListedIsClaimed` | `ClaimInv`: besides the table, every clone in a task's hands lists only servers that claim the block, or its block is raced. The property alone is not inductive, because `InsertBlind` writes a clone. |
| `ListingsAreQueued` | `EveryListingQueued` | `QueueInv`: a clone that lists a local server is known to the peers too, and a task after `link` is going to publish |
| `LossesAreExplained` | `ReplicaLossExplained` | step by step from the types |
| `RegistryImplemented` | `ImplementsRegistry` | each step of a task touches one block, and under `ClaimInv` what it does to that block's servers is one of three things (`Explained`): a claim, a withdrawal, or a rewrite within those listed or reinstated. For the insertion of a clone this is where `ClaimInv` is needed, since it bounds whom a clone lists. |
| `WorkAlwaysShrinks` | `WorkShrinks` | from `TypeInv`: a task is at a step of its iteration, so `StepsLeft` is a number, it falls along the steps of each kind, and it starts below 8 when the list of iterations gets shorter |
| `SyncTypesCorrect` | `TypeOK` of `MetaSync` | one lemma per group of variables; that a round waits exactly while a call is out is what makes the request in `out` the one that was sent |
| `CutOffIsForGood` | `CutOffForGood` | from the types of the calls: an answer that could bring the server back would come from a server that calls it unavailable itself |
| `ReplicasAreAccounted` | `ReplicaToldOrExplained` | `ReplicaInv`: besides the property, a replica in a queue that is about to be cleared is in the snapshot, or accounted for, or in the other queue (`MetaCopied`, `OpCopied`). With it `RequestFresh` (a request starts empty) and `QueuesOwn` (a server announces its own data servers only and calls no other than its peers), without which a peer's update could list a server that its home never announced. |
| `GossipImplemented` | `ImplementsGossip` | `WordsInv`: each block that is queued, in a request or before a handler names one replica that has been said, each deletion one that has been denied. With it and `TablesListed` (no entry without servers, and data servers only) each handler step is `TakeIn`, `Prefer`, `Forget` or a stutter. |
| `IndexIsCounted` | `CountsCoverIndex` | `Covered`: besides the property, the index and the blocks that are to be counted are finite at any time. What the counts add up to is the size of a set of pairs, a server and a number up to its count (`CountedPairs`), and a step of a handler adds or takes at most one of them |
| `SequenceTypesCorrect` | `TypeOK` of `ActiveSequences` | with `CallOK`: a call that adds has a request in hand, one that frees has a target, and the owner of the Mutex is where the code holds it |
| `ExpiryFindsAll` | `NoActiveForgotten` | inductive with the types. Only `enlist` and `deactivate` part the two tables, and while `force_expiry` holds the Mutex the property says nothing; its last step has enlisted again what its clear took out. |
| `CountsExact` | `ExactUnlessRaced` | `ExactInv`: of a block that is not raced, all that is held is the Arc that the Weak points to, and while a call is in a gap for it nobody holds it. The property alone would allow two Arcs as long as they are counted alike, and would not survive the next write. |
| `WeaksAreTended` | `NoBlockOutlivesHolders` | `ArcsInv`: which Arcs a call may own at each step, in terms of the blocks it still has to go over, and that a request owns blocks of its prompt and none when it is not active. Without it the last holder could be a request or call that never lets go. |
| `CountTypesCorrect` | `CountTypeOK` of `RefCounts` | one lemma per handler, one per step of the round and of the newcomer |
| `NoCountLost` | `CountsAddUp` | `AccountInv`: a block that the round has merged satisfies an equation of its own (`Accounted`), in which the incremental count is only waiting to be cleared. The property excludes those blocks and so does not carry over the clear. |
| `NoCountComesBack` | `RemovedIsGone` | `RemovedInv`: a count that was received for the local table before the removal is marked before it is written |
| `NewcomerToldAll` | `NewcomerMissesNothing` | `ToldInv`: each hit is in the full count or is still to be merged (`Kept`), so that a newcomer that has read the full count lacks only what the coming round will send (`Knows`), at whatever place round and reading are |
| `MembersTypesCorrect` | `TypeOK` of `Membership` | every write makes a list grow at its end or takes one server out (`Grown`, `Shrunk`), and a task waits exactly while a server is noted as greeted (`Steady`) |
| `IndexMarksTheCalled` | `IndexStillRight` | `PlaceInv`: a list begins with the servers of the clone at the places of the clone, and a server that is being greeted is not in the clone, so that its failure takes out a later one |
| `NobodyListedInVain` | `ListedForAReason` | `ReasonInv`: a handler of `GetKvMeta` runs only for a caller that has met its server, or is about to |
| `SyncedStayListed` | `SyncedIsMutual` | `MutualInv`: once the handler has listed the caller, the caller is listed or has been refused, also before it gets the answer |
| `MappedFoundInGroup` | `MappedIsGrouped` | `GroupInv`: the same for a data server between its two tables |
| `MigrationTypesCorrect` | `MigrationTypeOK` | with `JobsFit`: what a job has in hand at each of its steps |
| `IndexIsKnown`, `CooldownHolds`, `CleanupIsDue` | `IndexedIsKnown`, `RepeatedOnlyWhenOutrun`, `CleanupSparesTheFresh` | `Strong`: each job is sound for its step. What it has in hand is in the table or marked as crossed, and that includes the blocks a pull has not come to yet; a removal that has unindexed a block will retract it; a vetted block has cooled down or is marked as outrun; what a cleanup has collected is old or marked as overtaken. |
| `NobodyIsPassedOver` | `NobodyPassedOver` | as many steps as the ring is long, from any start, visit every place once: the places are a permutation of the ring |
| `PopularityTypesCorrect` | `PopularityTypeOK` | with the types of heap and pulls |
| `HeapKeepsTheBest` | `BestAreChosen` | `HeapIsBest`: at any time the heap is the best of those visited, for any order of visits and ties |
| `ChainsArePulledInOrder` | `PredecessorPulledFirst` | the answer is sorted (`ResultIsSorted`), the pulls keep its order (`PullsInOrder`), and a block is deeper than its predecessor: there is a depth, since the rank falls |
| `HashingTypesCorrect` | `HashingTypeOK` | `HashInv`: besides the types, each hash comes from what was written for the hash before it and the tokens of its block, and no two strings share a digest |
| `CborIsReadable` | `CborReadsBack` | a head and what follows it read back as major type, value and the rest, for each of its four forms (`HeadReads`); the integers one after the other (`IntsRead`) |
| `HashesNamePrefixes` | `HashNamesPrefix` | what is written tells prefix and tokens: bincode and the cross-language form because the prefix has a fixed width, CBOR because it can be read back (`WrittenTells`). Then back along the chain, block by block; no hash of a block is taken for the start. In the cross-language form a prefix is written as it is if it does not start with a zero byte or is all zeros (`NormalisedKeeps`). |
| `SearchTypesCorrect` | `SearchTypeOK` | with the places the walk may be at |
| `PrefixIsCredited` | `CreditIsBracketed` | `WalkInv`: the history brackets the table, each place passed is credited to the servers that always held it, links led there, and where the walk stopped there was, at some time, no link |

Induction. The library's induction theorems take an operator as a parameter,
which the provers cannot instantiate. `NatSetInduction` says the same of a set
of numbers, and follows from the well-foundedness of the order: the first
number outside of the set has one before it. With it the proofs reach recursive
functions: a function can be defined along the numbers (`FunctionAlong`), and
what a reader of bytes, a flattened sequence or the depth of a chain yields is
shown step by step.

Only model-checked: the liveness properties (`RequestsFinish`,
`HandlersFinish`, `RoundsEnd`), which are out of the prover's reach since they
rest on fairness (`WorkAlwaysShrinks` is the part of `RequestsFinish` that does
not), and `ServicesTyped`, which puts together five type invariants that are proved each
for its own specification. Every other property of a passing run is a theorem.

## 5. Not modelled

* The blocks that a full synchronisation carries (operation/get_kvmeta.rs:83-90,
  client.rs:472-475). The handler sends the indexed blocks only, and each
  arrives through `insert_global_kvcache`, which `BlockDirectory` has for
  blocks with one server.
* Handlers that tonic drops at an await. The directory and its index then part
  for good, and nothing of both is left to check.
* Hold counts and migrations in one model: `ActiveSequences` says when a hold
  count is right, `Migration` allows any.
* A metadata server's entry under two ids: the id is a hash of address and
  layer (types.rs:140-146), the code compares ids in one place and addresses
  in another. `Membership` has one id for each address, as in every
  configuration whose layers agree.
* The builtin hash, which `hash_tokens_with_blocks_all` refuses; extra keys,
  which the server never passes; `prefix_hash`, which nothing calls.
* Tokenizers (third-party), configuration (read once, here the constants),
  protobuf conversion (field copies, generated code), the wire protocol of the
  transfer clients (only their outcomes matter to the callers), and the unused
  code listed in section 1.
