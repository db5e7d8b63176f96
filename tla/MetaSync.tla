------------------------------ MODULE MetaSync ------------------------------
(***************************************************************************)
(* How metadata servers tell each other what changed.  Each queues its new *)
(* blocks and replica operations; a periodic task (sync_metadata) copies   *)
(* and clears the queues, and sends what it copied to every peer it thinks *)
(* available, once.  The peer applies it (UpdateKvMeta) and answers with   *)
(* its list of metadata servers, which replaces the sender's.              *)
(*                                                                         *)
(* The handlers that fill the queues are BlockDirectory's, one block each  *)
(* and in one step; their interleavings are studied there.  Here the       *)
(* queues are emptied, and the steps of the synchronisation interleave     *)
(* with the handlers of several servers.                                   *)
(*                                                                         *)
(* The set of metadata servers is fixed.  Successors of blocks and the     *)
(* numbers of reference counts are left out; each hash has a shard of its  *)
(* own.                                                                    *)
(***************************************************************************)
EXTENDS Naturals, Sequences, FiniteSets

CONSTANTS
    Node,         \* metadata servers
    Server,       \* data servers
    Home,         \* [Server -> the metadata server it reports to]
    Hash,         \* block hashes
    NoMeta,       \* no entry in a table
    None,         \* no request
    MaxRequests,  \* bound on the requests from data servers
    MaxFailures   \* bound on the RPCs that fail

INSTANCE KvBlocks WITH LocalServer <- Server, PeerServer <- {}, MetaServer <- Node

VARIABLES
    table,      \* [Node -> global_kvcache_table]
    wedged,     \* [Node -> blocks whose shard a handler waits for itself on]
    updMeta,    \* [Node -> update_kvmeta_table]
    updOp,      \* [Node -> update_kvop_table]
    incr,       \* [Node -> keys of local_incremental_count]
    phase,      \* [Node -> where its sync_metadata is]
    out,        \* [Node -> the UpdateKvMetaRequest of the round]
    call,       \* [Node -> [Node -> state of the round's call to the peer]]
    answer,     \* [Node -> [Node -> servers the peer's answer calls down]]
    inbox,      \* [Node -> [Node -> what is left of the sender's request]]
    down,       \* [Node -> metadata servers of layer 3 or more in its list]
    told,       \* history: [Node -> [Node -> replicas the peer was told of]]
    explained,  \* history: [Node -> [Node -> replicas it is not told of]]
    said,       \* history: replicas ever queued to be added
    denied,     \* history: replicas ever queued to be deleted
    accepted,   \* requests so far
    failures    \* failed RPCs so far

dirVars   == <<table, wedged>>
queueVars == <<updMeta, updOp, incr>>
callVars  == <<call, answer, inbox>>
words     == <<said, denied>>
history   == <<told, explained, words>>
bounds    == <<accepted, failures>>
vars == <<dirVars, queueVars, phase, out, callVars, down, history, bounds>>

-----------------------------------------------------------------------------
(* Requests.                                                               *)

NoOp     == [operation |-> 0]
AddOp(s) == [operation |-> 1, srv |-> s]
DelOp(s) == [operation |-> 2, srv |-> s]

Ops == {NoOp} \union { AddOp(s) : s \in Server } \union { DelOp(s) : s \in ServerId }

NoOps == [h \in Hash |-> NoOp]

(* What a handler has left of a request.                                   *)
Received == [meta : BlockTable, ops : [Hash -> Ops]]

ASSUME SyncAssumption ==
    /\ Home \in [Server -> Node]
    /\ Server \intersect Node = {}
    /\ MaxRequests \in Nat /\ MaxFailures \in Nat
    /\ NoMeta \notin KvBlockMeta
    /\ None \notin Received

EmptyRequest == [meta |-> NoBlocks, ops |-> NoOps, counts |-> {}]

Replica == Hash \X ServerId

(* The replicas a request or a queue announces.                            *)
Carried(meta, ops) ==
    { r \in Replica : r[2] \in ServersOf(meta, r[1]) \/ ops[r[1]] = AddOp(r[2]) }

-----------------------------------------------------------------------------
(* The queues.  History: a replica put in a queue is to be told to every   *)
(* peer anew; one put between the copy and the clear of the queue, or      *)
(* overwritten before a copy was made, will not be.                        *)

ForAllPeers(sets, more) == [p \in Node |-> sets[p] \union more]

Announce(n, new, lost) ==
    /\ told' = [told EXCEPT ![n] = [p \in Node |-> @[p] \ new]]
    /\ explained' =
          [explained EXCEPT ![n] = [p \in Node |-> (@[p] \ new) \union lost]]

Say(new, gone) ==
    /\ said' = said \union new
    /\ denied' = denied \union gone

insert_update_kvcache(n, h, s) ==
    /\ updMeta' = [updMeta EXCEPT ![n][h] = NewBlock(s, {})]
    /\ Announce(n, {<<h, s>>}, IF phase[n] = "clearMeta" THEN {<<h, s>>} ELSE {})
    /\ Say({<<h, s>>}, {})
    /\ UNCHANGED updOp

insert_update_kvop(n, h, op) ==
    LET new  == { r \in Replica : r[1] = h /\ op = AddOp(r[2]) }
        gone == { r \in Replica : r[1] = h /\ op = DelOp(r[2]) }
        old  == { r \in Replica : r[1] = h /\ updOp[n][h] = AddOp(r[2]) }
    IN  /\ updOp' = [updOp EXCEPT ![n][h] = op]
        /\ Announce(n, new, IF phase[n] = "clearOps" THEN new ELSE old \ new)
        /\ Say(new, gone)
        /\ UNCHANGED updMeta

-----------------------------------------------------------------------------
(* What a server's own data servers and migrations do (BlockDirectory).    *)

Request(n, h) ==
    /\ accepted < MaxRequests
    /\ accepted' = accepted + 1
    /\ h \notin wedged[n]
    /\ UNCHANGED <<wedged, phase, out, callVars, down, failures>>

UploadNew(n, s, h) ==
    /\ Request(n, h)
    /\ Home[s] = n
    /\ table[n][h] = NoMeta
    /\ table' = [table EXCEPT ![n][h] = NewBlock(s, {})]
    /\ insert_update_kvcache(n, h, s)
    /\ incr' = [incr EXCEPT ![n] = @ \union {h}]

UploadReplica(n, s, h) ==
    /\ Request(n, h)
    /\ Home[s] = n
    /\ table[n][h] # NoMeta
    /\ s \notin ServersOf(table[n], h)
    /\ table' = [table EXCEPT ![n][h] = WithServer(@, s)]
    /\ insert_update_kvop(n, h, AddOp(s))
    /\ incr' = [incr EXCEPT ![n] = @ \union {h}]

UploadAgain(n, s, h) ==
    /\ Request(n, h)
    /\ Home[s] = n
    /\ s \in ServersOf(table[n], h)
    /\ incr' = [incr EXCEPT ![n] = @ \union {h}]
    /\ UNCHANGED <<table, updMeta, updOp, history>>

(* A wrong withdrawal that drops the block, whoever else holds it.         *)
DroppedForAll(tbl, h, s) == [tbl EXCEPT ![h] = NoMeta]

(* The table without a server; a block nobody is left to hold is dropped.  *)
Withdrawn(tbl, h, s) ==
    IF tbl[h] = NoMeta THEN tbl
    ELSE [tbl EXCEPT ![h] =
             IF WithoutServer(@, s).servers = {} THEN NoMeta ELSE WithoutServer(@, s)]

(* RemoveKvMeta: the operation names the metadata server.                  *)
Remove(n, s, h) ==
    /\ Request(n, h)
    /\ Home[s] = n
    /\ table' = [table EXCEPT ![n] = Withdrawn(@, h, s)]
    /\ insert_update_kvop(n, h, DelOp(n))
    /\ incr' = [incr EXCEPT ![n] = @ \ {h}]

(* A migration found the block missing on its source.                      *)
Missing(n, s, h) ==
    /\ Request(n, h)
    /\ table' = [table EXCEPT ![n] = Withdrawn(@, h, s)]
    /\ insert_update_kvop(n, h, DelOp(s))
    /\ UNCHANGED incr

(* A migration copied the block to its target.                             *)
Migrated(n, s, h) ==
    /\ Request(n, h)
    /\ table' = IF table[n][h] = NoMeta THEN table
                ELSE [table EXCEPT ![n][h] = WithServer(@, s)]
    /\ insert_update_kvop(n, h, AddOp(s))
    /\ UNCHANGED incr

-----------------------------------------------------------------------------
(* sync_metadata: copy and clear each queue, one after the other.          *)

Goto(n, step) == phase' = [phase EXCEPT ![n] = step]

(* A wrong copy, made after the queue has been cleared.                    *)
CopyAfterClear(queue) == NoBlocks

Copy(queue) == queue

TakeMeta(n) ==
    /\ phase[n] = "idle"
    /\ out' = [out EXCEPT ![n].meta = Copy(updMeta[n])]
    /\ Goto(n, "clearMeta")
    /\ UNCHANGED <<dirVars, queueVars, callVars, down, history, bounds>>

ClearMeta(n) ==
    /\ phase[n] = "clearMeta"
    /\ updMeta' = [updMeta EXCEPT ![n] = NoBlocks]
    /\ Goto(n, "takeOps")
    /\ UNCHANGED <<dirVars, updOp, incr, out, callVars, down, history, bounds>>

TakeOps(n) ==
    /\ phase[n] = "takeOps"
    /\ out' = [out EXCEPT ![n].ops = updOp[n]]
    /\ Goto(n, "clearOps")
    /\ UNCHANGED <<dirVars, queueVars, callVars, down, history, bounds>>

ClearOps(n) ==
    /\ phase[n] = "clearOps"
    /\ updOp' = [updOp EXCEPT ![n] = NoOps]
    /\ Goto(n, "takeCounts")
    /\ UNCHANGED <<dirVars, updMeta, incr, out, callVars, down, history, bounds>>

TakeCounts(n) ==
    /\ phase[n] = "takeCounts"
    /\ out' = [out EXCEPT ![n].counts = incr[n]]
    /\ Goto(n, "clearCounts")
    /\ UNCHANGED <<dirVars, queueVars, callVars, down, history, bounds>>

(* Nothing to send, says the test, which does not look at the operations.  *)
NothingToSend(request) == request.meta = NoBlocks /\ request.counts = {}

EndRound(n) ==
    /\ Goto(n, "idle")
    /\ out' = [out EXCEPT ![n] = EmptyRequest]

EarlyReturn(n) ==
    /\ phase[n] = "clearCounts"
    /\ incr' = [incr EXCEPT ![n] = {}]
    /\ NothingToSend(out[n])
    /\ EndRound(n)
    /\ explained' = [explained EXCEPT ![n] =
                        ForAllPeers(@, Carried(out[n].meta, out[n].ops))]
    /\ UNCHANGED <<dirVars, updMeta, updOp, callVars, down, told, words, bounds>>

(* Wrong choices of the peers to call: the server itself, or the           *)
(* unavailable ones too.                                                   *)
SelfToo(n)    == Node \ down[n]
EveryOther(n) == Node \ {n}

(* The list of servers is read once: the round calls whom it calls up.     *)
Called(n) == Node \ (down[n] \union {n})

Send(n) ==
    /\ phase[n] = "clearCounts"
    /\ incr' = [incr EXCEPT ![n] = {}]
    /\ ~NothingToSend(out[n])
    /\ call' = [call EXCEPT ![n] =
                   [p \in Node |-> IF p \in Called(n) THEN "sent" ELSE "none"]]
    /\ IF Called(n) = {} THEN EndRound(n) ELSE Goto(n, "wait") /\ UNCHANGED out
    /\ explained' = [explained EXCEPT ![n] =
                        [p \in Node |-> IF p \in Called(n) THEN @[p]
                            ELSE @[p] \union Carried(out[n].meta, out[n].ops)]]
    /\ UNCHANGED <<dirVars, updMeta, updOp, answer, inbox, down, told, words, bounds>>

(* A wrong test, made before the call to p is noted as over.               *)
NoCallOut(n, p) == \A q \in Node : call[n][q] = "none"

(* No task of the round but the one for p is left to wait for.             *)
LastAnswer(n, p) == \A q \in Node \ {p} : call[n][q] = "none"

CallOver(n, p) ==
    /\ call' = [call EXCEPT ![n][p] = "none"]
    /\ answer' = [answer EXCEPT ![n][p] = {}]
    /\ IF LastAnswer(n, p) THEN EndRound(n) ELSE UNCHANGED <<phase, out>>

(* update_server_status: the answer's list replaces the sender's.          *)
Reply(n, p) ==
    /\ call[n][p] = "answered"
    /\ down' = [down EXCEPT ![n] = answer[n][p]]
    /\ CallOver(n, p)
    /\ UNCHANGED <<dirVars, queueVars, inbox, history, bounds>>

(* Connecting or the RPC fails, whether or not the peer got the request:   *)
(* the peer is marked as unavailable, and nothing is sent again.           *)
Fail(n, p) ==
    /\ failures < MaxFailures
    /\ failures' = failures + 1
    /\ call[n][p] # "none"
    /\ down' = [down EXCEPT ![n] = @ \union {p}]
    /\ CallOver(n, p)
    /\ explained' = [explained EXCEPT ![n][p] =
                        @ \union Carried(out[n].meta, out[n].ops)]
    /\ UNCHANGED <<dirVars, queueVars, inbox, told, words, accepted>>

-----------------------------------------------------------------------------
(* UpdateKvMeta at node q, sent by node n: the blocks, then the replica    *)
(* operations, each in any order.  (The counts between them change nothing *)
(* that is modelled here.)  A node handles one request of a sender at a    *)
(* time.                                                                   *)

Deliver(q, n) ==
    /\ call[n][q] = "sent"
    /\ inbox[q][n] = None
    /\ call' = [call EXCEPT ![n][q] = "running"]
    /\ inbox' = [inbox EXCEPT ![q][n] = [meta |-> out[n].meta, ops |-> out[n].ops]]
    /\ UNCHANGED <<dirVars, queueVars, phase, out, answer, down, history, bounds>>

Told(q, n, replicas) ==
    /\ told' = [told EXCEPT ![n][q] = @ \union replicas]
    /\ UNCHANGED <<explained, words>>

Conflict(q, h, meta) ==
    /\ table[q][h] # NoMeta
    /\ Intersection(table[q][h], meta).servers = {}

(* insert_global_kvcache                                                   *)
Inserted(tbl, h, meta) ==
    [tbl EXCEPT ![h] = IF @ = NoMeta THEN meta ELSE Intersection(@, meta)]

HandleMeta(q, n, h) ==
    /\ inbox[q][n] # None
    /\ inbox[q][n].meta[h] # NoMeta
    /\ h \notin wedged[q]
    /\ ~Conflict(q, h, inbox[q][n].meta[h])
    /\ table' = [table EXCEPT ![q] = Inserted(@, h, inbox[q][n].meta[h])]
    /\ inbox' = [inbox EXCEPT ![q][n].meta[h] = NoMeta]
    /\ Told(q, n, {h} \X inbox[q][n].meta[h].servers)
    /\ UNCHANGED <<wedged, queueVars, phase, out, call, answer, down, bounds>>

(* insert_global_kvcache waits for itself.                                 *)
HandleWedge(q, n, h) ==
    /\ inbox[q][n] # None
    /\ inbox[q][n].meta[h] # NoMeta
    /\ h \notin wedged[q]
    /\ Conflict(q, h, inbox[q][n].meta[h])
    /\ wedged' = [wedged EXCEPT ![q] = @ \union {h}]
    /\ UNCHANGED <<table, queueVars, phase, out, callVars, down, history, bounds>>

(* execute_update_kvop                                                     *)
Executed(tbl, h, op) ==
    IF tbl[h] = NoMeta THEN tbl
    ELSE IF op.operation = 1 THEN Inserted(tbl, h, WithServer(tbl[h], op.srv))
    ELSE Withdrawn(tbl, h, op.srv)

HandleOp(q, n, h) ==
    LET op == inbox[q][n].ops[h]
    IN  /\ inbox[q][n] # None
        /\ inbox[q][n].meta = NoBlocks
        /\ op # NoOp
        /\ h \notin wedged[q]
        /\ table' = [table EXCEPT ![q] = Executed(@, h, op)]
        /\ inbox' = [inbox EXCEPT ![q][n].ops[h] = NoOp]
        /\ Told(q, n, { r \in Replica : r[1] = h /\ op = AddOp(r[2]) })
        /\ UNCHANGED <<wedged, queueVars, phase, out, call, answer, down, bounds>>

(* All done: answer with the list of servers, if anybody still listens.    *)
Answer(q, n) ==
    /\ inbox[q][n] = [meta |-> NoBlocks, ops |-> NoOps]
    /\ inbox' = [inbox EXCEPT ![q][n] = None]
    /\ IF call[n][q] = "running"
       THEN /\ call' = [call EXCEPT ![n][q] = "answered"]
            /\ answer' = [answer EXCEPT ![n][q] = down[q]]
       ELSE UNCHANGED <<call, answer>>
    /\ UNCHANGED <<dirVars, queueVars, phase, out, down, history, bounds>>

-----------------------------------------------------------------------------
Init ==
    /\ table = [n \in Node |-> NoBlocks] /\ updMeta = table
    /\ wedged = [n \in Node |-> {}] /\ incr = wedged /\ down = wedged
    /\ updOp = [n \in Node |-> NoOps]
    /\ phase = [n \in Node |-> "idle"]
    /\ out = [n \in Node |-> EmptyRequest]
    /\ call = [n \in Node |-> [p \in Node |-> "none"]]
    /\ answer = [n \in Node |-> [p \in Node |-> {}]]
    /\ inbox = [n \in Node |-> [p \in Node |-> None]]
    /\ told = answer /\ explained = answer
    /\ said = {} /\ denied = {}
    /\ accepted = 0 /\ failures = 0

DataRequest(n) ==
    \E s \in Server, h \in Hash :
        \/ UploadNew(n, s, h) \/ UploadReplica(n, s, h) \/ UploadAgain(n, s, h)
        \/ Remove(n, s, h) \/ Missing(n, s, h) \/ Migrated(n, s, h)

SyncStep(n) ==
    \/ TakeMeta(n) \/ ClearMeta(n) \/ TakeOps(n) \/ ClearOps(n) \/ TakeCounts(n)
    \/ EarlyReturn(n) \/ Send(n)

CallStep(n, p) == Deliver(p, n) \/ Reply(n, p)

HandlerStep(q, n) ==
    \/ \E h \in Hash : HandleMeta(q, n, h) \/ HandleWedge(q, n, h) \/ HandleOp(q, n, h)
    \/ Answer(q, n)

Next ==
    \/ \E n \in Node : DataRequest(n) \/ SyncStep(n)
    \/ \E n, p \in Node : CallStep(n, p) \/ Fail(n, p) \/ HandlerStep(p, n)

Spec == Init /\ [][Next]_vars

(* The ticker starts a round when the last one is over; a task that can go *)
(* on is polled, a request sent is delivered or fails, a handler goes on   *)
(* unless its shard is wedged.  Requests and failures need not happen.     *)
FairSpec ==
    /\ Spec
    /\ \A n \in Node : WF_vars(SyncStep(n))
    /\ \A n \in Node : \A p \in Node \ {n} :
          WF_vars(CallStep(n, p)) /\ WF_vars(HandlerStep(p, n))

-----------------------------------------------------------------------------
Phases == {"idle", "clearMeta", "takeOps", "clearOps", "takeCounts", "clearCounts", "wait"}

DirTypes ==
    /\ table \in [Node -> BlockTable]
    /\ wedged \in [Node -> SUBSET Hash]

QueueTypes ==
    /\ updMeta \in [Node -> BlockTable]
    /\ updOp \in [Node -> [Hash -> Ops]]
    /\ incr \in [Node -> SUBSET Hash]

RoundTypes ==
    /\ phase \in [Node -> Phases]
    /\ out \in [Node -> [meta : BlockTable, ops : [Hash -> Ops], counts : SUBSET Hash]]
    /\ inbox \in [Node -> [Node -> {None} \union Received]]

CallTypes ==
    /\ call \in [Node -> [Node -> {"none", "sent", "running", "answered"}]]
    /\ answer \in [Node -> [Node -> SUBSET Node]]
    /\ down \in [Node -> SUBSET Node]

WordTypes == said \subseteq Hash \X Server /\ denied \subseteq Replica

HistoryTypes ==
    /\ told \in [Node -> [Node -> SUBSET Replica]]
    /\ explained \in [Node -> [Node -> SUBSET Replica]]
    /\ accepted \in 0 .. MaxRequests
    /\ failures \in 0 .. MaxFailures

(* A round waits exactly while one of its calls is out, and calls others.  *)
WaitsForCalls ==
    \A n \in Node :
        /\ phase[n] = "wait" <=> \E p \in Node : call[n][p] # "none"
        /\ call[n][n] = "none"

(* The tables hold what their types say; a round waits exactly while one   *)
(* of its calls is out, so that at most one request of a server is under   *)
(* way to each peer (client.rs:366-377); and a server never sends to       *)
(* itself.                                                                 *)
TypeOK ==
    /\ DirTypes /\ QueueTypes /\ RoundTypes /\ CallTypes /\ HistoryTypes
    /\ WordTypes /\ WaitsForCalls

-----------------------------------------------------------------------------
(* Replicas that node n has still to tell node p, or p to take in.         *)
Pending(n, p) ==
    UNION { Carried(updMeta[n], updOp[n]),
            IF phase[n] \notin {"idle", "wait"} \/ call[n][p] = "sent"
            THEN Carried(out[n].meta, out[n].ops) ELSE {},
            IF inbox[p][n] # None THEN Carried(inbox[p][n].meta, inbox[p][n].ops) ELSE {} }

(* Each replica a server lists for one of its own data servers is known to *)
(* every peer, or on its way there, or one of five things has happened: it *)
(* was queued between the copy and the clear of its queue, its operation   *)
(* was overwritten, the round returned early, the peer was skipped as      *)
(* unavailable, or the call failed (lib.rs:381-414, client.rs:242-380).    *)
(* Nothing else in queueing, copying, clearing, sending and handling       *)
(* leaves a peer ignorant of a replica.                                    *)
ReplicaToldOrExplained ==
    \A n \in Node : \A p \in Node \ {n} : \A h \in Hash, s \in Server :
        Home[s] = n /\ s \in ServersOf(table[n], h) =>
            <<h, s>> \in told[n][p] \union explained[n][p] \union Pending(n, p)

(* Nobody is going to call server p again: every other one calls it        *)
(* unavailable and has no call to it, nor an answer that calls it up, left.*)
CutOff(p) ==
    \A n \in Node \ {p} :
        /\ p \in down[n]
        /\ call[n][p] = "none"
        /\ \A q \in Node : call[n][q] = "answered" => p \in answer[n][q]

(* Servers that are unavailable are skipped (client.rs:309) and nothing    *)
(* probes them, so when the others agree that a server is, whoever told    *)
(* whom and whatever answers cross, no synchronisation brings it back.     *)
CutOffForGood == [][\A p \in Node : CutOff(p) => CutOff(p)']_vars

(* A peer's handler waits for a shard that is never released.              *)
StuckAt(q, n) ==
    /\ inbox[q][n] # None
    /\ \E h \in wedged[q] : inbox[q][n].meta[h] # NoMeta \/ inbox[q][n].ops[h] # NoOp

(* Every round of synchronisation ends, unless a peer's handler is stuck   *)
(* on a wedged shard: that is the only thing that can stop all further     *)
(* synchronisation of a server, since its calls have no timeout.           *)
RoundsEnd ==
    \A n \in Node :
        phase[n] # "idle" ~> (phase[n] = "idle" \/ \E q \in Node : StuckAt(q, n))

(* The servers without their queues, rounds and requests: the replicas     *)
(* each of them lists.                                                     *)
Lists == [n \in Node |-> { r \in Replica : r[2] \in ServersOf(table[n], r[1]) }]

Gossip ==
    INSTANCE ReplicaGossip
        WITH Node <- Node, Server <- Server, Home <- Home, Hash <- Hash,
             lists <- Lists, said <- said, denied <- denied

(* However requests, rounds, failures and handlers interleave, a server    *)
(* changes what it lists in four ways only: by the word of its own data    *)
(* servers and migrations; by taking in a block it does not have; by       *)
(* giving up the others for a replica it has; and by forgetting a replica  *)
(* that a migration found missing.  A RemoveKvMeta is no such word: it     *)
(* tells the peers the id of the metadata server, and they keep the        *)
(* replica (remove_kvmeta.rs:88, lib.rs:328-355, 416-490).                 *)
ImplementsGossip == Gossip!Spec

-----------------------------------------------------------------------------
(* What a comment in the code says of it.                                  *)

(* lib.rs:421: the operation 1 adds a replica.                             *)
AddOpAddsReplica ==
    [][\A q, n \in Node, h \in Hash, s \in Server :
          /\ inbox[q][n] # None
          /\ inbox[q][n].ops[h] = AddOp(s)
          /\ inbox'[q][n] # None
          /\ inbox'[q][n].ops[h] = NoOp
          /\ table[q][h] # NoMeta
          => s \in ServersOf(table'[q], h)]_vars
=============================================================================
