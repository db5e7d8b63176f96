------------------------------ MODULE Popularity ------------------------------
(***************************************************************************)
(* PopularityScoreOp: which blocks of other domains a metadata server      *)
(* pulls.  top_k_popularity goes over global_ref_counts in whatever order  *)
(* the map gives and keeps the best in a heap of bounded size;             *)
(* get_instance_from_token_hash finds a source and a target for each.      *)
(* The tables do not change here while the operation runs.                 *)
(***************************************************************************)
EXTENDS Naturals, FiniteSets, SequencesExt

CONSTANTS
    RankedHash,        \* block hashes
    Root,        \* ROOT_PRE_TOKEN
    LocalList,       \* local_data_server_collect, a sequence
    Remote,      \* data servers of other domains
    ReachableRemote,   \* those that data_server_to_meta_server and the groups name
    CountsTried,      \* reference counts tried
    Predecessors,\* [Hash -> Hash \union {Root}] tried: pre_token
    Described,       \* sets of blocks tried: keys of global_kvcache_table
    Placements,  \* sets of servers tried for a block
    K            \* config.replica_pull_count

VARIABLES
    count,       \* global_ref_counts
    pre,         \* pre_token of each block
    described,       \* keys of global_kvcache_table
    placed,     \* server_id of each block
    unseen,        \* keys the pass has still to visit
    heap,        \* the blocks in the heap
    result,      \* the answer of top_k_popularity
    pulls,       \* the answer of the operation
    stage

rankTables == <<count, pre, described, placed>>
popularityVars == <<rankTables, unseen, heap, result, pulls, stage>>

-----------------------------------------------------------------------------
LocalServers == ToSet(LocalList)

(* The map holds finitely many blocks, and following pre_token from block  *)
(* to block ends: the hash of a block is that of its predecessor and more. *)
PopularityAssumption ==
    /\ IsFiniteSet(RankedHash) /\ Root \notin RankedHash
    /\ LocalList \in Seq(LocalServers)
    /\ CountsTried \subseteq Nat /\ K \in Nat
    /\ Described \subseteq SUBSET RankedHash
    /\ \A p \in Predecessors :
          /\ p \in [RankedHash -> RankedHash \union {Root}]
          /\ \E rank \in [RankedHash -> 1 .. Cardinality(RankedHash)] :
                \A h \in RankedHash : p[h] # Root => rank[p[h]] < rank[h]

(* compute_chain_depth: a block without metadata counts as a root.         *)
compute_chain_depth ==
    LET depth[h \in RankedHash] ==
            IF h \notin described \/ pre[h] = Root THEN 0 ELSE depth[pre[h]] + 1
    IN  depth

(* count <= 3 is skipped; a block that all local servers have, too.        *)
Popular(h) == count[h] > 3

Wanted(h) == h \in described => \E s \in LocalServers : s \notin placed[h]

Eligible == { h \in RankedHash : Popular(h) /\ Wanted(h) }

(* A wrong order that forgets the depth.                                   *)
MoreOften(g, h) == count[g] > count[h]

(* More often asked for or, for the same count, nearer to the root.        *)
Beats(g, h) ==
    \/ count[g] > count[h]
    \/ count[g] = count[h] /\ compute_chain_depth[g] < compute_chain_depth[h]

(* A wrong heap, with the greatest element on top.                         *)
Greatest(h) == h \in heap /\ \A g \in heap : ~Beats(g, h)

(* The heap's least element (of equals, the smaller hash: any of them).    *)
Least(h) == h \in heap /\ \A g \in heap : ~Beats(h, g)

VisitKey(h) ==
    /\ stage = "pass"
    /\ h \in unseen
    /\ unseen' = unseen \ {h}
    /\ \/ /\ h \notin Eligible \/ K = 0
          /\ heap' = heap
       \/ /\ h \in Eligible
          /\ Cardinality(heap) < K
          /\ heap' = heap \union {h}
       \/ /\ h \in Eligible /\ K # 0
          /\ Cardinality(heap) >= K
          /\ \E least \in heap :
                /\ Least(least)
                /\ heap' = IF Beats(h, least) THEN (heap \ {least}) \union {h} ELSE heap
    /\ UNCHANGED <<rankTables, result, pulls, stage>>

(* The blocks of the heap, taken in any order, sorted by priority.         *)
Sort(order) ==
    /\ stage = "pass"
    /\ unseen = {}
    /\ \A i, j \in DOMAIN order : i < j => ~Beats(order[j], order[i])
    /\ result' = order
    /\ stage' = "lookup"
    /\ UNCHANGED <<rankTables, unseen, heap, pulls>>

(* get_instance_from_token_hash: to the first local server that lacks the  *)
(* block, from its first remote holder, if the address of that is known.   *)
Target(h) ==
    LET lacking == { i \in DOMAIN LocalList : LocalList[i] \notin placed[h] }
    IN  LocalList[CHOOSE i \in lacking : \A k \in lacking : i <= k]

Sources(h) == placed[h] \ LocalServers

Transferable(h) == h \in described /\ Sources(h) # {}

(* The places in the answer of those whose source has an address.          *)
Places(first) ==
    { i \in DOMAIN result : Transferable(result[i]) /\ first[result[i]] \in ReachableRemote }

PullFrom(h, source) == [hash |-> h, source |-> source, target |-> Target(h)]

Lookup(first, kept) ==
    /\ stage = "lookup"
    /\ \A h \in RankedHash : first[h] \in Sources(h) \/ Sources(h) = {}
    /\ \A i, j \in DOMAIN kept : i < j => kept[i] < kept[j]
    /\ pulls' = [i \in DOMAIN kept |-> PullFrom(result[kept[i]], first[result[kept[i]]])]
    /\ stage' = "done"
    /\ UNCHANGED <<rankTables, unseen, heap, result>>

-----------------------------------------------------------------------------
SortHeap == \E order \in SetToSeqs(heap) : Sort(order)

LookupAll ==
    \E first \in [RankedHash -> Remote] :
        \E kept \in SetToSeqs(Places(first)) : Lookup(first, kept)

PopularityInit ==
    /\ count \in [RankedHash -> CountsTried]
    /\ pre \in Predecessors
    /\ described \in Described
    /\ placed \in [RankedHash -> Placements]
    /\ unseen = RankedHash
    /\ heap = {}
    /\ result = <<>>
    /\ pulls = <<>>
    /\ stage = "pass"

PopularityNext ==
    \/ \E h \in RankedHash : VisitKey(h)
    \/ SortHeap
    \/ LookupAll

PopularitySpec == PopularityInit /\ [][PopularityNext]_popularityVars

-----------------------------------------------------------------------------
PopularityTypeOK ==
    /\ count \in [RankedHash -> Nat] /\ described \subseteq RankedHash
    /\ pre \in [RankedHash -> RankedHash \union {Root}]
    /\ unseen \subseteq RankedHash /\ heap \subseteq RankedHash
    /\ result \in Seq(RankedHash)
    /\ \A i \in DOMAIN pulls :
          pulls[i] \in [hash : RankedHash, source : Remote, target : LocalServers]
    /\ stage \in {"pass", "lookup", "done"}

(* Whatever order the map gives its keys in, the bounded heap ends with as *)
(* many blocks as it may hold, and with none that another wanted block     *)
(* beats (popularity_score.rs:84-144).                                     *)
BestAreChosen ==
    stage # "pass" =>
        /\ Len(result) = Min({K, Cardinality(Eligible)})
        /\ \A i \in DOMAIN result : \A g \in Eligible \ ToSet(result) : ~Beats(g, result[i])

(* A block is not pulled before its predecessor when that is wanted and at *)
(* least as popular, since without it no search would get as far: unless   *)
(* the predecessor has no metadata, or no source whose address is known    *)
(* (popularity_score.rs:56-61, 110-127, 166-207).                          *)
PredecessorPulledFirst ==
    \A i \in DOMAIN pulls :
        LET h == pulls[i].hash  p == pre[h]
        IN  p # Root /\ p \in Eligible /\ count[p] >= count[h] =>
                \/ \E j \in 1 .. i - 1 : pulls[j].hash = p
                \/ p \notin described \/ Sources(p) \ ReachableRemote # {} \/ Sources(p) = {}
=============================================================================
