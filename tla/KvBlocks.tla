------------------------------ MODULE KvBlocks ------------------------------
(***************************************************************************)
(* The metadata of a KV cache block and the pure operations the metadata   *)
(* server applies to it.  A block is named by its hash (TokenHash, 32      *)
(* bytes), which depends on every token before it, so a hash determines    *)
(* its predecessor and its token count: pre_token and offset are functions *)
(* of the hash and are left out of the record.                             *)
(***************************************************************************)
EXTENDS Naturals, Sequences

CONSTANTS
    Hash,         \* block hashes
    LocalServer,  \* data servers (inference instances) of this domain
    PeerServer,   \* data servers of the other domains
    MetaServer,   \* hash_id() of the metadata servers
    NoMeta        \* "the DashMap has no entry under this hash"

DataServer == LocalServer \union PeerServer

(* A server_id field: a data server's id, or (by remove_kvmeta.rs:88) the  *)
(* id of a metadata server.                                                *)
ServerId == DataServer \union MetaServer

(* KvBlockMeta.  Both Vecs are pushed to only behind a contains test, so   *)
(* they are sets; nothing here depends on their order.                     *)
KvBlockMeta == [servers : SUBSET ServerId, next : SUBSET Hash]

ASSUME NoMetaAssumption == NoMeta \notin KvBlockMeta

(* A DashMap from hashes to block metadata.                                *)
BlockTable == [Hash -> KvBlockMeta \union {NoMeta}]

NoBlocks == [h \in Hash |-> NoMeta]

(* The servers a table lists for a block; none for an absent block.        *)
ServersOf(tbl, h) == IF tbl[h] = NoMeta THEN {} ELSE tbl[h].servers

NextOf(tbl, h) == IF tbl[h] = NoMeta THEN {} ELSE tbl[h].next

NewBlock(s, nexts) == [servers |-> {s}, next |-> nexts]

(* A wrong push that forgets the replicas already listed.                  *)
OnlyNewServer(meta, s) == [meta EXCEPT !.servers = {s}]

(* server_id.push(s) behind the contains test.                             *)
WithServer(meta, s) == [meta EXCEPT !.servers = @ \union {s}]

(* server_id.retain(|&id| id != s)                                         *)
WithoutServer(meta, s) == [meta EXCEPT !.servers = @ \ {s}]

(* The merge of next_tokens without duplicates.                            *)
WithNext(meta, nexts) == [meta EXCEPT !.next = @ \union nexts]

(* insert_global_kvcache on an existing entry: the new metadata, except    *)
(* that the servers are those that both list.                              *)
Intersection(existing, meta) ==
    [meta EXCEPT !.servers = @ \intersect existing.servers]

-----------------------------------------------------------------------------
(* Searches.  Chains are nonempty sequences of hashes.                     *)

Longest(S) == CHOOSE n \in S : \A m \in S : m <= n

(* How many blocks search_tokens walks over: each in the table, and each   *)
(* but the last one linked to the one after it.                            *)
SearchReach(tbl, chain) ==
    Longest({ n \in 0 .. Len(chain) :
                 /\ \A i \in 1 .. n : tbl[chain[i]] # NoMeta
                 /\ \A i \in 1 .. n : i > 1 => chain[i] \in NextOf(tbl, chain[i - 1]) })

(* What search_tokens returns for a server: the blocks on the walk that    *)
(* list the server (the code adds up their offsets).                       *)
search_tokens(tbl, chain) ==
    [s \in ServerId |->
        { i \in 1 .. SearchReach(tbl, chain) : s \in ServersOf(tbl, chain[i]) }]

(* The longest prefix of the chain every block of which is in the table:   *)
(* what a prefix search is for.                                            *)
LongestPrefix(tbl, chain) ==
    Longest({ n \in 0 .. Len(chain) : \A i \in 1 .. n : tbl[chain[i]] # NoMeta })
=============================================================================
