----------------------------- MODULE ReplicaGossip -----------------------------
(***************************************************************************)
(* What the synchronisation of metadata servers amounts to, without its    *)
(* queues, rounds, requests, calls and failures: each server lists         *)
(* replicas, words about replicas spread, and every word may reach every   *)
(* server, at any time, any number of times, or never.  What a server may  *)
(* do with a word is all there is to the protocol: it takes in a replica   *)
(* of a block it does not have, it gives up the other replicas of a block  *)
(* in favour of the one it hears of, and it forgets a replica that is      *)
(* denied.  MetaSync implements this specification.                        *)
(***************************************************************************)
CONSTANTS
    Node,    \* metadata servers
    Server,  \* data servers
    Home,    \* [Server -> the metadata server it reports to]
    Hash     \* block hashes

VARIABLES
    lists,   \* [Node -> replicas (<<block, server>>) the server lists]
    said,    \* replicas of which somebody has said that they exist
    denied   \* replicas of which somebody has said that they do not

vars == <<lists, said, denied>>

Init == lists = [n \in Node |-> {}] /\ said = {} /\ denied = {}

ReplicasOf(n, h) == { r \in lists[n] : r[1] = h }

List(n, replicas) == lists' = [lists EXCEPT ![n] = replicas]

(* A server's own data server uploads a block.                             *)
Upload(n, h, s) ==
    /\ Home[s] = n
    /\ <<h, s>> \notin lists[n]
    /\ List(n, lists[n] \union {<<h, s>>})
    /\ said' = said \union {<<h, s>>}
    /\ UNCHANGED denied

(* A migration reports a copy: it is listed if the block is.               *)
Migrated(n, h, s) ==
    /\ List(n, IF ReplicasOf(n, h) = {} THEN lists[n] ELSE lists[n] \union {<<h, s>>})
    /\ said' = said \union {<<h, s>>}
    /\ UNCHANGED denied

(* A data server withdraws from a block, and its metadata server denies    *)
(* that it has the block itself.                                           *)
Withdraw(n, h, s) ==
    /\ Home[s] = n
    /\ List(n, lists[n] \ {<<h, s>>})
    /\ denied' = denied \union {<<h, n>>}
    /\ UNCHANGED said

(* A migration does not find a replica.                                    *)
Missing(n, h, s) ==
    /\ List(n, lists[n] \ {<<h, s>>})
    /\ denied' = denied \union {<<h, s>>}
    /\ UNCHANGED said

(* What a server makes of what others say.                                 *)
TakeIn(n, h, s) ==
    /\ <<h, s>> \in said
    /\ ReplicasOf(n, h) = {}
    /\ List(n, lists[n] \union {<<h, s>>})
    /\ UNCHANGED <<said, denied>>

Prefer(n, h, s) ==
    /\ <<h, s>> \in said \intersect lists[n]
    /\ List(n, (lists[n] \ ReplicasOf(n, h)) \union {<<h, s>>})
    /\ UNCHANGED <<said, denied>>

Forget(n, h, s) ==
    /\ <<h, s>> \in denied
    /\ List(n, lists[n] \ {<<h, s>>})
    /\ UNCHANGED <<said, denied>>

Next ==
    \E n \in Node, h \in Hash, s \in Server :
        \/ Upload(n, h, s) \/ Migrated(n, h, s) \/ Withdraw(n, h, s) \/ Missing(n, h, s)
        \/ TakeIn(n, h, s) \/ Prefer(n, h, s) \/ Forget(n, h, s)

Spec == Init /\ [][Next]_vars
=============================================================================
