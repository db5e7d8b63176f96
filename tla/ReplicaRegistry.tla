--------------------------- MODULE ReplicaRegistry ---------------------------
(***************************************************************************)
(* What the block directory of one metadata server amounts to, without its *)
(* handlers, locks, clones and queues: a set of replicas per block that    *)
(* changes in single steps.  Each step is one server's word about one      *)
(* block, or no word at all, and what it does to the set is bounded by it: *)
(* a claim brings in the server that makes it and nobody else, and nobody  *)
(* is brought back who has not claimed the block since withdrawing, except *)
(* for blocks on which a withdrawal crossed an older clone (raced).        *)
(* BlockDirectory implements this specification.                           *)
(***************************************************************************)
CONSTANTS
    Hash,      \* block hashes
    ServerId   \* servers a block may list

VARIABLES
    listed,    \* [Hash -> servers the directory answers with]
    claims,    \* [Hash -> servers whose last word is that they hold it]
    raced      \* blocks on which a withdrawal crossed an older clone

vars == <<listed, claims, raced>>

Init ==
    /\ listed = [h \in Hash |-> {}]
    /\ claims = [h \in Hash |-> {}]
    /\ raced = {}

Lists(h, servers) == listed' = [listed EXCEPT ![h] = servers]

(* A clone of the entry is written back after a drop: it may bring in      *)
(* again whoever has claimed the block, and on a raced block anybody.      *)
Reinstated(h) == { s \in ServerId : s \in claims'[h] \/ h \in raced' }

(* Server s says it holds the block: it joins the others, replaces them    *)
(* (the first upload of a block, which two may make), or changes nothing.  *)
Claim(h, s) ==
    /\ claims' = [claims EXCEPT ![h] = @ \union {s}]
    /\ UNCHANGED raced
    /\ \E servers \in {listed[h], listed[h] \union {s}, {s}} : Lists(h, servers)

(* Server s says it no longer holds the block: it is not listed any more.  *)
Withdraw(h, s) ==
    /\ claims' = [claims EXCEPT ![h] = @ \ {s}]
    /\ raced' \in {raced, raced \union {h}}
    /\ \E servers \in (SUBSET (listed[h] \ {s})) \union (SUBSET (Reinstated(h) \ {s})) :
          Lists(h, servers)

(* Nobody says anything: replicas are forgotten, or reinstated.            *)
Rewrite(h) ==
    /\ UNCHANGED <<claims, raced>>
    /\ \E servers \in (SUBSET listed[h]) \union (SUBSET Reinstated(h)) : Lists(h, servers)

Next ==
    \E h \in Hash : Rewrite(h) \/ \E s \in ServerId : Claim(h, s) \/ Withdraw(h, s)

Spec == Init /\ [][Next]_vars
=============================================================================
