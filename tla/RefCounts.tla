------------------------------ MODULE RefCounts ------------------------------
(***************************************************************************)
(* RefCount (types.rs) at one metadata server: how often each block was    *)
(* asked for.  Uploads count in an incremental table and in the global     *)
(* one.  Every round of the synchronisation (sync_metadata) copies the     *)
(* incremental counts for the peers, adds them to the full local counts    *)
(* and clears them.  Counts received from peers, migrations and removals   *)
(* write the same tables, and a newcomer's full synchronisation            *)
(* (GetKvMeta) reads the totals.                                           *)
(*                                                                         *)
(* Each DashMap operation on one key is one step, and so is what a pass    *)
(* over a map does to one key: it goes over the keys shard by shard, in no *)
(* particular order, while the other handlers run.  No entry is ever zero, *)
(* so zero stands for no entry.  Every received count is one.              *)
(***************************************************************************)
EXTENDS Naturals, Sequences

CONSTANTS
    Hash,       \* block hashes
    Task,       \* handlers; each runs once
    Batches,    \* the hashes an upload may count
    MaxCountRounds   \* bound on the rounds of the synchronisation

(* An upload that counts anything counts at least one block.               *)
BatchesAssumption == Batches \subseteq Seq(Hash) \ {<<>>}

VARIABLES
    incr,       \* local_incremental_count
    full,       \* local_ref_counts
    global,     \* global_ref_counts
    pc,         \* [Task -> step]
    todo,       \* [Task -> hashes it still has to write]
    phase,      \* where sync_metadata is
    left,       \* keys its pass over the counts has still to visit
    snap,       \* local_counts, the copy for the peers
    countRounds,     \* rounds started
    greet,      \* where the newcomer's GetKvMeta is
    unread,     \* keys its pass over the totals has still to visit
    heard,      \* the totals it has collected
    listed,     \* whether the newcomer is in meta_server_collect
    told,       \* counts the newcomer has been sent
    hits,       \* history: local uploads of each block
    credits,    \* history: other additions to the local counts
    unsent,     \* history: hits after the round's copy, before its clear
    unmerged,   \* history: hits after the round's merge, before its clear
    gone,       \* history: blocks removed
    revived     \* history: removed blocks that may have a count again

tables   == <<incr, full, global>>
taskVars == <<pc, todo>>
countRoundVars == <<phase, left, snap, countRounds>>
greetVars == <<greet, unread, heard, listed, told>>
countHistory  == <<hits, credits, unsent, unmerged, gone, revived>>
countVars == <<tables, taskVars, countRoundVars, greetVars, countHistory>>

-----------------------------------------------------------------------------
Counts == [Hash -> Nat]

Zero == [h \in Hash |-> 0]

Plus(f, g) == [h \in Hash |-> f[h] + g[h]]

(* entry(h).and_modify(|c| *c += n).or_insert(n)                           *)
Increment(table, h, n) == [table EXCEPT ![h] = @ + n]

(* A wrong merge that replaces the count already there.                    *)
Overwrite(table, h, n) == IF n = 0 THEN table ELSE [table EXCEPT ![h] = n]

(* clear_and_consolidate adds what it finds to the full count.             *)
Consolidate(table, h, n) == Increment(table, h, n)

At(t, step) == pc[t] = step

HashOf(t) == Head(todo[t])

Goto(t, step) == pc' = [pc EXCEPT ![t] = step]

Start(t, step, hashes) ==
    /\ At(t, "ready")
    /\ todo' = [todo EXCEPT ![t] = hashes]
    /\ Goto(t, step)
    /\ UNCHANGED <<tables, countRoundVars, greetVars, countHistory>>

(* The round has copied h, or merged it, and has not cleared it yet.       *)
Copied(h) ==
    \/ phase = "copy" /\ h \notin left
    \/ phase = "merge"
    \/ phase = "clear" /\ h \in left

Merged(h) ==
    \/ phase = "merge" /\ h \notin left
    \/ phase = "clear" /\ h \in left

-----------------------------------------------------------------------------
(* batch_increment_local_incremental_count: for each hash the incremental  *)
(* count, then the global one.                                             *)

Upload(t, batch) == Start(t, "countLocal", batch)

CountLocal(t) ==
    LET h == HashOf(t)
    IN  /\ At(t, "countLocal")
        /\ incr' = Increment(incr, h, 1)
        /\ Goto(t, "countGlobal")
        /\ hits' = Increment(hits, h, 1)
        /\ unsent' = IF Copied(h) THEN Increment(unsent, h, 1) ELSE unsent
        /\ unmerged' = IF Merged(h) THEN Increment(unmerged, h, 1) ELSE unmerged
        /\ revived' = revived \union {h}
        /\ UNCHANGED <<full, global, todo, countRoundVars, greetVars, credits, gone>>

CountGlobal(t) ==
    /\ At(t, "countGlobal")
    /\ global' = Increment(global, HashOf(t), 1)
    /\ todo' = [todo EXCEPT ![t] = Tail(@)]
    /\ Goto(t, IF Len(todo[t]) = 1 THEN "done" ELSE "countLocal")
    /\ UNCHANGED <<incr, full, countRoundVars, greetVars, countHistory>>

-----------------------------------------------------------------------------
(* increment_global_ref_count: a block with a full local count is counted  *)
(* there, any other in the global table.                                   *)

(* A wrong test that takes every block for a local one.                    *)
AllAreLocal(h) == TRUE

CountsAsLocal(h) == full[h] > 0

Receive(t, h) ==
    /\ At(t, "ready")
    /\ todo' = [todo EXCEPT ![t] = <<h>>]
    /\ Goto(t, IF CountsAsLocal(h) THEN "addLocal" ELSE "addGlobal")
    /\ revived' = IF full[h] > 0 THEN revived \union {h} ELSE revived
    /\ UNCHANGED <<tables, countRoundVars, greetVars, hits, credits, unsent, unmerged, gone>>

(* increment_local_ref_count                                               *)
AddLocal(t) ==
    LET h == HashOf(t)
    IN  /\ At(t, "addLocal")
        /\ full' = Increment(full, h, 1)
        /\ Goto(t, "done")
        /\ credits' = Increment(credits, h, 1)
        /\ UNCHANGED <<incr, global, todo, countRoundVars, greetVars, hits, unsent,
                       unmerged, gone, revived>>

AddGlobal(t) ==
    /\ At(t, "addGlobal")
    /\ global' = Increment(global, HashOf(t), 1)
    /\ Goto(t, "done")
    /\ UNCHANGED <<incr, full, todo, countRoundVars, greetVars, countHistory>>

(* A migration brought the block to one of the server's data servers.      *)
Migrated(t, h) ==
    /\ At(t, "ready")
    /\ full' = Increment(full, h, 1)
    /\ Goto(t, "done")
    /\ credits' = Increment(credits, h, 1)
    /\ revived' = revived \union {h}
    /\ UNCHANGED <<incr, global, todo, countRoundVars, greetVars, hits, unsent, unmerged,
                   gone>>

-----------------------------------------------------------------------------
(* RemoveKvMeta: the global count when no server is left, then the full    *)
(* local count, then the incremental one.                                  *)

RemoveBlock(t, h, lastServer) ==
    /\ At(t, "ready")
    /\ global' = IF lastServer THEN [global EXCEPT ![h] = 0] ELSE global
    /\ todo' = [todo EXCEPT ![t] = <<h>>]
    /\ Goto(t, "removeFull")
    /\ UNCHANGED <<incr, full, countRoundVars, greetVars, countHistory>>

(* History: from here on the block is gone, unless a received count has    *)
(* already been assigned to the local table.                               *)
RemoveFull(t) ==
    LET h == HashOf(t)
        assigned == \E u \in Task : At(u, "addLocal") /\ HashOf(u) = h
    IN  /\ At(t, "removeFull")
        /\ full' = [full EXCEPT ![h] = 0]
        /\ Goto(t, "removeIncr")
        /\ gone' = gone \union {h}
        /\ revived' = IF assigned THEN revived \union {h} ELSE revived \ {h}
        /\ UNCHANGED <<incr, global, todo, countRoundVars, greetVars, hits, credits, unsent,
                       unmerged>>

RemoveIncr(t) ==
    /\ At(t, "removeIncr")
    /\ incr' = [incr EXCEPT ![HashOf(t)] = 0]
    /\ Goto(t, "done")
    /\ UNCHANGED <<full, global, todo, countRoundVars, greetVars, countHistory>>

-----------------------------------------------------------------------------
(* A round of sync_metadata, as far as it is about counts.                 *)

StartCountRound ==
    /\ phase = "idle"
    /\ countRounds < MaxCountRounds
    /\ countRounds' = countRounds + 1
    /\ phase' = "copy"
    /\ left' = Hash
    /\ snap' = Zero
    /\ UNCHANGED <<tables, taskVars, greetVars, countHistory>>

(* The pass has been over every key: on to the next one.                   *)
NextPhase(step, over) ==
    /\ phase = step
    /\ left = {}
    /\ phase' = over
    /\ left' = Hash
    /\ UNCHANGED <<tables, taskVars, snap, countRounds, greetVars, countHistory>>

Visit(step, h) ==
    /\ phase = step
    /\ h \in left
    /\ left' = left \ {h}
    /\ UNCHANGED <<taskVars, phase, countRounds, greetVars, global, hits, credits, gone>>

CopyOne(h) ==
    /\ Visit("copy", h)
    /\ snap' = [snap EXCEPT ![h] = incr[h]]
    /\ UNCHANGED <<incr, full, unsent, unmerged, revived>>

(* clear_and_consolidate_incremental_counts: the guard of the incremental  *)
(* entry is held while the full one is written.  History: what is merged   *)
(* between the two halves of a removal survives it.                        *)
MergeOne(h) ==
    /\ Visit("merge", h)
    /\ full' = Consolidate(full, h, incr[h])
    /\ revived' = IF \E t \in Task : At(t, "removeIncr") /\ HashOf(t) = h
                  THEN revived \union {h} ELSE revived
    /\ UNCHANGED <<incr, snap, unsent, unmerged>>

ClearOne(h) ==
    /\ Visit("clear", h)
    /\ incr' = [incr EXCEPT ![h] = 0]
    /\ UNCHANGED <<full, snap, unsent, unmerged, revived>>

(* The list of peers is read after the counts have been cleared.           *)
SendRound ==
    /\ phase = "send"
    /\ phase' = "idle"
    /\ told' = IF listed THEN Plus(told, snap) ELSE told
    /\ snap' = Zero
    /\ UNCHANGED <<tables, taskVars, left, countRounds, greet, unread, heard, listed, countHistory>>

-----------------------------------------------------------------------------
(* GetKvMeta from a newcomer: it is put in the list first, then the totals *)
(* are collected (get_all_local_total_counts), the full counts before the  *)
(* incremental ones.                                                       *)

(* A wrong handler that lists the newcomer only when it answers.           *)
ListedLater == FALSE

ListedAtOnce == TRUE

Greet ==
    /\ greet = "new"
    /\ greet' = "full"
    /\ listed' = ListedAtOnce
    /\ unread' = Hash
    /\ UNCHANGED <<tables, taskVars, countRoundVars, heard, told, countHistory>>

Read(step, table, h) ==
    /\ greet = step
    /\ h \in unread
    /\ unread' = unread \ {h}
    /\ heard' = Increment(heard, h, table[h])
    /\ UNCHANGED <<tables, taskVars, countRoundVars, greet, listed, told, countHistory>>

ReadIncrNext ==
    /\ greet = "full"
    /\ unread = {}
    /\ greet' = "incr"
    /\ unread' = Hash
    /\ UNCHANGED <<tables, taskVars, countRoundVars, heard, listed, told, countHistory>>

Answer ==
    /\ greet = "incr"
    /\ unread = {}
    /\ greet' = "answered"
    /\ listed' = TRUE
    /\ told' = Plus(told, heard)
    /\ UNCHANGED <<tables, taskVars, countRoundVars, unread, heard, countHistory>>

-----------------------------------------------------------------------------
CountInit ==
    /\ incr = Zero /\ full = Zero /\ global = Zero
    /\ pc = [t \in Task |-> "ready"] /\ todo = [t \in Task |-> <<>>]
    /\ phase = "idle" /\ left = {} /\ snap = Zero /\ countRounds = 0
    /\ greet = "new" /\ unread = {} /\ heard = Zero /\ listed = FALSE /\ told = Zero
    /\ hits = Zero /\ credits = Zero /\ unsent = Zero /\ unmerged = Zero
    /\ gone = {} /\ revived = {}

Handler(t) ==
    \/ \E batch \in Batches : Upload(t, batch)
    \/ CountLocal(t) \/ CountGlobal(t)
    \/ \E h \in Hash : Receive(t, h) \/ Migrated(t, h)
    \/ AddLocal(t) \/ AddGlobal(t)
    \/ \E h \in Hash, lastServer \in BOOLEAN : RemoveBlock(t, h, lastServer)
    \/ RemoveFull(t) \/ RemoveIncr(t)

CountRound ==
    \/ StartCountRound \/ SendRound
    \/ NextPhase("copy", "merge") \/ NextPhase("merge", "clear") \/ NextPhase("clear", "send")
    \/ \E h \in Hash : CopyOne(h) \/ MergeOne(h) \/ ClearOne(h)

Newcomer ==
    \/ Greet \/ ReadIncrNext \/ Answer
    \/ \E h \in Hash : Read("full", full, h) \/ Read("incr", incr, h)

CountNext == (\E t \in Task : Handler(t)) \/ CountRound \/ Newcomer

CountSpec == CountInit /\ [][CountNext]_countVars

-----------------------------------------------------------------------------
CountTypeOK ==
    /\ incr \in Counts /\ full \in Counts /\ global \in Counts
    /\ pc \in [Task -> {"ready", "countLocal", "countGlobal", "addLocal", "addGlobal",
                        "removeFull", "removeIncr", "done"}]
    /\ todo \in [Task -> Seq(Hash)]
    /\ \A t \in Task : pc[t] \notin {"ready", "done"} => todo[t] # <<>>
    /\ phase \in {"idle", "copy", "merge", "clear", "send"}
    /\ left \subseteq Hash /\ snap \in Counts /\ countRounds \in Nat
    /\ greet \in {"new", "full", "incr", "answered"}
    /\ unread \subseteq Hash /\ heard \in Counts /\ listed \in BOOLEAN /\ told \in Counts
    /\ hits \in Counts /\ credits \in Counts /\ unsent \in Counts /\ unmerged \in Counts
    /\ gone \subseteq Hash /\ revived \subseteq Hash

(* Of a block that was never removed no local count is lost or counted     *)
(* twice, however uploads, received counts, migrations and rounds          *)
(* interleave, but for the hits made after the round's pass has been over  *)
(* the block and before it is cleared (types.rs:197-211).                  *)
CountsAddUp ==
    \A h \in Hash \ gone :
        ~Merged(h) => full[h] + incr[h] + unmerged[h] = hits[h] + credits[h]

(* When the newcomer has its answer and no round is under way, it has been *)
(* told of every hit that is not waiting for the next round, except hits   *)
(* made between a round's copy and its clear: the totals read while a      *)
(* round moves them from one table to the other miss none, because the     *)
(* newcomer was listed first (get_kvmeta.rs:24-27, 97-99, client.rs:299).  *)
NewcomerMissesNothing ==
    greet = "answered" /\ phase = "idle" =>
        \A h \in Hash \ gone : told[h] + incr[h] + unsent[h] >= hits[h]

(* A removed block has no local count, unless something counted it since,  *)
(* a received count had already been assigned to the local table, or a     *)
(* round merged it between the two halves of the removal: a count received *)
(* after the removal goes to the global table (types.rs:279-291, 319-323). *)
RemovedIsGone ==
    \A h \in gone \ revived :
        /\ full[h] = 0
        /\ incr[h] > 0 => \E t \in Task : At(t, "removeIncr") /\ HashOf(t) = h
=============================================================================
