-------------------------------- MODULE Search --------------------------------
(***************************************************************************)
(* A prefix search: search_tokens walks the blocks of a query through      *)
(* global_kvcache_table, and SearchKvBlock and SearchKvBlockByPrompts look *)
(* up the addresses of the servers it credits.  Each block is read under a *)
(* guard of its own, so the table changes while the search walks.  What    *)
(* the other handlers do to it is in BlockDirectory; here an entry may     *)
(* become any other.                                                       *)
(***************************************************************************)
EXTENDS Naturals, Sequences

CONSTANTS
    StoredHash,        \* block hashes
    Query,       \* the hashes of the query's blocks, none twice
    Server,      \* data servers
    Model,       \* [Server -> model_name]
    Reachable,   \* servers that the mapping and the groups name
    Asked,       \* sets of model names: one of them, or all for SearchKvBlock
    MaxChanges   \* bound on the changes of the table

(* A query is a sequence of hashes, and what can be reached is a server.   *)
SearchAssumption == Query \in Seq(StoredHash) /\ Reachable \subseteq Server

VARIABLES
    table,       \* [Hash -> Entry]
    asked,       \* models asked for
    place,           \* place in the query
    credit,      \* [Server -> places credited]; the code adds up their offsets
    answer,      \* servers in the answer
    progress,
    changes,     \* changes of the table
    always,      \* history: [Hash -> the entry's contents all through the search]
    ever         \* history: [Hash -> its contents at some time of the search]

searchVars == <<table, asked, place, credit, answer, progress, changes, always, ever>>

-----------------------------------------------------------------------------
(* KvBlockMeta, as far as the search looks at it: whether next_tokens has  *)
(* the block that follows in the query.  No servers stand for no entry.    *)
Follower(h) == { Query[k] : k \in { n \in 2 .. Len(Query) : Query[n - 1] = h } }

BlockEntry(h) ==
    { e \in [servers : SUBSET Server, next : SUBSET Follower(h)] :
          e.servers = {} => e.next = {} }

Present(h) == table[h].servers # {}

(* A wrong walk that does not ask whether the next block is linked.        *)
Unasked(h, g) == TRUE

Linked(h, g) == g \in table[h].next

StartWalk ==
    /\ progress = "ready"
    /\ progress' = IF Query = <<>> THEN "answer" ELSE "walk"
    /\ UNCHANGED <<table, asked, place, credit, answer, changes, always, ever>>

Credited(n) == table[Query[n]].servers

Walk ==
    LET h == Query[place]
    IN  /\ progress = "walk"
        /\ credit' = [s \in Server |-> credit[s] \union { n \in {place} : s \in Credited(n) }]
        /\ \/ /\ Present(h) /\ place < Len(Query) /\ Linked(h, Query[place + 1])
              /\ place' = place + 1
              /\ progress' = progress
           \/ /\ ~(Present(h) /\ place < Len(Query) /\ Linked(h, Query[place + 1]))
              /\ progress' = "answer"
              /\ place' = place
        /\ UNCHANGED <<table, asked, answer, changes, always, ever>>

(* A server is named if its metadata server is known and lists it, and     *)
(* SearchKvBlockByPrompts asks for its model besides.                      *)
Named == { s \in Reachable : credit[s] # {} }

AnswerSearch ==
    /\ progress = "answer"
    /\ answer' = { s \in Named : Model[s] \in asked }
    /\ progress' = "done"
    /\ UNCHANGED <<table, asked, place, credit, changes, always, ever>>

Change(h, entry) ==
    /\ changes < MaxChanges
    /\ progress # "done"
    /\ changes' = changes + 1
    /\ table' = [table EXCEPT ![h] = entry]
    /\ always' = [always EXCEPT ![h] = [servers |-> @.servers \intersect entry.servers,
                                        next |-> @.next \intersect entry.next]]
    /\ ever' = [ever EXCEPT ![h] = [servers |-> @.servers \union entry.servers,
                                    next |-> @.next \union entry.next]]
    /\ UNCHANGED <<asked, place, credit, answer, progress>>

ChangeEntry(h) == \E entry \in BlockEntry(h) : Change(h, entry)

SearchInit ==
    /\ table \in { t \in [StoredHash -> UNION { BlockEntry(h) : h \in StoredHash }] :
                     \A h \in StoredHash : t[h] \in BlockEntry(h) }
    /\ asked \in Asked
    /\ place = 1
    /\ credit = [s \in Server |-> {}]
    /\ answer = {}
    /\ progress = "ready"
    /\ changes = 0
    /\ always = table
    /\ ever = table

SearchNext ==
    \/ StartWalk \/ Walk \/ AnswerSearch
    \/ \E h \in StoredHash : ChangeEntry(h)

SearchSpec == SearchInit /\ [][SearchNext]_searchVars

-----------------------------------------------------------------------------
(* Server s held the first n blocks, linked, all the time.                 *)
HeldThroughout(s, n) ==
    \A k \in 1 .. n : /\ s \in always[Query[k]].servers
                      /\ k > 1 => Query[k] \in always[Query[k - 1]].next

SearchTypeOK ==
    /\ \A h \in StoredHash : table[h] \in BlockEntry(h)
    /\ asked \in Asked
    /\ credit \in [Server -> SUBSET DOMAIN Query]
    /\ answer \subseteq Server
    /\ progress \in {"ready", "walk", "answer", "done"}

(* However the table changes during the search, a server is credited with  *)
(* no less than the unbroken prefix it held all the time, and beyond it    *)
(* only with blocks it was listed for, to which links have led from the    *)
(* first block: the credit may skip blocks that the server lacks           *)
(* (lib.rs:656-701).                                                       *)
CreditIsBracketed ==
    progress \in {"answer", "done"} =>
        \A s \in Server :
            /\ \A n \in DOMAIN Query : HeldThroughout(s, n) => 1 .. n \subseteq credit[s]
            /\ \A n \in credit[s] :
                  /\ s \in ever[Query[n]].servers
                  /\ \A k \in 2 .. n : Query[k] \in ever[Query[k - 1]].next
=============================================================================
