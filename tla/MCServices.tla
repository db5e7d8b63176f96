------------------------------ MODULE MCServices ------------------------------
(***************************************************************************)
(* Small instances of the services that share no state with each other in  *)
(* the models: reference counts, membership, migrations, the choice of     *)
(* popular blocks, searches and token hashing.  A behaviour is one of one  *)
(* service, `part`; the others stay as they are at one of their starts, so *)
(* that the reachable states are the sum of those of the services, not     *)
(* their product, which would show nothing more.                           *)
(***************************************************************************)
EXTENDS RefCounts, Membership, Migration, Popularity, Search, TokenHash, TLC

CONSTANTS
    A, B, C,            \* block hashes
    n1, n2, n3, d1,     \* metadata servers, a data server
    q1, q2,             \* request ids
    s1, s2, x1, x2,     \* local and remote data servers
    m1, m2,             \* model names
    Thread, t3          \* handlers and background jobs

VARIABLE part

(* One block is enough for the counts, which are kept block by block; it   *)
(* takes three handlers to have a count, remove it and add to it at once.  *)
Counted == {A}
Uploads == {<<A>>}
Handlers == Thread \union {t3}

ConfiguredAt == n1 :> <<n2>> @@ n2 :> <<n1>> @@ n3 :> <<n2>>
Registering == d1 :> {n1, n3}

Moved == {A, B}
Requests == {q1, q2}
ChainOf == q1 :> <<A, B>> @@ q2 :> <<A>>
SourceOf == q1 :> s1 @@ q2 :> s1
LocalServer == {s1, s2}
Ring == <<s1, x1, s2>>
PlacedAt == A :> {s1, s2} @@ B :> {x1}

Block == {A, B, C}
LocalInOrder == <<s1, s2>>
RemoteServer == {x1, x2}
RemoteReached == {x1}
CountsSeen == 3 .. 5
PredecessorMaps == { A :> Root @@ B :> A @@ C :> h : h \in {A, B} }
Descriptions == {{A, B, C}, {B, C}, {A, C}}
PlacementSets == {{x1}, {x1, s1}, {s1}, {x1, x2}}

Prompt == <<A, B, C>>
ModelOf == s1 :> m1 @@ s2 :> m2
AskedSets == {{m1, m2}, {m1}}

Seed == <<3, 3>>
Digests == {<<0, 1>>, <<1, 0>>, <<1, 1>>, <<0, 2>>, <<2, 1>>}
TokenLists == {<<>>, <<23>>, <<24>>, <<24, 255>>, <<24, 255, 256>>,
               <<24, 255, 65535, 65536>>, <<24, 256, 65535, 65536>>,
               <<24, 255, 24, 255>>}

(* What the theorems assume of the constants.                              *)
ASSUME ServicesAssumption ==
    /\ BatchesAssumption /\ MembershipAssumption /\ MigrationAssumption
    /\ PopularityAssumption /\ SearchAssumption /\ HashingAssumption

Symmetry == Permutations(Thread)

allVars == <<part, countVars, vars, migrationVars, popularityVars, searchVars, hashingVars>>

-----------------------------------------------------------------------------
(* One of the starts of the services that have several.                    *)
PopularityRests ==
    /\ count = [h \in Block |-> 3]
    /\ pre = A :> Root @@ B :> A @@ C :> B
    /\ described = Block
    /\ placed = [h \in Block |-> {s1}]
    /\ PopularityInit

SearchRests ==
    /\ table = [h \in Block |-> [servers |-> {}, next |-> {}]]
    /\ asked = {m1}
    /\ SearchInit

HashingRests ==
    /\ algorithm = "cbor"
    /\ unfull = FALSE
    /\ tokens = [k \in 1 .. 2 |-> <<>>]
    /\ HashingInit

MCInit ==
    /\ CountInit
    /\ Init
    /\ MigrationInit
    /\ \/ /\ part \in {"counts", "members", "migrations"}
          /\ PopularityRests /\ SearchRests /\ HashingRests
       \/ part = "pulls" /\ PopularityInit /\ SearchRests /\ HashingRests
       \/ part = "search" /\ PopularityRests /\ SearchInit /\ HashingRests
       \/ part = "hashing" /\ PopularityRests /\ SearchRests /\ HashingInit

InCounts     == part = "counts"
InMembers    == part = "members"
InMigrations == part = "migrations"
InPulls      == part = "pulls"
InSearch     == part = "search"
InHashing    == part = "hashing"

(* What the steps of one service leave alone.                              *)
OnlyCounts ==
    UNCHANGED <<part, vars, migrationVars, popularityVars, searchVars, hashingVars>>

OnlyMembers ==
    UNCHANGED <<part, countVars, migrationVars, popularityVars, searchVars, hashingVars>>

OnlyMigrations ==
    UNCHANGED <<part, countVars, vars, popularityVars, searchVars, hashingVars>>

OnlyPulls ==
    UNCHANGED <<part, countVars, vars, migrationVars, searchVars, hashingVars>>

OnlySearch ==
    UNCHANGED <<part, countVars, vars, migrationVars, popularityVars, hashingVars>>

OnlyHashing ==
    UNCHANGED <<part, countVars, vars, migrationVars, popularityVars, searchVars>>

CountsNext ==
    \/ \E t \in Handlers : InCounts /\ Upload(t, <<A>>) /\ OnlyCounts
    \/ \E t \in Handlers : InCounts /\ CountLocal(t) /\ OnlyCounts
    \/ \E t \in Handlers : InCounts /\ CountGlobal(t) /\ OnlyCounts
    \/ \E t \in Handlers, h \in {A} : InCounts /\ Receive(t, h) /\ OnlyCounts
    \/ \E t \in Handlers, h \in {A} : InCounts /\ Migrated(t, h) /\ OnlyCounts
    \/ \E t \in Handlers : InCounts /\ AddLocal(t) /\ OnlyCounts
    \/ \E t \in Handlers : InCounts /\ AddGlobal(t) /\ OnlyCounts
    \/ \E t \in Handlers, h \in {A}, last \in BOOLEAN :
          InCounts /\ RemoveBlock(t, h, last) /\ OnlyCounts
    \/ \E t \in Handlers : InCounts /\ RemoveFull(t) /\ OnlyCounts
    \/ \E t \in Handlers : InCounts /\ RemoveIncr(t) /\ OnlyCounts
    \/ InCounts /\ StartCountRound /\ OnlyCounts
    \/ InCounts /\ NextPhase("copy", "merge") /\ OnlyCounts
    \/ InCounts /\ NextPhase("merge", "clear") /\ OnlyCounts
    \/ InCounts /\ NextPhase("clear", "send") /\ OnlyCounts
    \/ InCounts /\ SendRound /\ OnlyCounts
    \/ \E h \in {A} : InCounts /\ CopyOne(h) /\ OnlyCounts
    \/ \E h \in {A} : InCounts /\ MergeOne(h) /\ OnlyCounts
    \/ \E h \in {A} : InCounts /\ ClearOne(h) /\ OnlyCounts
    \/ InCounts /\ Greet /\ OnlyCounts
    \/ \E h \in {A} : InCounts /\ Read("full", full, h) /\ OnlyCounts
    \/ InCounts /\ ReadIncrNext /\ OnlyCounts
    \/ \E h \in {A} : InCounts /\ Read("incr", incr, h) /\ OnlyCounts
    \/ InCounts /\ Answer /\ OnlyCounts

MembersNext ==
    \/ \E n \in {n1, n2, n3} : InMembers /\ Register(d1, n) /\ OnlyMembers
    \/ \E n \in {n1, n2, n3} : InMembers /\ RegisterGroup(d1, n) /\ OnlyMembers
    \/ \E n \in {n1, n2, n3} : InMembers /\ RegisterMap(d1, n) /\ OnlyMembers
    \/ \E n \in {n1, n2, n3} : InMembers /\ StartRound(n) /\ OnlyMembers
    \/ \E n, p \in {n1, n2, n3} : InMembers /\ Reply(n, p) /\ OnlyMembers
    \/ \E n, p \in {n1, n2, n3}, layer \in {4, 5} : InMembers /\ Fail(n, p, layer) /\ OnlyMembers
    \/ \E n, p \in {n1, n2, n3} : InMembers /\ UpdateAll(n, p) /\ OnlyMembers
    \/ \E n, p \in {n1, n2, n3} : InMembers /\ UpdateUntilNew(n, p) /\ OnlyMembers
    \/ \E n, p \in {n1, n2, n3} : InMembers /\ Greeted(n, p) /\ OnlyMembers
    \/ \E n, p \in {n1, n2, n3} : InMembers /\ GreetFails(n, p) /\ OnlyMembers
    \/ \E m, n \in {n1, n2, n3} : InMembers /\ HandleList(m, n) /\ OnlyMembers
    \/ \E m, n \in {n1, n2, n3} : InMembers /\ HandleGroup(m, n, d1) /\ OnlyMembers
    \/ \E m, n \in {n1, n2, n3} : InMembers /\ HandleMap(m, n) /\ OnlyMembers
    \/ \E m, n \in {n1, n2, n3} : InMembers /\ HandleAnswer(m, n) /\ OnlyMembers

MigrationsNext ==
    \/ InMigrations /\ Tick /\ OnlyMigrations
    \/ \E w \in Thread, r \in {q1, q2} : InMigrations /\ NewRequest(w, r) /\ OnlyMigrations
    \/ \E w \in Thread, r \in {q1, q2} : InMigrations /\ RequestEnd(w, r) /\ OnlyMigrations
    \/ \E w \in Thread, r \in {q1, q2} : InMigrations /\ RemoveExpired(w, r) /\ OnlyMigrations
    \/ \E w \in Thread, held \in SUBSET {A, B} : InMigrations /\ Filter(w, held) /\ OnlyMigrations
    \/ \E w \in Thread : InMigrations /\ Queue(w) /\ OnlyMigrations
    \/ \E w \in Thread : InMigrations /\ Pop(w) /\ OnlyMigrations
    \/ \E w \in Thread : InMigrations /\ Spawn(w) /\ OnlyMigrations
    \/ \E w \in Thread : InMigrations /\ Plan(w) /\ OnlyMigrations
    \/ \E w \in Thread : InMigrations /\ Choose(w) /\ OnlyMigrations
    \/ \E w \in Thread :
          InMigrations /\ OnlyMigrations /\ \E pulled \in Pulls : StartPull(w, pulled)
    \/ \E w \in Thread : InMigrations /\ PullNext(w) /\ OnlyMigrations
    \/ \E w \in Thread : InMigrations /\ PullOver(w) /\ OnlyMigrations
    \/ \E w \in Thread : InMigrations /\ TransferDone(w) /\ OnlyMigrations
    \/ \E w \in Thread : InMigrations /\ NotFound(w) /\ OnlyMigrations
    \/ \E w \in Thread : InMigrations /\ Failed(w) /\ OnlyMigrations
    \/ \E w \in Thread : InMigrations /\ ListTarget(w) /\ OnlyMigrations
    \/ \E w \in Thread : InMigrations /\ Index(w) /\ OnlyMigrations
    \/ \E w \in Thread : InMigrations /\ Record(w) /\ OnlyMigrations
    \/ \E w \in Thread, h \in {A, B}, s \in {s1, s2} :
          InMigrations /\ RemoveKvMeta(w, h, s) /\ OnlyMigrations
    \/ \E w \in Thread : InMigrations /\ Unindex(w) /\ OnlyMigrations
    \/ \E w \in Thread : InMigrations /\ Retract(w) /\ OnlyMigrations
    \/ \E w \in Thread : InMigrations /\ Drop(w) /\ OnlyMigrations

PullsNext ==
    \/ \E h \in {A, B, C} : InPulls /\ VisitKey(h) /\ OnlyPulls
    \/ InPulls /\ SortHeap /\ OnlyPulls
    \/ InPulls /\ LookupAll /\ OnlyPulls

SearchesNext ==
    \/ InSearch /\ StartWalk /\ OnlySearch
    \/ InSearch /\ Walk /\ OnlySearch
    \/ InSearch /\ AnswerSearch /\ OnlySearch
    \/ \E h \in {A, B, C} : InSearch /\ ChangeEntry(h) /\ OnlySearch

HashesNext == \E k \in 1 .. 2 : InHashing /\ HashNext(k) /\ OnlyHashing

MCNext == CountsNext \/ MembersNext \/ MigrationsNext \/ PullsNext \/ SearchesNext \/ HashesNext

MCSpec == MCInit /\ [][MCNext]_allVars

-----------------------------------------------------------------------------
(* The tables and steps of the services other than Membership keep their   *)
(* types.                                                                  *)
ServicesTyped ==
    /\ part = "counts" => CountTypeOK
    /\ part = "migrations" => MigrationTypeOK
    /\ part = "pulls" => PopularityTypeOK
    /\ part = "search" => SearchTypeOK
    /\ part = "hashing" => HashingTypeOK
=============================================================================
