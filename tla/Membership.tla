----------------------------- MODULE Membership -----------------------------
(***************************************************************************)
(* Who knows whom.  Every metadata server starts with the list of its      *)
(* configuration file.  In a round of the synchronisation it calls the     *)
(* servers of its list, each in a task of its own; the answer carries the  *)
(* list of the callee, from which it learns of servers it does not know    *)
(* yet (update_server_status).  Such a server is listed at once and asked  *)
(* for a full synchronisation (get_kvmeta); the callee lists the caller    *)
(* and its data servers.  Data servers register with a metadata server     *)
(* (RegisterInstance).                                                     *)
(*                                                                         *)
(* The list is behind a lock that is released while a full synchronisation *)
(* runs; the tables of data servers are DashMaps, one step for each call.  *)
(* The blocks and counts that the calls carry belong to MetaSync and to    *)
(* RefCounts.  An answer's data servers only replace entries that are      *)
(* there already, by themselves here.  Every round has something to send.  *)
(***************************************************************************)
EXTENDS Naturals, SequencesExt

CONSTANTS
    Node,         \* metadata servers
    Data,         \* data servers
    Configured,   \* [Node -> Seq(Node): the remote servers in its config file]
    RegistersAt,  \* [Data -> the metadata servers it registers with]
    None,         \* nobody
    MaxRounds,    \* bound on the rounds of each server
    MaxFailures   \* bound on the calls that fail

(* A configuration file names other metadata servers, each once.           *)
MembershipAssumption ==
    /\ Configured \in [Node -> Seq(Node)]
    /\ \A n \in Node : n \notin ToSet(Configured[n]) /\ IsInjective(Configured[n])
    /\ None \notin Node \union Data

VARIABLES
    list,      \* [Node -> meta_server_collect]
    local,     \* [Node -> local_data_server_collect]
    group,     \* [Node -> global_data_server_collect: data servers by metadata server]
    home,      \* [Node -> data_server_to_meta_server]
    reg,       \* [Data -> [Node -> step of its registration]]
    clone,     \* [Node -> the list its round goes by]
    call,      \* [Node -> [Node -> state of the round's task for the peer]]
    rest,      \* [Node -> [Node -> what is left of the peer's answer]]
    greeted,   \* [Node -> [Node -> the server the task is asking for everything]]
    handler,   \* [Node -> [Node -> state of its GetKvMeta for the caller]]
    incoming,  \* [Node -> [Node -> data servers that handler has still to add]]
    mapping,   \* [Node -> [Node -> data server between its two tables]]
    rounds,    \* [Node -> rounds started]
    failures,  \* calls that failed
    synced,    \* history: [Node -> servers it had a full synchronisation from]
    refused    \* history: [Node -> servers whose full synchronisation failed]

listVars    == <<list>>
dataVars    == <<local, group, home, reg>>
roundVars   == <<clone, call, rest, greeted>>
handlerVars == <<handler, incoming, mapping>>
boundVars   == <<rounds, failures>>
history     == <<synced, refused>>
vars == <<listVars, dataVars, roundVars, handlerVars, boundVars, history>>

-----------------------------------------------------------------------------
(* Lists of metadata servers.  A server of layer 3 or more is unavailable. *)

Layer == {1, 4, 5}

MetaServer == [srv : Node, layer : Layer]

Entry(n) == [srv |-> n, layer |-> 1]

Available(e) == e.layer < 3

Servers(entries) == { entries[i].srv : i \in DOMAIN entries }

Position(entries, n) == CHOOSE i \in DOMAIN entries : entries[i].srv = n

(* meta_collect[pos] = updated_server, for all servers in the news.        *)
Updated(entries, news) ==
    [i \in DOMAIN entries |->
        IF entries[i].srv \in Servers(news) THEN news[Position(news, entries[i].srv)]
        ELSE entries[i]]

(* A wrong place for a server that is new.                                 *)
PutFirst(entries, e) == <<e>> \o entries

Push(entries, e) == Append(entries, e)

(* meta_collect.retain, by ip and port: a list names a server once.        *)
Without(entries, n) ==
    IF n \in Servers(entries) THEN RemoveAt(entries, Position(entries, n)) ELSE entries

-----------------------------------------------------------------------------
(* RegisterInstance: the local list, the group of this metadata server,    *)
(* the mapping.                                                            *)

(* A wrong entry: and_modify without or_insert_with.                       *)
OnlyIfPresent(groups, m, n, d) ==
    IF groups[m][n] = {} THEN groups ELSE [groups EXCEPT ![m][n] = @ \union {d}]

(* At m, data server d joins the group of metadata server n.               *)
Grouped(groups, m, n, d) == [groups EXCEPT ![m][n] = @ \union {d}]

Register(d, n) ==
    /\ n \in RegistersAt[d]
    /\ reg[d][n] = "new"
    /\ local' = [local EXCEPT ![n] = @ \union {d}]
    /\ reg' = [reg EXCEPT ![d][n] = "group"]
    /\ UNCHANGED <<listVars, group, home, roundVars, handlerVars, boundVars, history>>

RegisterGroup(d, n) ==
    /\ reg[d][n] = "group"
    /\ group' = Grouped(group, n, n, d)
    /\ reg' = [reg EXCEPT ![d][n] = "map"]
    /\ UNCHANGED <<listVars, local, home, roundVars, handlerVars, boundVars, history>>

RegisterMap(d, n) ==
    /\ reg[d][n] = "map"
    /\ home' = [home EXCEPT ![n][d] = n]
    /\ reg' = [reg EXCEPT ![d][n] = "done"]
    /\ UNCHANGED <<listVars, local, group, roundVars, handlerVars, boundVars, history>>

-----------------------------------------------------------------------------
(* A round: the list is cloned and every available other server called.    *)

Idle(n) == \A p \in Node : call[n][p] = "none"

Called(n) == { e.srv : e \in { x \in ToSet(list[n]) : Available(x) } } \ {n}

StartRound(n) ==
    /\ Idle(n)
    /\ rounds[n] < MaxRounds
    /\ rounds' = [rounds EXCEPT ![n] = @ + 1]
    /\ clone' = [clone EXCEPT ![n] = list[n]]
    /\ call' = [call EXCEPT ![n] = [p \in Node |-> IF p \in Called(n) THEN "sent" ELSE "none"]]
    /\ UNCHANGED <<listVars, dataVars, rest, greeted, handlerVars, failures, history>>

(* The peer has handled the update and answers with its list.              *)
Reply(n, p) ==
    /\ call[n][p] = "sent"
    /\ rest' = [rest EXCEPT ![n][p] = list[p]]
    /\ call' = [call EXCEPT ![n][p] = "update"]
    /\ UNCHANGED <<listVars, dataVars, clone, greeted, handlerVars, boundVars, history>>

(* mark_meta_server_unavailable: the index is that of the clone.           *)
Fail(n, p, layer) ==
    LET idx == Position(clone[n], p)
    IN  /\ call[n][p] = "sent"
        /\ failures < MaxFailures
        /\ failures' = failures + 1
        /\ list' = [list EXCEPT ![n] =
                       IF idx \in DOMAIN @ THEN [@ EXCEPT ![idx].layer = layer] ELSE @]
        /\ call' = [call EXCEPT ![n][p] = "none"]
        /\ UNCHANGED <<dataVars, clone, rest, greeted, handlerVars, rounds, history>>

(* update_server_status keeps the lock while it knows the servers of the   *)
(* answer, and replaces their entries ...                                  *)
Unknown(n, p) ==
    { i \in DOMAIN rest[n][p] : rest[n][p][i].srv \notin Servers(list[n]) }

UpdateAll(n, p) ==
    /\ call[n][p] = "update"
    /\ Unknown(n, p) = {}
    /\ list' = [list EXCEPT ![n] = Updated(@, rest[n][p])]
    /\ rest' = [rest EXCEPT ![n][p] = <<>>]
    /\ call' = [call EXCEPT ![n][p] = "none"]
    /\ UNCHANGED <<dataVars, clone, greeted, handlerVars, boundVars, history>>

(* ... and lists the first it does not know, releases the lock and asks it *)
(* for everything.  (A server handles one such request of another.)        *)
UpdateUntilNew(n, p) ==
    \E i \in Unknown(n, p) :
        LET new == rest[n][p][i]
        IN  /\ call[n][p] = "update"
            /\ \A k \in Unknown(n, p) : i <= k
            /\ handler[new.srv][n] = "none"
            /\ list' = [list EXCEPT ![n] = Push(Updated(@, SubSeq(rest[n][p], 1, i - 1)), new)]
            /\ rest' = [rest EXCEPT ![n][p] = SubSeq(@, i + 1, Len(@))]
            /\ call' = [call EXCEPT ![n][p] = "greet"]
            /\ greeted' = [greeted EXCEPT ![n][p] = new.srv]
            /\ handler' = [handler EXCEPT ![new.srv][n] = "list"]
            /\ incoming' = [incoming EXCEPT ![new.srv][n] = local[n]]
            /\ UNCHANGED <<dataVars, clone, mapping, boundVars, history>>

GreetingOver(n, p) ==
    /\ call' = [call EXCEPT ![n][p] = "update"]
    /\ greeted' = [greeted EXCEPT ![n][p] = None]

Greeted(n, p) ==
    LET s == greeted[n][p]
    IN  /\ call[n][p] = "greet"
        /\ handler[s][n] = "answered"
        /\ handler' = [handler EXCEPT ![s][n] = "none"]
        /\ GreetingOver(n, p)
        /\ synced' = [synced EXCEPT ![n] = @ \union {s}]
        /\ UNCHANGED <<listVars, dataVars, clone, rest, incoming, mapping, boundVars,
                       refused>>

(* A wrong reaction that leaves the server where it is.                    *)
StillListed(entries, n) == entries

(* get_kvmeta failed: what its list says of the server is taken out.       *)
ListAfterFailure(entries, n) == Without(entries, n)

(* The request was lost, or the answer was, or the handler still runs.     *)
GreetFails(n, p) ==
    LET s == greeted[n][p]
    IN  /\ call[n][p] = "greet"
        /\ failures < MaxFailures
        /\ failures' = failures + 1
        /\ list' = [list EXCEPT ![n] = ListAfterFailure(@, s)]
        /\ handler' = [handler EXCEPT ![s][n] = IF @ = "data" THEN "data" ELSE "none"]
        /\ GreetingOver(n, p)
        /\ refused' = [refused EXCEPT ![n] = @ \union {s}]
        /\ UNCHANGED <<dataVars, clone, rest, incoming, mapping, rounds, synced>>

-----------------------------------------------------------------------------
(* GetKvMeta at server m, from server n: n is listed, then each of its     *)
(* data servers is put in n's group and mapped to n.                       *)

(* A wrong handler that does not introduce the caller.                     *)
NotIntroduced(entries, n) == entries

(* A wrong handler that does not look whether the caller is listed.        *)
IntroducedAgain(entries, n) == Push(entries, Entry(n))

(* meta_servers.push behind a test for the id                              *)
Introduced(entries, n) == IF n \in Servers(entries) THEN entries ELSE Push(entries, Entry(n))

HandleList(m, n) ==
    /\ handler[m][n] = "list"
    /\ list' = [list EXCEPT ![m] = Introduced(@, n)]
    /\ handler' = [handler EXCEPT ![m][n] = "data"]
    /\ UNCHANGED <<dataVars, roundVars, incoming, mapping, boundVars, history>>

HandleGroup(m, n, d) ==
    /\ handler[m][n] = "data"
    /\ mapping[m][n] = None
    /\ d \in incoming[m][n]
    /\ group' = Grouped(group, m, n, d)
    /\ mapping' = [mapping EXCEPT ![m][n] = d]
    /\ UNCHANGED <<listVars, local, home, reg, roundVars, handler, incoming, boundVars,
                   history>>

HandleMap(m, n) ==
    LET d == mapping[m][n]
    IN  /\ d # None
        /\ home' = [home EXCEPT ![m][d] = n]
        /\ mapping' = [mapping EXCEPT ![m][n] = None]
        /\ incoming' = [incoming EXCEPT ![m][n] = @ \ {d}]
        /\ UNCHANGED <<listVars, local, group, reg, roundVars, handler, boundVars, history>>

(* Is anybody still waiting for the answer?                                *)
Awaited(m, n) == \E p \in Node : greeted[n][p] = m

HandleAnswer(m, n) ==
    /\ handler[m][n] = "data"
    /\ incoming[m][n] = {}
    /\ handler' = [handler EXCEPT ![m][n] = IF Awaited(m, n) THEN "answered" ELSE "none"]
    /\ UNCHANGED <<listVars, dataVars, roundVars, incoming, mapping, boundVars, history>>

-----------------------------------------------------------------------------
ForPairs(x) == [n \in Node |-> [p \in Node |-> x]]

Init ==
    /\ list = [n \in Node |->
          <<Entry(n)>> \o [i \in DOMAIN Configured[n] |-> Entry(Configured[n][i])]]
    /\ local = [n \in Node |-> {}]
    /\ group = ForPairs({})
    /\ home = [n \in Node |-> [d \in Data |-> None]]
    /\ reg = [d \in Data |-> [n \in Node |-> "new"]]
    /\ clone = [n \in Node |-> <<>>]
    /\ call = ForPairs("none")
    /\ rest = ForPairs(<<>>)
    /\ greeted = ForPairs(None)
    /\ handler = ForPairs("none")
    /\ incoming = ForPairs({})
    /\ mapping = ForPairs(None)
    /\ rounds = [n \in Node |-> 0]
    /\ failures = 0
    /\ synced = [n \in Node |-> {}] /\ refused = synced

Registration ==
    \E d \in Data, n \in Node : Register(d, n) \/ RegisterGroup(d, n) \/ RegisterMap(d, n)

Round(n) ==
    \/ StartRound(n)
    \/ \E p \in Node :
          \/ Reply(n, p) \/ UpdateAll(n, p) \/ UpdateUntilNew(n, p)
          \/ Greeted(n, p) \/ GreetFails(n, p)
          \/ \E layer \in {4, 5} : Fail(n, p, layer)

GetKvMeta(m, n) ==
    \/ HandleList(m, n) \/ HandleMap(m, n) \/ HandleAnswer(m, n)
    \/ \E d \in Data : HandleGroup(m, n, d)

Next ==
    \/ Registration
    \/ \E n \in Node : Round(n)
    \/ \E m, n \in Node : GetKvMeta(m, n)

Spec == Init /\ [][Next]_vars

-----------------------------------------------------------------------------
(* The tables hold what their Rust types say (lib.rs:66-77), and a list    *)
(* names no server twice (client.rs:393-402, get_kvmeta.rs:26-27).         *)
TypeOK ==
    /\ list \in [Node -> Seq(MetaServer)] /\ clone \in [Node -> Seq(MetaServer)]
    /\ \A n \in Node : IsInjective([i \in DOMAIN list[n] |-> list[n][i].srv])
    /\ local \in [Node -> SUBSET Data]
    /\ group \in [Node -> [Node -> SUBSET Data]]
    /\ home \in [Node -> [Data -> Node \union {None}]]
    /\ reg \in [Data -> [Node -> {"new", "group", "map", "done"}]]
    /\ call \in [Node -> [Node -> {"none", "sent", "update", "greet"}]]
    /\ rest \in [Node -> [Node -> Seq(MetaServer)]]
    /\ greeted \in [Node -> [Node -> Node \union {None}]]
    /\ handler \in [Node -> [Node -> {"none", "list", "data", "answered"}]]
    /\ incoming \in [Node -> [Node -> SUBSET Data]]
    /\ mapping \in [Node -> [Node -> Data \union {None}]]
    /\ rounds \in [Node -> Nat] /\ failures \in Nat
    /\ synced \in [Node -> SUBSET Node] /\ refused \in [Node -> SUBSET Node]

(* While a call of the round is out, its server still has the place in the *)
(* list that it had in the clone: the index that marks it after a failure  *)
(* marks no other, although servers are learned, introduced and taken out  *)
(* meanwhile (client.rs:309, 343, 367, 401-405, 437-442).                  *)
IndexStillRight ==
    \A n, p \in Node :
        call[n][p] = "sent" =>
            LET i == Position(clone[n], p)
            IN  i \in DOMAIN list[n] /\ list[n][i].srv = p

(* Every server in a list is the server itself, configured there, fully    *)
(* synchronised or being so, or it introduced itself: none stays from      *)
(* which the blocks could not be got (client.rs:401-407).                  *)
ListedForAReason ==
    \A n \in Node : \A s \in Servers(list[n]) :
        \/ s = n
        \/ s \in ToSet(Configured[n])
        \/ s \in synced[n]
        \/ \E p \in Node : greeted[n][p] = s
        \/ n \in synced[s] \/ n \in refused[s] \/ \E p \in Node : greeted[s][p] = n

(* Who has had a full synchronisation from a server is in that server's    *)
(* list from then on, so that it is told what changes afterwards, unless   *)
(* the server failed in turn to synchronise with it, which takes out also  *)
(* who has introduced itself since (get_kvmeta.rs:24-27, client.rs:404).   *)
SyncedIsMutual ==
    \A n, s \in Node :
        s \in synced[n] => n \in Servers(list[s]) \/ n \in refused[s]

(* A data server mapped to a metadata server is in that server's group, as *)
(* the address lookup of a search or a migration needs: whatever           *)
(* registrations and introductions of it interleave, at several metadata   *)
(* servers or one (register_instance.rs:36-73, get_kvmeta.rs:44-80,        *)
(* search_kv.rs:44-52).                                                    *)
MappedIsGrouped ==
    \A n \in Node, d \in Data : home[n][d] # None => d \in group[n][home[n][d]]
=============================================================================
