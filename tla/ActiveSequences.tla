-------------------------- MODULE ActiveSequences --------------------------
(***************************************************************************)
(* ActiveSequences (transfer/squnence.rs): which requests are running, and *)
(* how many of them hold each block.  NewRequest calls add_request,        *)
(* RequestEnd calls free; the handlers run concurrently, and each call on  *)
(* a DashMap or a DashSet is one step.  A pass over a whole map (iter,     *)
(* clear) is one step too.                                                 *)
(*                                                                         *)
(* A block is counted by an Arc that the requests share and by the Weak    *)
(* that unique_blocks keeps of it.  touch_block makes at most one Arc per  *)
(* call and block, so an Arc is named by the call that made it.            *)
(***************************************************************************)
EXTENDS Naturals, Sequences, FiniteSets

CONSTANTS
    Request,   \* request ids
    Call,      \* handler invocations; each is made once
    Block,     \* block hashes
    Tokens,    \* [Request -> the block hashes of its prompt]
    Expiry,    \* EXPIRY_DURATION, in ticks
    MaxTime,   \* bound on the clock
    None       \* no Arc, no Weak, no call, no request

ASSUME SequencesAssumption ==
    /\ None \notin Call \union Request
    /\ Request \intersect Call = {}
    /\ Tokens \in [Request -> Seq(Block)]
    /\ Expiry \in Nat \ {0}
    /\ MaxTime \in Nat

VARIABLES
    active,    \* keys of active_seqs
    holds,     \* whose Arc a request or a call holds, per block
    unique,    \* unique_blocks: the Arc its Weak points to
    expiry,    \* expiry_requests
    timer,     \* expiry_timer
    mutex,     \* the call that holds the Mutex around expiry_timer
    clock,     \* Instant::now()
    pc,        \* [Call -> step]
    request,   \* [Call -> request it adds]
    target,    \* [Call -> request it is freeing]
    todo,      \* [Call -> blocks still to touch or to let go]
    now,       \* [Call -> clock read by force_expiry]
    expired,   \* [Call -> requests force_expiry has still to free]
    raced      \* history: blocks worked on inside another call's gap

mapVars  == <<active, holds, unique, expiry>>
timeVars == <<timer, mutex, clock>>
callVars == <<pc, request, target, todo, now, expired>>
vars == <<mapVars, timeVars, callVars, raced>>

-----------------------------------------------------------------------------
(* Arcs and Weaks.                                                         *)

(* An active sequence owns Arcs, and so does a handler at work.            *)
Owner == Request \union Call

NoArcs == [b \in Block |-> None]

HoldersOf(b) == { o \in Owner : holds[o][b] # None }

strong_count(b) ==
    IF unique[b] = None THEN 0
    ELSE Cardinality({ o \in Owner : holds[o][b] = unique[b] })

block_hold_count(b) == strong_count(b)

(* A wrong upgrade that never finds the Arc.                               *)
NeverUpgrades(b) == FALSE

Upgrades(b) == strong_count(b) > 0

(* A wrong test that leaves an unheld Weak where it is.                    *)
NeverRemovable(b) == FALSE

CanRemove(b) == unique[b] # None /\ strong_count(b) = 0

-----------------------------------------------------------------------------
(* Steps.                                                                  *)

At(c, step) == pc[c] = step

BlockOf(c) == Head(todo[c])

Goto(c, step) == pc' = [pc EXCEPT ![c] = step]

(* A wrong loop that is entered once more after its last block.            *)
NeverLast(jobs) == FALSE

LastBlock(jobs) == Len(jobs) = 1

(* The loop over the blocks goes on at step again, or is over.             *)
NextBlock(c, again, over) ==
    /\ todo' = [todo EXCEPT ![c] = Tail(@)]
    /\ Goto(c, IF LastBlock(todo[c]) THEN over ELSE again)

(* Between its look at a block and its write, a call has decided what to   *)
(* write.  A write is raced when another call is about to make its own.    *)
InGap(c, b) == pc[c] \in {"weak", "erase"} /\ BlockOf(c) = b

WriteTo(c, b) ==
    raced' = IF \E d \in Call \ {c} : InGap(d, b) THEN raced \union {b} ELSE raced

-----------------------------------------------------------------------------
(* add_request: the duplicate test, force_expiry, the blocks, the request. *)

Touching(c) ==
    /\ todo' = [todo EXCEPT ![c] = Tokens[request[c]]]
    /\ Goto(c, IF Tokens[request[c]] = <<>> THEN "activate" ELSE "touch")

(* contains_key, and the clock that force_expiry reads before it locks.    *)
NewRequest(c, r) ==
    /\ At(c, "ready")
    /\ Goto(c, IF r \in active THEN "done" ELSE "lock")
    /\ request' = [request EXCEPT ![c] = r]
    /\ now' = [now EXCEPT ![c] = clock]
    /\ UNCHANGED <<mapVars, timeVars, target, todo, expired, raced>>

TooEarly(c) ==
    /\ At(c, "lock")
    /\ mutex = None
    /\ now[c] < timer
    /\ Touching(c)
    /\ UNCHANGED <<mapVars, timeVars, request, target, now, expired, raced>>

(* The timer has run out: keep the Mutex, read expiry_requests ...         *)
Snapshot(c) ==
    /\ At(c, "lock")
    /\ mutex = None
    /\ now[c] >= timer
    /\ mutex' = c
    /\ expired' = [expired EXCEPT ![c] = expiry]
    /\ Goto(c, "clear")
    /\ UNCHANGED <<mapVars, timer, clock, request, target, todo, now, raced>>

(* ... and clear it.                                                       *)
Clear(c) ==
    /\ At(c, "clear")
    /\ expiry' = {}
    /\ Goto(c, "expire")
    /\ UNCHANGED <<active, holds, unique, timeVars, request, target, todo, now,
                   expired, raced>>

(* A wrong loop that frees the same request again and again.               *)
StillExpired(requests, r) == requests

ExpiredAfter(requests, r) == requests \ {r}

ExpireOne(c, r) ==
    /\ At(c, "expire")
    /\ r \in expired[c]
    /\ expired' = [expired EXCEPT ![c] = ExpiredAfter(@, r)]
    /\ target' = [target EXCEPT ![c] = r]
    /\ Goto(c, "unlist")
    /\ UNCHANGED <<mapVars, timeVars, request, todo, now, raced>>

(* A wrong restart that waits for the requests to come by themselves.      *)
ListNone(requests) == requests

ListActive(requests) == requests \union active

(* All freed: the timer starts again, for the requests active by then.     *)
Restart(c) ==
    /\ At(c, "expire")
    /\ expired[c] = {}
    /\ timer' = now[c] + Expiry
    /\ expiry' = ListActive(expiry)
    /\ mutex' = None
    /\ Touching(c)
    /\ UNCHANGED <<active, holds, unique, clock, request, target, now, expired,
                   raced>>

(* touch_block: get and upgrade ...                                        *)
Touch(c) ==
    LET b == BlockOf(c)
    IN  /\ At(c, "touch")
        /\ IF Upgrades(b)
           THEN /\ holds' = [holds EXCEPT ![c][b] = unique[b]]
                /\ NextBlock(c, "touch", "activate")
           ELSE /\ Goto(c, "weak")
                /\ UNCHANGED <<holds, todo>>
        /\ UNCHANGED <<active, unique, expiry, timeVars, request, target, now,
                       expired, raced>>

(* ... or else a new Arc, whose Weak replaces what is there by now.        *)
InsertWeak(c) ==
    LET b == BlockOf(c)
    IN  /\ At(c, "weak")
        /\ unique' = [unique EXCEPT ![b] = c]
        /\ holds' = [holds EXCEPT ![c][b] = c]
        /\ NextBlock(c, "touch", "activate")
        /\ WriteTo(c, b)
        /\ UNCHANGED <<active, expiry, timeVars, request, target, now, expired>>

(* active_seqs.insert; a sequence already there is dropped.                *)
Activate(c) ==
    LET r == request[c]
    IN  /\ At(c, "activate")
        /\ active' = active \union {r}
        /\ holds' = [holds EXCEPT ![r] = holds[c], ![c] = NoArcs]
        /\ Goto(c, "enlist")
        /\ UNCHANGED <<unique, expiry, timeVars, request, target, todo, now,
                       expired, raced>>

(* expiry_requests.insert                                                  *)
Enlist(c) ==
    /\ At(c, "enlist")
    /\ expiry' = expiry \union {request[c]}
    /\ Goto(c, "done")
    /\ UNCHANGED <<active, holds, unique, timeVars, request, target, todo, now,
                   expired, raced>>

-----------------------------------------------------------------------------
(* free, called by RequestEnd and, under the Mutex, by force_expiry.       *)

(* What comes after a free.                                                *)
Freed(c) == IF mutex = c THEN "expire" ELSE "done"

RequestEnd(c, r) ==
    /\ At(c, "ready")
    /\ target' = [target EXCEPT ![c] = r]
    /\ Goto(c, "unlist")
    /\ UNCHANGED <<mapVars, timeVars, request, todo, now, expired, raced>>

(* expiry_requests.remove                                                  *)
Unlist(c) ==
    /\ At(c, "unlist")
    /\ expiry' = expiry \ {target[c]}
    /\ Goto(c, "deactivate")
    /\ UNCHANGED <<active, holds, unique, timeVars, request, target, todo, now,
                   expired, raced>>

(* active_seqs.remove; there is nothing more to do for an unknown request. *)
Deactivate(c) ==
    LET r == target[c]
    IN  /\ At(c, "deactivate")
        /\ active' = active \ {r}
        /\ holds' = [holds EXCEPT ![c] = holds[r], ![r] = NoArcs]
        /\ IF r \in active /\ Tokens[r] # <<>>
           THEN /\ todo' = [todo EXCEPT ![c] = Tokens[r]]
                /\ Goto(c, "drop")
           ELSE /\ Goto(c, Freed(c))
                /\ UNCHANGED todo
        /\ UNCHANGED <<unique, expiry, timeVars, request, target, now, expired,
                       raced>>

(* drop(rc)                                                                *)
DropArc(c) ==
    /\ At(c, "drop")
    /\ holds' = [holds EXCEPT ![c][BlockOf(c)] = None]
    /\ Goto(c, "count")
    /\ UNCHANGED <<active, unique, expiry, timeVars, request, target, todo, now,
                   expired, raced>>

(* try_remove_block: the strong count ...                                  *)
Count(c) ==
    /\ At(c, "count")
    /\ IF CanRemove(BlockOf(c))
       THEN Goto(c, "erase") /\ UNCHANGED todo
       ELSE NextBlock(c, "drop", Freed(c))
    /\ UNCHANGED <<mapVars, timeVars, request, target, now, expired, raced>>

(* ... and, after the guard is dropped, the removal.                       *)
Erase(c) ==
    /\ At(c, "erase")
    /\ unique' = [unique EXCEPT ![BlockOf(c)] = None]
    /\ NextBlock(c, "drop", Freed(c))
    /\ WriteTo(c, BlockOf(c))
    /\ UNCHANGED <<active, holds, expiry, timeVars, request, target, now, expired>>

-----------------------------------------------------------------------------
Tick ==
    /\ clock < MaxTime
    /\ clock' = clock + 1
    /\ UNCHANGED <<mapVars, timer, mutex, callVars, raced>>

Init ==
    /\ active = {} /\ expiry = {} /\ raced = {}
    /\ holds = [o \in Owner |-> NoArcs]
    /\ unique = NoArcs
    /\ timer = Expiry /\ mutex = None /\ clock = 0
    /\ pc = [c \in Call |-> "ready"]
    /\ request = [c \in Call |-> None] /\ target = request
    /\ todo = [c \in Call |-> <<>>]
    /\ now = [c \in Call |-> 0]
    /\ expired = [c \in Call |-> {}]

Step(c) ==
    \/ TooEarly(c) \/ Snapshot(c) \/ Clear(c) \/ Restart(c)
    \/ \E r \in Request : ExpireOne(c, r)
    \/ Touch(c) \/ InsertWeak(c) \/ Activate(c) \/ Enlist(c)
    \/ Unlist(c) \/ Deactivate(c) \/ DropArc(c) \/ Count(c) \/ Erase(c)

Next ==
    \/ Tick
    \/ \E c \in Call :
          \/ \E r \in Request : NewRequest(c, r) \/ RequestEnd(c, r)
          \/ Step(c)

Spec == Init /\ [][Next]_vars

(* A handler that can go on is polled; calls need not come.                *)
FairSpec == Spec /\ \A c \in Call : WF_vars(Step(c))

-----------------------------------------------------------------------------
LoopSteps == {"touch", "weak", "drop", "count", "erase"}

Steps == LoopSteps \union
         {"ready", "lock", "clear", "expire", "activate", "enlist",
          "unlist", "deactivate", "done"}

(* The tables hold what their Rust types say (squnence.rs:13-19), a loop   *)
(* over blocks has a block to work on, and only the call that holds the    *)
(* Mutex is inside the expiry (squnence.rs:171).                           *)
TypeOK ==
    /\ active \subseteq Request /\ expiry \subseteq Request /\ raced \subseteq Block
    /\ holds \in [Owner -> [Block -> Call \union {None}]]
    /\ unique \in [Block -> Call \union {None}]
    /\ timer \in Nat /\ clock \in Nat /\ mutex \in Call \union {None}
    /\ pc \in [Call -> Steps]
    /\ request \in [Call -> Request \union {None}]
    /\ target \in [Call -> Request \union {None}]
    /\ todo \in [Call -> Seq(Block)]
    /\ now \in [Call -> Nat]
    /\ expired \in [Call -> SUBSET Request]
    /\ \A c \in Call : pc[c] \in LoopSteps => todo[c] # <<>>
    /\ \A c \in Call : pc[c] \in {"clear", "expire"} => mutex = c

-----------------------------------------------------------------------------
(* A Weak whose Arc may be gone is only kept while somebody holds the      *)
(* block or is about to look whether to remove it: once the handlers have  *)
(* returned, active_blocks() counts no block that no request holds, even   *)
(* after duplicate adds that replace a sequence (squnence.rs:41-62, 105).  *)
NoBlockOutlivesHolders ==
    \A b \in Block :
        unique[b] # None =>
            \/ HoldersOf(b) # {}
            \/ \E c \in Call : pc[c] \in {"count", "erase"} /\ BlockOf(c) = b

(* force_expiry can still find every active request once it is over: what  *)
(* is added between its snapshot and its clear, or while it frees, is not  *)
(* forgotten (squnence.rs:177-187), nor does a free racing an add lose it. *)
NoActiveForgotten ==
    mutex = None =>
        \A r \in active \ expiry :
            \E c \in Call : \/ At(c, "enlist") /\ request[c] = r
                            \/ At(c, "deactivate") /\ target[c] = r

(* A block's hold count is the number of its holders, except where one     *)
(* call wrote unique_blocks inside the gap between another's look and      *)
(* write: the two gaps (squnence.rs:42-49, 55-59) are the only way that    *)
(* the migration trigger can read a wrong count.                           *)
ExactUnlessRaced ==
    \A b \in Block \ raced : block_hold_count(b) = Cardinality(HoldersOf(b))

(* No call waits for ever: not for the Mutex, which a call holds while it  *)
(* frees any number of requests, and not in a loop (squnence.rs:169-190).  *)
HandlersFinish == \A c \in Call : ~At(c, "ready") ~> At(c, "done")

-----------------------------------------------------------------------------
(* What comments in the code say of it.                                    *)

(* squnence.rs:68: block_hold_count is the active hold count of a block.   *)
HoldCountIsActive ==
    (\A c \in Call : pc[c] \in {"ready", "done"}) =>
        \A b \in Block : block_hold_count(b) = Cardinality(HoldersOf(b))

(* squnence.rs:6: what is forcibly expired has been there for the expiry   *)
(* duration.                                                               *)
OnlyStaleExpired ==
    \A c \in Call :
        At(c, "clear") =>
            \A r \in expired[c] :
                \E d \in Call : request[d] = r /\ now[c] >= now[d] + Expiry
=============================================================================
