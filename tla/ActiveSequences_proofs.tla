------------------------- MODULE ActiveSequences_proofs -------------------------
(***************************************************************************)
(* Theorems about ActiveSequences, for any requests, calls, blocks,        *)
(* prompts and expiry duration.                                            *)
(***************************************************************************)
EXTENDS ActiveSequences, FiniteSetTheorems, SequenceTheorems, TLAPS

-----------------------------------------------------------------------------
(* Types.                                                                  *)

Adding == {"lock", "clear", "expire", "touch", "weak", "activate", "enlist"}

Freeing == {"unlist", "deactivate", "drop", "count", "erase"}

(* What a call is at work on, and what it does while it holds the Mutex.   *)
CallOK(c) ==
    /\ pc[c] \in Adding => request[c] \in Request
    /\ pc[c] \in Freeing => target[c] \in Request
    /\ mutex = c => request[c] \in Request /\ pc[c] \in {"clear", "expire"} \union Freeing

Typed == TypeOK /\ \A c \in Call : CallOK(c)

CallStep(c) == Step(c) \/ \E r \in Request : NewRequest(c, r) \/ RequestEnd(c, r)

LEMMA NextIsCallStep == Next <=> Tick \/ \E c \in Call : CallStep(c)
  BY DEF Next, CallStep

LEMMA NoneIsNoCall == \A c \in Call : c # None
  BY SequencesAssumption

LEMMA TokensType ==
    ASSUME NEW r \in Request
    PROVE  Tokens[r] \in Seq(Block)
  BY SequencesAssumption

LEMMA TailType ==
    ASSUME NEW S, NEW s \in Seq(S), s # <<>>
    PROVE  /\ Tail(s) \in Seq(S)
           /\ Tail(s) = <<>> <=> LastBlock(s)
  <1> DEFINE n == Len(s)
             m == Len(Tail(s))
  <1>1. n \in Nat \ {0}
    BY EmptySeq, LenProperties
  <1>2. Tail(s) \in Seq(S) /\ m = n - 1
    BY <1>1
  <1>3. Tail(s) = <<>> <=> m = 0
    BY <1>2, EmptySeq
  <1>4. Tail(s) = <<>> <=> n = 1
    <2> HIDE DEF n, m
    <2> QED BY <1>1, <1>2, <1>3
  <1> QED BY <1>2, <1>4 DEF LastBlock

(* A call in a loop has a block to work on.                                *)
LEMMA BlockOfType ==
    ASSUME TypeOK, NEW c \in Call, pc[c] \in LoopSteps
    PROVE  /\ todo[c] \in Seq(Block) /\ todo[c] # <<>>
           /\ BlockOf(c) \in Block
  BY DEF TypeOK, BlockOf

LEMMA NextBlockTypes ==
    ASSUME TypeOK, NEW c \in Call, pc[c] \in LoopSteps,
           NEW again \in LoopSteps, NEW over \in Steps \ LoopSteps,
           NextBlock(c, again, over)
    PROVE  /\ todo' \in [Call -> Seq(Block)]
           /\ todo' = [todo EXCEPT ![c] = Tail(todo[c])]
           /\ pc' \in [Call -> Steps]
           /\ pc'[c] = IF Tail(todo[c]) = <<>> THEN over ELSE again
           /\ \A d \in Call \ {c} : pc'[d] = pc[d] /\ todo'[d] = todo[d]
           /\ \A d \in Call : pc'[d] \in LoopSteps => todo'[d] # <<>>
  <1>1. todo[c] \in Seq(Block) /\ todo[c] # <<>>
    BY BlockOfType
  <1>2. Tail(todo[c]) \in Seq(Block) /\ (Tail(todo[c]) = <<>> <=> LastBlock(todo[c]))
    BY <1>1, TailType
  <1>3. todo' = [todo EXCEPT ![c] = Tail(todo[c])]
    BY DEF NextBlock, TypeOK
  <1>4. pc' = [pc EXCEPT ![c] = IF Tail(todo[c]) = <<>> THEN over ELSE again]
    BY <1>2 DEF NextBlock, Goto
  <1>5. pc' \in [Call -> Steps] /\ todo' \in [Call -> Seq(Block)]
    BY <1>2, <1>3, <1>4 DEF TypeOK, Steps
  <1>6. /\ pc'[c] = IF Tail(todo[c]) = <<>> THEN over ELSE again
        /\ todo'[c] = Tail(todo[c])
        /\ \A d \in Call \ {c} : pc'[d] = pc[d] /\ todo'[d] = todo[d]
    BY <1>3, <1>4 DEF TypeOK
  <1>7. ASSUME NEW d \in Call, pc'[d] \in LoopSteps PROVE todo'[d] # <<>>
    <2>1. CASE d = c
      BY <1>6, <1>7, <2>1
    <2>2. CASE d # c
      BY <1>6, <1>7, <2>2 DEF TypeOK
    <2> QED BY <2>1, <2>2
  <1> QED BY <1>3, <1>5, <1>6, <1>7

(* The start of the loop over a prompt.                                    *)
LEMMA TouchingTypes ==
    ASSUME TypeOK, NEW c \in Call, request[c] \in Request, Touching(c)
    PROVE  /\ todo' \in [Call -> Seq(Block)] /\ todo'[c] = Tokens[request[c]]
           /\ pc' \in [Call -> Steps]
           /\ pc'[c] = IF Tokens[request[c]] = <<>> THEN "activate" ELSE "touch"
           /\ \A d \in Call \ {c} : pc'[d] = pc[d] /\ todo'[d] = todo[d]
           /\ \A d \in Call : pc'[d] \in LoopSteps => todo'[d] # <<>>
  <1>1. todo' \in [Call -> Seq(Block)] /\ todo'[c] = Tokens[request[c]]
    BY TokensType DEF Touching, TypeOK
  <1>2. /\ pc' \in [Call -> Steps]
        /\ pc'[c] = IF Tokens[request[c]] = <<>> THEN "activate" ELSE "touch"
    BY DEF Touching, Goto, TypeOK, Steps, LoopSteps
  <1>3. \A d \in Call \ {c} : pc'[d] = pc[d] /\ todo'[d] = todo[d]
    BY DEF Touching, Goto, TypeOK
  <1>4. ASSUME NEW d \in Call, pc'[d] \in LoopSteps PROVE todo'[d] # <<>>
    <2>1. CASE d = c
      BY <1>1, <1>2, <1>4, <2>1 DEF LoopSteps
    <2>2. CASE d # c
      BY <1>3, <1>4, <2>2 DEF TypeOK
    <2> QED BY <2>1, <2>2
  <1> QED BY <1>1, <1>2, <1>3, <1>4

(* A call's step changes what the call is doing and no other call's work.  *)
LEMMA OthersKeep ==
    ASSUME TypeOK, NEW c \in Call, CallStep(c), NEW d \in Call, d # c
    PROVE  /\ pc'[d] = pc[d] /\ request'[d] = request[d] /\ target'[d] = target[d]
           /\ todo'[d] = todo[d] /\ BlockOf(d)' = BlockOf(d)
           /\ mutex' = d <=> mutex = d
  <1> USE DEF TypeOK, Goto, NextBlock, Touching, mapVars, timeVars
  <1>1. pc'[d] = pc[d]
    BY DEF CallStep, Step, NewRequest, TooEarly, Snapshot, Clear, ExpireOne, Restart, Touch,
           InsertWeak, Activate, Enlist, RequestEnd, Unlist, Deactivate, DropArc, Count, Erase
  <1>2. request'[d] = request[d] /\ target'[d] = target[d]
    BY DEF CallStep, Step, NewRequest, TooEarly, Snapshot, Clear, ExpireOne, Restart, Touch,
           InsertWeak, Activate, Enlist, RequestEnd, Unlist, Deactivate, DropArc, Count, Erase
  <1>3. todo'[d] = todo[d]
    BY DEF CallStep, Step, NewRequest, TooEarly, Snapshot, Clear, ExpireOne, Restart, Touch,
           InsertWeak, Activate, Enlist, RequestEnd, Unlist, Deactivate, DropArc, Count, Erase
  <1>4. mutex' = mutex \/ (mutex = None /\ mutex' = c) \/ (mutex = c /\ mutex' = None)
    BY DEF CallStep, Step, NewRequest, TooEarly, Snapshot, Clear, ExpireOne, Restart, Touch,
           InsertWeak, Activate, Enlist, RequestEnd, Unlist, Deactivate, DropArc, Count, Erase, At
  <1> QED BY <1>1, <1>2, <1>3, <1>4, NoneIsNoCall DEF BlockOf

(* So only the stepping call's own work has to be looked at.               *)
LEMMA CallsKept ==
    ASSUME Typed, NEW c \in Call, CallStep(c),
           CallOK(c)',
           pc'[c] \in {"clear", "expire"} => mutex' = c,
           pc'[c] \in LoopSteps => todo'[c] # <<>>
    PROVE  /\ \A d \in Call : CallOK(d)'
           /\ \A d \in Call : pc'[d] \in LoopSteps => todo'[d] # <<>>
           /\ \A d \in Call : pc'[d] \in {"clear", "expire"} => mutex' = d
  <1> SUFFICES ASSUME NEW d \in Call
               PROVE  /\ CallOK(d)'
                      /\ pc'[d] \in LoopSteps => todo'[d] # <<>>
                      /\ pc'[d] \in {"clear", "expire"} => mutex' = d
    OBVIOUS
  <1>1. CASE d = c
    BY <1>1
  <1>2. CASE d # c
    <2>1. /\ pc'[d] = pc[d] /\ request'[d] = request[d] /\ target'[d] = target[d]
          /\ todo'[d] = todo[d] /\ (mutex' = d <=> mutex = d)
      BY <1>2, OthersKeep DEF Typed
    <2> QED BY <2>1 DEF Typed, TypeOK, CallOK
  <1> QED BY <1>1, <1>2
(* The tables' types are one thing, the handlers' steps another.           *)
MapsOK ==
    /\ active \subseteq Request /\ expiry \subseteq Request /\ raced \subseteq Block
    /\ holds \in [Owner -> [Block -> Call \union {None}]]
    /\ unique \in [Block -> Call \union {None}]
    /\ timer \in Nat /\ clock \in Nat /\ mutex \in Call \union {None}

CallsOK ==
    /\ pc \in [Call -> Steps]
    /\ request \in [Call -> Request \union {None}]
    /\ target \in [Call -> Request \union {None}]
    /\ todo \in [Call -> Seq(Block)]
    /\ now \in [Call -> Nat]
    /\ expired \in [Call -> SUBSET Request]

LEMMA TypedByParts ==
    ASSUME Typed, NEW c \in Call, CallStep(c), MapsOK', CallsOK', CallOK(c)',
           pc'[c] \in {"clear", "expire"} => mutex' = c,
           pc'[c] \in LoopSteps => todo'[c] # <<>>
    PROVE  Typed'
  BY CallsKept DEF Typed, TypeOK, MapsOK, CallsOK

LEMMA WriteToType ==
    ASSUME raced \subseteq Block, NEW c \in Call, NEW b \in Block, WriteTo(c, b)
    PROVE  raced' \subseteq Block
  BY DEF WriteTo

LEMMA AddTypes ==
    ASSUME Typed, NEW c \in Call,
           \/ \E r \in Request : NewRequest(c, r) \/ RequestEnd(c, r)
           \/ TooEarly(c) \/ Snapshot(c) \/ Clear(c) \/ Restart(c)
           \/ \E r \in Request : ExpireOne(c, r)
    PROVE  Typed'
  <1> USE DEF Goto, At, mapVars, timeVars
  <1>2. TypeOK /\ CallOK(c) /\ MapsOK /\ CallsOK /\ CallStep(c)
    BY DEF CallStep, Step, Typed, TypeOK, MapsOK, CallsOK
  <1>3. ASSUME NEW r \in Request, NewRequest(c, r) PROVE Typed'
    <2>1. MapsOK' /\ CallsOK'
      BY <1>2, <1>3 DEF NewRequest, MapsOK, CallsOK, Steps
    <2>2. pc'[c] \in {"done", "lock"} /\ request'[c] = r /\ mutex' # c
      BY <1>2, <1>3 DEF NewRequest, CallsOK, CallOK, Freeing
    <2> QED BY <1>2, <2>1, <2>2, TypedByParts DEF CallOK, Adding, Freeing, LoopSteps
  <1>4. ASSUME NEW r \in Request, RequestEnd(c, r) PROVE Typed'
    <2>1. MapsOK' /\ CallsOK'
      BY <1>2, <1>4 DEF RequestEnd, MapsOK, CallsOK, Steps
    <2>2. pc'[c] = "unlist" /\ target'[c] = r /\ mutex' # c
      BY <1>2, <1>4 DEF RequestEnd, CallsOK, CallOK, Freeing
    <2> QED BY <1>2, <2>1, <2>2, TypedByParts DEF CallOK, Adding, Freeing, LoopSteps
  <1>5. CASE TooEarly(c)
    <2>1. request[c] \in Request /\ mutex # c
      BY <1>2, <1>5, NoneIsNoCall DEF TooEarly, CallOK, Adding
    <2>2. MapsOK' /\ CallsOK' /\ request'[c] = request[c] /\ mutex' = mutex
      BY <1>2, <1>5, <2>1, TouchingTypes DEF TooEarly, MapsOK, CallsOK
    <2>3. pc'[c] \in {"activate", "touch"} /\ (pc'[c] \in LoopSteps => todo'[c] # <<>>)
      BY <1>2, <1>5, <2>1, TouchingTypes DEF TooEarly
    <2> QED BY <1>2, <2>1, <2>2, <2>3, TypedByParts DEF CallOK, Adding, Freeing
  <1>6. CASE Snapshot(c)
    <2>1. MapsOK' /\ CallsOK'
      BY <1>2, <1>6 DEF Snapshot, MapsOK, CallsOK, Steps
    <2>2. pc'[c] = "clear" /\ mutex' = c /\ request'[c] = request[c] /\ request[c] \in Request
      BY <1>2, <1>6 DEF Snapshot, CallsOK, CallOK, Adding
    <2> QED BY <1>2, <2>1, <2>2, TypedByParts DEF CallOK, Adding, Freeing, LoopSteps
  <1>7. CASE Clear(c)
    <2>1. MapsOK' /\ CallsOK'
      BY <1>2, <1>7 DEF Clear, MapsOK, CallsOK, Steps
    <2>2. /\ pc'[c] = "expire" /\ mutex' = c
          /\ request'[c] = request[c] /\ request[c] \in Request
      BY <1>2, <1>7 DEF Clear, CallsOK, CallOK, Adding, TypeOK
    <2> QED BY <1>2, <2>1, <2>2, TypedByParts DEF CallOK, Adding, Freeing, LoopSteps
  <1>8. CASE Restart(c)
    <2>1. request[c] \in Request
      BY <1>2, <1>8 DEF Restart, CallOK, Adding
    <2>2. MapsOK'
      <3>1. timer' \in Nat
        BY <1>2, <1>8, SequencesAssumption DEF Restart, CallsOK
      <3> QED BY <1>2, <1>8, <3>1 DEF Restart, ListActive, MapsOK
    <2>3. CallsOK' /\ request'[c] = request[c] /\ mutex' # c
      BY <1>2, <1>8, <2>1, TouchingTypes, NoneIsNoCall DEF Restart, CallsOK
    <2>4. pc'[c] \in {"activate", "touch"} /\ (pc'[c] \in LoopSteps => todo'[c] # <<>>)
      BY <1>2, <1>8, <2>1, TouchingTypes DEF Restart
    <2> QED BY <1>2, <2>1, <2>2, <2>3, <2>4, TypedByParts DEF CallOK, Adding, Freeing
  <1>9. ASSUME NEW r \in Request, ExpireOne(c, r) PROVE Typed'
    <2>1. MapsOK' /\ CallsOK'
      BY <1>2, <1>9 DEF ExpireOne, ExpiredAfter, MapsOK, CallsOK, Steps
    <2>2. /\ pc'[c] = "unlist" /\ target'[c] = r
          /\ request'[c] = request[c] /\ request[c] \in Request
      BY <1>2, <1>9 DEF ExpireOne, CallsOK, CallOK, Adding
    <2> QED BY <1>2, <2>1, <2>2, TypedByParts DEF CallOK, Adding, Freeing, LoopSteps
  <1> QED BY <1>3, <1>4, <1>5, <1>6, <1>7, <1>8, <1>9

LEMMA TouchTypes ==
    ASSUME Typed, NEW c \in Call,
           Touch(c) \/ InsertWeak(c) \/ Activate(c) \/ Enlist(c)
    PROVE  Typed'
  <1> USE DEF Goto, At, timeVars
  <1>1. TypeOK /\ CallOK(c) /\ MapsOK /\ CallsOK /\ CallStep(c)
    BY DEF CallStep, Step, Typed, TypeOK, MapsOK, CallsOK
  <1>2. c \in Owner /\ Request \subseteq Owner /\ NoArcs \in [Block -> Call \union {None}]
    BY DEF Owner, NoArcs
  <1>3. pc[c] \in {"touch", "weak", "activate", "enlist"} /\ request[c] \in Request /\ mutex # c
    BY <1>1 DEF Touch, InsertWeak, Activate, Enlist, CallOK, Adding, Freeing
  <1>4. pc[c] \in {"touch", "weak"} => BlockOf(c) \in Block
    BY <1>1, BlockOfType DEF LoopSteps
  <1>5. CASE Touch(c) /\ Upgrades(BlockOf(c))
    <2>1. NextBlock(c, "touch", "activate") /\ pc[c] \in LoopSteps
      BY <1>5 DEF Touch, LoopSteps
    <2>2. /\ todo' \in [Call -> Seq(Block)] /\ pc' \in [Call -> Steps]
          /\ pc'[c] \in {"touch", "activate"}
          /\ pc'[c] \in LoopSteps => todo'[c] # <<>>
      BY <1>1, <2>1, NextBlockTypes DEF Steps, LoopSteps
    <2>3. holds' \in [Owner -> [Block -> Call \union {None}]]
      BY <1>1, <1>2, <1>4, <1>5 DEF Touch, MapsOK
    <2>4. MapsOK' /\ CallsOK'
      BY <1>1, <1>5, <2>2, <2>3 DEF Touch, MapsOK, CallsOK
    <2> QED BY <1>1, <1>3, <1>5, <2>2, <2>4, TypedByParts DEF Touch, CallOK, Adding, Freeing
  <1>6. CASE Touch(c) /\ ~Upgrades(BlockOf(c))
    <2>1. pc'[c] = "weak" /\ todo' = todo /\ todo[c] # <<>>
      BY <1>1, <1>6, BlockOfType DEF Touch, CallsOK, LoopSteps
    <2>2. MapsOK' /\ CallsOK'
      BY <1>1, <1>6 DEF Touch, MapsOK, CallsOK, Steps, LoopSteps
    <2> QED BY <1>1, <1>3, <1>6, <2>1, <2>2, TypedByParts DEF Touch, CallOK, Adding, Freeing
  <1>7. CASE InsertWeak(c)
    <2>1. NextBlock(c, "touch", "activate") /\ pc[c] \in LoopSteps
      BY <1>7 DEF InsertWeak, LoopSteps
    <2>2. /\ todo' \in [Call -> Seq(Block)] /\ pc' \in [Call -> Steps]
          /\ pc'[c] \in {"touch", "activate"}
          /\ pc'[c] \in LoopSteps => todo'[c] # <<>>
      BY <1>1, <2>1, NextBlockTypes DEF Steps, LoopSteps
    <2>3. /\ holds' \in [Owner -> [Block -> Call \union {None}]]
          /\ unique' \in [Block -> Call \union {None}]
      BY <1>1, <1>2, <1>4, <1>7 DEF InsertWeak, MapsOK
    <2>4. raced' \subseteq Block
      BY <1>1, <1>4, <1>7, WriteToType DEF InsertWeak, MapsOK
    <2>5. MapsOK' /\ CallsOK'
      BY <1>1, <1>7, <2>2, <2>3, <2>4 DEF InsertWeak, MapsOK, CallsOK
    <2> QED BY <1>1, <1>3, <1>7, <2>2, <2>5, TypedByParts DEF InsertWeak, CallOK, Adding, Freeing
  <1>8. CASE Activate(c)
    <2>1. holds' \in [Owner -> [Block -> Call \union {None}]]
      BY <1>1, <1>2, <1>3, <1>8 DEF Activate, MapsOK
    <2>2. MapsOK' /\ CallsOK' /\ pc'[c] = "enlist"
      BY <1>1, <1>3, <1>8, <2>1 DEF Activate, MapsOK, CallsOK, Steps
    <2> QED BY <1>1, <1>3, <1>8, <2>2, TypedByParts
          DEF Activate, CallOK, Adding, Freeing, LoopSteps
  <1>9. CASE Enlist(c)
    <2>1. MapsOK' /\ CallsOK' /\ pc'[c] = "done"
      BY <1>1, <1>3, <1>9 DEF Enlist, MapsOK, CallsOK, Steps
    <2> QED BY <1>1, <1>3, <1>9, <2>1, TypedByParts DEF Enlist, CallOK, Adding, Freeing, LoopSteps
  <1> QED BY <1>5, <1>6, <1>7, <1>8, <1>9
LEMMA FreeTypes ==
    ASSUME Typed, NEW c \in Call,
           Unlist(c) \/ Deactivate(c) \/ DropArc(c) \/ Count(c) \/ Erase(c)
    PROVE  Typed'
  <1> USE DEF Goto, At, timeVars, mapVars
  <1>1. TypeOK /\ CallOK(c) /\ MapsOK /\ CallsOK /\ CallStep(c)
    BY DEF CallStep, Step, Typed, TypeOK, MapsOK, CallsOK
  <1>2. c \in Owner /\ Request \subseteq Owner /\ NoArcs \in [Block -> Call \union {None}]
    BY DEF Owner, NoArcs
  <1>3. pc[c] \in Freeing /\ target[c] \in Request
    BY <1>1 DEF Unlist, Deactivate, DropArc, Count, Erase, CallOK, Freeing
  <1>4. pc[c] \in {"drop", "count", "erase"} => BlockOf(c) \in Block
    BY <1>1, BlockOfType DEF LoopSteps
  <1>5. UNCHANGED <<mutex, request, target>>
    BY DEF Unlist, Deactivate, DropArc, Count, Erase
  <1>6. /\ mutex = c => request[c] \in Request
        /\ Freed(c) = IF mutex = c THEN "expire" ELSE "done"
    BY <1>1 DEF CallOK, Freed
  <1>7. ASSUME MapsOK', CallsOK', pc'[c] \in Freeing \union {Freed(c)},
               pc'[c] \in LoopSteps => todo'[c] # <<>>
        PROVE  Typed'
    <2>1. CallOK(c)' /\ (pc'[c] \in {"clear", "expire"} => mutex' = c)
      BY <1>3, <1>5, <1>6, <1>7 DEF CallOK, Adding, Freeing
    <2> QED BY <1>1, <1>7, <2>1, TypedByParts
  <1>8. CASE Unlist(c)
    <2>1. MapsOK' /\ CallsOK' /\ pc'[c] = "deactivate"
      BY <1>1, <1>8 DEF Unlist, MapsOK, CallsOK, Steps
    <2> QED BY <1>7, <2>1 DEF Freeing, LoopSteps
  <1>9. CASE Deactivate(c)
    <2>1. holds' \in [Owner -> [Block -> Call \union {None}]]
      BY <1>1, <1>2, <1>3, <1>9 DEF Deactivate, MapsOK
    <2>2. Tokens[target[c]] \in Seq(Block)
      BY <1>3, TokensType
    <2>3. MapsOK' /\ CallsOK' /\ pc'[c] \in {"drop", Freed(c)}
      BY <1>1, <1>3, <1>6, <1>9, <2>1, <2>2 DEF Deactivate, MapsOK, CallsOK, Steps, LoopSteps
    <2>4. pc'[c] \in LoopSteps => todo'[c] # <<>>
      BY <1>1, <1>6, <1>9 DEF Deactivate, CallsOK, LoopSteps
    <2> QED BY <1>7, <2>3, <2>4 DEF Freeing
  <1>10. CASE DropArc(c)
    <2>1. holds' \in [Owner -> [Block -> Call \union {None}]]
      BY <1>1, <1>2, <1>4, <1>10 DEF DropArc, MapsOK
    <2>2. MapsOK' /\ CallsOK' /\ pc'[c] = "count"
      BY <1>1, <1>10, <2>1 DEF DropArc, MapsOK, CallsOK, Steps, LoopSteps
    <2>3. todo'[c] # <<>>
      BY <1>1, <1>10, BlockOfType DEF DropArc, LoopSteps
    <2> QED BY <1>7, <2>2, <2>3 DEF Freeing
  <1>11. CASE Count(c) /\ CanRemove(BlockOf(c))
    <2>1. MapsOK' /\ CallsOK' /\ pc'[c] = "erase"
      BY <1>1, <1>11 DEF Count, MapsOK, CallsOK, Steps, LoopSteps
    <2>2. todo'[c] # <<>>
      BY <1>1, <1>11, BlockOfType DEF Count, LoopSteps
    <2> QED BY <1>7, <2>1, <2>2 DEF Freeing
  <1>12. CASE Count(c) /\ ~CanRemove(BlockOf(c))
    <2>1. NextBlock(c, "drop", Freed(c)) /\ pc[c] \in LoopSteps
      BY <1>12 DEF Count, LoopSteps
    <2>2. /\ todo' \in [Call -> Seq(Block)] /\ pc' \in [Call -> Steps]
          /\ pc'[c] \in {"drop", Freed(c)}
          /\ pc'[c] \in LoopSteps => todo'[c] # <<>>
      BY <1>1, <1>6, <2>1, NextBlockTypes DEF Steps, LoopSteps
    <2>3. MapsOK' /\ CallsOK'
      BY <1>1, <1>12, <2>2 DEF Count, MapsOK, CallsOK
    <2> QED BY <1>7, <2>2, <2>3 DEF Freeing
  <1>13. CASE Erase(c)
    <2>1. NextBlock(c, "drop", Freed(c)) /\ pc[c] \in LoopSteps
      BY <1>13 DEF Erase, LoopSteps
    <2>2. /\ todo' \in [Call -> Seq(Block)] /\ pc' \in [Call -> Steps]
          /\ pc'[c] \in {"drop", Freed(c)}
          /\ pc'[c] \in LoopSteps => todo'[c] # <<>>
      BY <1>1, <1>6, <2>1, NextBlockTypes DEF Steps, LoopSteps
    <2>3. unique' \in [Block -> Call \union {None}] /\ raced' \subseteq Block
      BY <1>1, <1>4, <1>13, WriteToType DEF Erase, MapsOK
    <2>4. MapsOK' /\ CallsOK'
      BY <1>1, <1>13, <2>2, <2>3 DEF Erase, MapsOK, CallsOK
    <2> QED BY <1>7, <2>2, <2>4 DEF Freeing
  <1> QED BY <1>8, <1>9, <1>10, <1>11, <1>12, <1>13

LEMMA TypedStep ==
    ASSUME Typed, [Next]_vars
    PROVE  Typed'
  <1>1. CASE Tick
    BY <1>1 DEF Tick, mapVars, callVars, Typed, TypeOK, CallOK
  <1>2. ASSUME NEW c \in Call, CallStep(c) PROVE Typed'
    BY <1>2, AddTypes, TouchTypes, FreeTypes DEF CallStep, Step
  <1>3. CASE UNCHANGED vars
    BY <1>3 DEF vars, mapVars, timeVars, callVars, Typed, TypeOK, CallOK
  <1> QED BY <1>1, <1>2, <1>3, NextIsCallStep

LEMMA InitTyped == Init => Typed
  <1> SUFFICES ASSUME Init PROVE Typed
    OBVIOUS
  <1>1. NoArcs \in [Block -> Call \union {None}] /\ Expiry \in Nat
    BY SequencesAssumption DEF NoArcs
  <1>2. /\ pc \in [Call -> {"ready"}] /\ todo \in [Call -> Seq(Block)]
        /\ \A c \in Call : pc[c] = "ready"
    BY DEF Init
  <1>3. TypeOK
    BY <1>1, <1>2 DEF Init, TypeOK, Steps, LoopSteps
  <1>4. ASSUME NEW c \in Call PROVE CallOK(c)
    BY <1>2, NoneIsNoCall DEF Init, CallOK, Adding, Freeing
  <1> QED BY <1>3, <1>4 DEF Typed

(* ActiveSequences keeps its types, a loop has a block to work on, and     *)
(* only the call that holds the Mutex is inside the expiry: a call that    *)
(* frees what has expired keeps the Mutex until it is through.             *)
THEOREM SequenceTypesCorrect == Spec => []TypeOK
  <1>1. Typed => TypeOK
    BY DEF Typed
  <1> QED BY InitTyped, TypedStep, <1>1, PTL DEF Spec

-----------------------------------------------------------------------------
(* No active request is forgotten.                                         *)

(* A call is about to list the request, or about to drop it.               *)
Settling(c, r) ==
    \/ At(c, "enlist") /\ request[c] = r
    \/ At(c, "deactivate") /\ target[c] = r

LEMMA SettlingKept ==
    ASSUME TypeOK, NEW c \in Call, CallStep(c), NEW r \in Request,
           NEW d \in Call, Settling(d, r), d # c
    PROVE  Settling(d, r)'
  BY OthersKeep DEF Settling, At

LEMMA NoneForgottenStep ==
    ASSUME Typed, NoActiveForgotten, [Next]_vars
    PROVE  NoActiveForgotten'
  <1> SUFFICES ASSUME mutex' = None, NEW r \in active' \ expiry'
               PROVE  \E d \in Call : Settling(d, r)'
    BY DEF NoActiveForgotten, Settling
  <1> USE DEF At, Goto, mapVars, timeVars, callVars
  <1>1. TypeOK /\ active \subseteq Request
    BY DEF Typed, TypeOK
  <1>2. CASE Tick \/ UNCHANGED vars
    <2>1. UNCHANGED <<active, expiry, mutex, pc, request, target>>
      BY <1>2 DEF Tick, vars
    <2>2. PICK d \in Call : Settling(d, r)
      BY <2>1 DEF NoActiveForgotten, Settling
    <2> QED BY <2>1, <2>2 DEF Settling
  <1>3. ASSUME NEW c \in Call, CallStep(c) PROVE \E d \in Call : Settling(d, r)'
    <2>1. CASE Activate(c) /\ r = request[c]
      BY <1>1, <2>1 DEF Activate, Settling, TypeOK
    <2>2. CASE Unlist(c) /\ r = target[c]
      BY <1>1, <2>2 DEF Unlist, Settling, TypeOK
    <2>3. CASE Restart(c)
      BY <2>3 DEF Restart, ListActive
    <2>4. CASE Clear(c)
      BY <1>1, <2>4, NoneIsNoCall DEF Clear, TypeOK
    <2>5. CASE Snapshot(c)
      BY <2>5, NoneIsNoCall DEF Snapshot
    <2>6. CASE /\ ~Restart(c) /\ ~Clear(c) /\ ~Snapshot(c)
               /\ ~(Activate(c) /\ r = request[c]) /\ ~(Unlist(c) /\ r = target[c])
      <3>1. mutex = None /\ r \in active \ expiry
        BY <1>3, <2>6 DEF CallStep, Step, NewRequest, TooEarly, ExpireOne, Touch, InsertWeak,
              Activate, Enlist, RequestEnd, Unlist, Deactivate, DropArc, Count, Erase
      <3>2. PICK d \in Call : Settling(d, r)
        BY <3>1 DEF NoActiveForgotten, Settling
      <3>3. CASE d = c
        <4>1. Enlist(c) \/ Deactivate(c)
          BY <1>3, <3>2, <3>3 DEF Settling, CallStep, Step, NewRequest, TooEarly, Snapshot,
                Clear, ExpireOne, Restart, Touch, InsertWeak, Activate, RequestEnd, Unlist,
                DropArc, Count, Erase
        <4>2. r \notin active' \/ r \in expiry'
          BY <3>2, <3>3, <4>1 DEF Settling, Enlist, Deactivate
        <4> QED BY <4>2
      <3>4. CASE d # c
        BY <1>1, <1>3, <3>1, <3>2, <3>4, SettlingKept
      <3> QED BY <3>3, <3>4
    <2> QED BY <2>1, <2>2, <2>3, <2>4, <2>5, <2>6
  <1> QED BY <1>2, <1>3, NextIsCallStep

(* NoActiveForgotten: outside force_expiry, every active request is in     *)
(* expiry_requests, or some call is about to put it there or to drop it.   *)
THEOREM ExpiryFindsAll == Spec => []NoActiveForgotten
  <1>1. Init => NoActiveForgotten
    BY DEF Init, NoActiveForgotten
  <1> QED BY InitTyped, TypedStep, NoneForgottenStep, <1>1, PTL DEF Spec

-----------------------------------------------------------------------------
(* Hold counts are exact where no write was raced.                         *)

(* The strong count of an Arc is the number of those who hold it, which    *)
(* says something because they are finitely many.                          *)
FinitelyMany == IsFiniteSet(Request) /\ IsFiniteSet(Call)

Unheld(b) == \A o \in Owner : holds[o][b] = None

(* Who holds a block holds the Arc that its Weak points to, and a call     *)
(* about to write what it decided finds nobody holding the block.          *)
ExactAt(b) ==
    /\ \A o \in Owner : holds[o][b] \in {None, unique[b]}
    /\ \A c \in Call : InGap(c, b) => Unheld(b)

ExactInv == \A b \in Block \ raced : ExactAt(b)

LEMMA UpgradesIsHeld ==
    ASSUME NEW b \in Block, Upgrades(b)
    PROVE  ~Unheld(b)
  <1>1. strong_count(b) # 0
    BY DEF Upgrades
  <1>2. unique[b] # None
    BY <1>1 DEF strong_count
  <1>3. Cardinality({ o \in Owner : holds[o][b] = unique[b] }) # 0
    BY <1>1, <1>2 DEF strong_count
  <1>4. { o \in Owner : holds[o][b] = unique[b] } # {}
    BY <1>3, FS_EmptySet
  <1> QED BY <1>2, <1>4 DEF Unheld

LEMMA NotCountedIsUnheld ==
    ASSUME FinitelyMany, NEW b \in Block, ExactAt(b), ~Upgrades(b) \/ CanRemove(b)
    PROVE  Unheld(b)
  <1>1. CASE unique[b] = None
    BY <1>1 DEF ExactAt, Unheld
  <1>2. CASE unique[b] # None
    <2> DEFINE owners == { o \in Owner : holds[o][b] = unique[b] }
    <2>1. IsFiniteSet(Owner)
      BY FS_Union DEF FinitelyMany, Owner
    <2>2. IsFiniteSet(owners) /\ Cardinality(owners) \in Nat
      BY <2>1, FS_Subset, FS_CardinalityType
    <2>3. Cardinality(owners) = 0
      BY <1>2, <2>2 DEF Upgrades, CanRemove, strong_count
    <2>4. owners = {}
      BY <2>2, <2>3, FS_EmptySet
    <2> QED BY <1>2, <2>4 DEF ExactAt, Unheld
  <1> QED BY <1>1, <1>2

(* A step that leaves a block's holders alone, but for moving or dropping  *)
(* Arcs, and opens no gap at it.                                           *)
LEMMA ExactKept ==
    ASSUME NEW b \in Block, ExactAt(b), unique'[b] = unique[b],
           \A o \in Owner : holds'[o][b] = None \/ \E p \in Owner : holds'[o][b] = holds[p][b],
           \A c \in Call : InGap(c, b)' => InGap(c, b)
    PROVE  ExactAt(b)'
  BY DEF ExactAt, Unheld

LEMMA GapKept ==
    ASSUME TypeOK, NEW c \in Call, CallStep(c), NEW b \in Block,
           InGap(c, b)' => InGap(c, b)
    PROVE  \A d \in Call : InGap(d, b)' => InGap(d, b)
  <1> SUFFICES ASSUME NEW d \in Call, d # c, InGap(d, b)' PROVE InGap(d, b)
    OBVIOUS
  <1>1. pc'[d] = pc[d] /\ BlockOf(d)' = BlockOf(d)
    BY OthersKeep
  <1> QED BY <1>1 DEF InGap

(* A write in no other call's gap is not raced.                            *)
LEMMA WriteClosesGaps ==
    ASSUME TypeOK, NEW c \in Call, CallStep(c), pc'[c] \notin {"weak", "erase"},
           NEW b \in Block \ raced', WriteTo(c, b)
    PROVE  b \notin raced /\ \A d \in Call : ~InGap(d, b)'
  <1>1. b \notin raced /\ \A d \in Call \ {c} : ~InGap(d, b)
    BY DEF WriteTo
  <1>2. ~InGap(c, b)'
    BY DEF InGap
  <1>3. ASSUME NEW d \in Call, d # c PROVE InGap(d, b)' => InGap(d, b)
    BY <1>3, OthersKeep DEF InGap
  <1> QED BY <1>1, <1>2, <1>3

LEMMA ExactCallStep ==
    ASSUME FinitelyMany, Typed, ExactInv, NEW c \in Call, CallStep(c),
           NEW b \in Block \ raced'
    PROVE  ExactAt(b)'
  <1> USE DEF At, Goto, timeVars, mapVars
  <1>1. /\ TypeOK /\ c \in Owner /\ Request \subseteq Owner
        /\ holds \in [Owner -> [Block -> Call \union {None}]]
        /\ unique \in [Block -> Call \union {None}]
    BY DEF Typed, TypeOK, Owner
  <1>2. b \notin raced
    BY DEF CallStep, Step, NewRequest, TooEarly, Snapshot, Clear, ExpireOne, Restart, Touch,
           InsertWeak, Activate, Enlist, RequestEnd, Unlist, Deactivate, DropArc, Count, Erase,
           WriteTo
  <1>3. ExactAt(b)
    BY <1>2 DEF ExactInv
  <1>4. pc[c] \in LoopSteps => BlockOf(c) \in Block
    BY <1>1, BlockOfType
  <1>5. CASE Touch(c) /\ Upgrades(BlockOf(c))
    <2>1. BlockOf(c) \in Block /\ pc'[c] \in {"touch", "activate"}
      BY <1>1, <1>4, <1>5 DEF Touch, NextBlock, LoopSteps, TypeOK
    <2>2. \A d \in Call : InGap(d, b)' => InGap(d, b)
      BY <1>1, <2>1, GapKept DEF InGap
    <2>3. holds' = [holds EXCEPT ![c][BlockOf(c)] = unique[BlockOf(c)]] /\ unique' = unique
      BY <1>5 DEF Touch
    <2>4. CASE b = BlockOf(c)
      <3>1. \A o \in Owner : holds'[o][b] \in {None, unique'[b]}
        BY <1>1, <1>3, <2>1, <2>3, <2>4 DEF ExactAt
      <3>2. \A d \in Call : ~InGap(d, b)
        BY <1>3, <1>5, <2>4, UpgradesIsHeld DEF ExactAt
      <3> QED BY <2>2, <3>1, <3>2 DEF ExactAt
    <2>5. CASE b # BlockOf(c)
      <3>1. \A o \in Owner : holds'[o][b] = holds[o][b]
        BY <1>1, <2>1, <2>3, <2>5
      <3> QED BY <1>3, <2>2, <2>3, <3>1, ExactKept
    <2> QED BY <2>4, <2>5
  <1>6. CASE \/ Touch(c) /\ ~Upgrades(BlockOf(c))
             \/ Count(c) /\ CanRemove(BlockOf(c))
    <2>1. BlockOf(c) \in Block /\ BlockOf(c)' = BlockOf(c) /\ UNCHANGED <<holds, unique>>
      BY <1>4, <1>6 DEF Touch, Count, LoopSteps, BlockOf
    <2>2. CASE b = BlockOf(c)
      <3>1. Unheld(b)
        BY <1>3, <1>6, <2>2, NotCountedIsUnheld
      <3> QED BY <1>3, <2>1, <3>1 DEF ExactAt, Unheld
    <2>3. CASE b # BlockOf(c)
      <3>1. \A d \in Call : InGap(d, b)' => InGap(d, b)
        BY <1>1, <2>1, <2>3, GapKept DEF InGap
      <3> QED BY <1>3, <2>1, <3>1, ExactKept
    <2> QED BY <2>2, <2>3
  <1>7. CASE InsertWeak(c)
    <2>1. /\ BlockOf(c) \in Block /\ pc'[c] \in {"touch", "activate"}
          /\ InGap(c, BlockOf(c)) /\ WriteTo(c, BlockOf(c))
      BY <1>1, <1>4, <1>7 DEF InsertWeak, NextBlock, LoopSteps, TypeOK, InGap
    <2>2. /\ holds' = [holds EXCEPT ![c][BlockOf(c)] = c]
          /\ unique' = [unique EXCEPT ![BlockOf(c)] = c]
      BY <1>7 DEF InsertWeak
    <2>3. CASE b = BlockOf(c)
      <3>1. \A d \in Call : ~InGap(d, b)'
        BY <1>1, <2>1, <2>3, WriteClosesGaps
      <3>2. Unheld(b)
        BY <1>3, <2>1, <2>3 DEF ExactAt
      <3>3. \A o \in Owner : holds'[o][b] \in {None, unique'[b]}
        BY <1>1, <2>1, <2>2, <2>3, <3>2 DEF Unheld
      <3> QED BY <3>1, <3>3 DEF ExactAt
    <2>4. CASE b # BlockOf(c)
      <3>1. unique'[b] = unique[b] /\ \A o \in Owner : holds'[o][b] = holds[o][b]
        BY <1>1, <2>1, <2>2, <2>4
      <3>2. \A d \in Call : InGap(d, b)' => InGap(d, b)
        BY <1>1, <2>1, GapKept DEF InGap
      <3> QED BY <1>3, <3>1, <3>2, ExactKept
    <2> QED BY <2>3, <2>4
  <1>8. CASE Erase(c)
    <2>1. /\ BlockOf(c) \in Block /\ pc'[c] \in {"drop", "expire", "done"}
          /\ InGap(c, BlockOf(c)) /\ WriteTo(c, BlockOf(c))
      BY <1>1, <1>4, <1>8 DEF Erase, NextBlock, LoopSteps, TypeOK, InGap, Freed
    <2>2. unique' = [unique EXCEPT ![BlockOf(c)] = None] /\ holds' = holds
      BY <1>8 DEF Erase
    <2>3. CASE b = BlockOf(c)
      <3>1. \A d \in Call : ~InGap(d, b)'
        BY <1>1, <2>1, <2>3, WriteClosesGaps
      <3>2. Unheld(b)
        BY <1>3, <2>1, <2>3 DEF ExactAt
      <3> QED BY <2>2, <3>1, <3>2 DEF ExactAt, Unheld
    <2>4. CASE b # BlockOf(c)
      <3>1. unique'[b] = unique[b]
        BY <1>1, <2>1, <2>2, <2>4
      <3>2. \A d \in Call : InGap(d, b)' => InGap(d, b)
        BY <1>1, <2>1, GapKept DEF InGap
      <3> QED BY <1>3, <2>2, <3>1, <3>2, ExactKept
    <2> QED BY <2>3, <2>4
  <1>9. CASE Activate(c) \/ Deactivate(c) \/ DropArc(c)
    <2>1. unique' = unique /\ pc'[c] \notin {"weak", "erase"}
      BY <1>1, <1>9 DEF Activate, Deactivate, DropArc, TypeOK, Freed
    <2>2. \A d \in Call : InGap(d, b)' => InGap(d, b)
      BY <1>1, <2>1, GapKept DEF InGap
    <2>3. \A o \in Owner : holds'[o][b] = None \/ \E p \in Owner : holds'[o][b] = holds[p][b]
      <3>1. CASE Activate(c)
        <4>1. request[c] \in Owner
          BY <1>1, <3>1 DEF Activate, Typed, CallOK, Adding
        <4>2. holds' = [holds EXCEPT ![request[c]] = holds[c], ![c] = NoArcs]
          BY <3>1 DEF Activate
        <4> QED BY <1>1, <4>1, <4>2 DEF NoArcs
      <3>2. CASE Deactivate(c)
        <4>1. target[c] \in Owner
          BY <1>1, <3>2 DEF Deactivate, Typed, CallOK, Freeing
        <4>2. holds' = [holds EXCEPT ![c] = holds[target[c]], ![target[c]] = NoArcs]
          BY <3>2 DEF Deactivate
        <4> QED BY <1>1, <4>1, <4>2 DEF NoArcs
      <3>3. CASE DropArc(c)
        <4>1. BlockOf(c) \in Block
          BY <1>4, <3>3 DEF DropArc, LoopSteps
        <4>2. holds' = [holds EXCEPT ![c][BlockOf(c)] = None]
          BY <3>3 DEF DropArc
        <4>3. \A o \in Owner : holds'[o][b] \in {None, holds[o][b]}
          BY <1>1, <4>1, <4>2
        <4> QED BY <4>3
      <3> QED BY <1>9, <3>1, <3>2, <3>3
    <2> QED BY <1>3, <2>1, <2>2, <2>3, ExactKept
  <1>10. CASE \/ \E r \in Request : NewRequest(c, r) \/ RequestEnd(c, r) \/ ExpireOne(c, r)
              \/ TooEarly(c) \/ Snapshot(c) \/ Clear(c) \/ Restart(c) \/ Enlist(c) \/ Unlist(c)
              \/ Count(c) /\ ~CanRemove(BlockOf(c))
    <2>1. UNCHANGED <<holds, unique>> /\ pc'[c] \notin {"weak", "erase"}
      BY <1>1, <1>10 DEF NewRequest, RequestEnd, ExpireOne, TooEarly, Snapshot, Clear, Restart,
            Touching, Enlist, Unlist, Count, NextBlock, Freed, TypeOK
    <2>2. \A d \in Call : InGap(d, b)' => InGap(d, b)
      BY <1>1, <2>1, GapKept DEF InGap
    <2> QED BY <1>3, <2>1, <2>2, ExactKept
  <1> QED BY <1>5, <1>6, <1>7, <1>8, <1>9, <1>10 DEF CallStep, Step

LEMMA ExactStep ==
    ASSUME FinitelyMany, Typed, ExactInv, [Next]_vars
    PROVE  ExactInv'
  <1>1. CASE Tick \/ UNCHANGED vars
    BY <1>1 DEF Tick, vars, mapVars, callVars, ExactInv, ExactAt, Unheld, InGap, BlockOf
  <1>2. ASSUME NEW c \in Call, CallStep(c) PROVE ExactInv'
    BY <1>2, ExactCallStep DEF ExactInv
  <1> QED BY <1>1, <1>2, NextIsCallStep

LEMMA ExactIsExact ==
    ASSUME ExactInv
    PROVE  ExactUnlessRaced
  <1> SUFFICES ASSUME NEW b \in Block \ raced
               PROVE  block_hold_count(b) = Cardinality(HoldersOf(b))
    BY DEF ExactUnlessRaced
  <1>1. \A o \in Owner : holds[o][b] \in {None, unique[b]}
    BY DEF ExactInv, ExactAt
  <1>2. CASE unique[b] = None
    <2>1. HoldersOf(b) = {}
      BY <1>1, <1>2 DEF HoldersOf
    <2> QED BY <1>2, <2>1, FS_EmptySet DEF block_hold_count, strong_count
  <1>3. CASE unique[b] # None
    <2>1. HoldersOf(b) = { o \in Owner : holds[o][b] = unique[b] }
      BY <1>1, <1>3 DEF HoldersOf
    <2> QED BY <1>3, <2>1 DEF block_hold_count, strong_count
  <1> QED BY <1>2, <1>3

LEMMA InitExact == Init => ExactInv
  BY DEF Init, ExactInv, ExactAt, Unheld, InGap, NoArcs

(* ExactUnlessRaced: a block's hold count is the number of its holders,    *)
(* unless a call wrote its Weak inside the gap between another's look and  *)
(* write, for any number of requests and calls.                            *)
THEOREM CountsExact == ASSUME FinitelyMany PROVE Spec => []ExactUnlessRaced
  <1>1. Typed /\ ExactInv /\ [Next]_vars => (Typed /\ ExactInv)'
    BY TypedStep, ExactStep
  <1>2. Init => Typed /\ ExactInv
    BY InitTyped, InitExact
  <1> QED BY <1>1, <1>2, ExactIsExact, PTL DEF Spec

-----------------------------------------------------------------------------
(* No block outlives its holders.                                          *)

Elems(s) == { s[i] : i \in DOMAIN s }

Arcs(o) == { b \in Block : holds[o][b] # None }

Prompt(c) == Elems(Tokens[request[c]])

(* A call that adds a request holds the blocks of the prompt that it has   *)
(* been over, one that frees a request holds only blocks it will get to,   *)
(* and at other times a call holds nothing.                                *)
ArcsRight(c) ==
    /\ pc[c] \in {"touch", "weak"} =>
          /\ Arcs(c) \subseteq Prompt(c)
          /\ Elems(todo[c]) \subseteq Prompt(c)
          /\ Prompt(c) \subseteq Arcs(c) \union Elems(todo[c])
    /\ pc[c] = "activate" => Arcs(c) = Prompt(c)
    /\ pc[c] = "drop" => Arcs(c) \subseteq Elems(todo[c])
    /\ pc[c] \in {"count", "erase"} => Arcs(c) \subseteq Elems(Tail(todo[c]))
    /\ pc[c] \notin LoopSteps \union {"activate"} => Arcs(c) = {}

(* A request holds blocks of its prompt, and none when it is not active.   *)
RequestRight(r) == Arcs(r) \subseteq IF r \in active THEN Elems(Tokens[r]) ELSE {}

(* Somebody holds the block, or is about to look whether to remove it.     *)
Tended(b) ==
    \/ \E o \in Owner : b \in Arcs(o)
    \/ \E c \in Call : pc[c] \in {"count", "erase"} /\ BlockOf(c) = b

ArcsInv ==
    /\ \A c \in Call : ArcsRight(c)
    /\ \A r \in Request : RequestRight(r)
    /\ \A b \in Block : unique[b] # None => Tended(b)

LEMMA ElemsTail ==
    ASSUME NEW S, NEW s \in Seq(S), s # <<>>
    PROVE  Elems(s) = {Head(s)} \union Elems(Tail(s))
  <1>1. Len(s) \in Nat \ {0} /\ DOMAIN s = 1 .. Len(s)
    BY EmptySeq, LenProperties
  <1>2. /\ Head(s) = s[1] /\ Tail(s) \in Seq(S) /\ Len(Tail(s)) = Len(s) - 1
        /\ \A i \in 1 .. Len(Tail(s)) : Tail(s)[i] = s[i + 1]
    BY <1>1
  <1>3. DOMAIN Tail(s) = 1 .. Len(s) - 1 /\ Len(Tail(s)) = Len(s) - 1
    BY <1>2, LenProperties
  <1>4. ASSUME NEW i \in 1 .. Len(s) PROVE s[i] \in {Head(s)} \union Elems(Tail(s))
    <2>1. CASE i = 1
      BY <1>2, <2>1
    <2>2. CASE i # 1
      <3>1. i - 1 \in 1 .. Len(s) - 1 /\ (i - 1) + 1 = i
        BY <1>1, <2>2
      <3>2. Tail(s)[i - 1] = s[i]
        BY <1>2, <1>3, <3>1
      <3> QED BY <1>3, <3>1, <3>2 DEF Elems
    <2> QED BY <2>1, <2>2
  <1>5. ASSUME NEW i \in 1 .. Len(s) - 1 PROVE Tail(s)[i] \in Elems(s)
    <2>1. i + 1 \in 1 .. Len(s) /\ Tail(s)[i] = s[i + 1]
      BY <1>1, <1>2, <1>3
    <2> QED BY <1>1, <2>1 DEF Elems
  <1>6. Head(s) \in Elems(s)
    BY <1>1, <1>2 DEF Elems
  <1>7. Elems(s) \subseteq {Head(s)} \union Elems(Tail(s))
    BY <1>1, <1>4 DEF Elems
  <1>8. Elems(Tail(s)) \subseteq Elems(s)
    BY <1>3, <1>5 DEF Elems
  <1> QED BY <1>6, <1>7, <1>8

LEMMA ElemsEmpty == Elems(<<>>) = {}
  <1>1. DOMAIN <<>> = {}
    OBVIOUS
  <1> QED BY <1>1 DEF Elems

(* What is left to do in a loop.                                           *)
LEMMA LoopElems ==
    ASSUME TypeOK, NEW c \in Call, pc[c] \in LoopSteps
    PROVE  Elems(todo[c]) = {BlockOf(c)} \union Elems(Tail(todo[c]))
  BY BlockOfType, ElemsTail DEF BlockOf

(* Who holds what changes only for the call and the request it works on.   *)
LEMMA OthersArcs ==
    ASSUME TypeOK, NEW c \in Call, CallStep(c), CallOK(c), NEW o \in Owner, o # c,
           Activate(c) => o # request[c],
           Deactivate(c) => o # target[c]
    PROVE  Arcs(o)' = Arcs(o)
  <1>1. holds'[o] = holds[o]
    BY DEF CallStep, Step, NewRequest, TooEarly, Snapshot, Clear, ExpireOne, Restart, Touch,
           InsertWeak, Activate, Enlist, RequestEnd, Unlist, Deactivate, DropArc, Count, Erase,
           mapVars, TypeOK
  <1> QED BY <1>1 DEF Arcs

(* So an invariant about holders has to be looked at for these only.       *)
LEMMA ArcsByParts ==
    ASSUME Typed, ArcsInv, NEW c \in Call, CallStep(c), ArcsRight(c)',
           \A r \in Request :
               (Activate(c) /\ r = request[c]) \/ (Deactivate(c) /\ r = target[c]) =>
                   RequestRight(r)',
           ~Activate(c) /\ ~Deactivate(c) => active' = active,
           \A b \in Block : unique'[b] # None => Tended(b)'
    PROVE  ArcsInv'
  <1>1. TypeOK /\ CallOK(c) /\ c \in Owner /\ Request \subseteq Owner
    BY DEF Typed, Owner
  <1>2. ASSUME NEW d \in Call, d # c PROVE ArcsRight(d)'
    <2>1. /\ pc'[d] = pc[d] /\ request'[d] = request[d] /\ target'[d] = target[d]
          /\ todo'[d] = todo[d]
      BY <1>1, <1>2, OthersKeep
    <2>2. (Activate(c) => d # request[c]) /\ (Deactivate(c) => d # target[c]) /\ d \in Owner
      BY <1>1, SequencesAssumption DEF Activate, Deactivate, CallOK, Adding, Freeing, At, Owner
    <2>3. Arcs(d)' = Arcs(d)
      BY <1>1, <1>2, <2>2, OthersArcs
    <2>4. ArcsRight(d) /\ Prompt(d)' = Prompt(d)
      BY <2>1 DEF ArcsInv, Prompt
    <2> QED BY <2>1, <2>3, <2>4 DEF ArcsRight
  <1>3. ASSUME NEW r \in Request PROVE RequestRight(r)'
    <2>1. CASE (Activate(c) /\ r = request[c]) \/ (Deactivate(c) /\ r = target[c])
      BY <2>1
    <2>2. CASE ~(Activate(c) /\ r = request[c]) /\ ~(Deactivate(c) /\ r = target[c])
      <3>1. r # c /\ r \in Owner
        BY <1>1, SequencesAssumption
      <3>2. Arcs(r)' = Arcs(r)
        <4>1. (Activate(c) => r # request[c]) /\ (Deactivate(c) => r # target[c])
          BY <2>2
        <4> QED BY <1>1, <3>1, <4>1, OthersArcs
      <3>3. r \in active' <=> r \in active
        BY <2>2 DEF Activate, Deactivate
      <3> QED BY <3>2, <3>3 DEF ArcsInv, RequestRight
    <2> QED BY <2>1, <2>2
  <1> QED BY <1>2, <1>3 DEF ArcsInv

(* A step keeps a block tended when its Arcs stay, and so do the calls     *)
(* that are about to look.                                                 *)
LEMMA TendedKept ==
    ASSUME TypeOK, NEW c \in Call, CallStep(c), NEW b \in Block, Tended(b),
           \A o \in Owner : b \in Arcs(o) => \E p \in Owner : b \in Arcs(p)',
           pc[c] \in {"count", "erase"} /\ BlockOf(c) = b => Tended(b)'
    PROVE  Tended(b)'
  <1>1. CASE \E o \in Owner : b \in Arcs(o)
    BY <1>1 DEF Tended
  <1>2. ASSUME NEW d \in Call, pc[d] \in {"count", "erase"}, BlockOf(d) = b PROVE Tended(b)'
    <2>1. CASE d = c
      BY <1>2, <2>1
    <2>2. CASE d # c
      BY <1>2, <2>2, OthersKeep DEF Tended
    <2> QED BY <2>1, <2>2
  <1> QED BY <1>1, <1>2 DEF Tended
(* Steps outside the loops: the call holds nothing.                        *)
LEMMA IdleArcs ==
    ASSUME Typed, ArcsInv, NEW c \in Call,
           \/ \E r \in Request : NewRequest(c, r) \/ RequestEnd(c, r) \/ ExpireOne(c, r)
           \/ TooEarly(c) \/ Snapshot(c) \/ Clear(c) \/ Restart(c) \/ Enlist(c) \/ Unlist(c)
    PROVE  ArcsInv'
  <1> USE DEF At, Goto, timeVars, mapVars
  <1>1. TypeOK /\ CallOK(c) /\ CallStep(c)
    BY DEF Typed, CallStep, Step
  <1>2. /\ UNCHANGED <<holds, unique, active>>
        /\ ~Activate(c) /\ ~Deactivate(c)
        /\ pc[c] \notin LoopSteps \union {"activate"}
    BY DEF NewRequest, RequestEnd, ExpireOne, TooEarly, Snapshot, Clear, Restart, Enlist,
           Unlist, Activate, Deactivate, LoopSteps
  <1>3. Arcs(c) = {} /\ \A o \in Owner : Arcs(o)' = Arcs(o)
    BY <1>2 DEF ArcsInv, ArcsRight, Arcs
  <1>4. c \in Owner /\ Arcs(c)' = {}
    BY <1>3 DEF Owner
  <1>5. ArcsRight(c)'
    <2>1. CASE TooEarly(c) \/ Restart(c)
      <3>1. request[c] \in Request /\ Touching(c) /\ request' = request
        BY <1>1, <2>1 DEF TooEarly, Restart, CallOK, Adding
      <3>2. /\ todo'[c] = Tokens[request[c]]
            /\ pc'[c] = IF Tokens[request[c]] = <<>> THEN "activate" ELSE "touch"
        BY <1>1, <3>1, TouchingTypes
      <3>3. Elems(todo[c])' = Prompt(c)'
        BY <3>1, <3>2 DEF Prompt, Elems
      <3>4. pc'[c] = "activate" => Prompt(c)' = {}
        BY <3>1, <3>2, ElemsEmpty DEF Prompt
      <3> QED BY <1>4, <3>2, <3>3, <3>4 DEF ArcsRight, LoopSteps
    <2>2. CASE ~TooEarly(c) /\ ~Restart(c)
      <3>1. pc'[c] \notin LoopSteps \union {"activate"}
        BY <1>1, <2>2 DEF NewRequest, RequestEnd, ExpireOne, Snapshot, Clear, Enlist, Unlist,
              LoopSteps, TypeOK
      <3> QED BY <1>4, <3>1 DEF ArcsRight, LoopSteps
    <2> QED BY <2>1, <2>2
  <1>6. ASSUME NEW b \in Block, unique'[b] # None PROVE Tended(b)'
    <2>1. Tended(b)
      BY <1>2, <1>6 DEF ArcsInv
    <2> QED BY <1>1, <1>2, <1>3, <2>1, TendedKept DEF LoopSteps
  <1> QED BY <1>1, <1>2, <1>5, <1>6, ArcsByParts

(* The call has been over one block more of its prompt.                    *)
LEMMA TouchedRight ==
    ASSUME TypeOK, NEW c \in Call, ArcsRight(c), pc[c] \in {"touch", "weak"},
           NextBlock(c, "touch", "activate"), request' = request,
           Arcs(c)' = Arcs(c) \union {BlockOf(c)}
    PROVE  ArcsRight(c)'
  <1>1. /\ pc'[c] = IF Tail(todo[c]) = <<>> THEN "activate" ELSE "touch"
        /\ todo'[c] = Tail(todo[c])
    BY NextBlockTypes DEF LoopSteps, Steps, TypeOK
  <1>2. Elems(todo[c]) = {BlockOf(c)} \union Elems(Tail(todo[c]))
    BY LoopElems DEF LoopSteps
  <1>3. /\ Prompt(c)' = Prompt(c)
        /\ Elems(todo[c])' = Elems(Tail(todo[c]))
    BY <1>1 DEF Prompt, Elems
  <1>4. /\ Arcs(c) \subseteq Prompt(c)
        /\ Elems(todo[c]) \subseteq Prompt(c)
        /\ Prompt(c) \subseteq Arcs(c) \union Elems(todo[c])
    BY DEF ArcsRight
  <1>5. pc'[c] = "activate" => Elems(Tail(todo[c])) = {}
    BY <1>1, ElemsEmpty
  <1> QED BY <1>1, <1>2, <1>3, <1>4, <1>5 DEF ArcsRight, LoopSteps

LEMMA TouchArcs ==
    ASSUME Typed, ArcsInv, NEW c \in Call, Touch(c) \/ InsertWeak(c)
    PROVE  ArcsInv'
  <1> USE DEF At, Goto, timeVars, mapVars
  <1>1. /\ TypeOK /\ CallOK(c) /\ CallStep(c) /\ c \in Owner
        /\ holds \in [Owner -> [Block -> Call \union {None}]]
        /\ unique \in [Block -> Call \union {None}]
    BY DEF Typed, CallStep, Step, Owner, TypeOK
  <1>2. /\ pc[c] \in {"touch", "weak"} /\ ~Activate(c) /\ ~Deactivate(c)
        /\ UNCHANGED <<active, request>> /\ BlockOf(c) \in Block
    BY <1>1, BlockOfType DEF Touch, InsertWeak, Activate, Deactivate, LoopSteps
  <1>3. ArcsRight(c)
    BY DEF ArcsInv
  <1>4. CASE Touch(c) /\ ~Upgrades(BlockOf(c))
    <2>1. UNCHANGED <<holds, unique, todo>> /\ pc'[c] = "weak" /\ pc[c] = "touch"
      BY <1>1, <1>4 DEF Touch, TypeOK
    <2>2. \A o \in Owner : Arcs(o)' = Arcs(o)
      BY <2>1 DEF Arcs
    <2>3. ArcsRight(c)'
      <3>1. Arcs(c)' = Arcs(c) /\ Prompt(c)' = Prompt(c) /\ Elems(todo[c])' = Elems(todo[c])
        BY <1>1, <1>2, <2>1, <2>2 DEF Prompt
      <3> QED BY <1>3, <2>1, <3>1 DEF ArcsRight, LoopSteps
    <2>4. ASSUME NEW b \in Block, unique'[b] # None PROVE Tended(b)'
      <3>1. Tended(b)
        BY <2>1, <2>4 DEF ArcsInv
      <3> QED BY <1>1, <2>1, <2>2, <3>1, TendedKept
    <2> QED BY <1>1, <1>2, <2>3, <2>4, ArcsByParts
  <1>5. CASE InsertWeak(c) \/ (Touch(c) /\ Upgrades(BlockOf(c)))
    <2>1. PICK arc \in Call : holds' = [holds EXCEPT ![c][BlockOf(c)] = arc]
      <3>1. CASE InsertWeak(c)
        BY <3>1 DEF InsertWeak
      <3>2. CASE Touch(c) /\ Upgrades(BlockOf(c))
        <4>1. unique[BlockOf(c)] \in Call
          BY <1>1, <1>2, <3>2 DEF Upgrades, strong_count
        <4> QED BY <3>2, <4>1 DEF Touch
      <3> QED BY <1>5, <3>1, <3>2
    <2>2. Arcs(c)' = Arcs(c) \union {BlockOf(c)}
      BY <1>1, <1>2, <2>1, NoneIsNoCall DEF Arcs
    <2>3. \A o \in Owner : Arcs(o) \subseteq Arcs(o)'
      BY <1>1, <1>2, <2>1, NoneIsNoCall DEF Arcs
    <2>4. NextBlock(c, "touch", "activate")
      BY <1>5 DEF InsertWeak, Touch
    <2>5. ArcsRight(c)'
      BY <1>1, <1>2, <1>3, <2>2, <2>4, TouchedRight
    <2>6. ASSUME NEW b \in Block, unique'[b] # None PROVE Tended(b)'
      <3>1. CASE b = BlockOf(c)
        BY <1>1, <2>2, <3>1 DEF Tended
      <3>2. CASE b # BlockOf(c)
        <4>1. unique'[b] = unique[b]
          BY <1>1, <1>2, <1>5, <3>2 DEF InsertWeak, Touch
        <4>2. Tended(b)
          BY <2>6, <4>1 DEF ArcsInv
        <4> QED BY <1>1, <1>2, <2>3, <4>2, TendedKept
      <3> QED BY <3>1, <3>2
    <2> QED BY <1>1, <1>2, <2>5, <2>6, ArcsByParts
  <1> QED BY <1>4, <1>5

LEMMA ActivateArcs ==
    ASSUME Typed, ArcsInv, NEW c \in Call, Activate(c)
    PROVE  ArcsInv'
  <1> USE DEF At, Goto, timeVars
  <1> DEFINE r == request[c]
  <1>1. /\ TypeOK /\ CallOK(c) /\ CallStep(c) /\ c \in Owner
        /\ holds \in [Owner -> [Block -> Call \union {None}]]
    BY DEF Typed, CallStep, Step, Owner, TypeOK
  <1>2. r \in Request /\ r \in Owner /\ r # c
    BY <1>1, SequencesAssumption DEF Activate, CallOK, Adding, Owner
  <1>3. /\ Arcs(c) = Elems(Tokens[r])
        /\ Arcs(r) \subseteq Elems(Tokens[r])
    BY <1>2 DEF Activate, ArcsInv, ArcsRight, RequestRight, Prompt
  <1>4. holds'[r] = holds[c] /\ holds'[c] = NoArcs /\ \A o \in Owner \ {r, c} : holds'[o] = holds[o]
    BY <1>1, <1>2 DEF Activate
  <1>5. /\ { b \in Block : holds'[r][b] # None } = Elems(Tokens[r])
        /\ Arcs(c)' = {}
        /\ \A o \in Owner \ {r, c} : Arcs(o)' = Arcs(o)
    BY <1>3, <1>4 DEF Arcs, NoArcs
  <1>6. pc'[c] = "enlist" /\ pc[c] = "activate" /\ r \in active' /\ UNCHANGED <<unique, request>>
    BY <1>1 DEF Activate, TypeOK
  <1>7. ArcsRight(c)'
    BY <1>5, <1>6 DEF ArcsRight, LoopSteps
  <1>8. ASSUME NEW q \in Request, q = r PROVE RequestRight(q)'
    BY <1>5, <1>6, <1>8 DEF RequestRight, Arcs
  <1>9. ASSUME NEW b \in Block, unique'[b] # None PROVE Tended(b)'
    <2>1. Tended(b)
      BY <1>6, <1>9 DEF ArcsInv
    <2>2. ASSUME NEW o \in Owner, b \in Arcs(o) PROVE \E p \in Owner : b \in Arcs(p)'
      <3>1. CASE o \in {r, c}
        <4>1. holds'[r][b] # None
          BY <1>3, <1>5, <2>2, <3>1
        <4> QED BY <1>2, <4>1 DEF Arcs
      <3>2. CASE o \notin {r, c}
        BY <1>5, <2>2, <3>2
      <3> QED BY <3>1, <3>2
    <2> QED BY <1>1, <1>6, <2>1, <2>2, TendedKept
  <1>10. ~Deactivate(c)
    BY <1>6 DEF Deactivate
  <1> QED BY <1>1, <1>7, <1>8, <1>9, <1>10, ArcsByParts
LEMMA DeactivateArcs ==
    ASSUME Typed, ArcsInv, NEW c \in Call, Deactivate(c)
    PROVE  ArcsInv'
  <1> USE DEF At, Goto, timeVars
  <1> DEFINE r == target[c]
  <1>1. /\ TypeOK /\ CallOK(c) /\ CallStep(c) /\ c \in Owner
        /\ holds \in [Owner -> [Block -> Call \union {None}]]
    BY DEF Typed, CallStep, Step, Owner, TypeOK
  <1>2. r \in Request /\ r \in Owner /\ r # c
    BY <1>1, SequencesAssumption DEF Deactivate, CallOK, Freeing, Owner
  <1>3. /\ Arcs(c) = {}
        /\ Arcs(r) \subseteq IF r \in active THEN Elems(Tokens[r]) ELSE {}
    BY <1>2 DEF Deactivate, ArcsInv, ArcsRight, RequestRight, LoopSteps
  <1>4. holds'[c] = holds[r] /\ holds'[r] = NoArcs /\ \A o \in Owner \ {r, c} : holds'[o] = holds[o]
    BY <1>1, <1>2 DEF Deactivate
  <1>5. /\ Arcs(c)' = Arcs(r)
        /\ { b \in Block : holds'[r][b] # None } = {}
        /\ \A o \in Owner \ {r, c} : Arcs(o)' = Arcs(o)
    BY <1>4 DEF Arcs, NoArcs
  <1>6. pc[c] = "deactivate" /\ UNCHANGED <<unique, target>> /\ ~Activate(c)
    BY DEF Deactivate, Activate
  <1>7. ArcsRight(c)'
    <2>1. CASE r \in active /\ Tokens[r] # <<>>
      <3>1. pc'[c] = "drop" /\ todo'[c] = Tokens[r]
        BY <1>1, <2>1 DEF Deactivate, TypeOK
      <3>2. Elems(todo[c])' = Elems(Tokens[r])
        BY <3>1 DEF Elems
      <3> QED BY <1>3, <1>5, <2>1, <3>1, <3>2 DEF ArcsRight, LoopSteps
    <2>2. CASE ~(r \in active /\ Tokens[r] # <<>>)
      <3>1. pc'[c] \in {"expire", "done"}
        BY <1>1, <2>2 DEF Deactivate, Freed, TypeOK
      <3>2. Arcs(c)' = {}
        BY <1>3, <1>5, <2>2, ElemsEmpty
      <3> QED BY <3>1, <3>2 DEF ArcsRight, LoopSteps
    <2> QED BY <2>1, <2>2
  <1>8. ASSUME NEW q \in Request, q = r PROVE RequestRight(q)'
    BY <1>5, <1>8 DEF RequestRight, Arcs
  <1>9. ASSUME NEW b \in Block, unique'[b] # None PROVE Tended(b)'
    <2>1. Tended(b)
      BY <1>6, <1>9 DEF ArcsInv
    <2>2. ASSUME NEW o \in Owner, b \in Arcs(o) PROVE \E p \in Owner : b \in Arcs(p)'
      <3>1. CASE o = r
        BY <1>1, <1>5, <2>2, <3>1
      <3>2. CASE o # r
        BY <1>3, <1>5, <2>2, <3>2
      <3> QED BY <3>1, <3>2
    <2> QED BY <1>1, <1>6, <2>1, <2>2, TendedKept
  <1> QED BY <1>1, <1>6, <1>7, <1>8, <1>9, ArcsByParts

LEMMA DropArcs ==
    ASSUME Typed, ArcsInv, NEW c \in Call, DropArc(c)
    PROVE  ArcsInv'
  <1> USE DEF At, Goto, timeVars
  <1>1. /\ TypeOK /\ CallOK(c) /\ CallStep(c) /\ c \in Owner
        /\ holds \in [Owner -> [Block -> Call \union {None}]]
    BY DEF Typed, CallStep, Step, Owner, TypeOK
  <1>2. /\ pc[c] = "drop" /\ pc'[c] = "count" /\ BlockOf(c) \in Block
        /\ UNCHANGED <<active, unique, todo>> /\ ~Activate(c) /\ ~Deactivate(c)
        /\ BlockOf(c)' = BlockOf(c)
    BY <1>1, BlockOfType DEF DropArc, Activate, Deactivate, LoopSteps, TypeOK, BlockOf
  <1>3. holds' = [holds EXCEPT ![c][BlockOf(c)] = None]
    BY DEF DropArc
  <1>4. /\ Arcs(c)' = Arcs(c) \ {BlockOf(c)}
        /\ \A o \in Owner : Arcs(o) \subseteq Arcs(o)' \union {BlockOf(c)}
    BY <1>1, <1>2, <1>3 DEF Arcs
  <1>5. ArcsRight(c)'
    <2>1. Arcs(c) \subseteq Elems(todo[c])
      BY <1>2 DEF ArcsInv, ArcsRight
    <2>2. Elems(todo[c]) = {BlockOf(c)} \union Elems(Tail(todo[c]))
      BY <1>1, <1>2, LoopElems DEF LoopSteps
    <2>3. Elems(Tail(todo[c]))' = Elems(Tail(todo[c]))
      BY <1>2
    <2> QED BY <1>2, <1>4, <2>1, <2>2, <2>3 DEF ArcsRight, LoopSteps
  <1>6. ASSUME NEW b \in Block, unique'[b] # None PROVE Tended(b)'
    <2>1. CASE b = BlockOf(c)
      BY <1>2, <2>1 DEF Tended
    <2>2. CASE b # BlockOf(c)
      <3>1. Tended(b)
        BY <1>2, <1>6 DEF ArcsInv
      <3>2. \A o \in Owner : b \in Arcs(o) => b \in Arcs(o)'
        BY <1>4, <2>2
      <3> QED BY <1>1, <1>2, <3>1, <3>2, TendedKept
    <2> QED BY <2>1, <2>2
  <1> QED BY <1>1, <1>2, <1>5, <1>6, ArcsByParts

(* The call has let go of one block more.                                  *)
LEMMA DroppedRight ==
    ASSUME TypeOK, NEW c \in Call, ArcsRight(c), pc[c] \in {"count", "erase"},
           NextBlock(c, "drop", Freed(c)), Arcs(c)' = Arcs(c)
    PROVE  ArcsRight(c)'
  <1>1. Freed(c) \in {"expire", "done"}
    BY DEF Freed
  <1>2. /\ pc'[c] = IF Tail(todo[c]) = <<>> THEN Freed(c) ELSE "drop"
        /\ todo'[c] = Tail(todo[c])
    BY <1>1, NextBlockTypes DEF LoopSteps, Steps, TypeOK
  <1>3. Elems(todo[c])' = Elems(Tail(todo[c])) /\ Arcs(c) \subseteq Elems(Tail(todo[c]))
    BY <1>2 DEF Elems, ArcsRight
  <1> QED BY <1>1, <1>2, <1>3, ElemsEmpty DEF ArcsRight, LoopSteps

LEMMA CountArcs ==
    ASSUME Typed, ArcsInv, NEW c \in Call, Count(c) \/ Erase(c)
    PROVE  ArcsInv'
  <1> USE DEF At, Goto, timeVars, mapVars
  <1>1. /\ TypeOK /\ CallOK(c) /\ CallStep(c) /\ c \in Owner
        /\ unique \in [Block -> Call \union {None}]
    BY DEF Typed, CallStep, Step, Owner, TypeOK
  <1>2. /\ pc[c] \in {"count", "erase"} /\ ~Activate(c) /\ ~Deactivate(c)
        /\ UNCHANGED <<active, holds>> /\ BlockOf(c) \in Block
    BY <1>1, BlockOfType DEF Count, Erase, Activate, Deactivate, LoopSteps
  <1>3. \A o \in Owner : Arcs(o)' = Arcs(o)
    BY <1>2 DEF Arcs
  <1>4. ArcsRight(c)
    BY DEF ArcsInv
  <1>5. CASE Count(c) /\ CanRemove(BlockOf(c))
    <2>1. UNCHANGED <<unique, todo>> /\ pc[c] = "count" /\ pc'[c] = "erase"
      BY <1>1, <1>5 DEF Count, TypeOK
    <2>2. ArcsRight(c)'
      BY <1>1, <1>3, <1>4, <2>1 DEF ArcsRight, LoopSteps, Elems
    <2>3. ASSUME NEW b \in Block, unique'[b] # None PROVE Tended(b)'
      <3>1. Tended(b) /\ BlockOf(c)' = BlockOf(c)
        BY <2>1, <2>3 DEF ArcsInv, BlockOf
      <3>2. BlockOf(c) = b => Tended(b)'
        BY <2>1, <3>1 DEF Tended
      <3> QED BY <1>1, <1>3, <3>1, <3>2, TendedKept
    <2> QED BY <1>1, <1>2, <2>2, <2>3, ArcsByParts
  <1>6. CASE Erase(c) \/ (Count(c) /\ ~CanRemove(BlockOf(c)))
    <2>1. NextBlock(c, "drop", Freed(c))
      BY <1>6 DEF Erase, Count
    <2>2. ArcsRight(c)'
      BY <1>1, <1>2, <1>3, <1>4, <2>1, DroppedRight
    <2>3. ASSUME NEW b \in Block, unique'[b] # None PROVE Tended(b)'
      <3>1. unique'[b] = unique[b] /\ (Erase(c) => b # BlockOf(c))
        BY <1>1, <1>2, <1>6, <2>3 DEF Erase, Count
      <3>2. Tended(b)
        BY <2>3, <3>1 DEF ArcsInv
      <3>3. ASSUME BlockOf(c) = b PROVE Tended(b)'
        <4>1. strong_count(b) # 0 /\ unique[b] # None
          BY <1>6, <2>3, <3>1, <3>3 DEF CanRemove
        <4>2. { o \in Owner : holds[o][b] = unique[b] } # {}
          BY <4>1, FS_EmptySet DEF strong_count
        <4>3. PICK o \in Owner : b \in Arcs(o)
          BY <4>1, <4>2 DEF Arcs
        <4> QED BY <1>3, <4>3 DEF Tended
      <3> QED BY <1>1, <1>3, <3>2, <3>3, TendedKept
    <2> QED BY <1>1, <1>2, <2>2, <2>3, ArcsByParts
  <1> QED BY <1>5, <1>6

LEMMA ArcsStep ==
    ASSUME Typed, ArcsInv, [Next]_vars
    PROVE  ArcsInv'
  <1>1. CASE Tick \/ UNCHANGED vars
    <2>1. UNCHANGED <<active, holds, unique, pc, request, todo>>
      BY <1>1 DEF Tick, vars, mapVars, callVars
    <2>2. ASSUME NEW c \in Call PROVE ArcsRight(c)'
      <3>1. Arcs(c)' = Arcs(c) /\ Prompt(c)' = Prompt(c) /\ Elems(todo[c])' = Elems(todo[c])
        BY <2>1 DEF Arcs, Prompt
      <3>2. Elems(Tail(todo[c]))' = Elems(Tail(todo[c])) /\ pc'[c] = pc[c]
        BY <2>1
      <3>3. ArcsRight(c)
        BY DEF ArcsInv
      <3> QED BY <3>1, <3>2, <3>3 DEF ArcsRight
    <2>3. \A r \in Request : RequestRight(r)'
      BY <2>1 DEF ArcsInv, RequestRight, Arcs, Elems
    <2>4. \A b \in Block : unique'[b] # None => Tended(b)'
      BY <2>1 DEF ArcsInv, Tended, Arcs, BlockOf
    <2> QED BY <2>2, <2>3, <2>4 DEF ArcsInv
  <1>2. ASSUME NEW c \in Call, CallStep(c) PROVE ArcsInv'
    BY <1>2, IdleArcs, TouchArcs, ActivateArcs, DeactivateArcs, DropArcs, CountArcs
       DEF CallStep, Step
  <1> QED BY <1>1, <1>2, NextIsCallStep

LEMMA InitArcs == Init => ArcsInv
  <1> SUFFICES ASSUME Init PROVE ArcsInv
    OBVIOUS
  <1>1. \A o \in Owner : Arcs(o) = {}
    BY DEF Init, Arcs, NoArcs
  <1>2. \A c \in Call : ArcsRight(c)
    BY <1>1 DEF Init, ArcsRight, LoopSteps, Owner
  <1>3. \A r \in Request : RequestRight(r)
    BY <1>1 DEF RequestRight, Owner
  <1> QED BY <1>2, <1>3 DEF Init, ArcsInv, NoArcs

LEMMA TendedIsEnough == ArcsInv => NoBlockOutlivesHolders
  BY DEF ArcsInv, Tended, Arcs, HoldersOf, NoBlockOutlivesHolders

(* NoBlockOutlivesHolders: a Weak in unique_blocks belongs to a block that *)
(* somebody holds or is about to look at, whatever adds, frees, duplicate  *)
(* adds and expiries interleave.                                           *)
THEOREM WeaksAreTended == Spec => []NoBlockOutlivesHolders
  <1>1. Typed /\ ArcsInv /\ [Next]_vars => (Typed /\ ArcsInv)'
    BY TypedStep, ArcsStep
  <1>2. Init => Typed /\ ArcsInv
    BY InitTyped, InitArcs
  <1> QED BY <1>1, <1>2, TendedIsEnough, PTL DEF Spec
=============================================================================
