--------------------------- MODULE Migration_proofs ---------------------------
(***************************************************************************)
(* Theorems about Migration, for any number of requests, blocks, servers   *)
(* and jobs: what is indexed is known, a block that is still hot from a    *)
(* migration is migrated again only by a request that was vetted before,   *)
(* a cleanup takes no fresh task, and no data server is passed over.       *)
(***************************************************************************)
EXTENDS Migration, SequenceTheorems, WellFoundedInduction, TLAPS

(* The numbers, one after the other.  (Induction over a set instead of a  *)
(* predicate: the first number outside the set has one before it.)         *)
LEMMA NatSetInduction ==
    ASSUME NEW T \in SUBSET Nat, 0 \in T, \A n \in T : n + 1 \in T
    PROVE  T = Nat
  <1> SUFFICES ASSUME T # Nat PROVE FALSE
    OBVIOUS
  <1> DEFINE Less == {ss \in Nat \X Nat : ss[1] < ss[2]}
  <1>1. IsWellFoundedOn(Less, Nat)
    BY NatLessThanWellFounded DEF OpToRel
  <1>2. PICK m \in Nat \ T : \A y \in Nat \ T : <<y, m>> \notin Less
    <2> HIDE DEF Less
    <2>1. Nat \ T # {} /\ Nat \ T \subseteq Nat
      OBVIOUS
    <2> QED BY <1>1, <2>1, WFMin
  <1>3. m # 0 /\ m - 1 \in Nat /\ m = (m - 1) + 1
    OBVIOUS
  <1>4. <<m - 1, m>> \in Less
    BY <1>3
  <1>5. m - 1 \in T
    <2> HIDE DEF Less
    <2> QED BY <1>2, <1>3, <1>4
  <1> QED BY <1>3, <1>5

(* A function can be defined along the numbers up to N.                    *)
LEMMA FunctionAlong ==
    ASSUME NEW X, NEW first \in X, NEW N \in Nat, NEW step \in [1 .. N -> [X -> X]]
    PROVE  \E f \in [0 .. N -> X] : f[0] = first /\ \A n \in 1 .. N : f[n] = step[n][f[n - 1]]
  <1> DEFINE Along(f, k) == /\ f \in [0 .. k -> X] /\ f[0] = first
                            /\ \A n \in 1 .. k : f[n] = step[n][f[n - 1]]
             T == { k \in Nat : k <= N => \E f : Along(f, k) }
  <1>1. 0 \in T
    <2>1. Along([n \in 0 .. 0 |-> first], 0)
      OBVIOUS
    <2> QED BY <2>1
  <1>2. ASSUME NEW k \in T PROVE k + 1 \in T
    <2> SUFFICES ASSUME k + 1 <= N PROVE \E f : Along(f, k + 1)
      OBVIOUS
    <2>1. k \in Nat /\ k <= N /\ k + 1 \in 1 .. N
      OBVIOUS
    <2>2. PICK f : Along(f, k)
      BY <1>2, <2>1
    <2> DEFINE last == step[k + 1][f[k]]
               g == [n \in 0 .. k + 1 |-> IF n = k + 1 THEN last ELSE f[n]]
    <2>3. f[k] \in X /\ last \in X
      BY <2>1, <2>2
    <2>4. g \in [0 .. k + 1 -> X] /\ g[0] = first /\ g[k + 1] = last
          /\ \A n \in 0 .. k : g[n] = f[n]
      <3> HIDE DEF last
      <3> QED BY <2>1, <2>2, <2>3
    <2>5. \A n \in 1 .. k + 1 : g[n] = step[n][g[n - 1]]
      <3> HIDE DEF g
      <3> TAKE n \in 1 .. k + 1
      <3>1. CASE n = k + 1
        <4>1. n - 1 = k /\ g[n - 1] = f[k]
          BY <2>1, <2>4, <3>1
        <4> QED BY <2>4, <3>1, <4>1
      <3>2. CASE n # k + 1
        <4>1. n \in 1 .. k /\ n \in 0 .. k /\ n - 1 \in 0 .. k
          BY <2>1, <3>2
        <4>2. g[n] = f[n] /\ g[n - 1] = f[n - 1]
          BY <2>4, <4>1
        <4> QED BY <2>2, <4>1, <4>2
      <3> QED BY <3>1, <3>2
    <2> HIDE DEF g
    <2>6. Along(g, k + 1)
      BY <2>4, <2>5
    <2> QED BY <2>6
  <1>3. T = Nat
    <2> HIDE DEF T
    <2>1. T \in SUBSET Nat
      BY DEF T
    <2> QED BY <1>1, <1>2, <2>1, NatSetInduction
  <1>4. N \in T
    <2> HIDE DEF T
    <2> QED BY <1>3
  <1>5. \E f : Along(f, N)
    BY <1>4
  <1> QED BY <1>5

(* Only picks the elements of s that are in T.                             *)
LEMMA OnlyPicks ==
    ASSUME NEW S, NEW s \in Seq(S), NEW T
    PROVE  /\ Only(s, T) \in Seq(S)
           /\ ToSet(Only(s, T)) = ToSet(s) \intersect T
  <1> DEFINE N == Len(s)
             X == Seq(S)
             first == <<>>
             step == [n \in 1 .. N |->
                        [x \in X |-> IF s[n] \in T THEN Append(x, s[n]) ELSE x]]
             Chosen(f) == f = [n \in 0 .. N |->
                                 IF n = 0 THEN <<>>
                                 ELSE IF s[n] \in T THEN Append(f[n - 1], s[n]) ELSE f[n - 1]]
  <1>1. N \in Nat /\ \A n \in 1 .. N : s[n] \in S
    OBVIOUS
  <1>2. step \in [1 .. N -> [X -> X]]
    BY <1>1
  <1>3. PICK f \in [0 .. N -> X] :
               f[0] = first /\ \A n \in 1 .. N : f[n] = step[n][f[n - 1]]
    <2>1. first \in X /\ N \in Nat
      OBVIOUS
    <2> HIDE DEF step, X, N, first
    <2>2. \E f \in [0 .. N -> X] :
             f[0] = first /\ \A n \in 1 .. N : f[n] = step[n][f[n - 1]]
      BY <1>2, <2>1, FunctionAlong
    <2> QED BY <2>2
  <1>4. Chosen(f)
    <2>1. \A n \in 1 .. N : f[n] = IF s[n] \in T THEN Append(f[n - 1], s[n]) ELSE f[n - 1]
      <3> TAKE n \in 1 .. N
      <3>0. n - 1 \in 0 .. N
        BY <1>1
      <3> HIDE DEF N, X
      <3>1. n - 1 \in 0 .. N /\ f[n - 1] \in X
        BY <1>3, <3>0
      <3> USE DEF N, X
      <3> QED BY <1>3, <3>1
    <2>2. \A n \in 0 .. N : f[n] = IF n = 0 THEN <<>>
                              ELSE IF s[n] \in T THEN Append(f[n - 1], s[n]) ELSE f[n - 1]
      <3> TAKE n \in 0 .. N
      <3>1. n = 0 \/ n \in 1 .. N
        BY <1>1
      <3> HIDE DEF N
      <3> QED BY <1>3, <2>1, <3>1
    <2>3. f \in [0 .. N -> X]
      BY <1>3
    <2> HIDE DEF N, X
    <2> QED BY <2>2, <2>3
  <1> DEFINE g == CHOOSE fn : Chosen(fn)
  <1>5. Chosen(g)
    BY <1>4
  <1>6. Only(s, T) = g[N]
    BY DEF Only
  <1> HIDE DEF g, Chosen
  <1>7. /\ g[0] = <<>>
        /\ \A n \in 1 .. N : g[n] = IF s[n] \in T THEN Append(g[n - 1], s[n]) ELSE g[n - 1]
    <2>1. g = [n \in 0 .. N |-> IF n = 0 THEN <<>>
                  ELSE IF s[n] \in T THEN Append(g[n - 1], s[n]) ELSE g[n - 1]]
      BY <1>5 DEF Chosen
    <2>2. 0 \in 0 .. N /\ \A n \in 1 .. N : n \in 0 .. N /\ n # 0
      BY <1>1
    <2> HIDE DEF N
    <2> QED BY <2>1, <2>2
  <1> DEFINE Right == { n \in Nat : n <= N => /\ g[n] \in X
                                  /\ ToSet(g[n]) = { s[i] : i \in 1 .. n } \intersect T }
  <1>8. 0 \in Right
    <2>1. ToSet(<<>>) = {} /\ <<>> \in X /\ 1 .. 0 = {}
      BY DEF ToSet
    <2>2. ToSet(g[0]) = { s[i] : i \in 1 .. 0 } \intersect T /\ g[0] \in X
      <3> HIDE DEF X, N
      <3> QED BY <1>7, <2>1
    <2> QED BY <2>2
  <1>9. ASSUME NEW n \in Right PROVE n + 1 \in Right
    <2> SUFFICES ASSUME n + 1 <= N
                 PROVE  /\ g[n + 1] \in X
                        /\ ToSet(g[n + 1]) = { s[i] : i \in 1 .. n + 1 } \intersect T
      OBVIOUS
    <2>1. n \in Nat /\ n <= N /\ n + 1 \in 1 .. N /\ s[n + 1] \in S /\ (n + 1) - 1 = n
      BY <1>1
    <2>2. g[n] \in X /\ ToSet(g[n]) = { s[i] : i \in 1 .. n } \intersect T
      BY <1>9, <2>1
    <2>3. g[n + 1] = IF s[n + 1] \in T THEN Append(g[n], s[n + 1]) ELSE g[n]
      <3> HIDE DEF N, X, Right
      <3> QED BY <1>7, <2>1
    <2>4. { s[i] : i \in 1 .. n + 1 } = { s[i] : i \in 1 .. n } \union {s[n + 1]}
      <3>1. 1 .. n + 1 = (1 .. n) \union {n + 1}
        BY <2>1
      <3> HIDE DEF N, X, Right
      <3> QED BY <3>1
    <2>5. ASSUME NEW x \in X, NEW e \in S
          PROVE  Append(x, e) \in X /\ ToSet(Append(x, e)) = ToSet(x) \union {e}
      <3>1. Append(x, e) \in X
        OBVIOUS
      <3>2. DOMAIN Append(x, e) = 1 .. Len(x) + 1 /\ Append(x, e)[Len(x) + 1] = e
            /\ \A i \in 1 .. Len(x) : Append(x, e)[i] = x[i]
        OBVIOUS
      <3>3. DOMAIN Append(x, e) = DOMAIN x \union {Len(x) + 1} /\ DOMAIN x = 1 .. Len(x)
        BY <3>2
      <3> DEFINE y == Append(x, e)  D == DOMAIN x  k == Len(x) + 1
      <3>4. y[k] = e /\ DOMAIN y = D \union {k} /\ \A i \in D : y[i] = x[i]
        BY <3>2, <3>3
      <3> HIDE DEF N, X, Right, y, D, k
      <3>5. { y[i] : i \in D \union {k} } = { x[i] : i \in D } \union {e}
        BY <3>4
      <3>6. ToSet(y) = ToSet(x) \union {e}
        BY <3>4, <3>5 DEF ToSet, D
      <3> QED BY <3>1, <3>6 DEF y
    <2> HIDE DEF N, X, Right
    <2>6. CASE s[n + 1] \in T
      BY <2>1, <2>2, <2>3, <2>4, <2>5, <2>6
    <2>7. CASE s[n + 1] \notin T
      BY <2>1, <2>2, <2>3, <2>4, <2>7
    <2> QED BY <2>6, <2>7
  <1>10. N \in Right
    <2>1. Right \in SUBSET Nat
      OBVIOUS
    <2> HIDE DEF Right
    <2>2. Right = Nat
      BY <1>8, <1>9, <2>1, NatSetInduction
    <2> QED BY <1>1, <2>2
  <1>11. g[N] \in Seq(S) /\ ToSet(g[N]) = { s[i] : i \in 1 .. N } \intersect T
    BY <1>1, <1>10
  <1>12. { s[i] : i \in 1 .. N } = ToSet(s)
    BY DEF ToSet
  <1> HIDE DEF N, X, Right
  <1> QED BY <1>6, <1>11, <1>12

-----------------------------------------------------------------------------
(* What a job in each step has in hand.                                    *)
Fits(j) ==
    /\ j.step \in {"filter", "queue", "pop", "resolve", "plan", "choose"} => j.kind = "request"
    /\ j.step = "next" => j.kind = "pull"
    /\ j.step = "record" => j.kind = "request"
    /\ j.step \in {"choose", "transfer", "list", "index", "record", "retract", "drop", "unindex"} =>
          j.blocks # <<>>
    /\ j.kind = "remove" => j.step \in {"unindex", "retract", "drop"} /\ Len(j.blocks) = 1

JobsFit == \A w \in Worker : Fits(job[w])

-----------------------------------------------------------------------------
(* Constants and jobs.                                                     *)

LEMMA ConstantFacts ==
    ASSUME MigrationAssumption
    PROVE  /\ AllServers \in Seq(DataServer) /\ Len(AllServers) \in Nat \ {0}
           /\ AllServers[1] \in DataServer
           /\ Never \in Int
           /\ NoJob \in Job
           /\ NoJob.step = "ready" /\ NoJob.kind = "request" /\ NoJob.expired = {}
           /\ NoJob.blocks = <<>> /\ NoJob.items = <<>> /\ NoJob.answered = 0
           /\ NoJob.outrun = {} /\ NoJob.reindexed = FALSE
  <1>1. AllServers \in Seq(DataServer) /\ AllServers # <<>>
    BY DEF MigrationAssumption
  <1>2. Len(AllServers) \in Nat \ {0}
    BY <1>1, EmptySeq
  <1>3. AllServers[1] \in DataServer
    BY <1>1, <1>2, ElementOfSeq
  <1>4. (CHOOSE r \in Request : TRUE) \in Request
    BY DEF MigrationAssumption
  <1>5. Never \in Int
    BY DEF MigrationAssumption, Never
  <1>6. <<>> \in Seq(MovedHash) /\ <<>> \in Seq(Item)
    OBVIOUS
  <1>7. NoJob \in Job
    BY <1>3, <1>4, <1>6 DEF NoJob, Job, Step
  <1> QED BY <1>1, <1>2, <1>3, <1>5, <1>7 DEF NoJob

LEMMA TailFacts ==
    ASSUME NEW S, NEW s \in Seq(S), s # <<>>
    PROVE  /\ Head(s) \in S /\ Head(s) \in ToSet(s)
           /\ Tail(s) \in Seq(S) /\ Len(Tail(s)) = Len(s) - 1 /\ Len(s) \in Nat \ {0}
           /\ ToSet(s) = {Head(s)} \union ToSet(Tail(s))
           /\ Len(s) # 1 => Tail(s) # <<>>
           /\ Len(s) = 1 => Tail(s) = <<>>
  <1>1. Len(s) \in Nat \ {0}
    BY EmptySeq
  <1>2. Head(s) = s[1] /\ Tail(s) \in Seq(S) /\ Len(Tail(s)) = Len(s) - 1
        /\ \A i \in 1 .. Len(s) - 1 : Tail(s)[i] = s[i + 1]
    BY <1>1
  <1>3. DOMAIN s = 1 .. Len(s) /\ DOMAIN Tail(s) = 1 .. Len(s) - 1
    BY <1>1, <1>2, LenProperties
  <1>4. ToSet(s) = {Head(s)} \union ToSet(Tail(s))
    <2> DEFINE t == Tail(s)  n == Len(s)
    <2>1. DOMAIN s = 1 .. n /\ DOMAIN t = 1 .. n - 1 /\ n \in Nat \ {0}
          /\ \A i \in 1 .. n - 1 : t[i] = s[i + 1]
      BY <1>1, <1>2, <1>3
    <2> HIDE DEF t, n
    <2>2. { s[i] : i \in 1 .. n } = {s[1]} \union { t[i] : i \in 1 .. n - 1 }
      <3>1. ASSUME NEW i \in 1 .. n PROVE s[i] \in {s[1]} \union { t[k] : k \in 1 .. n - 1 }
        <4>1. i = 1 \/ (i - 1 \in 1 .. n - 1 /\ t[i - 1] = s[i])
          BY <2>1
        <4> QED BY <4>1
      <3>2. ASSUME NEW i \in 1 .. n - 1 PROVE t[i] \in { s[k] : k \in 1 .. n }
        BY <2>1
      <3>3. s[1] \in { s[k] : k \in 1 .. n }
        BY <2>1
      <3> QED BY <3>1, <3>2, <3>3
    <2> QED BY <1>2, <2>1, <2>2 DEF ToSet, t
  <1>5. Head(s) \in S
    BY <1>1, <1>2, ElementOfSeq
  <1>6. Len(s) # 1 => Tail(s) # <<>>
    BY <1>1, <1>2, EmptySeq
  <1>7. Len(s) = 1 => Tail(s) = <<>>
    <2>1. Len(s) = 1 => Len(Tail(s)) = 0
      BY <1>2
    <2> QED BY <1>2, <2>1, EmptySeq
  <1>8. Head(s) \in ToSet(s)
    BY <1>4
  <1> QED BY <1>1, <1>2, <1>4, <1>5, <1>6, <1>7, <1>8

LEMMA ToSetType ==
    ASSUME NEW S, NEW s \in Seq(S)
    PROVE  ToSet(s) \subseteq S
  BY LenProperties DEF ToSet

LEMMA UpdateJob ==
    ASSUME MigrationAssumption, job \in [Worker -> Job], NEW w \in Worker, NEW j \in Job,
           Update(w, j)
    PROVE  /\ job' \in [Worker -> Job]
           /\ job'[w] = IF j.step = "ready" THEN NoJob ELSE j
           /\ \A v \in Worker \ {w} : job'[v] = job[v]
  BY ConstantFacts DEF Update, Settled

LEMMA OtherStep ==
    ASSUME NEW j \in Job, NEW s \in Step
    PROVE  /\ [j EXCEPT !.step = s] \in Job
           /\ [j EXCEPT !.step = s].step = s
           /\ [j EXCEPT !.step = s].kind = j.kind
           /\ [j EXCEPT !.step = s].blocks = j.blocks
           /\ [j EXCEPT !.step = s].items = j.items
           /\ [j EXCEPT !.step = s].expired = j.expired
           /\ [j EXCEPT !.step = s].answered = j.answered
           /\ [j EXCEPT !.step = s].outrun = j.outrun
           /\ [j EXCEPT !.step = s].source = j.source
           /\ [j EXCEPT !.step = s].reindexed = j.reindexed
  BY DEF Job

LEMMA StepNames ==
    /\ {"ready", "filter", "queue", "pop", "resolve", "plan", "choose", "next"} \subseteq Step
    /\ {"transfer", "list", "index", "record", "retract", "drop", "unindex"} \subseteq Step
  BY DEF Step

(* The rest of the blocks in hand, or the end.                             *)
LEMMA ProceedJob ==
    ASSUME NEW w \in Worker, job \in [Worker -> Job], job[w].blocks # <<>>,
           NEW s \in Step
    PROVE  /\ Proceed(w, s) \in Job
           /\ Proceed(w, s).step = IF Len(job[w].blocks) = 1 THEN Finish(w) ELSE s
           /\ Proceed(w, s).blocks = Tail(job[w].blocks)
           /\ Proceed(w, s).kind = job[w].kind
           /\ Proceed(w, s).items = job[w].items
           /\ Proceed(w, s).expired = job[w].expired
           /\ Proceed(w, s).outrun = job[w].outrun
           /\ Proceed(w, s).answered = job[w].answered
           /\ Proceed(w, s).reindexed = job[w].reindexed
  <1>1. job[w].blocks \in Seq(MovedHash) /\ job[w] \in Job
    BY DEF Job
  <1>2. Tail(job[w].blocks) \in Seq(MovedHash)
    BY <1>1, TailFacts
  <1>3. Finish(w) \in Step
    BY DEF Finish, Step
  <1> QED BY <1>1, <1>2, <1>3 DEF Proceed, Job

-----------------------------------------------------------------------------
(* Types, and what a job in each step has in hand.                         *)

Typed == MigrationTypeOK /\ JobsFit

JobsTyped ==
    /\ job \in [Worker -> Job]
    /\ \A w \in Worker : job[w].answered <= now
    /\ JobsFit

LEMMA InitTypes ==
    ASSUME MigrationAssumption, MigrationInit
    PROVE  Typed
  <1> USE ConstantFacts DEF MigrationInit
  <1>1. /\ pending \in [Request -> PendingTask \union {NoTask}]
        /\ \A r \in Request : pending[r] = NoTask
    OBVIOUS
  <1>2. recent \in [MovedHash -> {Never} \union 0 .. now]
    OBVIOUS
  <1>3. holders \in [MovedHash -> SUBSET DataServer] /\ index \subseteq MovedHash
    BY DEF MigrationAssumption
  <1>4. job \in [Worker -> Job] /\ \A w \in Worker : job[w] = NoJob
    OBVIOUS
  <1>5. now \in 0 .. MaxTime /\ work \in 0 .. MaxWork /\ rr \in Nat
    BY DEF MigrationAssumption
  <1>6. JobsFit
    BY <1>4 DEF JobsFit, Fits
  <1>7. \A w \in Worker : job[w].answered <= now
    BY <1>4
  <1>8. known \subseteq MovedHash /\ crossed \subseteq MovedHash
    OBVIOUS
  <1> QED BY <1>1, <1>2, <1>3, <1>4, <1>5, <1>6, <1>7, <1>8 DEF Typed, MigrationTypeOK

LEMMA JobTypes ==
    ASSUME MigrationAssumption, JobsTyped, now' = now, now \in Nat,
           NEW w \in Worker, NEW j \in Job, Update(w, j),
           j.step # "ready" => Fits(j) /\ j.answered <= now
    PROVE  JobsTyped'
  <1>1. /\ job' \in [Worker -> Job]
        /\ job'[w] = IF j.step = "ready" THEN NoJob ELSE j
        /\ \A v \in Worker \ {w} : job'[v] = job[v]
    BY UpdateJob DEF JobsTyped
  <1>2. Fits(NoJob) /\ NoJob.answered <= now
    BY ConstantFacts DEF Fits
  <1>3. Fits(job'[w]) /\ job'[w].answered <= now
    BY <1>1, <1>2
  <1>4. ASSUME NEW v \in Worker \ {w} PROVE Fits(job'[v]) /\ job'[v].answered <= now
    BY <1>1 DEF JobsTyped, JobsFit
  <1>5. \A v \in Worker : Fits(job'[v]) /\ job'[v].answered <= now'
    BY <1>3, <1>4
  <1> QED BY <1>1, <1>5 DEF JobsTyped, JobsFit

TablesTyped ==
    /\ now \in 0 .. MaxTime /\ work \in 0 .. MaxWork /\ rr \in Nat
    /\ pending \in [Request -> PendingTask \union {NoTask}]
    /\ \A r \in Request : pending[r] # NoTask => pending[r].created <= now
    /\ recent \in [MovedHash -> {Never} \union 0 .. now]
    /\ known \subseteq MovedHash /\ index \subseteq MovedHash /\ crossed \subseteq MovedHash
    /\ holders \in [MovedHash -> SUBSET DataServer]

LEMMA TypedParts == Typed <=> TablesTyped /\ JobsTyped
  BY DEF Typed, TablesTyped, JobsTyped, MigrationTypeOK

LEMMA TypedPartsNext == Typed' <=> TablesTyped' /\ JobsTyped'
  BY DEF Typed, TablesTyped, JobsTyped, MigrationTypeOK

LEMMA JobParts ==
    ASSUME NEW j \in Job
    PROVE  /\ j.step \in Step /\ j.kind \in {"request", "pull", "remove"}
           /\ j.request \in Request /\ j.expired \subseteq Request
           /\ j.blocks \in Seq(MovedHash) /\ j.source \in DataServer /\ j.target \in DataServer
           /\ j.items \in Seq(Item) /\ j.answered \in Nat /\ j.outrun \subseteq MovedHash
           /\ j.reindexed \in BOOLEAN
  BY DEF Job

(* What is left alone keeps its type.                                      *)
LEMMA Rest ==
    ASSUME MigrationAssumption, TablesTyped, now' = now
    PROVE  /\ UNCHANGED blocks =>
                 /\ known' \subseteq MovedHash /\ index' \subseteq MovedHash
                 /\ crossed' \subseteq MovedHash
                 /\ holders' \in [MovedHash -> SUBSET DataServer]
           /\ UNCHANGED <<pending>> =>
                 /\ pending' \in [Request -> PendingTask \union {NoTask}]
                 /\ \A r \in Request : pending'[r] # NoTask => pending'[r].created <= now'
           /\ UNCHANGED <<recent>> => recent' \in [MovedHash -> {Never} \union 0 .. now']
           /\ UNCHANGED <<rr>> => rr' \in Nat
           /\ UNCHANGED <<work>> => work' \in 0 .. MaxWork
           /\ now' \in 0 .. MaxTime /\ now \in Nat
  BY DEF TablesTyped, blocks, MigrationAssumption

LEMMA AcceptTypes ==
    ASSUME MigrationAssumption, Typed, NEW w \in Worker, NEW j \in Job, Accept(w, j),
           Fits(j), j.answered = 0
    PROVE  Typed'
  <1> USE TypedParts
  <1>1. Cost(j) \in Nat
    BY DEF Cost
  <1>2. work' \in 0 .. MaxWork
    BY <1>1 DEF Accept, TablesTyped, MigrationAssumption
  <1>3. TablesTyped'
    BY <1>2, Rest DEF Accept, tasks, TablesTyped
  <1>4. JobsTyped'
    BY JobTypes DEF Accept, TablesTyped
  <1> QED BY <1>3, <1>4, TypedPartsNext

LEMMA AcceptedTypes ==
    ASSUME MigrationAssumption, Typed, NEW w \in Worker
    PROVE  /\ \A r \in Request : NewRequest(w, r) \/ RequestEnd(w, r) => Typed'
           /\ \A items \in Pulls : StartPull(w, items) => Typed'
           /\ \A h \in MovedHash, s \in Local : RemoveKvMeta(w, h, s) => Typed'
  <1>1. ASSUME NEW r \in Request, NewRequest(w, r) \/ RequestEnd(w, r) PROVE Typed'
    <2> PICK step \in {"filter", "pop"} : Cleanup(w, r, step)
      BY <1>1 DEF NewRequest, RequestEnd
    <2> DEFINE old == { x \in Request : pending[x] # NoTask /\ is_expired(pending[x]) }
               j == [NoJob EXCEPT !.step = step, !.request = r, !.expired = old]
    <2>1. old \subseteq Request /\ step \in Step
      BY DEF Step
    <2>2. Accept(w, j)
      BY DEF Cleanup
    <2> HIDE DEF old
    <2>3. j \in Job /\ j.step = step /\ j.kind = "request" /\ j.answered = 0
      BY <2>1, ConstantFacts DEF Job
    <2> HIDE DEF j
    <2>4. Fits(j)
      BY <2>3 DEF Fits
    <2> QED BY <2>2, <2>3, <2>4, AcceptTypes
  <1>2. ASSUME NEW items \in Pulls, StartPull(w, items) PROVE Typed'
    <2> DEFINE j == [NoJob EXCEPT !.step = "next", !.kind = "pull", !.items = items]
    <2>1. items \in Seq(Item)
      <3>1. Pullable \subseteq Item
        BY DEF Pullable
      <3>2. \A i, k \in Item : <<i>> \in Seq(Item) /\ <<i, k>> \in Seq(Item)
        OBVIOUS
      <3>3. (\E i \in Pullable : items = <<i>>) \/ (\E i, k \in Pullable : items = <<i, k>>)
        BY DEF Pulls
      <3> QED BY <3>1, <3>2, <3>3
    <2>2. Accept(w, j)
      BY <1>2 DEF StartPull
    <2>3. j \in Job /\ j.step = "next" /\ j.kind = "pull" /\ j.answered = 0
      BY <2>1, ConstantFacts DEF Job, Step
    <2> HIDE DEF j
    <2>4. Fits(j)
      BY <2>3 DEF Fits
    <2> QED BY <2>2, <2>3, <2>4, AcceptTypes
  <1>3. ASSUME NEW h \in MovedHash, NEW s \in Local, RemoveKvMeta(w, h, s) PROVE Typed'
    <2> DEFINE j == [NoJob EXCEPT !.step = "unindex", !.kind = "remove", !.blocks = <<h>>,
                                  !.source = s]
    <2>1. <<h>> \in Seq(MovedHash) /\ Len(<<h>>) = 1 /\ <<h>> # <<>> /\ s \in DataServer
      BY DEF MigrationAssumption
    <2>2. Accept(w, j)
      BY <1>3 DEF RemoveKvMeta
    <2>3. /\ j \in Job /\ j.step = "unindex" /\ j.kind = "remove" /\ j.answered = 0
          /\ j.blocks = <<h>>
      BY <2>1, ConstantFacts DEF Job, Step
    <2> HIDE DEF j
    <2>4. Fits(j)
      BY <2>1, <2>3 DEF Fits
    <2> QED BY <2>2, <2>3, <2>4, AcceptTypes
  <1> QED BY <1>1, <1>2, <1>3

(* A step that only moves a job on.                                        *)
LEMMA MoveTypes ==
    ASSUME MigrationAssumption, Typed, NEW w \in Worker, NEW j \in Job, Update(w, j),
           j.step # "ready" => Fits(j) /\ j.answered <= now,
           UNCHANGED <<now, blocks, work>>,
           pending' \in [Request -> PendingTask \union {NoTask}],
           \A r \in Request : pending'[r] # NoTask => pending'[r].created <= now,
           recent' = recent, rr' \in Nat
    PROVE  Typed'
  <1>1. TablesTyped'
    BY TypedParts, Rest DEF TablesTyped
  <1>2. JobsTyped'
    BY TypedParts, JobTypes DEF TablesTyped
  <1> QED BY <1>1, <1>2, TypedPartsNext

LEMMA RequestTypes ==
    ASSUME MigrationAssumption, Typed, NEW w \in Worker, ForRequest(w)
    PROVE  Typed'
  <1> DEFINE j == job[w]
  <1>1. /\ j \in Job /\ j.answered <= now /\ Fits(j) /\ now \in Nat
        /\ pending \in [Request -> PendingTask \union {NoTask}] /\ rr \in Nat
        /\ \A r \in Request : pending[r] # NoTask => pending[r].created <= now
        /\ known \subseteq MovedHash
    BY TypedParts DEF TablesTyped, JobsTyped, JobsFit, MigrationAssumption
  <1>2. CASE \E r \in Request : NewRequest(w, r) \/ RequestEnd(w, r)
    BY <1>2, AcceptedTypes
  <1>3. CASE \E r \in Request : RemoveExpired(w, r)
    <2> PICK r \in Request : RemoveExpired(w, r)
      BY <1>3
    <2>1. pending' = [pending EXCEPT ![r] = NoTask]
          /\ job' = [job EXCEPT ![w] = [j EXCEPT !.expired = @ \ {r}]]
          /\ UNCHANGED <<now, recent, rr, blocks, work>>
      BY DEF RemoveExpired
    <2> DEFINE k == [j EXCEPT !.expired = @ \ {r}]
    <2>2. k \in Job /\ k.step = j.step /\ k.kind = j.kind /\ k.blocks = j.blocks
          /\ k.answered = j.answered
      BY <1>1 DEF Job
    <2> HIDE DEF k
    <2>3. Fits(k)
      BY <1>1, <2>2 DEF Fits
    <2>4. job \in [Worker -> Job] /\ \A v \in Worker : Fits(job[v]) /\ job[v].answered <= now
      BY TypedParts DEF JobsTyped, JobsFit
    <2>5. job' = [job EXCEPT ![w] = k]
      BY <2>1 DEF k
    <2>6. JobsTyped'
      <3>1. job' \in [Worker -> Job] /\ now' = now
        BY <2>1, <2>2, <2>4, <2>5
      <3>2. \A v \in Worker : job'[v] = IF v = w THEN k ELSE job[v]
        BY <2>4, <2>5
      <3>3. \A v \in Worker : Fits(job'[v]) /\ job'[v].answered <= now
        BY <1>1, <2>2, <2>3, <2>4, <3>2
      <3> QED BY <3>1, <3>3 DEF JobsTyped, JobsFit
    <2>7. pending' \in [Request -> PendingTask \union {NoTask}]
      BY <1>1, <2>1
    <2>8. \A x \in Request : pending'[x] # NoTask => pending'[x].created <= now'
      BY <1>1, <2>1
    <2>9. TablesTyped'
      BY <2>1, <2>7, <2>8, TypedParts, Rest DEF TablesTyped
    <2> QED BY <2>6, <2>9, TypedPartsNext
  <1>4. CASE \E held \in SUBSET MovedHash : Filter(w, held)
    <2> PICK held \in SUBSET MovedHash : Filter(w, held)
      BY <1>4
    <2> DEFINE eligible == Only(Chain[j.request], { h \in held : CooledDown(h) })
               k == [j EXCEPT !.step = IF eligible = <<>> THEN "ready" ELSE "queue",
                              !.blocks = eligible]
    <2>1. eligible \in Seq(MovedHash)
      <3>1. Chain[j.request] \in Seq(MovedHash)
        BY <1>1, JobParts DEF MigrationAssumption
      <3> QED BY <3>1, OnlyPicks
    <2>2. Update(w, k) /\ UNCHANGED <<now, tasks, blocks, work>> /\ j.step = "filter"
      BY DEF Filter, JobAt
    <2> HIDE DEF eligible
    <2>3. k \in Job /\ k.step \in {"ready", "queue"} /\ k.kind = j.kind /\ k.answered = j.answered
      BY <1>1, <2>1 DEF Job, Step
    <2> HIDE DEF k
    <2>4. Fits(k)
      BY <1>1, <2>2, <2>3 DEF Fits
    <2> QED BY <1>1, <2>2, <2>3, <2>4, MoveTypes DEF tasks
  <1>5. CASE Queue(w)
    <2> DEFINE r == j.request
               task == [source |-> Source[r], blocks |-> j.blocks, created |-> now,
                        overtaken |-> \E v \in Worker : r \in job[v].expired,
                        outrun |-> j.outrun]
    <2>1. /\ j.step = "queue" /\ GoTo(w, "ready") /\ UNCHANGED <<now, recent, rr, blocks, work>>
          /\ pending' = IF Source[r] \in Local THEN [pending EXCEPT ![r] = task] ELSE pending
      BY <1>5 DEF Queue, JobAt
    <2>2. Source[r] \in Local => task \in PendingTask /\ task.created = now
      BY <1>1, JobParts DEF PendingTask
    <2> HIDE DEF task
    <2>3. r \in Request
      BY <1>1, JobParts
    <2> HIDE DEF r
    <2>4. pending' \in [Request -> PendingTask \union {NoTask}]
      BY <1>1, <2>1, <2>2, <2>3
    <2>5. \A x \in Request : pending'[x] # NoTask => pending'[x].created <= now
      BY <1>1, <2>1, <2>2, <2>3
    <2> DEFINE k == [j EXCEPT !.step = "ready"]
    <2>6. k \in Job /\ k.step = "ready" /\ Update(w, k)
      BY <1>1, <2>1, OtherStep, StepNames DEF GoTo
    <2> HIDE DEF k
    <2> QED BY <1>1, <2>1, <2>4, <2>5, <2>6, MoveTypes
  <1>6. CASE Pop(w)
    <2> DEFINE r == j.request
               task == pending[r]
               fresh == task # NoTask /\ ~is_expired(task)
               k == IF fresh THEN [j EXCEPT !.step = "resolve", !.blocks = task.blocks,
                                            !.source = task.source, !.outrun = task.outrun]
                    ELSE [j EXCEPT !.step = "ready"]
    <2>1. /\ j.step = "pop" /\ UNCHANGED <<now, recent, rr, blocks, work>>
          /\ pending' = [pending EXCEPT ![r] = NoTask]
          /\ Update(w, k)
      BY <1>6 DEF Pop, JobAt, GoTo
    <2>2. r \in Request /\ (task # NoTask => task \in PendingTask)
      BY <1>1, JobParts
    <2>3. task # NoTask => /\ task.blocks \in Seq(MovedHash) /\ task.source \in DataServer
                           /\ task.outrun \subseteq MovedHash
      BY <2>2 DEF PendingTask, MigrationAssumption
    <2> HIDE DEF r, task
    <2>4. k \in Job /\ k.step \in {"ready", "resolve"} /\ k.kind = j.kind
          /\ k.answered = j.answered
      <3>1. CASE fresh
        BY <1>1, <2>3, <3>1 DEF Job, Step
      <3>2. CASE ~fresh
        BY <1>1, <3>2 DEF Job, Step
      <3> QED BY <3>1, <3>2
    <2> HIDE DEF k
    <2>5. Fits(k)
      BY <1>1, <2>1, <2>4 DEF Fits
    <2>6. pending' \in [Request -> PendingTask \union {NoTask}]
          /\ \A x \in Request : pending'[x] # NoTask => pending'[x].created <= now
      BY <1>1, <2>1, <2>2
    <2> QED BY <1>1, <2>1, <2>4, <2>5, <2>6, MoveTypes
  <1>7. CASE Spawn(w)
    <2> PICK s \in {"plan", "ready"} : j.step = "resolve" /\ GoTo(w, s)
                                       /\ UNCHANGED <<now, tasks, blocks, work>>
      BY <1>7 DEF Spawn, JobAt
    <2> DEFINE k == [j EXCEPT !.step = s]
    <2>1. k \in Job /\ k.step = s /\ k.kind = j.kind /\ k.answered = j.answered /\ Update(w, k)
      <3>1. s \in Step
        BY DEF Step
      <3>2. Update(w, k)
        BY DEF GoTo
      <3> QED BY <1>1, <3>1, <3>2, OtherStep
    <2> HIDE DEF k
    <2>2. Fits(k)
      BY <1>1, <2>1 DEF Fits
    <2> QED BY <1>1, <2>1, <2>2, MoveTypes DEF tasks
  <1>8. CASE Plan(w)
    <2> DEFINE found == Only(j.blocks, known)
               more == Candidates(w) # <<>> /\ found # <<>>
               k == [j EXCEPT !.step = IF more THEN "choose" ELSE "ready", !.blocks = found]
    <2>1. found \in Seq(MovedHash)
      BY <1>1, JobParts, OnlyPicks
    <2>2. Update(w, k) /\ UNCHANGED <<now, tasks, blocks, work>> /\ j.step = "plan"
      BY <1>8 DEF Plan, JobAt
    <2> HIDE DEF found
    <2>3. /\ k \in Job /\ k.step = (IF more THEN "choose" ELSE "ready")
          /\ k.kind = j.kind /\ k.answered = j.answered /\ k.blocks = found
      BY <1>1, <2>1 DEF Job, Step
    <2> HIDE DEF k
    <2>4. Fits(k)
      BY <1>1, <2>2, <2>3 DEF Fits
    <2> QED BY <1>1, <2>2, <2>3, <2>4, MoveTypes DEF tasks
  <1>9. CASE Choose(w)
    <2>1. j.step = "choose" /\ rr' = rr + 1 /\ UNCHANGED <<now, pending, recent, blocks, work>>
      BY <1>9 DEF Choose, JobAt
    <2>2. CASE GoTo(w, "ready")
      <3> DEFINE k == [j EXCEPT !.step = "ready"]
      <3>1. k \in Job /\ k.step = "ready" /\ Update(w, k)
        BY <1>1, <2>2, OtherStep, StepNames DEF GoTo
      <3> HIDE DEF k
      <3> QED BY <1>1, <2>1, <3>1, MoveTypes
    <2>3. CASE ~GoTo(w, "ready")
      <3> DEFINE ring == RingFrom(rr % Len(Candidates(w)), Candidates(w))
      <3>1. PICK i \in DOMAIN ring :
                Update(w, [job[w] EXCEPT !.step = "transfer", !.target = ring[i]])
        BY <1>9, <2>3 DEF Choose
      <3>2. ring[i] \in DataServer
        <4> DEFINE c == Candidates(w)  L == Len(c)  x == (rr % L) + i - 1
        <4>1. c \in Seq(DataServer)
          BY ConstantFacts, OnlyPicks DEF Candidates
        <4>2. L \in Nat /\ i \in 1 .. L
          BY <4>1, LenProperties DEF RingFrom
        <4>3. rr % L \in 0 .. L - 1
          BY <1>1, <4>2
        <4>4. x \in Nat
          BY <4>2, <4>3
        <4>5. (x % L) + 1 \in 1 .. L
          <5> HIDE DEF x, L
          <5> QED BY <4>2, <4>4
        <4>6. ring[i] = c[(x % L) + 1]
          BY DEF RingFrom
        <4> QED BY <4>1, <4>5, <4>6, ElementOfSeq
      <3> HIDE DEF ring
      <3> DEFINE k == [j EXCEPT !.step = "transfer", !.target = ring[i]]
      <3>3. /\ k \in Job /\ k.step = "transfer" /\ k.kind = j.kind /\ k.blocks = j.blocks
            /\ k.answered = j.answered /\ Update(w, k)
        BY <1>1, <3>1, <3>2 DEF Job, Step
      <3> HIDE DEF k
      <3>4. Fits(k)
        BY <1>1, <2>1, <3>3 DEF Fits
      <3> QED BY <1>1, <2>1, <3>3, <3>4, MoveTypes
    <2> QED BY <2>2, <2>3
  <1> QED BY <1>2, <1>3, <1>4, <1>5, <1>6, <1>7, <1>8, <1>9 DEF ForRequest

(* A job in hand after one of its blocks.                                  *)
LEMMA ProceedFits ==
    ASSUME NEW w \in Worker, job \in [Worker -> Job], Fits(job[w]),
           job[w].blocks # <<>>, NEW s \in {"list", "retract"},
           job[w].step = "retract" \/ job[w].step = "drop" => s = "retract",
           job[w].step \in {"index", "record", "retract", "drop"}
    PROVE  Proceed(w, s).step # "ready" => Fits(Proceed(w, s))
  <1> DEFINE j == job[w]  k == Proceed(w, s)
  <1>1. j.blocks \in Seq(MovedHash) /\ j \in Job
    BY DEF Job
  <1>2. Len(j.blocks) # 1 => Tail(j.blocks) # <<>>
    BY <1>1, TailFacts
  <1>3. /\ k.step = IF Len(j.blocks) = 1 THEN Finish(w) ELSE s
        /\ k.blocks = Tail(j.blocks) /\ k.kind = j.kind
    BY ProceedJob DEF Step
  <1>4. Finish(w) = IF j.kind = "pull" THEN "next" ELSE "ready"
    BY DEF Finish
  <1> HIDE DEF j, k
  <1>5. Fits(j)
    BY DEF j
  <1>6. k.step # "ready" => Fits(k)
    BY <1>2, <1>3, <1>4, <1>5 DEF Fits, j
  <1> QED BY <1>6 DEF k

LEMMA PullTypes ==
    ASSUME MigrationAssumption, Typed, NEW w \in Worker, Pull(w)
    PROVE  Typed'
  <1> DEFINE j == job[w]
  <1>1. /\ j \in Job /\ j.answered <= now /\ Fits(j) /\ rr \in Nat
        /\ pending \in [Request -> PendingTask \union {NoTask}]
        /\ \A r \in Request : pending[r] # NoTask => pending[r].created <= now
    BY TypedParts DEF TablesTyped, JobsTyped, JobsFit
  <1>2. CASE \E items \in Pulls : StartPull(w, items)
    BY <1>2, AcceptedTypes
  <1>3. CASE PullNext(w)
    <2> DEFINE item == Head(j.items)
               k == [j EXCEPT !.step = "transfer", !.blocks = <<item.hash>>,
                              !.source = item.source, !.target = item.target,
                              !.items = Tail(@)]
    <2>1. /\ j.step = "next" /\ j.items # <<>> /\ UNCHANGED <<now, tasks, blocks, work>>
          /\ Update(w, k)
      BY <1>3 DEF PullNext, JobAt
    <2>2. item \in Item /\ Tail(j.items) \in Seq(Item)
      BY <1>1, <2>1, JobParts, TailFacts
    <2> HIDE DEF item
    <2>3. <<item.hash>> \in Seq(MovedHash) /\ item.source \in DataServer
          /\ item.target \in DataServer /\ <<item.hash>> # <<>>
      BY <2>2 DEF Item, MigrationAssumption
    <2>4. /\ k \in Job /\ k.step = "transfer" /\ k.kind = j.kind /\ k.blocks = <<item.hash>>
          /\ k.answered = j.answered
      BY <1>1, <2>2, <2>3 DEF Job, Step
    <2> HIDE DEF k
    <2>5. Fits(k)
      BY <1>1, <2>1, <2>3, <2>4 DEF Fits
    <2> QED BY <1>1, <2>1, <2>4, <2>5, MoveTypes DEF tasks
  <1>4. CASE PullOver(w)
    <2> DEFINE k == [j EXCEPT !.step = "ready"]
    <2>1. UNCHANGED <<now, tasks, blocks, work>> /\ Update(w, k)
      BY <1>4 DEF PullOver, GoTo
    <2>2. k \in Job /\ k.step = "ready"
      BY <1>1, OtherStep, StepNames
    <2> HIDE DEF k
    <2> QED BY <1>1, <2>1, <2>2, MoveTypes DEF tasks
  <1> QED BY <1>2, <1>3, <1>4 DEF Pull

LEMMA TransferTypes ==
    ASSUME MigrationAssumption, Typed, NEW w \in Worker, Transfer(w)
    PROVE  Typed'
  <1> DEFINE j == job[w]  h == Current(w)
  <1>1. /\ j \in Job /\ j.answered <= now /\ Fits(j) /\ rr \in Nat /\ now \in Nat
        /\ pending \in [Request -> PendingTask \union {NoTask}]
        /\ \A r \in Request : pending[r] # NoTask => pending[r].created <= now
        /\ known \subseteq MovedHash /\ index \subseteq MovedHash /\ crossed \subseteq MovedHash
        /\ holders \in [MovedHash -> SUBSET DataServer] /\ job \in [Worker -> Job]
        /\ recent \in [MovedHash -> {Never} \union 0 .. now]
        /\ \A v \in Worker : Fits(job[v]) /\ job[v].answered <= now
    BY TypedParts DEF TablesTyped, JobsTyped, JobsFit, MigrationAssumption
  <1>2. j.blocks \in Seq(MovedHash) /\ j.target \in DataServer
    BY <1>1, JobParts
  <1>3. j.blocks # <<>> => h \in MovedHash
    BY <1>2, TailFacts DEF Current
  <1>4. CASE \E s \in {"list", "retract", Finish(w)} : Answered(w, s)
    <2> PICK s \in {"list", "retract", Finish(w)} : Answered(w, s)
      BY <1>4
    <2> DEFINE k == [j EXCEPT !.step = s, !.answered = now]
    <2>1. j.step = "transfer" /\ UNCHANGED <<now, tasks, blocks, work>> /\ Update(w, k)
      BY DEF Answered, JobAt
    <2>2. s \in Step
      BY DEF Finish, Step
    <2>3. k \in Job /\ k.step = s /\ k.kind = j.kind /\ k.blocks = j.blocks /\ k.answered = now
      BY <1>1, <2>2 DEF Job
    <2> HIDE DEF k
    <2>4. k.step # "ready" => Fits(k)
      BY <1>1, <2>1, <2>3 DEF Fits, Finish
    <2> QED BY <1>1, <2>1, <2>3, <2>4, MoveTypes DEF tasks
  <1>5. CASE ListTarget(w)
    <2> DEFINE k == [j EXCEPT !.step = "index"]
    <2>1. /\ j.step = "list" /\ Update(w, k)
          /\ UNCHANGED <<now, tasks, known, index, crossed, work>>
          /\ holders' = IF h \in known THEN [holders EXCEPT ![h] = @ \union {j.target}]
                        ELSE holders
      BY <1>5 DEF ListTarget, JobAt, GoTo
    <2>2. k \in Job /\ k.step = "index" /\ k.kind = j.kind /\ k.blocks = j.blocks
          /\ k.answered = j.answered
      BY <1>1, OtherStep, StepNames
    <2> HIDE DEF k, h
    <2>3. Fits(k)
      BY <1>1, <2>1, <2>2 DEF Fits
    <2>4. holders' \in [MovedHash -> SUBSET DataServer]
      BY <1>1, <1>2, <2>1
    <2>5. TablesTyped'
      BY <2>1, <2>4, TypedParts, Rest DEF TablesTyped, tasks
    <2>6. JobsTyped'
      BY <1>1, <2>1, <2>2, <2>3, TypedParts, JobTypes
    <2> QED BY <2>5, <2>6, TypedPartsNext
  <1>6. CASE Index(w)
    <2> DEFINE next == IF j.kind = "pull" THEN Proceed(w, "list") ELSE [j EXCEPT !.step = "record"]
               k == [v \in Worker |-> [job[v] EXCEPT !.reindexed = @ \/ Removing(v, h)]]
    <2>1. /\ j.step = "index" /\ UNCHANGED <<now, tasks, known, holders, crossed, work>>
          /\ index' = index \union {h}
          /\ job' = [v \in Worker |-> IF v = w THEN Settled(next) ELSE k[v]]
      BY <1>6 DEF Index, JobAt
    <2>2. j.blocks # <<>> /\ h \in MovedHash
      BY <1>1, <1>3, <2>1 DEF Fits
    <2>3. next \in Job /\ next.answered = j.answered /\ (next.step # "ready" => Fits(next))
      <3>1. CASE j.kind = "pull"
        BY <1>1, <2>1, <2>2, <3>1, ProceedJob, ProceedFits DEF Step
      <3>2. CASE j.kind # "pull"
        <4> DEFINE m == [j EXCEPT !.step = "record"]
        <4>1. m \in Job /\ m.step = "record" /\ m.kind = j.kind /\ m.blocks = j.blocks
              /\ m.answered = j.answered
          BY <1>1, OtherStep, StepNames
        <4>2. next = m
          BY <3>2
        <4> HIDE DEF m, next
        <4>3. Fits(m)
          BY <1>1, <2>1, <2>2, <3>2, <4>1, JobParts DEF Fits
        <4> QED BY <4>1, <4>2, <4>3
      <3> QED BY <3>1, <3>2
    <2> HIDE DEF next, h
    <2>4. ASSUME NEW v \in Worker
          PROVE  k[v] \in Job /\ Fits(k[v]) /\ k[v].answered <= now
      <3>1. (Removing(v, h)) \in BOOLEAN
        BY DEF Removing
      <3>2. /\ k[v] \in Job /\ k[v].step = job[v].step /\ k[v].kind = job[v].kind
            /\ k[v].blocks = job[v].blocks /\ k[v].answered = job[v].answered
        BY <1>1, <3>1 DEF Job
      <3> HIDE DEF k
      <3> QED BY <1>1, <3>2 DEF Fits
    <2> HIDE DEF k
    <2>5. Settled(next) \in Job /\ Fits(Settled(next)) /\ Settled(next).answered <= now
      <3>1. NoJob \in Job /\ Fits(NoJob) /\ NoJob.answered <= now
        BY <1>1, ConstantFacts DEF Fits
      <3> QED BY <1>1, <2>3, <3>1 DEF Settled
    <2>6. JobsTyped'
      <3>1. \A v \in Worker : job'[v] \in Job /\ Fits(job'[v]) /\ job'[v].answered <= now'
        BY <2>1, <2>4, <2>5
      <3>2. job' \in [Worker -> Job]
        BY <2>1, <2>4, <2>5
      <3> QED BY <3>1, <3>2 DEF JobsTyped, JobsFit
    <2>7. index' \subseteq MovedHash
      BY <1>1, <2>1, <2>2
    <2>8. holders' \in [MovedHash -> SUBSET DataServer] /\ known' \subseteq MovedHash
          /\ crossed' \subseteq MovedHash
      BY <1>1, <2>1
    <2>9. TablesTyped'
      BY <2>1, <2>7, <2>8, TypedParts, Rest DEF TablesTyped, tasks
    <2> QED BY <2>6, <2>9, TypedPartsNext
  <1>7. CASE Record(w)
    <2> DEFINE next == Proceed(w, "list")
    <2>1. /\ j.step = "record" /\ UNCHANGED <<now, rr, blocks, work>>
          /\ recent' = [recent EXCEPT ![h] = j.answered]
          /\ job' = [v \in Worker |-> IF v = w THEN Settled(next) ELSE Outrun(job[v], h)]
          /\ pending' = [r \in Request |-> IF pending[r] = NoTask THEN NoTask
                                           ELSE Outrun(pending[r], h)]
      BY <1>7 DEF Record, JobAt
    <2>2. j.blocks # <<>> /\ h \in MovedHash
      BY <1>1, <1>3, <2>1 DEF Fits
    <2>3. next \in Job /\ next.answered = j.answered /\ (next.step # "ready" => Fits(next))
      BY <1>1, <2>1, <2>2, ProceedJob, ProceedFits DEF Step
    <2> HIDE DEF next, h
    <2>4. ASSUME NEW v \in Worker
          PROVE  LET k == Outrun(job[v], h) IN k \in Job /\ Fits(k) /\ k.answered <= now
      <3> DEFINE k == Outrun(job[v], h)
      <3>1. /\ k \in Job /\ k.step = job[v].step /\ k.kind = job[v].kind
            /\ k.blocks = job[v].blocks /\ k.answered = job[v].answered
        BY <1>1, <2>2 DEF Job, Outrun
      <3> HIDE DEF k
      <3>2. k \in Job /\ Fits(k) /\ k.answered <= now
        BY <1>1, <3>1 DEF Fits
      <3> QED BY <3>2 DEF k
    <2>5. Settled(next) \in Job /\ Fits(Settled(next)) /\ Settled(next).answered <= now
      <3>1. NoJob \in Job /\ Fits(NoJob) /\ NoJob.answered <= now
        BY <1>1, ConstantFacts DEF Fits
      <3> QED BY <1>1, <2>3, <3>1 DEF Settled
    <2>6. JobsTyped'
      <3>1. \A v \in Worker : job'[v] \in Job /\ Fits(job'[v]) /\ job'[v].answered <= now'
        BY <2>1, <2>4, <2>5
      <3>2. job' \in [Worker -> Job]
        BY <2>1, <2>4, <2>5
      <3> QED BY <3>1, <3>2 DEF JobsTyped, JobsFit
    <2>7. ASSUME NEW r \in Request, pending[r] # NoTask
          PROVE  Outrun(pending[r], h) \in PendingTask
                 /\ Outrun(pending[r], h).created = pending[r].created
      <3>1. pending[r] \in PendingTask
        BY <1>1, <2>7
      <3> QED BY <2>2, <3>1 DEF PendingTask, Outrun
    <2>8. pending' \in [Request -> PendingTask \union {NoTask}]
      BY <2>1, <2>7
    <2>9. \A r \in Request : pending'[r] # NoTask => pending'[r].created <= now'
      BY <1>1, <2>1, <2>7
    <2>10. recent' \in [MovedHash -> {Never} \union 0 .. now']
      <3>1. j.answered \in 0 .. now
        BY <1>1, JobParts
      <3> QED BY <1>1, <2>1, <2>2, <3>1
    <2>11. TablesTyped'
      BY <2>1, <2>8, <2>9, <2>10, TypedParts, Rest DEF TablesTyped
    <2> QED BY <2>6, <2>11, TypedPartsNext
  <1>8. CASE Retract(w)
    <2> DEFINE rest == holders[h] \ {j.source}
               m == [j EXCEPT !.step = "drop"]
               dropping == h \in known /\ rest = {}
               k == IF dropping THEN m ELSE Proceed(w, "retract")
    <2>1. /\ j.step = "retract" /\ UNCHANGED <<now, tasks, known, index, crossed, work>>
          /\ holders' = [holders EXCEPT ![h] = rest]
          /\ Update(w, k)
      BY <1>8 DEF Retract, JobAt
    <2>2. j.blocks # <<>> /\ h \in MovedHash
      BY <1>1, <1>3, <2>1 DEF Fits
    <2>3. m \in Job /\ m.answered = j.answered /\ Fits(m)
      <3>1. m \in Job /\ m.answered = j.answered /\ m.step = "drop" /\ m.kind = j.kind
            /\ m.blocks = j.blocks
        BY <1>1, OtherStep, StepNames
      <3> HIDE DEF m
      <3> QED BY <1>1, <2>1, <2>2, <3>1 DEF Fits
    <2>4. /\ Proceed(w, "retract") \in Job /\ Proceed(w, "retract").answered = j.answered
          /\ Proceed(w, "retract").step # "ready" => Fits(Proceed(w, "retract"))
      BY <1>1, <2>1, <2>2, ProceedJob, ProceedFits DEF Step
    <2> HIDE DEF m, dropping
    <2>5. k \in Job /\ k.answered = j.answered /\ (k.step # "ready" => Fits(k))
      BY <2>3, <2>4
    <2> HIDE DEF k, h
    <2>6. JobsTyped'
      BY <1>1, <2>1, <2>5, TypedParts, JobTypes
    <2>7. holders' \in [MovedHash -> SUBSET DataServer]
      BY <1>1, <2>1, <2>2
    <2>8. TablesTyped'
      BY <2>1, <2>7, TypedParts, Rest DEF TablesTyped, tasks
    <2> QED BY <2>6, <2>8, TypedPartsNext
  <1>9. CASE Drop(w)
    <2> DEFINE k == Proceed(w, "retract")
    <2>1. /\ j.step = "drop" /\ UNCHANGED <<now, tasks, index, work>>
          /\ known' = known \ {h} /\ holders' = [holders EXCEPT ![h] = {}]
          /\ crossed' \in {crossed, crossed \union {h}}
          /\ Update(w, k)
      BY <1>9 DEF Drop, JobAt
    <2>2. j.blocks # <<>> /\ h \in MovedHash
      BY <1>1, <1>3, <2>1 DEF Fits
    <2>3. /\ k \in Job /\ k.answered = j.answered /\ (k.step # "ready" => Fits(k))
      BY <1>1, <2>1, <2>2, ProceedJob, ProceedFits DEF Step
    <2> HIDE DEF k, h
    <2>4. JobsTyped'
      BY <1>1, <2>1, <2>3, TypedParts, JobTypes
    <2>5. holders' \in [MovedHash -> SUBSET DataServer] /\ known' \subseteq MovedHash
          /\ crossed' \subseteq MovedHash /\ index' \subseteq MovedHash
      BY <1>1, <2>1, <2>2
    <2>6. TablesTyped'
      BY <2>1, <2>5, TypedParts, Rest DEF TablesTyped, tasks
    <2> QED BY <2>4, <2>6, TypedPartsNext
  <1>10. TransferDone(w) \/ NotFound(w) \/ Failed(w) =>
            \E s \in {"list", "retract", Finish(w)} : Answered(w, s)
    BY DEF TransferDone, NotFound, Failed
  <1> QED BY <1>4, <1>5, <1>6, <1>7, <1>8, <1>9, <1>10 DEF Transfer

LEMMA RemovalTypes ==
    ASSUME MigrationAssumption, Typed, NEW w \in Worker, Removal(w)
    PROVE  Typed'
  <1> DEFINE j == job[w]
  <1>1. CASE \E h \in MovedHash, s \in Local : RemoveKvMeta(w, h, s)
    BY <1>1, AcceptedTypes
  <1>2. CASE Unindex(w)
    <2> DEFINE k == [j EXCEPT !.step = "retract"]
    <2>1. /\ j.step = "unindex" /\ UNCHANGED <<now, tasks, known, holders, crossed, work>>
          /\ index' \subseteq index /\ Update(w, k)
      BY <1>2 DEF Unindex, Unindexed, JobAt, GoTo
    <2>2. /\ j \in Job /\ j.answered <= now /\ Fits(j) /\ now \in Nat
          /\ known \subseteq MovedHash /\ index \subseteq MovedHash /\ crossed \subseteq MovedHash
          /\ holders \in [MovedHash -> SUBSET DataServer]
      BY TypedParts DEF TablesTyped, JobsTyped, JobsFit, MigrationAssumption
    <2>3. k \in Job /\ k.step = "retract" /\ k.kind = j.kind /\ k.blocks = j.blocks
          /\ k.answered = j.answered
      BY <2>2, OtherStep, StepNames
    <2> HIDE DEF k
    <2>4. Fits(k)
      BY <2>1, <2>2, <2>3 DEF Fits
    <2>5. JobsTyped'
      BY <2>1, <2>2, <2>3, <2>4, TypedParts, JobTypes
    <2>6. TablesTyped'
      BY <2>1, <2>2, TypedParts, Rest DEF TablesTyped, tasks
    <2> QED BY <2>5, <2>6, TypedPartsNext
  <1> QED BY <1>1, <1>2 DEF Removal

LEMMA TickTypes ==
    ASSUME MigrationAssumption, Typed, Tick
    PROVE  Typed'
  <1>1. /\ now < MaxTime /\ now' = now + 1 /\ UNCHANGED <<tasks, blocks, job, work>>
        /\ now \in 0 .. MaxTime /\ MaxTime \in Nat
    BY TypedParts DEF Tick, TablesTyped, MigrationAssumption
  <1>2. now' \in 0 .. MaxTime /\ now \in Nat /\ now <= now'
    BY <1>1
  <1>3. \A w \in Worker : job[w].answered \in Nat /\ job[w].answered <= now
    BY TypedParts, JobParts DEF JobsTyped
  <1>4. JobsTyped'
    <2>1. \A w \in Worker : job'[w].answered <= now'
      BY <1>1, <1>2, <1>3
    <2>2. job' \in [Worker -> Job] /\ JobsFit'
      BY <1>1, TypedParts DEF JobsTyped, JobsFit
    <2> QED BY <2>1, <2>2 DEF JobsTyped
  <1>5. \A r \in Request :
           pending[r] # NoTask => pending[r].created \in Nat /\ pending[r].created <= now
    <2> TAKE r \in Request
    <2> HAVE pending[r] # NoTask
    <2>1. pending[r] \in PendingTask
      BY TypedParts DEF TablesTyped
    <2> QED BY <2>1, TypedParts DEF TablesTyped, PendingTask
  <1>6. \A r \in Request : pending'[r] # NoTask => pending'[r].created <= now'
    BY <1>1, <1>2, <1>5 DEF tasks
  <1>7. recent' \in [MovedHash -> {Never} \union 0 .. now']
    <2>1. recent \in [MovedHash -> {Never} \union 0 .. now] /\ recent' = recent
      BY <1>1, TypedParts DEF TablesTyped, tasks
    <2>2. 0 .. now \subseteq 0 .. now'
      BY <1>1, <1>2
    <2> QED BY <2>1, <2>2
  <1>8. TablesTyped'
    BY <1>1, <1>2, <1>6, <1>7, TypedParts DEF TablesTyped, tasks, blocks
  <1> QED BY <1>4, <1>8, TypedPartsNext

LEMMA NextTypes ==
    ASSUME MigrationAssumption, Typed, [MigrationNext]_migrationVars
    PROVE  Typed'
  <1>1. CASE UNCHANGED migrationVars
    BY <1>1 DEF Typed, MigrationTypeOK, JobsFit, migrationVars, tasks, blocks
  <1>2. CASE Tick
    BY <1>2, TickTypes
  <1>3. CASE \E w \in Worker : ForRequest(w) \/ Pull(w) \/ Transfer(w) \/ Removal(w)
    BY <1>3, RequestTypes, PullTypes, TransferTypes, RemovalTypes
  <1> QED BY <1>1, <1>2, <1>3 DEF MigrationNext

(* Every table and every job stays of its type, and no job comes to a step *)
(* without what it needs there: a block to transfer, list, index or take   *)
(* out, and an answer of the past.                                         *)
THEOREM MigrationTypesCorrect ==
    ASSUME MigrationAssumption
    PROVE  MigrationSpec => [](MigrationTypeOK /\ JobsFit)
  <1>1. MigrationInit => Typed
    BY InitTypes
  <1>2. Typed /\ [MigrationNext]_migrationVars => Typed'
    BY NextTypes
  <1>3. Typed => MigrationTypeOK /\ JobsFit
    BY DEF Typed
  <1> QED BY <1>1, <1>2, <1>3, PTL DEF MigrationSpec

-----------------------------------------------------------------------------
(* The index and the cooldown.  A job is sound when                        *)
(*   - what it has in hand is known, or was when it was dropped;           *)
(*   - the block it is removing is not in the index, unless put back;      *)
(*   - the blocks it will migrate for a request had cooled down, or have   *)
(*     been migrated by another since they were vetted;                    *)
(*   - the requests whose tasks it is about to forget are too old, or were *)
(*     queued again after it had collected them.                           *)

Known(h) == h \in known \union crossed

Hands(j) ==
    { i.hash : i \in ToSet(j.items) }
      \union IF j.step \in {"choose", "next", "transfer", "list", "index", "record"}
             THEN ToSet(j.blocks) ELSE {}

HandsKnown(j) == \A h \in Hands(j) : Known(h)

RemovalClean(j) ==
    j.kind = "remove" /\ j.step \in {"retract", "drop"} /\ ~j.reindexed =>
        Head(j.blocks) \notin index

Vetted(x) == \A h \in ToSet(x.blocks) : CooledDown(h) \/ h \in x.outrun

JobVetted(j) ==
    j.kind = "request" /\ j.step \in {"queue", "resolve", "plan", "choose", "transfer"} => Vetted(j)

Old(r) == pending[r] # NoTask => is_expired(pending[r]) \/ pending[r].overtaken

Sound(j) == HandsKnown(j) /\ RemovalClean(j) /\ JobVetted(j) /\ \A r \in j.expired : Old(r)

Strong ==
    /\ \A w \in Worker : Sound(job[w])
    /\ \A r \in Request : pending[r] # NoTask => Vetted(pending[r])
    /\ IndexedIsKnown

LEMMA InitSound ==
    ASSUME MigrationAssumption, MigrationInit
    PROVE  Strong
  <1>1. \A w \in Worker : job[w] = NoJob
    BY DEF MigrationInit
  <1>2. ToSet(<<>>) = {}
    BY DEF ToSet
  <1>3. Sound(NoJob)
    BY <1>2, ConstantFacts DEF Sound, HandsKnown, Hands, RemovalClean, JobVetted
  <1>4. \A r \in Request : pending[r] = NoTask
    BY DEF MigrationInit
  <1>5. IndexedIsKnown
    BY DEF MigrationInit, IndexedIsKnown
  <1> QED BY <1>1, <1>3, <1>4, <1>5 DEF Strong

LEMMA IdleSound ==
    ASSUME MigrationAssumption
    PROVE  Sound(NoJob)'
  <1>1. ToSet(<<>>) = {}
    BY DEF ToSet
  <1>2. NoJob' = NoJob
    BY DEF NoJob
  <1> QED BY <1>1, <1>2, ConstantFacts DEF Sound, HandsKnown, Hands, RemovalClean, JobVetted

(* A job stays sound while no block is dropped, indexed or recorded, and   *)
(* no task is queued for a request it is about to forget.                  *)
LEMMA SoundWhileKnown ==
    ASSUME NEW j \in Job, Sound(j), now' = now, recent' = recent, index' \subseteq index,
           \A h \in Hands(j) : h \in known' \union crossed',
           \A r \in j.expired : pending'[r] # NoTask => \/ pending'[r] = pending[r]
                                                        \/ pending'[r].overtaken
    PROVE  Sound(j)'
  <1>1. HandsKnown(j)'
    BY DEF HandsKnown, Hands, Known
  <1>2. RemovalClean(j)'
    BY DEF Sound, RemovalClean
  <1>3. JobVetted(j)'
    BY DEF Sound, JobVetted, Vetted, CooledDown
  <1>4. (\A r \in j.expired : Old(r))'
    BY DEF Sound, Old, is_expired
  <1> QED BY <1>1, <1>2, <1>3, <1>4 DEF Sound

LEMMA SoundKept ==
    ASSUME NEW j \in Job, Sound(j), now' = now, recent' = recent, index' \subseteq index,
           \A h : Known(h) => h \in known' \union crossed',
           \A r \in j.expired : pending'[r] # NoTask => \/ pending'[r] = pending[r]
                                                        \/ pending'[r].overtaken
    PROVE  Sound(j)'
  <1>1. \A h \in Hands(j) : h \in known' \union crossed'
    BY DEF Sound, HandsKnown
  <1> QED BY <1>1, SoundWhileKnown

LEMMA SameSound ==
    ASSUME NEW w \in Worker, NEW j, job'[w] = j, Sound(j)'
    PROVE  Sound(job[w])'
  BY DEF Sound, HandsKnown, Hands, RemovalClean, JobVetted, Vetted, Old, CooledDown, is_expired,
         Known

(* A step that gives one worker another job.                               *)
LEMMA MoveSound ==
    ASSUME MigrationAssumption, Typed, Strong, NEW w \in Worker, NEW j \in Job, Update(w, j),
           j.step # "ready" => Sound(j)',
           now' = now, recent' = recent, index' \subseteq index,
           \A h : Known(h) => h \in known' \union crossed',
           \A r \in Request : pending'[r] # NoTask =>
              \/ pending'[r] = pending[r]
              \/ /\ \A h \in ToSet(pending'[r].blocks) : CooledDown(h) \/ h \in pending'[r].outrun
                 /\ \A v \in Worker : r \in job[v].expired => pending'[r].overtaken
    PROVE  Strong'
  <1>1. /\ job' \in [Worker -> Job]
        /\ job'[w] = IF j.step = "ready" THEN NoJob ELSE j
        /\ \A v \in Worker \ {w} : job'[v] = job[v]
    BY UpdateJob, TypedParts DEF JobsTyped
  <1>2. Sound(job[w])'
    <2>1. CASE j.step = "ready"
      <3> PICK k : k = NoJob
        OBVIOUS
      <3>1. job'[w] = k /\ NoJob' = NoJob
        BY <1>1, <2>1 DEF NoJob
      <3>2. Sound(k)'
        BY <3>1, IdleSound DEF Sound, HandsKnown, Hands, RemovalClean, JobVetted, Vetted, Old,
                               CooledDown, is_expired, Known
      <3> QED BY <3>1, <3>2, SameSound
    <2>2. CASE j.step # "ready"
      BY <1>1, <2>2, SameSound
    <2> QED BY <2>1, <2>2
  <1>3. ASSUME NEW v \in Worker \ {w} PROVE Sound(job[v])'
    <2> PICK k \in Job : k = job[v]
      BY TypedParts DEF JobsTyped
    <2>1. Sound(k)
      BY DEF Strong
    <2>2. \A r \in k.expired : pending'[r] # NoTask => \/ pending'[r] = pending[r]
                                                       \/ pending'[r].overtaken
      BY JobParts
    <2>3. Sound(k)'
      BY <2>1, <2>2, SoundKept
    <2> QED BY <1>1, <2>3, SameSound
  <1>4. ASSUME NEW r \in Request, pending'[r] # NoTask PROVE Vetted(pending[r])'
    BY <1>4 DEF Strong, Vetted, CooledDown
  <1>5. IndexedIsKnown'
    BY DEF Strong, IndexedIsKnown, Known
  <1>6. \A v \in Worker : Sound(job[v])'
    BY <1>2, <1>3
  <1> QED BY <1>4, <1>5, <1>6 DEF Strong

LEMMA AcceptSound ==
    ASSUME MigrationAssumption, Typed, Strong, NEW w \in Worker, NEW j \in Job, Accept(w, j),
           Sound(j)
    PROVE  Strong'
  <1>1. Update(w, j) /\ UNCHANGED <<now, pending, recent, known, crossed, index>>
    BY DEF Accept, tasks, blocks
  <1>2. Sound(j)'
    BY <1>1, SoundKept DEF Known
  <1> QED BY <1>1, <1>2, MoveSound DEF Known

LEMMA AcceptedSound ==
    ASSUME MigrationAssumption, Typed, Strong, NEW w \in Worker
    PROVE  /\ \A r \in Request : NewRequest(w, r) \/ RequestEnd(w, r) => Strong'
           /\ \A items \in Pulls : StartPull(w, items) => Strong'
           /\ \A h \in MovedHash, s \in Local : RemoveKvMeta(w, h, s) => Strong'
  <1>0. ToSet(<<>>) = {}
    BY DEF ToSet
  <1>1. ASSUME NEW r \in Request, NewRequest(w, r) \/ RequestEnd(w, r) PROVE Strong'
    <2> PICK step \in {"filter", "pop"} : Cleanup(w, r, step)
      BY <1>1 DEF NewRequest, RequestEnd
    <2> DEFINE old == { x \in Request : pending[x] # NoTask /\ is_expired(pending[x]) }
    <2>1. old \subseteq Request /\ step \in Step /\ \A x \in old : Old(x)
      BY DEF Step, Old
    <2> PICK j : j = [NoJob EXCEPT !.step = step, !.request = r, !.expired = old]
      OBVIOUS
    <2>2. Accept(w, j)
      BY DEF Cleanup
    <2> HIDE DEF old
    <2>3. j \in Job /\ j.step = step /\ j.kind = "request" /\ j.items = <<>> /\ j.expired = old
      BY <2>1, ConstantFacts DEF Job
    <2>4. Sound(j)
      BY <1>0, <2>1, <2>3 DEF Sound, HandsKnown, Hands, RemovalClean, JobVetted
    <2> QED BY <2>2, <2>3, <2>4, AcceptSound
  <1>2. ASSUME NEW items \in Pulls, StartPull(w, items) PROVE Strong'
    <2> PICK j : j = [NoJob EXCEPT !.step = "next", !.kind = "pull", !.items = items]
      OBVIOUS
    <2>1. items \in Seq(Item) /\ ToSet(items) \subseteq Pullable
      <3>1. Pullable \subseteq Item
        BY DEF Pullable
      <3>2. ASSUME NEW i \in Item, NEW k \in Item
            PROVE  /\ <<i>> \in Seq(Item) /\ <<i, k>> \in Seq(Item)
                   /\ ToSet(<<i>>) = {i} /\ ToSet(<<i, k>>) = {i, k}
        BY DEF ToSet
      <3>3. (\E i \in Pullable : items = <<i>>) \/ (\E i, k \in Pullable : items = <<i, k>>)
        BY DEF Pulls
      <3>4. CASE \E i \in Pullable : items = <<i>>
        <4> PICK i \in Pullable : items = <<i>>
          BY <3>4
        <4>1. i \in Item
          BY <3>1
        <4> QED BY <3>2, <4>1
      <3>5. CASE \E i, k \in Pullable : items = <<i, k>>
        <4> PICK i \in Pullable, k \in Pullable : items = <<i, k>>
          BY <3>5
        <4>1. i \in Item /\ k \in Item
          BY <3>1
        <4>2. items \in Seq(Item) /\ ToSet(items) = {i, k}
          BY <3>2, <4>1
        <4> QED BY <4>2
      <3> QED BY <3>3, <3>4, <3>5
    <2>2. Accept(w, j)
      BY <1>2 DEF StartPull
    <2>3. /\ j \in Job /\ j.step = "next" /\ j.kind = "pull" /\ j.items = items /\ j.blocks = <<>>
          /\ j.expired = {}
      BY <2>1, ConstantFacts DEF Job, Step
    <2>4. HandsKnown(j)
      BY <1>0, <2>1, <2>3 DEF HandsKnown, Hands, Known, Pullable
    <2>5. Sound(j)
      BY <2>3, <2>4 DEF Sound, RemovalClean, JobVetted
    <2> QED BY <2>2, <2>3, <2>5, AcceptSound
  <1>3. ASSUME NEW h \in MovedHash, NEW s \in Local, RemoveKvMeta(w, h, s) PROVE Strong'
    <2> PICK j : j = [NoJob EXCEPT !.step = "unindex", !.kind = "remove", !.blocks = <<h>>,
                                   !.source = s]
      OBVIOUS
    <2>1. <<h>> \in Seq(MovedHash) /\ s \in DataServer
      BY DEF MigrationAssumption
    <2>2. Accept(w, j)
      BY <1>3 DEF RemoveKvMeta
    <2>3. /\ j \in Job /\ j.step = "unindex" /\ j.kind = "remove" /\ j.items = <<>>
          /\ j.expired = {}
      BY <2>1, ConstantFacts DEF Job, Step
    <2>4. Sound(j)
      BY <1>0, <2>3 DEF Sound, HandsKnown, Hands, RemovalClean, JobVetted
    <2> QED BY <2>2, <2>3, <2>4, AcceptSound
  <1> QED BY <1>1, <1>2, <1>3

LEMMA RequestSound ==
    ASSUME MigrationAssumption, Typed, Strong, NEW w \in Worker, ForRequest(w)
    PROVE  Strong'
  <1> DEFINE j == job[w]
  <1>1. /\ j \in Job /\ Fits(j) /\ Sound(j)
        /\ pending \in [Request -> PendingTask \union {NoTask}]
        /\ \A r \in Request : pending[r] # NoTask => Vetted(pending[r])
    BY TypedParts DEF TablesTyped, JobsTyped, JobsFit, Strong
  <1>2. CASE \E r \in Request : NewRequest(w, r) \/ RequestEnd(w, r)
    BY <1>2, AcceptedSound
  <1>3. CASE \E r \in Request : RemoveExpired(w, r)
    <2> PICK r \in Request : RemoveExpired(w, r)
      BY <1>3
    <2> PICK k : k = [j EXCEPT !.expired = @ \ {r}]
      OBVIOUS
    <2>1. /\ pending' = [pending EXCEPT ![r] = NoTask] /\ job' = [job EXCEPT ![w] = k]
          /\ UNCHANGED <<now, recent, rr, blocks, work>>
      BY DEF RemoveExpired
    <2>2. /\ k \in Job /\ k.step = j.step /\ k.kind = j.kind /\ k.blocks = j.blocks
          /\ k.items = j.items /\ k.outrun = j.outrun /\ k.reindexed = j.reindexed
          /\ k.expired = j.expired \ {r}
      BY <1>1 DEF Job
    <2>3. Sound(k)
      BY <1>1, <2>2 DEF Sound, HandsKnown, Hands, RemovalClean, JobVetted, Vetted
    <2>4. \A x \in Request : pending'[x] # NoTask => pending'[x] = pending[x]
      BY <1>1, <2>1
    <2>5. now' = now /\ recent' = recent /\ index' = index /\ known' = known /\ crossed' = crossed
      BY <2>1 DEF blocks
    <2>6. ASSUME NEW v \in Worker PROVE Sound(job[v])'
      <3> PICK m \in Job : m = job[v]
        BY TypedParts DEF JobsTyped
      <3> PICK n \in Job : n = IF v = w THEN k ELSE m
        BY <2>2
      <3>1. Sound(n)
        BY <2>3 DEF Strong
      <3>2. \A x \in n.expired : pending'[x] # NoTask => pending'[x] = pending[x]
        BY <2>4, JobParts
      <3>3. Sound(n)'
        BY <2>5, <3>1, <3>2, SoundKept DEF Known
      <3>4. job'[v] = n
        BY <2>1, TypedParts DEF JobsTyped
      <3> QED BY <3>3, <3>4, SameSound
    <2>7. ASSUME NEW x \in Request, pending'[x] # NoTask PROVE Vetted(pending[x])'
      BY <1>1, <2>4, <2>5, <2>7 DEF Vetted, CooledDown
    <2>8. IndexedIsKnown'
      BY <2>5 DEF Strong, IndexedIsKnown
    <2> QED BY <2>6, <2>7, <2>8 DEF Strong
  <1>4. CASE \E held \in SUBSET MovedHash : Filter(w, held)
    <2> PICK held \in SUBSET MovedHash : Filter(w, held)
      BY <1>4
    <2> DEFINE cool == { h \in held : CooledDown(h) }
               eligible == Only(Chain[j.request], cool)
    <2> PICK k : k = [j EXCEPT !.step = IF eligible = <<>> THEN "ready" ELSE "queue",
                               !.blocks = eligible]
      OBVIOUS
    <2>1. eligible \in Seq(MovedHash) /\ ToSet(eligible) \subseteq cool
      <3>1. Chain[j.request] \in Seq(MovedHash)
        BY <1>1, JobParts DEF MigrationAssumption
      <3> HIDE DEF cool
      <3> QED BY <3>1, OnlyPicks
    <2>2. /\ Update(w, k) /\ j.step = "filter"
          /\ UNCHANGED <<now, pending, recent, known, crossed, index>>
      BY DEF Filter, JobAt, tasks, blocks
    <2> HIDE DEF eligible
    <2>3. /\ k \in Job /\ k.step \in {"ready", "queue"} /\ k.kind = j.kind /\ k.blocks = eligible
          /\ k.items = j.items /\ k.expired = j.expired
      BY <1>1, <2>1 DEF Job, Step
    <2>4. Vetted(k)
      BY <2>1, <2>3 DEF Vetted
    <2>5. Sound(k)
      BY <1>1, <2>2, <2>3, <2>4 DEF Sound, HandsKnown, Hands, RemovalClean, JobVetted, Fits
    <2>6. Sound(k)'
      BY <2>2, <2>3, <2>5, SoundKept DEF Known
    <2> QED BY <2>2, <2>3, <2>6, MoveSound DEF Known
  <1>5. CASE Queue(w)
    <2> DEFINE r == j.request
               task == [source |-> Source[r], blocks |-> j.blocks, created |-> now,
                        overtaken |-> \E v \in Worker : r \in job[v].expired,
                        outrun |-> j.outrun]
    <2> PICK k : k = [j EXCEPT !.step = "ready"]
      OBVIOUS
    <2>1. /\ j.step = "queue" /\ Update(w, k) /\ UNCHANGED <<now, recent, known, crossed, index>>
          /\ pending' = IF Source[r] \in Local THEN [pending EXCEPT ![r] = task] ELSE pending
      BY <1>5 DEF Queue, JobAt, GoTo, blocks
    <2>2. k \in Job /\ k.step = "ready"
      BY <1>1, OtherStep, StepNames
    <2>3. j.kind = "request" /\ Vetted(j)
      BY <1>1, <2>1 DEF Fits, Sound, JobVetted
    <2>4. /\ \A h \in ToSet(task.blocks) : CooledDown(h) \/ h \in task.outrun
          /\ \A v \in Worker : r \in job[v].expired => task.overtaken
      BY <2>3 DEF Vetted
    <2> HIDE DEF task, r
    <2>5. ASSUME NEW x \in Request, pending'[x] # NoTask
          PROVE  \/ pending'[x] = pending[x]
                 \/ /\ \A h \in ToSet(pending'[x].blocks) :
                          CooledDown(h) \/ h \in pending'[x].outrun
                    /\ \A v \in Worker : x \in job[v].expired => pending'[x].overtaken
      <3>1. pending'[x] = pending[x] \/ (x = r /\ pending'[x] = task)
        BY <1>1, <2>1
      <3>2. CASE pending'[x] = pending[x]
        BY <3>2
      <3>3. CASE x = r /\ pending'[x] = task
        BY <2>4, <3>3
      <3> QED BY <3>1, <3>2, <3>3
    <2> QED BY <2>1, <2>2, <2>5, MoveSound DEF Known
  <1>6. CASE Pop(w)
    <2> DEFINE r == j.request
               fresh == pending[r] # NoTask /\ ~is_expired(pending[r])
    <2> PICK task : task = pending[r]
      OBVIOUS
    <2> PICK k : k = IF fresh THEN [j EXCEPT !.step = "resolve", !.blocks = task.blocks,
                                             !.source = task.source, !.outrun = task.outrun]
                     ELSE [j EXCEPT !.step = "ready"]
      OBVIOUS
    <2>1. /\ j.step = "pop" /\ UNCHANGED <<now, recent, known, crossed, index>>
          /\ pending' = [pending EXCEPT ![r] = NoTask]
          /\ Update(w, k)
      BY <1>6 DEF Pop, JobAt, GoTo, blocks
    <2>2. r \in Request /\ (task # NoTask => task \in PendingTask /\ Vetted(task))
      BY <1>1, JobParts
    <2>3. task # NoTask => /\ task.blocks \in Seq(MovedHash) /\ task.source \in DataServer
                           /\ task.outrun \subseteq MovedHash
      BY <2>2 DEF PendingTask, MigrationAssumption
    <2> HIDE DEF r
    <2>4. CASE fresh
      <3>1. /\ k \in Job /\ k.step = "resolve" /\ k.kind = j.kind /\ k.blocks = task.blocks
            /\ k.outrun = task.outrun /\ k.items = j.items /\ k.expired = j.expired
        BY <1>1, <2>3, <2>4 DEF Job, Step
      <3>2. Vetted(k)
        BY <2>2, <2>4, <3>1 DEF Vetted
      <3>3. Sound(k)
        BY <1>1, <2>1, <3>1, <3>2 DEF Sound, HandsKnown, Hands, RemovalClean, JobVetted, Fits
      <3>4. \A x \in k.expired : pending'[x] # NoTask => pending'[x] = pending[x]
        BY <1>1, <2>1, <3>1, JobParts
      <3>5. Sound(k)'
        BY <2>1, <3>1, <3>3, <3>4, SoundKept DEF Known
      <3>6. \A x \in Request : pending'[x] # NoTask => pending'[x] = pending[x]
        BY <1>1, <2>1
      <3> QED BY <2>1, <3>1, <3>5, <3>6, MoveSound DEF Known
    <2>5. CASE ~fresh
      <3>1. k \in Job /\ k.step = "ready"
        BY <1>1, <2>5, OtherStep, StepNames
      <3>2. \A x \in Request : pending'[x] # NoTask => pending'[x] = pending[x]
        BY <1>1, <2>1
      <3> QED BY <2>1, <3>1, <3>2, MoveSound DEF Known
    <2> QED BY <2>4, <2>5
  <1>7. CASE Spawn(w)
    <2> PICK s \in {"plan", "ready"} : j.step = "resolve" /\ GoTo(w, s)
                                       /\ UNCHANGED <<now, tasks, blocks, work>>
      BY <1>7 DEF Spawn, JobAt
    <2> PICK k : k = [j EXCEPT !.step = s]
      OBVIOUS
    <2>1. /\ Update(w, k) /\ j.step = "resolve"
          /\ UNCHANGED <<now, pending, recent, known, crossed, index>>
      BY DEF GoTo, tasks, blocks
    <2>2. /\ k \in Job /\ k.step = s /\ k.kind = j.kind /\ k.blocks = j.blocks
          /\ k.outrun = j.outrun /\ k.items = j.items /\ k.expired = j.expired
      <3>1. s \in Step
        BY DEF Step
      <3> QED BY <1>1, <3>1, OtherStep
    <2>3. Sound(k)
      BY <1>1, <2>1, <2>2 DEF Sound, HandsKnown, Hands, RemovalClean, JobVetted, Vetted, Fits
    <2>4. Sound(k)'
      BY <2>1, <2>2, <2>3, SoundKept DEF Known
    <2> QED BY <2>1, <2>2, <2>4, MoveSound DEF Known
  <1>8. CASE Plan(w)
    <2> DEFINE found == Only(j.blocks, known)
               more == Candidates(w) # <<>> /\ found # <<>>
    <2> PICK k : k = [j EXCEPT !.step = IF more THEN "choose" ELSE "ready", !.blocks = found]
      OBVIOUS
    <2>1. /\ found \in Seq(MovedHash)
          /\ ToSet(found) \subseteq ToSet(j.blocks) /\ ToSet(found) \subseteq known
      BY <1>1, JobParts, OnlyPicks
    <2>2. /\ Update(w, k) /\ UNCHANGED <<now, pending, recent, known, crossed, index>>
          /\ j.step = "plan"
      BY <1>8 DEF Plan, JobAt, tasks, blocks
    <2> HIDE DEF found
    <2>3. /\ k \in Job /\ k.step \in {"ready", "choose"} /\ k.kind = j.kind /\ k.blocks = found
          /\ k.outrun = j.outrun /\ k.items = j.items /\ k.expired = j.expired
      BY <1>1, <2>1 DEF Job, Step
    <2>4. HandsKnown(k)
      BY <1>1, <2>1, <2>3 DEF Sound, HandsKnown, Hands, Known
    <2>5. JobVetted(k)
      BY <1>1, <2>1, <2>2, <2>3 DEF Sound, JobVetted, Vetted, Fits
    <2>6. Sound(k)
      BY <1>1, <2>2, <2>3, <2>4, <2>5 DEF Sound, RemovalClean, Fits
    <2>7. Sound(k)'
      BY <2>2, <2>3, <2>6, SoundKept DEF Known
    <2> QED BY <2>2, <2>3, <2>7, MoveSound DEF Known
  <1>9. CASE Choose(w)
    <2>1. j.step = "choose" /\ UNCHANGED <<now, pending, recent, known, crossed, index>>
      BY <1>9 DEF Choose, JobAt, blocks
    <2>2. CASE GoTo(w, "ready")
      <3> PICK k : k = [j EXCEPT !.step = "ready"]
        OBVIOUS
      <3>1. k \in Job /\ k.step = "ready" /\ Update(w, k)
        BY <1>1, <2>2, OtherStep, StepNames DEF GoTo
      <3> QED BY <2>1, <3>1, MoveSound DEF Known
    <2>3. CASE ~GoTo(w, "ready")
      <3> DEFINE ring == RingFrom(rr % Len(Candidates(w)), Candidates(w))
      <3>1. PICK i \in DOMAIN ring :
                Update(w, [job[w] EXCEPT !.step = "transfer", !.target = ring[i]])
        BY <1>9, <2>3 DEF Choose
      <3> HIDE DEF ring
      <3> PICK k : k = [j EXCEPT !.step = "transfer", !.target = ring[i]]
        OBVIOUS
      <3>2. k \in Job
        <4>1. Typed'
          BY <1>9, RequestTypes DEF ForRequest
        <4>2. job'[w] \in Job /\ job' = [job EXCEPT ![w] = Settled(k)]
          BY <3>1, <4>1, TypedPartsNext DEF JobsTyped, Update
        <4>3. k.step = "transfer"
          BY <1>1 DEF Job
        <4>4. job'[w] = k
          BY <4>2, <4>3, TypedParts DEF Settled, JobsTyped
        <4> QED BY <4>2, <4>4
      <3>3. /\ k.step = "transfer" /\ k.kind = j.kind /\ k.blocks = j.blocks
            /\ k.outrun = j.outrun /\ k.items = j.items /\ k.expired = j.expired
            /\ Update(w, k)
        BY <1>1, <3>1 DEF Job
      <3>4. Sound(k)
        BY <1>1, <2>1, <3>3 DEF Sound, HandsKnown, Hands, RemovalClean, JobVetted, Vetted, Fits
      <3>5. Sound(k)'
        BY <2>1, <3>2, <3>4, SoundKept DEF Known
      <3> QED BY <2>1, <3>2, <3>3, <3>5, MoveSound DEF Known
    <2> QED BY <2>2, <2>3
  <1> QED BY <1>2, <1>3, <1>4, <1>5, <1>6, <1>7, <1>8, <1>9 DEF ForRequest

LEMMA PullSound ==
    ASSUME MigrationAssumption, Typed, Strong, NEW w \in Worker, Pull(w)
    PROVE  Strong'
  <1> DEFINE j == job[w]
  <1>1. j \in Job /\ Fits(j) /\ Sound(j) /\ j.items \in Seq(Item)
    BY TypedParts, JobParts DEF JobsTyped, JobsFit, Strong
  <1>2. CASE \E items \in Pulls : StartPull(w, items)
    BY <1>2, AcceptedSound
  <1>3. CASE PullNext(w)
    <2> PICK item : item = Head(j.items)
      OBVIOUS
    <2> PICK k : k = [j EXCEPT !.step = "transfer", !.blocks = <<item.hash>>,
                               !.source = item.source, !.target = item.target,
                               !.items = Tail(@)]
      OBVIOUS
    <2>1. /\ j.step = "next" /\ j.items # <<>> /\ Update(w, k)
          /\ UNCHANGED <<now, pending, recent, known, crossed, index>>
      BY <1>3 DEF PullNext, JobAt, tasks, blocks
    <2>2. /\ item \in Item /\ Tail(j.items) \in Seq(Item)
          /\ ToSet(j.items) = {item} \union ToSet(Tail(j.items))
      BY <1>1, <2>1, TailFacts
    <2>3. /\ <<item.hash>> \in Seq(MovedHash) /\ item.source \in DataServer
          /\ item.target \in DataServer /\ ToSet(<<item.hash>>) = {item.hash}
      BY <2>2 DEF Item, MigrationAssumption, ToSet
    <2>4. /\ k \in Job /\ k.step = "transfer" /\ k.kind = j.kind /\ k.blocks = <<item.hash>>
          /\ k.items = Tail(j.items) /\ k.expired = j.expired
      BY <1>1, <2>2, <2>3 DEF Job, Step
    <2>5. HandsKnown(k)
      <3>1. Hands(k) \subseteq { i.hash : i \in ToSet(j.items) }
        BY <2>2, <2>3, <2>4 DEF Hands
      <3>2. { i.hash : i \in ToSet(j.items) } \subseteq Hands(j)
        BY DEF Hands
      <3> QED BY <1>1, <3>1, <3>2 DEF Sound, HandsKnown
    <2>6. Sound(k)
      BY <1>1, <2>1, <2>4, <2>5 DEF Sound, RemovalClean, JobVetted, Fits
    <2>7. Sound(k)'
      BY <2>1, <2>4, <2>6, SoundKept DEF Known
    <2> QED BY <2>1, <2>4, <2>7, MoveSound DEF Known
  <1>4. CASE PullOver(w)
    <2> PICK k : k = [j EXCEPT !.step = "ready"]
      OBVIOUS
    <2>1. UNCHANGED <<now, pending, recent, known, crossed, index>> /\ Update(w, k)
      BY <1>4 DEF PullOver, GoTo, tasks, blocks
    <2>2. k \in Job /\ k.step = "ready"
      BY <1>1, OtherStep, StepNames
    <2> QED BY <2>1, <2>2, MoveSound DEF Known
  <1> QED BY <1>2, <1>3, <1>4 DEF Pull

(* What is left in hand after a block was in hand before it.               *)
LEMMA ProceedSound ==
    ASSUME NEW w \in Worker, job \in [Worker -> Job], Fits(job[w]), Sound(job[w]),
           NEW s \in {"list", "retract"}, NEW k \in Job, k = Proceed(w, s),
           s = "list" => job[w].step \in {"index", "record"},
           job[w].step \in {"index", "record", "retract", "drop"}
    PROVE  k.step # "ready" => Sound(k) /\ k.kind # "remove" /\ Hands(k) \subseteq Hands(job[w])
  <1> PICK j \in Job : j = job[w]
    OBVIOUS
  <1>1. /\ j.blocks \in Seq(MovedHash) /\ j.blocks # <<>> /\ Fits(j) /\ Sound(j)
        /\ Len(j.blocks) \in Nat \ {0}
    BY JobParts, TailFacts DEF Fits
  <1>2. /\ ToSet(Tail(j.blocks)) \subseteq ToSet(j.blocks)
        /\ Len(j.blocks) = 1 => Tail(j.blocks) = <<>>
        /\ ToSet(<<>>) = {}
    <2>1. ToSet(<<>>) = {}
      BY DEF ToSet
    <2> QED BY <1>1, <2>1, TailFacts
  <1>3. /\ k.step = IF Len(j.blocks) = 1 THEN Finish(w) ELSE s
        /\ k.blocks = Tail(j.blocks) /\ k.kind = j.kind
        /\ k.items = j.items /\ k.expired = j.expired
    BY <1>1, ProceedJob DEF Step
  <1>4. Finish(w) = IF j.kind = "pull" THEN "next" ELSE "ready"
    BY DEF Finish
  <1>5. /\ j.step \in {"index", "record", "retract", "drop"}
        /\ s = "list" => j.step \in {"index", "record"}
    OBVIOUS
  <1> SUFFICES ASSUME k.step # "ready"
               PROVE  Sound(k) /\ k.kind # "remove" /\ Hands(k) \subseteq Hands(j)
    OBVIOUS
  <1>6. j.kind # "remove"
    BY <1>1, <1>3, <1>4 DEF Fits
  <1>7. Hands(k) \subseteq Hands(j)
    <2>1. CASE Len(j.blocks) = 1
      <3>1. ToSet(k.blocks) = {}
        BY <1>2, <1>3, <2>1
      <3> QED BY <1>3, <3>1 DEF Hands
    <2>2. CASE Len(j.blocks) # 1
      <3>1. k.step = s
        BY <1>3, <2>2
      <3> QED BY <1>2, <1>3, <1>5, <3>1 DEF Hands
    <2> QED BY <2>1, <2>2
  <1>8. k.step \in {"next", "list", "retract"}
    BY <1>3, <1>4
  <1>9. Sound(k)
    BY <1>1, <1>3, <1>6, <1>7, <1>8 DEF Sound, HandsKnown, RemovalClean, JobVetted
  <1> QED BY <1>3, <1>6, <1>7, <1>9

LEMMA AnsweredSound ==
    ASSUME MigrationAssumption, Typed, Strong, NEW w \in Worker,
           NEW s \in {"list", "retract", Finish(w)}, Answered(w, s)
    PROVE  Strong'
  <1> DEFINE j == job[w]
  <1>1. j \in Job /\ Fits(j) /\ Sound(j) /\ now \in Nat
    BY TypedParts DEF TablesTyped, JobsTyped, JobsFit, Strong, MigrationAssumption
  <1> PICK k : k = [j EXCEPT !.step = s, !.answered = now]
    OBVIOUS
  <1>2. /\ j.step = "transfer" /\ UNCHANGED <<now, pending, recent, known, crossed, index>>
        /\ Update(w, k)
    BY DEF Answered, JobAt, tasks, blocks
  <1>3. /\ s \in Step /\ s \in {"list", "retract", "next", "ready"}
        /\ s = "next" <=> Finish(w) = "next" /\ s = Finish(w)
    BY DEF Finish, Step
  <1>4. /\ k \in Job /\ k.step = s /\ k.kind = j.kind /\ k.blocks = j.blocks
        /\ k.items = j.items /\ k.expired = j.expired
    BY <1>1, <1>3 DEF Job
  <1>5. k.kind # "remove"
    BY <1>1, <1>2, <1>4 DEF Fits
  <1>6. HandsKnown(k)
    BY <1>1, <1>2, <1>3, <1>4 DEF Sound, HandsKnown, Hands
  <1>7. Sound(k)
    BY <1>1, <1>3, <1>4, <1>5, <1>6 DEF Sound, RemovalClean, JobVetted
  <1>8. Sound(k)'
    BY <1>2, <1>4, <1>7, SoundKept DEF Known
  <1> QED BY <1>2, <1>4, <1>8, MoveSound DEF Known

LEMMA ListSound ==
    ASSUME MigrationAssumption, Typed, Strong, NEW w \in Worker, ListTarget(w)
    PROVE  Strong'
  <1> DEFINE j == job[w]
  <1>1. j \in Job /\ Fits(j) /\ Sound(j)
    BY TypedParts DEF JobsTyped, JobsFit, Strong
  <1> PICK k : k = [j EXCEPT !.step = "index"]
    OBVIOUS
  <1>2. /\ j.step = "list" /\ Update(w, k)
        /\ UNCHANGED <<now, pending, recent, known, crossed, index>>
    BY DEF ListTarget, JobAt, GoTo, tasks
  <1>3. /\ k \in Job /\ k.step = "index" /\ k.kind = j.kind /\ k.blocks = j.blocks
        /\ k.items = j.items /\ k.expired = j.expired
    BY <1>1, OtherStep, StepNames
  <1>4. Sound(k)
    BY <1>1, <1>2, <1>3 DEF Sound, HandsKnown, Hands, RemovalClean, JobVetted
  <1>5. Sound(k)'
    BY <1>2, <1>3, <1>4, SoundKept DEF Known
  <1> QED BY <1>2, <1>3, <1>5, MoveSound DEF Known

(* A block in hand is indexed: whoever is removing it is told.             *)
LEMMA IndexSound ==
    ASSUME MigrationAssumption, Typed, Strong, NEW w \in Worker, Index(w)
    PROVE  Strong'
  <1> PICK j : j = job[w]
    OBVIOUS
  <1> PICK h : h = Head(j.blocks)
    OBVIOUS
  <1>1. j \in Job /\ Fits(j) /\ Sound(j) /\ job \in [Worker -> Job]
    BY TypedParts DEF JobsTyped, JobsFit, Strong
  <1> DEFINE next == IF j.kind = "pull" THEN Proceed(w, "list") ELSE [j EXCEPT !.step = "record"]
  <1>2. /\ j.step = "index" /\ UNCHANGED <<now, pending, recent, known, crossed>>
        /\ index' = index \union {h}
        /\ job' = [v \in Worker |->
                     IF v = w THEN Settled(next)
                     ELSE [job[v] EXCEPT !.reindexed = @ \/ Removing(v, h)]]
    BY DEF Index, JobAt, tasks, Current
  <1>3. j.blocks # <<>> /\ j.kind # "remove"
    BY <1>1, <1>2 DEF Fits
  <1>4. h \in Hands(j)
    <2>1. h \in ToSet(j.blocks)
      BY <1>1, <1>3, JobParts, TailFacts
    <2> QED BY <1>2, <2>1 DEF Hands
  <1>5. PICK k \in Job : k = next /\ (k.step # "ready" => Sound(k) /\ k.kind # "remove")
    <2>1. CASE j.kind = "pull"
      <3>1. PICK m \in Job : m = Proceed(w, "list")
        BY <1>1, <1>3, ProceedJob DEF Step
      <3>2. m.step # "ready" => Sound(m) /\ m.kind # "remove"
        BY <1>1, <1>2, <3>1, ProceedSound
      <3> QED BY <2>1, <3>1, <3>2
    <2>2. CASE j.kind # "pull"
      <3> PICK m : m = [j EXCEPT !.step = "record"]
        OBVIOUS
      <3>1. /\ m \in Job /\ m.step = "record" /\ m.kind = j.kind /\ m.blocks = j.blocks
            /\ m.items = j.items /\ m.expired = j.expired
        BY <1>1, OtherStep, StepNames
      <3>2. Sound(m)
        BY <1>1, <1>2, <3>1 DEF Sound, HandsKnown, Hands, RemovalClean, JobVetted
      <3> QED BY <1>3, <2>2, <3>1, <3>2
    <2> QED BY <2>1, <2>2
  <1> HIDE DEF next
  <1>6. ASSUME NEW m \in Job, Sound(m), m.kind # "remove" PROVE Sound(m)'
    <2>1. HandsKnown(m)' /\ RemovalClean(m)'
      BY <1>2, <1>6 DEF Sound, HandsKnown, Hands, RemovalClean, Known
    <2>2. JobVetted(m)' /\ (\A r \in m.expired : Old(r))'
      BY <1>2, <1>6 DEF Sound, JobVetted, Vetted, CooledDown, Old, is_expired
    <2> QED BY <2>1, <2>2 DEF Sound
  <1>7. Sound(job[w])'
    <2>1. CASE k.step = "ready"
      <3> PICK m : m = NoJob
        OBVIOUS
      <3>1. job'[w] = m /\ m \in Job /\ m.kind # "remove"
        BY <1>2, <1>5, <2>1, ConstantFacts DEF Settled
      <3>2. ToSet(<<>>) = {}
        BY DEF ToSet
      <3>3. Sound(m)
        BY <3>2, ConstantFacts DEF Sound, HandsKnown, Hands, RemovalClean, JobVetted
      <3> QED BY <1>6, <3>1, <3>3, SameSound
    <2>2. CASE k.step # "ready"
      <3>1. job'[w] = k
        BY <1>2, <1>5, <2>2 DEF Settled
      <3> QED BY <1>5, <1>6, <2>2, <3>1, SameSound
    <2> QED BY <2>1, <2>2
  <1>8. ASSUME NEW v \in Worker, v # w PROVE Sound(job[v])'
    <2> PICK i \in Job : i = job[v]
      BY <1>1
    <2> PICK told \in BOOLEAN : told = (i.reindexed \/ Removing(v, h))
      BY <1>1, JobParts DEF Removing
    <2> PICK m : m = [i EXCEPT !.reindexed = told]
      OBVIOUS
    <2>1. job'[v] = m
      BY <1>2, <1>8
    <2>2. /\ m \in Job /\ m.step = i.step /\ m.kind = i.kind /\ m.blocks = i.blocks
          /\ m.items = i.items /\ m.expired = i.expired /\ m.outrun = i.outrun
          /\ m.reindexed = told
      BY DEF Job
    <2>3. Sound(i)
      BY DEF Strong
    <2>4. HandsKnown(m)' /\ JobVetted(m)' /\ (\A r \in m.expired : Old(r))'
      BY <1>2, <2>2, <2>3 DEF Sound, HandsKnown, Hands, Known, JobVetted, Vetted, CooledDown,
                              Old, is_expired
    <2>5. RemovalClean(m)'
      <3>1. ~told => ~i.reindexed /\ ~Removing(v, h)
        OBVIOUS
      <3>2. Removing(v, h) <=> /\ i.kind = "remove" /\ i.step \in {"retract", "drop"}
                               /\ Head(i.blocks) = h
        BY DEF Removing, Current
      <3> QED BY <1>2, <2>2, <2>3, <3>1, <3>2 DEF Sound, RemovalClean
    <2>6. Sound(m)'
      BY <2>4, <2>5 DEF Sound
    <2> QED BY <2>1, <2>6, SameSound
  <1>9. \A v \in Worker : Sound(job[v])'
    BY <1>7, <1>8
  <1>10. \A r \in Request : pending'[r] # NoTask => Vetted(pending[r])'
    BY <1>2 DEF Strong, Vetted, CooledDown
  <1>11. IndexedIsKnown'
    BY <1>1, <1>2, <1>4 DEF Strong, Sound, HandsKnown, Known, IndexedIsKnown
  <1> QED BY <1>9, <1>10, <1>11 DEF Strong

(* A migration is recorded: whoever has vetted the block is outrun.        *)
LEMMA RecordSound ==
    ASSUME MigrationAssumption, Typed, Strong, NEW w \in Worker, Record(w)
    PROVE  Strong'
  <1> PICK j : j = job[w]
    OBVIOUS
  <1> PICK h : h = Head(j.blocks)
    OBVIOUS
  <1>1. /\ j \in Job /\ Fits(j) /\ Sound(j) /\ job \in [Worker -> Job]
        /\ recent \in [MovedHash -> {Never} \union 0 .. now]
        /\ pending \in [Request -> PendingTask \union {NoTask}]
    BY TypedParts DEF TablesTyped, JobsTyped, JobsFit, Strong
  <1>2. /\ j.step = "record" /\ UNCHANGED <<now, known, crossed, index>>
        /\ recent' = [recent EXCEPT ![h] = j.answered]
        /\ job' = [v \in Worker |->
                     IF v = w THEN Settled(Proceed(w, "list")) ELSE Outrun(job[v], h)]
        /\ pending' = [r \in Request |-> IF pending[r] = NoTask THEN NoTask
                                         ELSE Outrun(pending[r], h)]
    BY DEF Record, JobAt, blocks, Current
  <1>3. j.blocks # <<>> /\ j.kind # "remove"
    BY <1>1, <1>2 DEF Fits
  <1>4. \A x \in MovedHash : x # h => CooledDown(x)' = CooledDown(x)
    BY <1>1, <1>2 DEF CooledDown
  <1>5. PICK k \in Job : /\ k = Proceed(w, "list")
                         /\ k.step # "ready" => Sound(k) /\ k.kind # "remove"
    <2>1. PICK m \in Job : m = Proceed(w, "list")
      BY <1>1, <1>3, ProceedJob DEF Step
    <2>2. m.step # "ready" => Sound(m) /\ m.kind # "remove"
      BY <1>1, <1>2, <2>1, ProceedSound
    <2> QED BY <2>1, <2>2
  <1>6. Sound(job[w])'
    <2>1. CASE k.step = "ready"
      <3> PICK m : m = NoJob
        OBVIOUS
      <3>1. job'[w] = m /\ NoJob' = NoJob
        BY <1>2, <1>5, <2>1 DEF Settled, NoJob
      <3>2. Sound(m)'
        BY <3>1, IdleSound DEF Sound, HandsKnown, Hands, RemovalClean, JobVetted, Vetted, Old,
                               CooledDown, is_expired, Known
      <3> QED BY <3>1, <3>2, SameSound
    <2>2. CASE k.step # "ready"
      <3>1. job'[w] = k
        BY <1>2, <1>5, <2>2 DEF Settled
      <3>2. k.step \in {"next", "list"}
        BY <1>1, <1>3, <1>5, <2>2, ProceedJob DEF Finish, Step
      <3>3. HandsKnown(k)' /\ RemovalClean(k)' /\ JobVetted(k)'
        BY <1>2, <1>5, <2>2, <3>2 DEF Sound, HandsKnown, Hands, Known, RemovalClean, JobVetted
      <3>4. ASSUME NEW r \in k.expired PROVE Old(r)'
        <4>1. r \in Request /\ Old(r)
          BY <1>5, <2>2, JobParts DEF Sound
        <4> QED BY <1>1, <1>2, <4>1 DEF Old, is_expired, Outrun, PendingTask
      <3>5. Sound(k)'
        BY <3>3, <3>4 DEF Sound
      <3> QED BY <3>1, <3>5, SameSound
    <2> QED BY <2>1, <2>2
  <1>7. ASSUME NEW v \in Worker, v # w PROVE Sound(job[v])'
    <2> PICK i \in Job : i = job[v]
      BY <1>1
    <2> PICK m : m = Outrun(i, h)
      OBVIOUS
    <2>1. job'[v] = m
      BY <1>2, <1>7
    <2>2. /\ m.step = i.step /\ m.kind = i.kind /\ m.blocks = i.blocks
          /\ m.items = i.items /\ m.expired = i.expired /\ m.reindexed = i.reindexed
          /\ m.outrun = IF h \in ToSet(i.blocks) THEN i.outrun \union {h} ELSE i.outrun
      BY DEF Job, Outrun
    <2>3. Sound(i) /\ i.expired \subseteq Request
      BY JobParts DEF Strong
    <2>4. HandsKnown(m)' /\ RemovalClean(m)'
      BY <1>2, <2>2, <2>3 DEF Sound, HandsKnown, Hands, Known, RemovalClean
    <2>5. JobVetted(m)'
      <3>1. ToSet(i.blocks) \subseteq MovedHash
        BY JobParts, ToSetType
      <3> QED BY <1>4, <2>2, <2>3, <3>1 DEF Sound, JobVetted, Vetted
    <2>6. ASSUME NEW r \in m.expired PROVE Old(r)'
      <3>1. r \in Request /\ Old(r)
        BY <2>2, <2>3 DEF Sound
      <3> QED BY <1>1, <1>2, <3>1 DEF Old, is_expired, Outrun, PendingTask
    <2>7. Sound(m)'
      BY <2>4, <2>5, <2>6 DEF Sound
    <2> QED BY <2>1, <2>7, SameSound
  <1>8. \A v \in Worker : Sound(job[v])'
    BY <1>6, <1>7
  <1>9. ASSUME NEW r \in Request, pending'[r] # NoTask PROVE Vetted(pending[r])'
    <2> PICK x : x = pending[r]
      OBVIOUS
    <2>1. x # NoTask /\ x \in PendingTask /\ Vetted(x) /\ pending'[r] = Outrun(x, h)
      BY <1>1, <1>2, <1>9 DEF Strong
    <2>2. /\ pending'[r].blocks = x.blocks
          /\ pending'[r].outrun = IF h \in ToSet(x.blocks) THEN x.outrun \union {h} ELSE x.outrun
      BY <2>1 DEF PendingTask, Outrun
    <2>3. ToSet(x.blocks) \subseteq MovedHash
      BY <2>1, ToSetType DEF PendingTask
    <2> QED BY <1>4, <2>1, <2>2, <2>3 DEF Vetted
  <1>10. IndexedIsKnown'
    BY <1>2 DEF Strong, IndexedIsKnown
  <1> QED BY <1>8, <1>9, <1>10 DEF Strong

LEMMA RetractSound ==
    ASSUME MigrationAssumption, Typed, Strong, NEW w \in Worker, Retract(w)
    PROVE  Strong'
  <1> DEFINE j == job[w]
             h == Current(w)
             dropping == h \in known /\ holders[h] \ {j.source} = {}
  <1>1. j \in Job /\ Fits(j) /\ Sound(j) /\ job \in [Worker -> Job]
    BY TypedParts DEF JobsTyped, JobsFit, Strong
  <1> PICK m : m = [j EXCEPT !.step = "drop"]
    OBVIOUS
  <1>2. /\ j.step = "retract" /\ UNCHANGED <<now, pending, recent, known, crossed, index>>
        /\ Update(w, IF dropping THEN m ELSE Proceed(w, "retract"))
    BY DEF Retract, JobAt, tasks
  <1>3. j.blocks # <<>>
    BY <1>1, <1>2 DEF Fits
  <1>4. CASE dropping
    <2>1. /\ m \in Job /\ m.step = "drop" /\ m.kind = j.kind /\ m.blocks = j.blocks
          /\ m.items = j.items /\ m.expired = j.expired /\ m.reindexed = j.reindexed
      BY <1>1, OtherStep, StepNames
    <2>2. Sound(m)
      BY <1>1, <1>2, <2>1 DEF Sound, HandsKnown, Hands, RemovalClean, JobVetted
    <2>3. Sound(m)'
      BY <1>2, <2>1, <2>2, SoundKept DEF Known
    <2> QED BY <1>2, <1>4, <2>1, <2>3, MoveSound DEF Known
  <1>5. CASE ~dropping
    <2>1. PICK k \in Job : k = Proceed(w, "retract")
      BY <1>1, <1>3, ProceedJob DEF Step
    <2>2. k.step # "ready" => Sound(k)
      BY <1>1, <1>2, <2>1, ProceedSound
    <2>3. k.step # "ready" => Sound(k)'
      BY <1>2, <2>2, SoundKept, JobParts DEF Known
    <2>4. Update(w, k)
      BY <1>2, <1>5, <2>1
    <2> QED BY <1>2, <2>3, <2>4, MoveSound DEF Known
  <1> QED BY <1>4, <1>5

(* A block is dropped: nobody has it in hand and it is not in the index,   *)
(* or it has crossed a migration.                                          *)
LEMMA DropSound ==
    ASSUME MigrationAssumption, Typed, Strong, NEW w \in Worker, Drop(w)
    PROVE  Strong'
  <1> PICK j : j = job[w]
    OBVIOUS
  <1> PICK h : h = Head(j.blocks)
    OBVIOUS
  <1>1. j \in Job /\ Fits(j) /\ Sound(j) /\ job \in [Worker -> Job]
    BY TypedParts DEF JobsTyped, JobsFit, Strong
  <1>2. /\ j.step = "drop" /\ UNCHANGED <<now, pending, recent, index>>
        /\ known' = known \ {h}
        /\ crossed' = IF Crosses(w, h) THEN crossed \union {h} ELSE crossed
        /\ Update(w, Proceed(w, "retract"))
    BY DEF Drop, JobAt, tasks, Current
  <1>3. j.blocks # <<>>
    BY <1>1, <1>2 DEF Fits
  <1>4. \A v \in Worker : InHand(v) = Hands(job[v])
    BY DEF InHand, Hands
  <1>5. \A v \in Worker : \A x \in Hands(job[v]) : x \in known' \union crossed'
    <2> TAKE v \in Worker
    <2> TAKE x \in Hands(job[v])
    <2>1. x \in known \union crossed
      BY DEF Strong, Sound, HandsKnown, Known
    <2>2. x = h => Crosses(w, h)
      BY <1>4 DEF Crosses
    <2> QED BY <1>2, <2>1, <2>2
  <1>6. IndexedIsKnown'
    <2>1. CASE Crosses(w, h)
      BY <1>2, <2>1 DEF Strong, IndexedIsKnown
    <2>2. CASE ~Crosses(w, h)
      <3>1. j.kind = "remove" /\ ~j.reindexed
        BY <1>1, <2>2 DEF Crosses
      <3>2. h \notin index
        BY <1>1, <1>2, <3>1 DEF Sound, RemovalClean
      <3> QED BY <1>2, <3>2 DEF Strong, IndexedIsKnown
    <2> QED BY <2>1, <2>2
  <1>7. PICK k \in Job : /\ k = Proceed(w, "retract")
                         /\ k.step # "ready" => Sound(k) /\ Hands(k) \subseteq Hands(j)
    <2>1. PICK k \in Job : k = Proceed(w, "retract")
      BY <1>1, <1>3, ProceedJob DEF Step
    <2>2. k.step # "ready" => Sound(k) /\ Hands(k) \subseteq Hands(j)
      BY <1>1, <1>2, <2>1, ProceedSound
    <2> QED BY <2>1, <2>2
  <1>8. /\ job'[w] = IF k.step = "ready" THEN NoJob ELSE k
        /\ \A v \in Worker \ {w} : job'[v] = job[v]
    BY <1>1, <1>2, <1>7, UpdateJob
  <1>9. Sound(job[w])'
    <2>1. CASE k.step = "ready"
      <3> PICK m : m = NoJob
        OBVIOUS
      <3>1. job'[w] = m /\ NoJob' = NoJob
        BY <1>8, <2>1 DEF NoJob
      <3>2. Sound(m)'
        BY <3>1, IdleSound DEF Sound, HandsKnown, Hands, RemovalClean, JobVetted, Vetted, Old,
                               CooledDown, is_expired, Known
      <3> QED BY <3>1, <3>2, SameSound
    <2>2. CASE k.step # "ready"
      <3>1. \A x \in Hands(k) : x \in known' \union crossed'
        BY <1>5, <1>7, <2>2
      <3>2. Sound(k)'
        BY <1>2, <1>7, <2>2, <3>1, SoundWhileKnown, JobParts
      <3> QED BY <1>8, <2>2, <3>2, SameSound
    <2> QED BY <2>1, <2>2
  <1>10. ASSUME NEW v \in Worker, v # w PROVE Sound(job[v])'
    <2> PICK i \in Job : i = job[v]
      BY <1>1
    <2>1. Sound(i) /\ \A x \in Hands(i) : x \in known' \union crossed'
      BY <1>5 DEF Strong
    <2>2. Sound(i)'
      BY <1>2, <2>1, SoundWhileKnown, JobParts
    <2> QED BY <1>8, <1>10, <2>2, SameSound
  <1>11. \A v \in Worker : Sound(job[v])'
    BY <1>9, <1>10
  <1>12. \A r \in Request : pending'[r] # NoTask => Vetted(pending[r])'
    BY <1>2 DEF Strong, Vetted, CooledDown
  <1> QED BY <1>6, <1>11, <1>12 DEF Strong

LEMMA RemovalSound ==
    ASSUME MigrationAssumption, Typed, Strong, NEW w \in Worker, Removal(w)
    PROVE  Strong'
  <1> DEFINE j == job[w]
  <1>1. CASE \E h \in MovedHash, s \in Local : RemoveKvMeta(w, h, s)
    BY <1>1, AcceptedSound
  <1>2. CASE Unindex(w)
    <2> PICK k : k = [j EXCEPT !.step = "retract"]
      OBVIOUS
    <2>1. /\ j.step = "unindex" /\ UNCHANGED <<now, pending, recent, known, crossed>>
          /\ index' = index \ {Head(j.blocks)} /\ Update(w, k)
      BY <1>2 DEF Unindex, Unindexed, JobAt, GoTo, tasks, Current
    <2>2. j \in Job /\ Fits(j) /\ Sound(j)
      BY TypedParts DEF JobsTyped, JobsFit, Strong
    <2>3. /\ k \in Job /\ k.step = "retract" /\ k.kind = j.kind /\ k.blocks = j.blocks
          /\ k.items = j.items /\ k.expired = j.expired
      BY <2>2, OtherStep, StepNames
    <2>4. HandsKnown(k)' /\ RemovalClean(k)'
      BY <2>1, <2>2, <2>3 DEF Sound, HandsKnown, Hands, Known, RemovalClean
    <2>5. JobVetted(k)' /\ (\A r \in k.expired : Old(r))'
      BY <2>1, <2>2, <2>3 DEF Sound, JobVetted, Old, is_expired
    <2>6. Sound(k)'
      BY <2>4, <2>5 DEF Sound
    <2> QED BY <2>1, <2>3, <2>6, MoveSound DEF Known
  <1> QED BY <1>1, <1>2 DEF Removal

LEMMA TickSound ==
    ASSUME MigrationAssumption, Typed, Strong, Tick
    PROVE  Strong'
  <1>1. /\ now' = now + 1 /\ UNCHANGED <<pending, recent, known, crossed, index, job>>
        /\ now \in Nat /\ Never \in Int /\ Ttl \in Nat /\ Cooldown \in Nat
        /\ recent \in [MovedHash -> {Never} \union 0 .. now]
        /\ pending \in [Request -> PendingTask \union {NoTask}] /\ job \in [Worker -> Job]
    <2>1. now' = now + 1 /\ UNCHANGED <<pending, recent, known, crossed, index, job>>
      BY DEF Tick, tasks, blocks
    <2>2. now \in Nat /\ Never \in Int /\ Ttl \in Nat /\ Cooldown \in Nat
      <3>1. now \in 0 .. MaxTime /\ MaxTime \in Nat
        BY TypedParts DEF TablesTyped, MigrationAssumption
      <3>2. Never \in Int /\ Ttl \in Nat /\ Cooldown \in Nat
        BY ConstantFacts DEF MigrationAssumption
      <3> QED BY <3>1, <3>2
    <2> QED BY <2>1, <2>2, TypedParts DEF TablesTyped, JobsTyped
  <1>2. \A h \in MovedHash : CooledDown(h) => CooledDown(h)'
    <2> TAKE h \in MovedHash
    <2>1. recent[h] \in Int /\ recent'[h] = recent[h]
      BY <1>1
    <2> QED BY <1>1, <2>1 DEF CooledDown
  <1>3. \A r \in Request : Old(r) => Old(r)'
    <2> TAKE r \in Request
    <2>1. pending[r] # NoTask => pending[r].created \in Int
      BY <1>1 DEF PendingTask
    <2> QED BY <1>1, <2>1 DEF Old, is_expired
  <1>4. ASSUME NEW v \in Worker PROVE Sound(job[v])'
    <2> PICK i \in Job : i = job[v]
      BY <1>1
    <2>1. Sound(i) /\ i.expired \subseteq Request /\ ToSet(i.blocks) \subseteq MovedHash
      BY JobParts, ToSetType DEF Strong
    <2>2. HandsKnown(i)' /\ RemovalClean(i)'
      BY <1>1, <2>1 DEF Sound, HandsKnown, Hands, Known, RemovalClean
    <2>3. JobVetted(i)' /\ (\A r \in i.expired : Old(r))'
      BY <1>2, <1>3, <2>1 DEF Sound, JobVetted, Vetted
    <2>4. Sound(i)'
      BY <2>2, <2>3 DEF Sound
    <2> QED BY <1>1, <2>4, SameSound
  <1>5. ASSUME NEW r \in Request, pending'[r] # NoTask PROVE Vetted(pending[r])'
    <2>1. pending[r] \in PendingTask /\ pending'[r] = pending[r]
      BY <1>1, <1>5
    <2>2. ToSet(pending[r].blocks) \subseteq MovedHash
      BY <2>1, ToSetType DEF PendingTask
    <2>3. Vetted(pending[r])
      BY <1>1, <1>5 DEF Strong
    <2> QED BY <1>2, <2>1, <2>2, <2>3 DEF Vetted
  <1>6. IndexedIsKnown'
    BY <1>1 DEF Strong, IndexedIsKnown
  <1> QED BY <1>4, <1>5, <1>6 DEF Strong

LEMMA NextSound ==
    ASSUME MigrationAssumption, Typed, Strong, [MigrationNext]_migrationVars
    PROVE  Strong'
  <1>1. CASE UNCHANGED migrationVars
    BY <1>1 DEF Strong, Sound, HandsKnown, Hands, Known, RemovalClean, JobVetted, Vetted, Old,
                CooledDown, is_expired, IndexedIsKnown, migrationVars, tasks, blocks
  <1>2. CASE Tick
    BY <1>2, TickSound
  <1>3. ASSUME NEW w \in Worker, Transfer(w) PROVE Strong'
    <2>1. TransferDone(w) \/ NotFound(w) \/ Failed(w) =>
             \E s \in {"list", "retract", Finish(w)} : Answered(w, s)
      BY DEF TransferDone, NotFound, Failed
    <2> QED BY <1>3, <2>1, AnsweredSound, ListSound, IndexSound, RecordSound, RetractSound,
               DropSound DEF Transfer
  <1>4. CASE \E w \in Worker : ForRequest(w) \/ Pull(w) \/ Transfer(w) \/ Removal(w)
    BY <1>3, <1>4, RequestSound, PullSound, RemovalSound
  <1> QED BY <1>1, <1>2, <1>4 DEF MigrationNext

LEMMA SoundAlways ==
    ASSUME MigrationAssumption
    PROVE  MigrationSpec => [](Typed /\ Strong)
  <1>1. MigrationInit => Typed /\ Strong
    BY InitTypes, InitSound
  <1>2. Typed /\ Strong /\ [MigrationNext]_migrationVars => Typed' /\ Strong'
    BY NextTypes, NextSound
  <1> QED BY <1>1, <1>2, PTL DEF MigrationSpec

(* An indexed block is in the table, unless its drop crossed a migration   *)
(* or the source had reported it missing.                                  *)
THEOREM IndexIsKnown ==
    ASSUME MigrationAssumption
    PROVE  MigrationSpec => []IndexedIsKnown
  <1>1. Strong => IndexedIsKnown
    BY DEF Strong
  <1> QED BY <1>1, SoundAlways, PTL

(* Within its cooldown a block is migrated for a request again only when   *)
(* the request was vetted before the last migration had been recorded.     *)
THEOREM CooldownHolds ==
    ASSUME MigrationAssumption
    PROVE  MigrationSpec => []RepeatedOnlyWhenOutrun
  <1>1. ASSUME Typed, Strong PROVE RepeatedOnlyWhenOutrun
    <2> SUFFICES ASSUME NEW w \in Worker, job[w].step = "transfer", job[w].kind = "request",
                        NEW h \in ToSet(job[w].blocks)
                 PROVE  now >= recent[h] + Cooldown \/ h \in job[w].outrun
      BY DEF RepeatedOnlyWhenOutrun, JobAt
    <2>1. CooledDown(h) \/ h \in job[w].outrun
      BY <1>1 DEF Strong, Sound, JobVetted, Vetted
    <2>2. h \in MovedHash
      BY <1>1, TypedParts, JobParts, ToSetType DEF JobsTyped
    <2>3. recent[h] \in Int /\ now \in Int /\ Cooldown \in Int
      <3>1. recent \in [MovedHash -> {Never} \union 0 .. now] /\ now \in 0 .. MaxTime
        BY <1>1, TypedParts DEF TablesTyped
      <3>2. Never \in Int /\ Cooldown \in Nat /\ MaxTime \in Nat
        BY ConstantFacts DEF MigrationAssumption
      <3>3. recent[h] = Never \/ recent[h] \in 0 .. now
        BY <2>2, <3>1
      <3> QED BY <3>1, <3>2, <3>3
    <2> QED BY <2>1, <2>3 DEF CooledDown
  <1> QED BY <1>1, SoundAlways, PTL

(* A cleanup takes a task that is not too old only when it had collected   *)
(* the id before the task was queued.                                      *)
THEOREM CleanupIsDue ==
    ASSUME MigrationAssumption
    PROVE  MigrationSpec => CleanupSparesTheFresh
  <1>1. ASSUME Typed, Strong, [MigrationNext]_migrationVars PROVE [CleanupSpares]_migrationVars
    <2> SUFFICES ASSUME NEW w \in Worker, NEW r \in Request, r \in job[w].expired,
                        pending[r] # NoTask
                 PROVE  now > pending[r].created + Ttl \/ pending[r].overtaken
      BY DEF CleanupSpares
    <2>1. is_expired(pending[r]) \/ pending[r].overtaken
      BY <1>1 DEF Strong, Sound, Old
    <2>2. pending[r].created \in Int /\ now \in Int /\ Ttl \in Int
      BY <1>1, TypedParts DEF TablesTyped, PendingTask, MigrationAssumption
    <2> QED BY <2>1, <2>2 DEF is_expired
  <1>2. Typed /\ Strong /\ [MigrationNext]_migrationVars => [CleanupSpares]_migrationVars
    BY <1>1
  <1> QED BY <1>2, SoundAlways, PTL DEF MigrationSpec, CleanupSparesTheFresh

-----------------------------------------------------------------------------
(* The scan for a target.                                                  *)

(* From any start, the ring comes to every candidate.                      *)
LEMMA RingCovers ==
    ASSUME NEW S, NEW c \in Seq(S), NEW start \in 0 .. Len(c) - 1, NEW s \in ToSet(c)
    PROVE  \E i \in DOMAIN RingFrom(start, c) : RingFrom(start, c)[i] = s
  <1> DEFINE L == Len(c)
  <1>1. L \in Nat /\ DOMAIN c = 1 .. L /\ DOMAIN RingFrom(start, c) = 1 .. L
    BY LenProperties DEF RingFrom
  <1>2. PICK k \in 1 .. L : c[k] = s
    BY <1>1 DEF ToSet
  <1> PICK i : i = IF start < k THEN k - start ELSE k - start + L
    OBVIOUS
  <1>3. i \in 1 .. L /\ start + i - 1 \in {k - 1, (k - 1) + L} /\ k - 1 \in 0 .. L - 1
    BY <1>1, <1>2
  <1>4. \A x \in 0 .. L - 1 : x % L = x /\ (x + L) % L = x
    <2> HIDE DEF L
    <2> QED BY <1>1
  <1>5. (start + i - 1) % L = k - 1
    <2> HIDE DEF L
    <2> QED BY <1>3, <1>4
  <1>6. RingFrom(start, c)[i] = c[((start + i - 1) % L) + 1]
    BY <1>1, <1>3 DEF RingFrom
  <1>7. RingFrom(start, c)[i] = s
    <2>1. (k - 1) + 1 = k
      BY <1>2
    <2> QED BY <1>2, <1>5, <1>6, <2>1
  <1>8. i \in DOMAIN RingFrom(start, c)
    BY <1>1, <1>3
  <1> QED BY <1>7, <1>8

LEMMA CandidatesAre ==
    ASSUME MigrationAssumption, NEW w \in Worker
    PROVE  /\ Candidates(w) \in Seq(DataServer)
           /\ ToSet(Candidates(w)) = DataServer \ {job[w].source}
  BY ConstantFacts, OnlyPicks DEF Candidates, DataServer

(* A worker moves no other to another step, and leaves the step "choose"   *)
(* only by Choose.                                                         *)
LEMMA ChooseLeaves ==
    ASSUME MigrationAssumption, Typed, [MigrationNext]_migrationVars,
           NEW w \in Worker, job[w].step = "choose", job'[w].step # "choose"
    PROVE  Choose(w)
  <1>1. job \in [Worker -> Job] /\ \A v \in Worker : job[v] \in Job
    BY TypedParts DEF JobsTyped
  <1>2. PICK v \in Worker : ForRequest(v) \/ Pull(v) \/ Transfer(v) \/ Removal(v)
    BY DEF MigrationNext, Tick, migrationVars
  <1>3. v = w
    <2> SUFFICES ASSUME v # w PROVE FALSE
      OBVIOUS
    <2>1. ASSUME NEW j, Update(v, j) PROVE FALSE
      BY <1>1, <2>1 DEF Update
    <2>2. ASSUME NEW j, Accept(v, j) PROVE FALSE
      BY <2>1, <2>2 DEF Accept
    <2>3. ~ForRequest(v)
      <3>1. ASSUME NEW r \in Request PROVE ~NewRequest(v, r) /\ ~RequestEnd(v, r)
        BY <2>2 DEF NewRequest, RequestEnd, Cleanup
      <3>2. ASSUME NEW r \in Request PROVE ~RemoveExpired(v, r)
        BY <1>1 DEF RemoveExpired
      <3>3. ASSUME NEW held PROVE ~Filter(v, held)
        BY <2>1 DEF Filter
      <3>4. ~Queue(v) /\ ~Spawn(v) /\ ~Plan(v)
        BY <2>1 DEF Queue, Spawn, Plan, GoTo
      <3>5. ~Pop(v)
        BY <2>1 DEF Pop, GoTo
      <3>6. ~Choose(v)
        BY <2>1 DEF Choose, GoTo
      <3> QED BY <3>1, <3>2, <3>3, <3>4, <3>5, <3>6 DEF ForRequest
    <2>4. ~Pull(v)
      BY <2>1, <2>2 DEF Pull, StartPull, PullNext, PullOver, GoTo
    <2>5. ~Transfer(v)
      <3>1. ~TransferDone(v) /\ ~NotFound(v) /\ ~Failed(v) /\ ~ListTarget(v)
        BY <2>1 DEF TransferDone, NotFound, Failed, Answered, ListTarget, GoTo
      <3>2. ~Retract(v)
        BY <2>1 DEF Retract
      <3>3. ~Drop(v)
        BY <2>1 DEF Drop
      <3>4. ~Index(v)
        BY <1>1 DEF Index, Job
      <3>5. ~Record(v)
        BY <1>1 DEF Record, Outrun, Job
      <3> QED BY <3>1, <3>2, <3>3, <3>4, <3>5 DEF Transfer
    <2>6. ~Removal(v)
      BY <2>1, <2>2 DEF Removal, RemoveKvMeta, Unindex, GoTo
    <2> QED BY <1>2, <2>3, <2>4, <2>5, <2>6
  <1>4. ~Pull(w)
    BY DEF Pull, StartPull, Accept, PullNext, PullOver, JobAt
  <1>5. ~Transfer(w)
    BY DEF Transfer, TransferDone, NotFound, Failed, Answered, ListTarget, Index, Record, Retract,
           Drop, JobAt
  <1>6. ~Removal(w)
    BY DEF Removal, RemoveKvMeta, Accept, Unindex, JobAt
  <1>7. ASSUME NEW r \in Request PROVE ~NewRequest(w, r) /\ ~RequestEnd(w, r)
    BY DEF NewRequest, RequestEnd, Cleanup, Accept, JobAt
  <1>8. ASSUME NEW r \in Request PROVE ~RemoveExpired(w, r)
    BY <1>1 DEF RemoveExpired, Job
  <1>9. (\A held : ~Filter(w, held)) /\ ~Queue(w) /\ ~Pop(w) /\ ~Spawn(w) /\ ~Plan(w)
    BY DEF Filter, Queue, Pop, Spawn, Plan, JobAt
  <1> QED BY <1>2, <1>3, <1>4, <1>5, <1>6, <1>7, <1>8, <1>9 DEF ForRequest

(* A migration finds no target only if every other data server already has *)
(* all of its blocks.                                                      *)
THEOREM NobodyIsPassedOver ==
    ASSUME MigrationAssumption
    PROVE  MigrationSpec => NobodyPassedOver
  <1>1. ASSUME Typed, [MigrationNext]_migrationVars PROVE [PassesNobody]_migrationVars
    <2> SUFFICES ASSUME NEW w \in Worker, job[w].step = "choose", job'[w].step = "ready",
                        NEW s \in DataServer \ {job[w].source}
                 PROVE  ~Lacks(s, job[w].blocks)
      BY DEF PassesNobody, JobAt
    <2>1. Choose(w)
      BY <1>1, ChooseLeaves
    <2> DEFINE c == Candidates(w)
               start == rr % Len(c)
               ring == RingFrom(start, c)
               lacking == { i \in DOMAIN ring : Lacks(ring[i], job[w].blocks) }
    <2>2. lacking = {}
      <3> SUFFICES ASSUME NEW i \in lacking,
                          Update(w, [job[w] EXCEPT !.step = "transfer", !.target = ring[i]])
                   PROVE  FALSE
        BY <2>1 DEF Choose
      <3>1. job \in [Worker -> Job] /\ job[w] \in Job
        BY <1>1, TypedParts DEF JobsTyped
      <3> HIDE DEF ring
      <3> PICK k : k = [job[w] EXCEPT !.step = "transfer", !.target = ring[i]]
        OBVIOUS
      <3>2. k.step = "transfer"
        BY <3>1 DEF Job
      <3>3. job'[w] = k
        BY <3>1, <3>2 DEF Update, Settled
      <3> QED BY <3>2, <3>3
    <2>3. c \in Seq(DataServer) /\ s \in ToSet(c)
      BY CandidatesAre
    <2>4. Len(c) \in Nat /\ Len(c) # 0
      BY <2>3, LenProperties DEF ToSet
    <2>5. start \in 0 .. Len(c) - 1
      <3>1. rr \in Nat
        BY <1>1, TypedParts DEF TablesTyped
      <3> HIDE DEF c
      <3> QED BY <2>4, <3>1
    <2>6. PICK i \in DOMAIN ring : ring[i] = s
      <3> HIDE DEF start, c
      <3> QED BY <2>3, <2>5, RingCovers
    <2> HIDE DEF ring
    <2> QED BY <2>2, <2>6
  <1>2. Typed /\ [MigrationNext]_migrationVars => [PassesNobody]_migrationVars
    BY <1>1
  <1> QED BY <1>2, SoundAlways, PTL DEF MigrationSpec, NobodyPassedOver
=============================================================================
