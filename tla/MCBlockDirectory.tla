-------------------------- MODULE MCBlockDirectory --------------------------
(* Small instances of BlockDirectory for TLC.                              *)
EXTENDS BlockDirectory, TLC

CONSTANTS A, B, s1, s2, p1, m1, m2, t1, t2, t3

(* B extends the token sequence that A is the only block of.               *)
MCChains == {<<A>>, <<A, B>>}
OneBlockChain == {<<A>>}

MCBatches == {<<A>>, <<B>>}
OneBlockBatch == {<<A>>}

(* Tasks are interchangeable (the runs that use this check no liveness).   *)
Symmetry == Permutations(Task)

OneShard == [h \in Hash |-> 0]
TwoShards == [h \in Hash |-> IF h = A THEN 0 ELSE 1]

Received(kind, h, s, nexts) == [kind |-> kind, hash |-> h, srv |-> s, next |-> nexts]

NoUpdates == {}
NoBatches == {}

(* What a peer sends: a new block, its counts and its replica operations,  *)
(* about its own server and about one of this domain's, and a deletion     *)
(* that names the peer itself.                                             *)
MCUpdates ==
    { <<Received("meta", A, p1, {}), Received("ref", A, p1, {})>>,
      <<Received("add", A, p1, {})>>,
      <<Received("add", A, s1, {})>>,
      <<Received("del", A, p1, {})>>,
      <<Received("del", A, s1, {})>>,
      <<Received("del", A, m2, {})>> }
=============================================================================
