------------------------- MODULE MCActiveSequences -------------------------
(* Small instances of ActiveSequences for TLC.                             *)
EXTENDS ActiveSequences, TLC

CONSTANTS r1, r2, A, B, c1, c2, c3, c4

(* r2's prompt extends r1's.                                               *)
MCTokens == [r \in Request |-> IF r = r1 THEN <<A>> ELSE <<A, B>>]

(* An empty prompt, and one of two blocks.                                 *)
EmptyOrTwo == [r \in Request |-> IF r = r1 THEN <<>> ELSE <<A, B>>]

(* Two requests for the same block.                                       *)
OneBlockTokens == [r \in Request |-> <<A>>]

(* Calls are interchangeable (runs that check no liveness).                *)
Symmetry == Permutations(Call)
=============================================================================
