-------------------------------- MODULE Kept --------------------------------
(***************************************************************************)
(* What is left of a queue when only some of its positions are kept: the   *)
(* toggles that cancel() leaves, the promise jobs that have not been taken,*)
(* the tweens that are split.                                              *)
(***************************************************************************)
EXTENDS Naturals, Sequences, FiniteSets

(* Nth(K, n) is the n-th smallest member of K, and Keep(s, K) the items of *)
(* s at the positions in K, in order.                                      *)
Rank(K, k) == Cardinality({j \in K : j <= k})
Nth(K, n) == CHOOSE k \in K : Rank(K, k) = n
Keep(s, K) == [n \in 1..Cardinality(K) |-> s[Nth(K, n)]]

=============================================================================
