---------------------------- MODULE Lists_proofs ----------------------------
(***************************************************************************)
(* Arrays, queues and stacks, as the proofs about several components use   *)
(* them: what is left of a queue when positions are kept (Keep), an array  *)
(* without one of its elements, and the ends of a stack.                   *)
(***************************************************************************)
EXTENDS Kept, Integers, SequencesExt, FiniteSetTheorems, FunctionTheorems, SequenceTheorems, TLAPS

(* A set of positions is finite and is counted by a natural number.        *)
LEMMA PositionsFinite ==
    ASSUME NEW n \in Nat, NEW K \in SUBSET (1..n)
    PROVE  IsFiniteSet(K) /\ Cardinality(K) \in Nat
<1>1. IsFiniteSet(1..n)
    BY FS_Interval
<1>2. IsFiniteSet(K)
    BY <1>1, FS_Subset
<1> QED
    BY <1>2, FS_CardinalityType

(* The rank of a member of K is a position of Keep.                        *)
LEMMA RankBounds ==
    ASSUME NEW n \in Nat, NEW K \in SUBSET (1..n), NEW k \in K
    PROVE  Rank(K, k) \in 1..Cardinality(K)
<1> DEFINE B == {j \in K : j <= k}
<1>1. IsFiniteSet(K) /\ Cardinality(K) \in Nat
    BY PositionsFinite
<1>2. B \in SUBSET K /\ k \in B
    OBVIOUS
<1>3. IsFiniteSet(B) /\ Cardinality(B) <= Cardinality(K)
    BY <1>1, <1>2, FS_Subset
<1>4. Cardinality(B) \in Nat /\ Cardinality(B) # 0
    BY <1>2, <1>3, FS_CardinalityType, FS_EmptySet
<1> QED
    BY <1>1, <1>3, <1>4 DEF Rank

(* Different members of K have different ranks.                            *)
LEMMA RankInjective ==
    ASSUME NEW n \in Nat, NEW K \in SUBSET (1..n), NEW k \in K, NEW l \in K, k < l
    PROVE  Rank(K, k) # Rank(K, l)
<1> DEFINE A == {j \in K : j <= k}
           B == {j \in K : j <= l}
<1>1. A \in SUBSET B /\ l \in B /\ l \notin A
    <2>1. \A j \in K : j \in Nat
        OBVIOUS
    <2>2. l <= l /\ ~(l <= k)
        BY <2>1
    <2>3. \A j \in K : j <= k => j <= l
        BY <2>1
    <2> QED
        BY <2>2, <2>3
<1>2. IsFiniteSet(B)
    <2>1. IsFiniteSet(K) /\ B \in SUBSET K
        BY PositionsFinite
    <2> QED
        BY <2>1, FS_Subset
<1>3. Cardinality(A) # Cardinality(B)
    <2>1. A # B
        BY <1>1
    <2> HIDE DEF A, B
    <2> QED
        BY <1>1, <1>2, <2>1, FS_Subset
<1> QED
    BY <1>3 DEF Rank

(* Nth is defined: every position of Keep is the rank of a member of K.    *)
LEMMA NthMember ==
    ASSUME NEW n \in Nat, NEW K \in SUBSET (1..n), NEW i \in 1..Cardinality(K)
    PROVE  Nth(K, i) \in K /\ Rank(K, Nth(K, i)) = i
<1> DEFINE C == Cardinality(K)
           f == [k \in K |-> Rank(K, k)]
<1>1. IsFiniteSet(K) /\ C \in Nat
    BY PositionsFinite
<1>2. f \in [K -> 1..C]
    BY RankBounds
<1>3. \A k, l \in K : k # l => f[k] # f[l]
    <2> SUFFICES ASSUME NEW k \in K, NEW l \in K, k # l
                 PROVE  f[k] # f[l]
        OBVIOUS
    <2>1. CASE k < l
        BY <2>1, RankInjective
    <2>2. CASE l < k
        BY <2>2, RankInjective
    <2> QED
        BY <2>1, <2>2
<1>4. f \in Injection(K, 1..C)
    BY <1>2, <1>3 DEF Injection, IsInjective
<1>5. IsFiniteSet(1..C) /\ Cardinality(1..C) = C
    BY <1>1, FS_Interval
<1>6. f \in Surjection(K, 1..C)
    <2> HIDE DEF f
    <2> QED
        BY <1>4, <1>5, FS_Injection
<1>7. \E k \in K : f[k] = i
    BY <1>6 DEF Surjection
<1>8. \E k \in K : Rank(K, k) = i
    BY <1>7
<1> QED
    BY <1>8 DEF Nth

(* Keep returns items of the queue it was given, in the order of their     *)
(* positions: its n-th item is the one at the n-th kept position.          *)
LEMMA KeepItems ==
    ASSUME NEW S, NEW s \in Seq(S), NEW K \in SUBSET (1..Len(s))
    PROVE  /\ Keep(s, K) \in Seq(S)
           /\ Len(Keep(s, K)) = Cardinality(K)
           /\ \A n \in 1..Cardinality(K) : Nth(K, n) \in K /\ Keep(s, K)[n] = s[Nth(K, n)]
<1> DEFINE C == Cardinality(K)
<1>1. Len(s) \in Nat /\ \A k \in K : s[k] \in S
    BY ElementOfSeq, LenProperties
<1>2. C \in Nat
    BY <1>1, PositionsFinite
<1>3. \A n \in 1..C : Nth(K, n) \in K
    BY <1>1, NthMember
<1>4. \A n \in 1..C : s[Nth(K, n)] \in S
    BY <1>1, <1>3
<1>5. Keep(s, K) \in Seq(S)
    <2> HIDE DEF C
    <2>1. [n \in 1..C |-> s[Nth(K, n)]] \in Seq(S)
        BY <1>2, <1>4, IsASeq
    <2> QED
        BY <2>1 DEF Keep, C
<1>6. Len(Keep(s, K)) = C
    BY <1>2, <1>5, LenProperties DEF Keep
<1> QED
    BY <1>3, <1>5, <1>6 DEF Keep

(* Every item that Keep returns is an item of the sequence.                *)
LEMMA KeepSound ==
    ASSUME NEW S, NEW s \in Seq(S), NEW K \in SUBSET (1..Len(s)),
           NEW n \in 1..Len(Keep(s, K))
    PROVE  \E k \in K : Keep(s, K)[n] = s[k]
BY KeepItems

(* Every kept position has its item in what Keep returns.                  *)
LEMMA KeepComplete ==
    ASSUME NEW S, NEW s \in Seq(S), NEW K \in SUBSET (1..Len(s)), NEW k \in K
    PROVE  \E n \in 1..Len(Keep(s, K)) : Keep(s, K)[n] = s[k]
<1> DEFINE n == Rank(K, k)
<1>1. Len(s) \in Nat
    BY LenProperties
<1>2. n \in 1..Cardinality(K)
    BY <1>1, RankBounds
<1>3. Nth(K, n) \in K /\ Rank(K, Nth(K, n)) = n
    BY <1>1, <1>2, NthMember
<1>4. Nth(K, n) = k
    <2>1. \A l \in K : l # k => Rank(K, l) # n
        <3> SUFFICES ASSUME NEW l \in K, l # k
                     PROVE  Rank(K, l) # Rank(K, k)
            OBVIOUS
        <3>1. CASE k < l
            BY <1>1, <3>1, RankInjective
        <3>2. CASE l < k
            BY <1>1, <3>2, RankInjective
        <3> QED
            BY <1>1, <3>1, <3>2
    <2> QED
        BY <1>3, <2>1
<1>5. n \in 1..Len(Keep(s, K)) /\ Keep(s, K)[n] = s[k]
    BY <1>2, <1>4, KeepItems
<1> QED
    BY <1>5

(* A set of positions that is not empty has a first one.                   *)
LEMMA FirstPosition ==
    ASSUME NEW n \in Nat, NEW K \in SUBSET (1..n), K # {}
    PROVE  Nth(K, 1) \in K
<1>1. IsFiniteSet(K) /\ Cardinality(K) \in Nat
    BY PositionsFinite
<1>2. Cardinality(K) # 0
    BY <1>1, FS_EmptySet
<1> QED
    BY <1>1, <1>2, NthMember

(* The tail of a sequence has its items, each one position further down.   *)
LEMMA TailShifts ==
    ASSUME NEW S, NEW s \in Seq(S), s # << >>
    PROVE  /\ Tail(s) \in Seq(S) /\ Len(Tail(s)) = Len(s) - 1
           /\ Len(s) \in Nat \ {0} /\ Head(s) = s[1]
           /\ \A k \in 1..Len(Tail(s)) :
                  k + 1 \in 1..Len(s) /\ k + 1 # 1 /\ Tail(s)[k] = s[k + 1]
           /\ \A k \in 1..Len(s) :
                  k # 1 => k - 1 \in 1..Len(Tail(s)) /\ Tail(s)[k - 1] = s[k]
<1> DEFINE t == Tail(s)
           n == Len(s)
<1>1. /\ t \in Seq(S) /\ Len(t) = n - 1 /\ n \in Nat \ {0}
      /\ Head(s) = s[1]
      /\ \A k \in 1..Len(t) : t[k] = s[k + 1]
    BY HeadTailProperties, EmptySeq, LenProperties
<1> HIDE DEF t, n
<1>2. \A k \in 1..Len(t) : k + 1 \in 1..n /\ k + 1 # 1 /\ t[k] = s[k + 1]
    BY <1>1
<1>3. \A k \in 1..n : k # 1 => k - 1 \in 1..Len(t) /\ t[k - 1] = s[k]
    <2> SUFFICES ASSUME NEW k \in 1..n, k # 1
                 PROVE  k - 1 \in 1..Len(t) /\ t[k - 1] = s[k]
        OBVIOUS
    <2>1. k - 1 \in 1..Len(t) /\ (k - 1) + 1 = k
        BY <1>1
    <2> QED
        BY <1>1, <2>1
<1> QED
    BY <1>1, <1>2, <1>3 DEF t, n

(* An array without one of its elements.                                    *)
LEMMA RemoveAtElements ==
    ASSUME NEW S, NEW s \in Seq(S), NEW p \in 1..Len(s)
    PROVE  /\ RemoveAt(s, p) \in Seq(S)
           /\ Len(RemoveAt(s, p)) = Len(s) - 1
           /\ \A i \in 1..Len(s) - 1 : RemoveAt(s, p)[i] = IF i < p THEN s[i] ELSE s[i + 1]
<1>1. Len(s) \in Nat /\ s \in [1..Len(s) -> S] /\ p \in Int /\ 1 <= p /\ p <= Len(s)
    BY LenProperties
<1> DEFINE a == SubSeq(s, 1, p - 1)
           b == SubSeq(s, p + 1, Len(s))
<1>2. /\ a \in Seq(S)
      /\ Len(a) = p - 1
      /\ \A i \in 1..p - 1 : a[i] = s[i]
    BY <1>1
<1>3. /\ b \in Seq(S)
      /\ Len(b) = Len(s) - p
      /\ \A i \in 1..Len(s) - p : b[i] = s[p + i]
    <2>1. p + 1 \in Int /\ Len(s) \in Int /\ \A i \in p + 1..Len(s) : s[i] \in S
        BY <1>1
    <2>2. /\ b \in Seq(S)
          /\ Len(b) = IF p + 1 <= Len(s) THEN Len(s) - (p + 1) + 1 ELSE 0
          /\ \A i \in 1..Len(s) - (p + 1) + 1 : b[i] = s[(p + 1) + i - 1]
        BY <2>1, SubSeqProperties
    <2> HIDE DEF b
    <2>3. \A i \in 1..Len(s) - p : i \in 1..Len(s) - (p + 1) + 1 /\ (p + 1) + i - 1 = p + i
        BY <1>1
    <2>4. \A i \in 1..Len(s) - p : b[i] = s[p + i]
        BY <2>2, <2>3
    <2>5. Len(b) = Len(s) - p
        <3> DEFINE l == Len(s)
        <3>1. l \in Int /\ p \in Int /\ p <= l
            BY <1>1
        <3>2. Len(b) = IF p + 1 <= l THEN l - (p + 1) + 1 ELSE 0
            BY <2>2
        <3> HIDE DEF l
        <3>3. (IF p + 1 <= l THEN l - (p + 1) + 1 ELSE 0) = l - p
            BY <3>1
        <3> QED
            BY <3>2, <3>3 DEF l
    <2> QED
        BY <2>2, <2>4, <2>5
<1> HIDE DEF a, b
<1>4. /\ a \o b \in Seq(S)
      /\ Len(a \o b) = Len(s) - 1
      /\ \A i \in 1..Len(s) - 1 : (a \o b)[i] = IF i <= Len(a) THEN a[i] ELSE b[i - Len(a)]
    <2>1. /\ a \o b \in Seq(S)
          /\ Len(a \o b) = Len(a) + Len(b)
          /\ \A i \in 1..Len(a) + Len(b) : (a \o b)[i] =
                IF i <= Len(a) THEN a[i] ELSE b[i - Len(a)]
        BY <1>2, <1>3, ConcatProperties
    <2>2. Len(a) + Len(b) = Len(s) - 1
        BY <1>1, <1>2, <1>3
    <2> QED
        BY <2>1, <2>2
<1>5. \A i \in 1..Len(s) - 1 : (a \o b)[i] = IF i < p THEN s[i] ELSE s[i + 1]
    <2> SUFFICES ASSUME NEW i \in 1..Len(s) - 1
                 PROVE  (a \o b)[i] = IF i < p THEN s[i] ELSE s[i + 1]
        OBVIOUS
    <2>1. CASE i < p
        BY <1>1, <1>2, <1>4, <2>1
    <2>2. CASE ~(i < p)
        <3>1. i - Len(a) \in 1..Len(s) - p /\ p + (i - Len(a)) = i + 1 /\ ~(i <= Len(a))
            BY <1>1, <1>2, <2>2
        <3> QED
            BY <1>3, <1>4, <2>2, <3>1
    <2> QED
        BY <2>1, <2>2
<1> QED
    BY <1>4, <1>5 DEF RemoveAt, a, b

(* Sequences.                                                               *)
LEMMA Pushed ==
    ASSUME NEW S, NEW s \in Seq(S), NEW x \in S
    PROVE  /\ Append(s, x) \in Seq(S)
           /\ Len(s) \in Nat
           /\ Len(Append(s, x)) = Len(s) + 1
           /\ \A d \in 1..Len(s) : Append(s, x)[d] = s[d] /\ s[d] \in S
           /\ Append(s, x)[Len(s) + 1] = x
           /\ Append(s, x) # << >>
           /\ Last(Append(s, x)) = x
<1>1. /\ Append(s, x) \in Seq(S)
      /\ Len(s) \in Nat
      /\ Len(Append(s, x)) = Len(s) + 1
      /\ \A d \in 1..Len(s) : Append(s, x)[d] = s[d] /\ s[d] \in S
      /\ Append(s, x)[Len(s) + 1] = x
    BY AppendProperties, LenProperties
<1> QED
    BY <1>1, EmptySeq DEF Last

LEMMA Popped ==
    ASSUME NEW S, NEW s \in Seq(S), s # << >>
    PROVE  /\ Front(s) \in Seq(S)
           /\ Len(s) \in Nat \ {0}
           /\ Len(Front(s)) = Len(s) - 1
           /\ \A d \in 1..Len(s) - 1 : Front(s)[d] = s[d]
           /\ Last(s) = s[Len(s)]
           /\ Last(s) \in S
<1>1. Len(s) \in Nat \ {0} /\ s \in [1..Len(s) -> S]
    BY EmptySeq, LenProperties
<1> QED
    BY <1>1 DEF Front, Last

(* A function on the positions of an array is an array of the same length.  *)
LEMMA SameLength ==
    ASSUME NEW S, NEW n \in Nat, NEW f \in [1..n -> S]
    PROVE  f \in Seq(S) /\ Len(f) = n
<1>1. f \in Seq(S)
    BY SeqDef
<1>2. Len(f) \in Nat /\ DOMAIN f = 1..Len(f)
    BY <1>1, LenProperties
<1>3. 1..Len(f) = 1..n
    BY <1>2
<1> DEFINE l == Len(f)
<1> HIDE DEF l
<1>4. l \in Nat /\ 1..l = 1..n
    BY <1>2, <1>3 DEF l
<1>5. l = n
    <2>1. CASE l < n
        BY <1>4, <2>1
    <2>2. CASE n < l
        BY <1>4, <2>2
    <2> QED
        BY <1>4, <2>1, <2>2
<1> QED
    BY <1>1, <1>5 DEF l

(* Different positions of Keep are different positions of the queue.        *)
LEMMA NthApart ==
    ASSUME NEW n \in Nat, NEW K \in SUBSET (1..n),
           NEW i \in 1..Cardinality(K), NEW j \in 1..Cardinality(K), i # j
    PROVE  Nth(K, i) # Nth(K, j)
BY NthMember

(* A stack whose last element is replaced.                                  *)
LEMMA Replaced ==
    ASSUME NEW S, NEW s \in Seq(S), s # << >>, NEW x \in S
    PROVE  /\ Append(Front(s), x) \in Seq(S)
           /\ Len(Append(Front(s), x)) = Len(s)
           /\ Append(Front(s), x)[Len(s)] = x
           /\ \A i \in 1..Len(s) - 1 : Append(Front(s), x)[i] = s[i]
<1> DEFINE f == Front(s)
<1>1. /\ f \in Seq(S)
      /\ Len(s) \in Nat \ {0}
      /\ Len(f) = Len(s) - 1
      /\ \A i \in 1..Len(s) - 1 : f[i] = s[i]
    BY Popped
<1> HIDE DEF f
<1>2. Len(f) + 1 = Len(s)
    BY <1>1
<1>3. /\ Append(f, x) \in Seq(S)
      /\ Len(Append(f, x)) = Len(f) + 1
      /\ \A i \in 1..Len(f) : Append(f, x)[i] = f[i]
      /\ Append(f, x)[Len(f) + 1] = x
    BY <1>1, Pushed
<1> QED
    BY <1>1, <1>2, <1>3 DEF f

=============================================================================
