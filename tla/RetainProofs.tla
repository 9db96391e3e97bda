---------------------------- MODULE RetainProofs ----------------------------
(***************************************************************************)
(* What the sequence operations of the model do to a sequence without      *)
(* duplicates: the run queues of the scheduler, the windows by depth.      *)
(***************************************************************************)
EXTENDS Retain, FiniteSetTheorems, TLAPS

\* Where all positions up to n are kept, each has its own number as its rank.
LEMMA RankOfAll ==
  ASSUME NEW n \in Nat, NEW i \in 1..n
  PROVE  Rank(1..n, i) = i
<1>1. {j \in 1..n : j <= i} = 1..i
  OBVIOUS
<1>2. Cardinality(1..i) = i
  BY FS_Interval
<1> QED
  BY <1>1, <1>2 DEF Rank

\* A position left out takes one from the rank of those after it.
LEMMA RankBut ==
  ASSUME NEW n \in Nat, NEW p \in 1..n, NEW i \in (1..n) \ {p}
  PROVE  Rank((1..n) \ {p}, i) = IF i < p THEN i ELSE i - 1
<1>1. {j \in (1..n) \ {p} : j <= i} = (1..i) \ {p}
  OBVIOUS
<1>2. IsFiniteSet(1..i) /\ Cardinality(1..i) = i
  BY FS_Interval
<1>3. Cardinality((1..i) \ {p}) = IF p \in 1..i THEN Cardinality(1..i) - 1 ELSE Cardinality(1..i)
  BY <1>2, FS_RemoveElement
<1>4. p \in 1..i <=> ~(i < p)
  OBVIOUS
<1> QED
  BY <1>1, <1>2, <1>3, <1>4 DEF Rank

\* Keeping every position keeps the sequence.
LEMMA RetainedAll ==
  ASSUME NEW S, NEW s \in Seq(S)
  PROVE  Retained(s, 1..Len(s)) = s
<1> DEFINE n == Len(s)
           keep == 1..n
<1>1. s = [k \in 1..n |-> s[k]]
  OBVIOUS
<1>n. n \in Nat
  OBVIOUS
<1> HIDE DEF n
<1>2. Cardinality(keep) = n
  <2>1. Cardinality(1..n) = IF 1 > n THEN 0 ELSE n - 1 + 1
    BY <1>n, FS_Interval
  <2> QED
    BY <1>n, <2>1
<1> HIDE DEF keep
<1>3. ASSUME NEW k \in 1..n
      PROVE  Kept(keep, k) = k
  <2>1. \A i \in keep : Rank(keep, i) = i
    BY <1>n, RankOfAll DEF keep
  <2> QED
    BY <2>1 DEF Kept, keep
<1>4. Retained(s, keep) = [k \in 1..n |-> s[k]]
  BY <1>2, <1>3 DEF Retained
<1> QED
  BY <1>1, <1>4 DEF keep, n

\* Keeping every position but one keeps what is before and what is after it.
LEMMA RetainedBut ==
  ASSUME NEW S, NEW s \in Seq(S), NEW p \in 1..Len(s)
  PROVE  Retained(s, (1..Len(s)) \ {p}) =
           [k \in 1..(Len(s) - 1) |-> IF k < p THEN s[k] ELSE s[k + 1]]
<1> DEFINE n == Len(s)
           keep == (1..n) \ {p}
<1>1. n \in Nat /\ p \in 1..n
  OBVIOUS
<1> HIDE DEF n
<1>2. Cardinality(keep) = n - 1
  <2>1. IsFiniteSet(1..n) /\ Cardinality(1..n) = n
    BY <1>1, FS_Interval
  <2> QED
    BY <1>1, <2>1, FS_RemoveElement
<1> HIDE DEF keep
<1>3. ASSUME NEW k \in 1..(n - 1)
      PROVE  Kept(keep, k) = IF k < p THEN k ELSE k + 1
  <2> DEFINE i0 == IF k < p THEN k ELSE k + 1
  <2>1. i0 \in keep /\ i0 \in Int
    BY <1>1 DEF keep
  <2>2. ASSUME NEW i \in keep PROVE Rank(keep, i) = k <=> i = i0
    <3>1. Rank(keep, i) = IF i < p THEN i ELSE i - 1
      BY <1>1, RankBut DEF keep
    <3>2. i \in Int /\ i # p /\ p \in Int /\ k \in Int
      BY <1>1 DEF keep
    <3> QED
      BY <3>1, <3>2
  <2> HIDE DEF i0
  <2>3. Kept(keep, k) = i0
    BY <2>1, <2>2 DEF Kept
  <2> QED
    BY <2>3 DEF i0
<1>4. Retained(s, keep) = [k \in 1..(n - 1) |-> s[IF k < p THEN k ELSE k + 1]]
  BY <1>2, <1>3 DEF Retained
<1>5. [k \in 1..(n - 1) |-> s[IF k < p THEN k ELSE k + 1]]
        = [k \in 1..(n - 1) |-> IF k < p THEN s[k] ELSE s[k + 1]]
  OBVIOUS
<1> QED
  BY <1>4, <1>5 DEF keep, n

\* No element is there twice.
Distinct(s) == \A i, j \in 1..Len(s) : s[i] = s[j] => i = j

\* x is an element.
Has(s, x) == \E i \in 1..Len(s) : s[i] = x

\* The elements of a sequence as a function of its positions.
LEMMA RemovedSequence ==
  ASSUME NEW S, NEW s \in Seq(S), NEW p \in 1..Len(s), NEW t,
         t = [k \in 1..(Len(s) - 1) |-> IF k < p THEN s[k] ELSE s[k + 1]]
  PROVE  /\ t \in Seq(S) /\ Len(t) = Len(s) - 1
         /\ Distinct(s) => /\ Distinct(t)
                           /\ \A x : Has(t, x) <=> Has(s, x) /\ x # s[p]
<1>1. Len(s) \in Nat /\ Len(s) - 1 \in Nat
  OBVIOUS
<1>2. t \in [1..(Len(s) - 1) -> S]
  OBVIOUS
<1>3. t \in Seq(S) /\ Len(t) = Len(s) - 1
  BY <1>1, <1>2
<1>4. ASSUME Distinct(s) PROVE Distinct(t)
  BY <1>1, <1>3, <1>4 DEF Distinct
<1>5. ASSUME Distinct(s), NEW x PROVE Has(t, x) <=> Has(s, x) /\ x # s[p]
  <2>1. ASSUME Has(t, x) PROVE Has(s, x) /\ x # s[p]
    <3>1. PICK k \in 1..(Len(s) - 1) : t[k] = x
      BY <1>3, <2>1 DEF Has
    <3>2. PICK i \in 1..Len(s) : i # p /\ s[i] = x
      BY <1>1, <3>1
    <3> QED
      BY <1>5, <3>2 DEF Has, Distinct
  <2>2. ASSUME Has(s, x), x # s[p] PROVE Has(t, x)
    <3>1. PICK i \in 1..Len(s) : s[i] = x
      BY <2>2 DEF Has
    <3>2. i # p
      BY <2>2, <3>1
    <3>3. CASE i < p
      <4>1. i \in 1..(Len(s) - 1) /\ t[i] = x
        BY <1>1, <3>1, <3>3
      <4> QED
        BY <1>3, <4>1 DEF Has
    <3>4. CASE i > p
      <4>1. i - 1 \in 1..(Len(s) - 1) /\ t[i - 1] = x
        BY <1>1, <3>1, <3>4
      <4> QED
        BY <1>3, <4>1 DEF Has
    <3> QED
      BY <1>1, <3>2, <3>3, <3>4
  <2> QED
    BY <2>1, <2>2
<1> QED
  BY <1>3, <1>4, <1>5

\* retain(|x| x != e) on a sequence without duplicates leaves one without
\* duplicates, with all elements but e.
LEMMA RetainDistinct ==
  ASSUME NEW S, NEW s \in Seq(S), NEW e, Distinct(s)
  PROVE  /\ Retain(s, e) \in Seq(S)
         /\ Distinct(Retain(s, e))
         /\ \A x : Has(Retain(s, e), x) <=> Has(s, x) /\ x # e
<1>1. CASE Has(s, e)
  <2>1. PICK p \in 1..Len(s) : s[p] = e
    BY <1>1 DEF Has
  <2>2. {i \in DOMAIN s : s[i] # e} = (1..Len(s)) \ {p}
    BY <2>1 DEF Distinct
  <2>3. Retain(s, e) = [k \in 1..(Len(s) - 1) |-> IF k < p THEN s[k] ELSE s[k + 1]]
    BY <2>2, RetainedBut DEF Retain
  <2> QED
    BY <2>1, <2>3, RemovedSequence
<1>2. CASE ~Has(s, e)
  <2>1. {i \in DOMAIN s : s[i] # e} = 1..Len(s)
    BY <1>2 DEF Has
  <2>2. Retain(s, e) = s
    BY <2>1, RetainedAll DEF Retain
  <2> QED
    BY <1>2, <2>2 DEF Has
<1> QED
  BY <1>1, <1>2

\* push_back adds the element and leaves one without duplicates if it was not
\* there.
LEMMA AppendDistinct ==
  ASSUME NEW S, NEW s \in Seq(S), NEW e \in S
  PROVE  /\ Append(s, e) \in Seq(S) /\ Len(Append(s, e)) = Len(s) + 1
         /\ \A x : Has(Append(s, e), x) <=> Has(s, x) \/ x = e
         /\ Distinct(s) /\ ~Has(s, e) => Distinct(Append(s, e))
<1> DEFINE n == Len(s)
           t == Append(s, e)
<1>1. /\ t \in Seq(S) /\ n \in Nat /\ Len(t) = n + 1
      /\ \A i \in 1..n : t[i] = s[i]
      /\ t[n + 1] = e
  OBVIOUS
<1> HIDE DEF n, t
<1>2. 1..Len(t) = (1..n) \cup {n + 1}
  BY <1>1
<1>3. \A x : Has(t, x) <=> Has(s, x) \/ x = e
  BY <1>1, <1>2 DEF Has, n
<1>4. ASSUME Distinct(s), ~Has(s, e) PROVE Distinct(t)
  BY <1>1, <1>2, <1>4 DEF Distinct, Has, n
<1> QED
  BY <1>1, <1>3, <1>4 DEF n, t

\* pop_front takes the first element and, without duplicates, no other one.
LEMMA TailDistinct ==
  ASSUME NEW S, NEW s \in Seq(S), s # <<>>
  PROVE  /\ Tail(s) \in Seq(S) /\ Len(Tail(s)) = Len(s) - 1
         /\ Has(s, Head(s))
         /\ Distinct(s) => /\ Distinct(Tail(s))
                           /\ \A x : Has(Tail(s), x) <=> Has(s, x) /\ x # Head(s)
<1> DEFINE n == Len(s)
           t == Tail(s)
<1>1. /\ t \in Seq(S) /\ n \in Nat /\ n >= 1 /\ Len(t) = n - 1
      /\ \A i \in 1..(n - 1) : t[i] = s[i + 1]
      /\ Head(s) = s[1]
  OBVIOUS
<1>2. Has(s, Head(s))
  BY <1>1 DEF Has
<1> HIDE DEF n, t
<1>3. ASSUME Distinct(s) PROVE Distinct(t)
  BY <1>1, <1>3 DEF Distinct, n
<1>4. ASSUME Distinct(s), NEW x PROVE Has(t, x) <=> Has(s, x) /\ x # Head(s)
  <2>1. ASSUME Has(t, x) PROVE Has(s, x) /\ x # Head(s)
    <3>1. PICK i \in 1..(n - 1) : t[i] = x
      BY <1>1, <2>1 DEF Has
    <3>2. i + 1 \in 1..n /\ s[i + 1] = x /\ i + 1 # 1 /\ 1 \in 1..n
      BY <1>1, <3>1
    <3> QED
      BY <1>1, <1>4, <3>2 DEF Has, Distinct, n
  <2>2. ASSUME Has(s, x), x # Head(s) PROVE Has(t, x)
    <3>1. PICK k \in 1..n : s[k] = x
      BY <2>2 DEF Has, n
    <3>2. k - 1 \in 1..(n - 1) /\ (k - 1) + 1 = k
      BY <1>1, <2>2, <3>1
    <3>3. t[k - 1] = x
      BY <1>1, <3>1, <3>2
    <3> QED
      BY <1>1, <3>2, <3>3 DEF Has
  <2> QED
    BY <2>1, <2>2
<1> QED
  BY <1>1, <1>2, <1>3, <1>4 DEF n, t
=============================================================================
