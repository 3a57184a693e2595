---------------------------- MODULE SequenceFacts ----------------------------
(***************************************************************************)
(* What Append, a push to the front and Tail do to the elements of a       *)
(* sequence without repetition: the facts about std::deque the proofs of   *)
(* the task and test queues rest on.                                       *)
(***************************************************************************)
EXTENDS Integers, SequencesExt, SequenceTheorems, FiniteSetTheorems, TLAPS

\* push_back adds one element, and keeps a deque without repetition so.
LEMMA PushBack ==
  ASSUME NEW S, NEW s \in Seq(S), NEW e \in S
  PROVE  /\ Append(s, e) \in Seq(S)
         /\ ToSet(Append(s, e)) = ToSet(s) \cup {e}
         /\ IsInjective(s) /\ e \notin ToSet(s) => IsInjective(Append(s, e))
<1>1. /\ Append(s, e) \in Seq(S)
      /\ Len(Append(s, e)) = Len(s) + 1
      /\ \A i \in 1 .. Len(s) : Append(s, e)[i] = s[i]
      /\ Append(s, e)[Len(s) + 1] = e
  OBVIOUS
<1>2. DOMAIN s = 1 .. Len(s) /\ DOMAIN Append(s, e) = 1 .. Len(s) + 1
  BY <1>1
<1>3. ToSet(Append(s, e)) = ToSet(s) \cup {e}
  BY <1>1, <1>2 DEF ToSet
<1>4. ASSUME IsInjective(s), e \notin ToSet(s)
      PROVE  IsInjective(Append(s, e))
  BY <1>1, <1>2, <1>4 DEF ToSet, IsInjective
<1> QED BY <1>1, <1>3, <1>4

\* push_front adds one element, and keeps a deque without repetition so.
LEMMA PushFront ==
  ASSUME NEW S, NEW s \in Seq(S), NEW e \in S
  PROVE  /\ <<e>> \o s \in Seq(S)
         /\ ToSet(<<e>> \o s) = ToSet(s) \cup {e}
         /\ IsInjective(s) /\ e \notin ToSet(s) => IsInjective(<<e>> \o s)
<1> DEFINE r == <<e>> \o s
<1>1. /\ r \in Seq(S)
      /\ Len(r) = Len(s) + 1
      /\ r[1] = e
      /\ \A i \in 1 .. Len(s) : r[i + 1] = s[i]
  BY ConcatProperties, <<e>> \in Seq(S)
<1>2. DOMAIN s = 1 .. Len(s) /\ DOMAIN r = 1 .. Len(s) + 1
  BY <1>1
<1>3. \A j \in 2 .. Len(s) + 1 : j - 1 \in 1 .. Len(s) /\ r[j] = s[j - 1]
  <2> TAKE j \in 2 .. Len(s) + 1
  <2>1. j - 1 \in 1 .. Len(s) /\ j = (j - 1) + 1
    OBVIOUS
  <2> QED BY <1>1, <2>1
<1> HIDE DEF r
<1>4. ToSet(r) = ToSet(s) \cup {e}
  <2>1. ASSUME NEW x \in ToSet(r) PROVE x \in ToSet(s) \cup {e}
    <3>1. PICK j \in 1 .. Len(s) + 1 : x = r[j]
      BY <1>2 DEF ToSet
    <3>2. CASE j = 1
      BY <1>1, <3>1, <3>2
    <3>3. CASE j # 1
      <4>1. j \in 2 .. Len(s) + 1
        BY <1>1, <3>3
      <4>2. j - 1 \in DOMAIN s /\ x = s[j - 1]
        BY <1>2, <1>3, <3>1, <4>1
      <4> QED BY <4>2 DEF ToSet
    <3> QED BY <3>2, <3>3
  <2>2. ASSUME NEW x \in ToSet(s) \cup {e} PROVE x \in ToSet(r)
    <3>1. CASE x = e
      BY <1>1, <1>2, <3>1 DEF ToSet
    <3>2. CASE x \in ToSet(s)
      <4>1. PICK i \in 1 .. Len(s) : x = s[i]
        BY <1>2, <3>2 DEF ToSet
      <4>2. i + 1 \in 1 .. Len(s) + 1 /\ r[i + 1] = x
        BY <1>1, <4>1
      <4> QED BY <1>2, <4>2 DEF ToSet
    <3> QED BY <2>2, <3>1, <3>2
  <2> QED BY <2>1, <2>2
<1>5. ASSUME IsInjective(s), e \notin ToSet(s)
      PROVE  IsInjective(r)
  <2> SUFFICES ASSUME NEW i \in 1 .. Len(s) + 1, NEW j \in 1 .. Len(s) + 1,
                      r[i] = r[j]
               PROVE  i = j
    BY <1>2 DEF IsInjective
  <2>1. \A k \in 2 .. Len(s) + 1 : r[k] # e
    BY <1>2, <1>3, <1>5 DEF ToSet
  <2>2. CASE i = 1 \/ j = 1
    BY <1>1, <2>1, <2>2
  <2>3. CASE i # 1 /\ j # 1
    <3>1. i \in 2 .. Len(s) + 1 /\ j \in 2 .. Len(s) + 1
      BY <2>3
    <3>2. s[i - 1] = s[j - 1] /\ i - 1 \in DOMAIN s /\ j - 1 \in DOMAIN s
      BY <1>2, <1>3, <3>1
    <3>3. i - 1 = j - 1
      BY <1>5, <3>2 DEF IsInjective
    <3> QED BY <3>3
  <2> QED BY <2>2, <2>3
<1> QED BY <1>1, <1>4, <1>5 DEF r

\* front() and pop_front() on a deque without repetition: the element taken is
\* no longer in the deque, everything else is.
LEMMA PopFront ==
  ASSUME NEW S, NEW s \in Seq(S), s # <<>>, IsInjective(s)
  PROVE  /\ Tail(s) \in Seq(S)
         /\ Head(s) \in ToSet(s)
         /\ ToSet(Tail(s)) = ToSet(s) \ {Head(s)}
         /\ IsInjective(Tail(s))
<1> DEFINE r == Tail(s)
<1>1. /\ r \in Seq(S)
      /\ Len(s) \in Nat \ {0}
      /\ Len(r) = Len(s) - 1
      /\ \A i \in 1 .. Len(r) : r[i] = s[i + 1]
      /\ Head(s) = s[1]
  BY HeadTailProperties, EmptySeq
<1>2. DOMAIN s = 1 .. Len(s) /\ DOMAIN r = 1 .. Len(s) - 1
  BY <1>1
<1> HIDE DEF r
<1>3. Head(s) \in ToSet(s)
  BY <1>1, <1>2 DEF ToSet
<1>4. ToSet(r) = ToSet(s) \ {Head(s)}
  <2>1. ASSUME NEW x \in ToSet(r) PROVE x \in ToSet(s) \ {Head(s)}
    <3>1. PICK i \in 1 .. Len(s) - 1 : x = r[i]
      BY <1>2 DEF ToSet
    <3>2. i + 1 \in DOMAIN s /\ i + 1 # 1 /\ 1 \in DOMAIN s /\ x = s[i + 1]
      BY <1>1, <1>2, <3>1
    <3> QED BY <1>1, <3>2 DEF ToSet, IsInjective
  <2>2. ASSUME NEW x \in ToSet(s) \ {Head(s)} PROVE x \in ToSet(r)
    <3>1. PICK i \in 1 .. Len(s) : x = s[i]
      BY <1>2 DEF ToSet
    <3>2. i # 1
      BY <1>1, <3>1
    <3>3. i - 1 \in 1 .. Len(s) - 1 /\ r[i - 1] = s[(i - 1) + 1]
      BY <1>1, <3>2
    <3>4. r[i - 1] = x
      BY <3>1, <3>3
    <3> QED BY <1>2, <3>3, <3>4 DEF ToSet
  <2> QED BY <2>1, <2>2
<1>5. IsInjective(r)
  <2> SUFFICES ASSUME NEW i \in 1 .. Len(s) - 1, NEW j \in 1 .. Len(s) - 1,
                      r[i] = r[j]
               PROVE  i = j
    BY <1>2 DEF IsInjective
  <2>1. s[i + 1] = s[j + 1] /\ i + 1 \in DOMAIN s /\ j + 1 \in DOMAIN s
    BY <1>1, <1>2
  <2>2. i + 1 = j + 1
    BY <2>1 DEF IsInjective
  <2> QED BY <2>2
<1> QED BY <1>1, <1>3, <1>4, <1>5 DEF r

\* An empty deque has no elements.
LEMMA EmptyDeque ==
  ASSUME NEW S
  PROVE  <<>> \in Seq(S) /\ ToSet(<<>>) = {} /\ IsInjective(<<>>)
<1>1. DOMAIN <<>> = {}
  OBVIOUS
<1> QED BY <1>1 DEF ToSet, IsInjective

\* A deque is empty when it has no elements.
LEMMA NoElements ==
  ASSUME NEW S, NEW s \in Seq(S)
  PROVE  ToSet(s) = {} <=> s = <<>>
<1>1. DOMAIN s = 1 .. Len(s) /\ Len(s) \in Nat
  OBVIOUS
<1>2. ASSUME ToSet(s) = {} PROVE s = <<>>
  <2>1. DOMAIN s = {}
    BY <1>2 DEF ToSet
  <2> QED BY <1>1, <2>1
<1> QED BY <1>2, EmptyDeque
\* A deque that is cut in two, with or without the elements in between: what
\* each part holds.
LEMMA CutOff ==
  ASSUME NEW S, NEW s \in Seq(S), NEW m \in 0 .. Len(s), NEW n \in m .. Len(s)
  PROVE  /\ SubSeq(s, 1, m) \in Seq(S) /\ Len(SubSeq(s, 1, m)) = m
         /\ SubSeq(s, n + 1, Len(s)) \in Seq(S) /\ Len(SubSeq(s, n + 1, Len(s))) = Len(s) - n
         /\ ToSet(SubSeq(s, 1, m)) = {s[i] : i \in 1 .. m}
         /\ ToSet(SubSeq(s, n + 1, Len(s))) = {s[i] : i \in n + 1 .. Len(s)}
         /\ IsInjective(s) =>
              /\ IsInjective(SubSeq(s, 1, m)) /\ IsInjective(SubSeq(s, n + 1, Len(s)))
              /\ ToSet(SubSeq(s, 1, m)) \cap ToSet(SubSeq(s, n + 1, Len(s))) = {}
<1> DEFINE front == SubSeq(s, 1, m)
           rest  == SubSeq(s, n + 1, Len(s))
           L     == Len(s)
<1>1. L \in Nat /\ m \in 0 .. L /\ n \in m .. L /\ DOMAIN s = 1 .. L
      /\ \A i \in 1 .. L : s[i] \in S
  OBVIOUS
<1>2. /\ front \in Seq(S) /\ Len(front) = m
      /\ \A i \in 1 .. m : front[i] = s[i]
  <2>1. \A i \in 1 .. m : s[i] \in S
    BY <1>1
  <2>2. /\ front \in Seq(S)
        /\ Len(front) = IF 1 <= m THEN m - 1 + 1 ELSE 0
        /\ \A i \in 1 .. m - 1 + 1 : front[i] = s[1 + i - 1]
    <3> HIDE DEF L
    <3> QED BY <1>1, <2>1, SubSeqProperties
  <2> HIDE DEF front, L
  <2> QED BY <1>1, <2>2
<1>3. /\ rest \in Seq(S) /\ Len(rest) = L - n
      /\ \A i \in 1 .. L - n : rest[i] = s[n + i]
  <2>1. \A i \in n + 1 .. L : s[i] \in S
    BY <1>1
  <2>2. /\ rest \in Seq(S)
        /\ Len(rest) = IF n + 1 <= L THEN L - (n + 1) + 1 ELSE 0
        /\ \A i \in 1 .. L - (n + 1) + 1 : rest[i] = s[n + 1 + i - 1]
    <3>1. n + 1 \in Int /\ L \in Int
      BY <1>1
    <3> QED BY <2>1, <3>1, SubSeqProperties
  <2> HIDE DEF rest, L
  <2> QED BY <1>1, <2>2
<1> HIDE DEF front, rest, L
<1>4. DOMAIN front = 1 .. m /\ DOMAIN rest = 1 .. L - n
  BY <1>1, <1>2, <1>3
<1>5. ToSet(front) = {s[i] : i \in 1 .. m}
  BY <1>2, <1>4 DEF ToSet
<1>6. ToSet(rest) = {s[i] : i \in n + 1 .. L}
  <2>1. \A i \in n + 1 .. L : i - n \in 1 .. L - n /\ rest[i - n] = s[i]
    <3> TAKE i \in n + 1 .. L
    <3>1. i - n \in 1 .. L - n /\ n + (i - n) = i
      BY <1>1
    <3> QED BY <1>3, <3>1
  <2>2. \A j \in 1 .. L - n : n + j \in n + 1 .. L /\ rest[j] = s[n + j]
    BY <1>1, <1>3
  <2>3. \A x : x \in ToSet(rest) => \E i \in n + 1 .. L : x = s[i]
    BY <1>4, <2>2 DEF ToSet
  <2>4. \A i \in n + 1 .. L : s[i] \in ToSet(rest)
    BY <1>4, <2>1 DEF ToSet
  <2> QED BY <2>3, <2>4
<1>7. ASSUME IsInjective(s)
      PROVE  /\ IsInjective(front) /\ IsInjective(rest)
             /\ ToSet(front) \cap ToSet(rest) = {}
  <2>1. \A i, j \in 1 .. L : s[i] = s[j] => i = j
    BY <1>1, <1>7 DEF IsInjective
  <2>2. IsInjective(front)
    <3>1. \A i \in 1 .. m : i \in 1 .. L
      BY <1>1
    <3> QED BY <1>2, <1>4, <2>1, <3>1 DEF IsInjective
  <2>3. IsInjective(rest)
    <3> SUFFICES ASSUME NEW i \in 1 .. L - n, NEW j \in 1 .. L - n, rest[i] = rest[j]
                 PROVE  i = j
      BY <1>4 DEF IsInjective
    <3>1. n + i \in 1 .. L /\ n + j \in 1 .. L /\ s[n + i] = s[n + j]
      BY <1>1, <1>3
    <3>2. n + i = n + j
      BY <2>1, <3>1
    <3> QED BY <1>1, <3>2
  <2>4. ToSet(front) \cap ToSet(rest) = {}
    <3> SUFFICES ASSUME NEW i \in 1 .. m, NEW j \in n + 1 .. L, s[i] = s[j]
                 PROVE  FALSE
      BY <1>5, <1>6
    <3>1. i \in 1 .. L /\ j \in 1 .. L /\ i < j
      BY <1>1
    <3> QED BY <2>1, <3>1
  <2> QED BY <2>2, <2>3, <2>4
<1> QED BY <1>2, <1>3, <1>5, <1>6, <1>7 DEF front, rest, L

\* Two deques that are joined.
LEMMA Join ==
  ASSUME NEW S, NEW s \in Seq(S), NEW r \in Seq(S)
  PROVE  /\ s \o r \in Seq(S)
         /\ Len(s \o r) = Len(s) + Len(r)
         /\ \A i \in 1 .. Len(s) : (s \o r)[i] = s[i]
         /\ ToSet(s \o r) = ToSet(s) \cup ToSet(r)
         /\ IsInjective(s) /\ IsInjective(r) /\ ToSet(s) \cap ToSet(r) = {}
              => IsInjective(s \o r)
<1> DEFINE c == s \o r
           n == Len(s)
           m == Len(r)
<1>1. /\ c \in Seq(S) /\ Len(c) = n + m /\ n \in Nat /\ m \in Nat
      /\ \A i \in 1 .. n + m : c[i] = IF i <= n THEN s[i] ELSE r[i - n]
      /\ DOMAIN s = 1 .. n /\ DOMAIN r = 1 .. m
  BY ConcatProperties
<1> HIDE DEF c, n, m
<1>2. DOMAIN c = 1 .. n + m
  BY <1>1
<1>3. \A i \in 1 .. n : i \in 1 .. n + m /\ c[i] = s[i]
  BY <1>1
<1>4. \A i \in 1 .. m : n + i \in 1 .. n + m /\ c[n + i] = r[i]
  <2> TAKE i \in 1 .. m
  <2>1. n + i \in 1 .. n + m /\ ~(n + i <= n) /\ (n + i) - n = i
    BY <1>1
  <2> QED BY <1>1, <2>1
<1>5. \A i \in 1 .. n + m :
        \/ i \in 1 .. n /\ c[i] = s[i]
        \/ i - n \in 1 .. m /\ c[i] = r[i - n] /\ ~(i <= n)
  <2> TAKE i \in 1 .. n + m
  <2>1. c[i] = IF i <= n THEN s[i] ELSE r[i - n]
    BY <1>1
  <2>2. CASE i <= n
    <3>1. i \in 1 .. n
      BY <1>1, <2>2
    <3> QED BY <2>1, <2>2, <3>1
  <2>3. CASE ~(i <= n)
    <3>1. i - n \in 1 .. m
      BY <1>1, <2>3
    <3> QED BY <2>1, <2>3, <3>1
  <2> QED BY <2>2, <2>3
<1>6. ToSet(c) = ToSet(s) \cup ToSet(r)
  <2>1. ASSUME NEW x \in ToSet(c) PROVE x \in ToSet(s) \cup ToSet(r)
    BY <1>1, <1>2, <1>5, <2>1 DEF ToSet
  <2>2. ASSUME NEW x \in ToSet(s) PROVE x \in ToSet(c)
    BY <1>1, <1>2, <1>3, <2>2 DEF ToSet
  <2>3. ASSUME NEW x \in ToSet(r) PROVE x \in ToSet(c)
    <3>1. PICK i \in 1 .. m : x = r[i]
      BY <1>1, <2>3 DEF ToSet
    <3>2. n + i \in DOMAIN c /\ c[n + i] = x
      BY <1>2, <1>4, <3>1
    <3> QED BY <3>2 DEF ToSet
  <2> QED BY <2>1, <2>2, <2>3
<1>7. ASSUME IsInjective(s), IsInjective(r), ToSet(s) \cap ToSet(r) = {}
      PROVE  IsInjective(c)
  <2> SUFFICES ASSUME NEW i \in 1 .. n + m, NEW j \in 1 .. n + m, c[i] = c[j]
               PROVE  i = j
    BY <1>2 DEF IsInjective
  <2>1. \A a \in 1 .. n, b \in 1 .. m : s[a] # r[b]
    BY <1>1, <1>7 DEF ToSet
  <2>2. \A a, b \in 1 .. n : s[a] = s[b] => a = b
    BY <1>1, <1>7 DEF IsInjective
  <2>3. \A a, b \in 1 .. m : r[a] = r[b] => a = b
    BY <1>1, <1>7 DEF IsInjective
  <2>4. CASE i \in 1 .. n /\ j \in 1 .. n
    BY <1>3, <2>2, <2>4
  <2>5. CASE i \in 1 .. n /\ ~(j <= n)
    BY <1>3, <1>5, <2>1, <2>5
  <2>6. CASE j \in 1 .. n /\ ~(i <= n)
    BY <1>3, <1>5, <2>1, <2>6
  <2>7. CASE ~(i <= n) /\ ~(j <= n)
    <3>1. i - n \in 1 .. m /\ j - n \in 1 .. m /\ r[i - n] = r[j - n]
      BY <1>5, <2>7
    <3>2. i - n = j - n
      BY <2>3, <3>1
    <3> QED BY <1>1, <3>2
  <2> QED BY <1>1, <1>5, <2>4, <2>5, <2>6, <2>7
<1> QED BY <1>1, <1>3, <1>6, <1>7 DEF c, n, m

-----------------------------------------------------------------------------
(* Counting the positions of a scan.                                       *)

\* A set of natural numbers that is not empty has a least element.
LEMMA Least ==
  ASSUME NEW T, T \subseteq Nat, T # {}
  PROVE  \E m \in T : \A k \in T : m <= k
<1> DEFINE Downs == {0 .. k : k \in T}
<1>1. \A k \in T : 0 .. k \in FiniteSubsetsOf(Nat)
  <2> TAKE k \in T
  <2>1. k \in Int /\ IsFiniteSet(0 .. k)
    BY FS_Interval
  <2> QED BY <2>1 DEF FiniteSubsetsOf
<1>2. Downs \subseteq FiniteSubsetsOf(Nat) /\ Downs # {}
  BY <1>1
<1>3. \E x \in Downs : \A y \in Downs : <<y, x>> \notin StrictSubsetOrdering(Nat)
  <2> HIDE DEF Downs
  <2> QED BY <1>2, FS_StrictSubsetOrderingWellFounded, WFMin
<1>4. PICK m \in T : \A k \in T : <<0 .. k, 0 .. m>> \notin StrictSubsetOrdering(Nat)
  BY <1>3
<1>5. \A k \in T : m <= k
  <2> SUFFICES ASSUME NEW k \in T, k < m
               PROVE  FALSE
    OBVIOUS
  <2>1. 0 .. k \subseteq 0 .. m /\ m \in 0 .. m /\ m \notin 0 .. k
    OBVIOUS
  <2> QED BY <1>1, <1>4, <2>1 DEF StrictSubsetOrdering, FiniteSubsetsOf
<1> QED BY <1>5

\* The members of a set of positions up to one of them.
UpTo(A, i) == A \cap 1 .. i

\* The k-th of a set of positions.
PlaceOf(A, k) == CHOOSE i \in A : Cardinality(UpTo(A, i)) = k

\* The positions of a sequence are counted one by one.
LEMMA CountStep ==
  ASSUME NEW n \in Nat, NEW A \in SUBSET (1 .. n)
  PROVE  /\ IsFiniteSet(A) /\ Cardinality(A) \in 0 .. n
         /\ \A i \in 0 .. n : IsFiniteSet(UpTo(A, i)) /\ Cardinality(UpTo(A, i)) \in Nat
         /\ UpTo(A, 0) = {} /\ UpTo(A, n) = A
         /\ \A i, j \in 0 .. n : i <= j =>
              Cardinality(UpTo(A, i)) <= Cardinality(UpTo(A, j))
<1>0. \A x \in A : x \in Int /\ 1 <= x /\ x <= n
  OBVIOUS
<1>00. \A i, x : x \in UpTo(A, i) <=> x \in A /\ x \in 1 .. i
  BY DEF UpTo
<1>1. IsFiniteSet(1 .. n) /\ Cardinality(1 .. n) = n
  BY FS_Interval
<1>2. IsFiniteSet(A) /\ Cardinality(A) \in 0 .. n
  <2>1. A \in SUBSET (1 .. n)
    OBVIOUS
  <2>2. IsFiniteSet(A) /\ Cardinality(A) <= n
    BY <1>1, <2>1, FS_Subset
  <2> QED BY <2>2, FS_CardinalityType
<1>3. \A i \in 0 .. n : UpTo(A, i) \subseteq A
  BY DEF UpTo
<1>4. \A i \in 0 .. n : IsFiniteSet(UpTo(A, i)) /\ Cardinality(UpTo(A, i)) \in Nat
  BY <1>2, <1>3, FS_Subset, FS_CardinalityType
<1>5. UpTo(A, 0) = {} /\ UpTo(A, n) = A
  <2>1. \A x : x \in UpTo(A, 0) <=> x \in A /\ x \in 1 .. 0
    BY DEF UpTo
  <2>2. \A x : x \in UpTo(A, n) <=> x \in A
    BY <1>0 DEF UpTo
  <2> QED BY <1>0, <2>1, <2>2
<1>7. ASSUME NEW i \in 0 .. n, NEW j \in 0 .. n, i <= j
      PROVE  Cardinality(UpTo(A, i)) <= Cardinality(UpTo(A, j))
  <2>1. UpTo(A, i) \subseteq UpTo(A, j)
    <3> SUFFICES ASSUME NEW x \in UpTo(A, i) PROVE x \in UpTo(A, j)
      OBVIOUS
    <3> QED BY <1>0, <1>00, <1>7
  <2> QED BY <1>4, <2>1, FS_Subset
<1> QED BY <1>2, <1>4, <1>5, <1>7

\* Whether the position is one of the set decides the count.
LEMMA CountOne ==
  ASSUME NEW n \in Nat, NEW A \in SUBSET (1 .. n),
         NEW i \in 1 .. n, NEW j \in 0 .. n, j = i - 1
  PROVE  Cardinality(UpTo(A, i)) = IF i \in A THEN Cardinality(UpTo(A, j)) + 1
                                              ELSE Cardinality(UpTo(A, j))
<1>0. \A x \in A : x \in Int /\ 1 <= x /\ x <= n
  OBVIOUS
<1>1. i \notin UpTo(A, j)
  BY DEF UpTo
<1>4. IsFiniteSet(UpTo(A, j)) /\ Cardinality(UpTo(A, j)) \in Nat
  BY <1>1, CountStep
<1>2. CASE i \in A
  <2>1. ASSUME NEW x
        PROVE  x \in UpTo(A, i) <=> x \in UpTo(A, j) \/ x = i
    BY <1>0, <1>2 DEF UpTo
  <2>2. UpTo(A, i) = UpTo(A, j) \cup {i}
    BY <2>1
  <2> QED BY <1>4, <1>1, <1>2, <2>2, FS_AddElement
<1>3. CASE i \notin A
  <2>1. ASSUME NEW x
        PROVE  x \in UpTo(A, i) <=> x \in UpTo(A, j)
    BY <1>0, <1>3 DEF UpTo
  <2>2. UpTo(A, i) = UpTo(A, j)
    BY <2>1
  <2> QED BY <1>3, <2>2
<1> QED BY <1>2, <1>3

\* There is a k-th position for every k up to the number of positions, and
\* every position is the k-th for one k.
LEMMA PlaceFound ==
  ASSUME NEW n \in Nat, NEW A \in SUBSET (1 .. n)
  PROVE  /\ \A k \in 1 .. Cardinality(A) :
              /\ PlaceOf(A, k) \in A
              /\ Cardinality(UpTo(A, PlaceOf(A, k))) = k
         /\ \A i \in A : /\ Cardinality(UpTo(A, i)) \in 1 .. Cardinality(A)
                         /\ PlaceOf(A, Cardinality(UpTo(A, i))) = i
<1> DEFINE N(i) == Cardinality(UpTo(A, i))
<1>1. /\ IsFiniteSet(A) /\ Cardinality(A) \in 0 .. n
      /\ N(0) = 0 /\ N(n) = Cardinality(A)
      /\ \A i \in 0 .. n : N(i) \in Nat
      /\ \A i \in 1 .. n : N(i) = IF i \in A THEN N(i - 1) + 1 ELSE N(i - 1)
      /\ \A i, j \in 0 .. n : i <= j => N(i) <= N(j)
  <2>1. Cardinality({}) = 0
    BY FS_EmptySet
  <2>2. UpTo(A, 0) = {} /\ UpTo(A, n) = A
    BY CountStep
  <2>3. N(0) = 0 /\ N(n) = Cardinality(A)
    BY <2>1, <2>2
  <2>4. \A i \in 1 .. n : N(i) = IF i \in A THEN N(i - 1) + 1 ELSE N(i - 1)
    <3> TAKE i \in 1 .. n
    <3>1. i - 1 \in 0 .. n
      OBVIOUS
    <3> QED BY <3>1, CountOne
  <2>5. \A i, j \in 0 .. n : i <= j => N(i) <= N(j)
    BY CountStep
  <2>6. \A i \in 0 .. n : N(i) \in Nat
    BY CountStep
  <2>7. IsFiniteSet(A) /\ Cardinality(A) \in 0 .. n
    BY CountStep
  <2> QED BY <2>3, <2>4, <2>5, <2>6, <2>7
<1> HIDE DEF N
<1>2. ASSUME NEW k \in 1 .. Cardinality(A)
      PROVE  \E i \in A : N(i) = k
  <2> DEFINE T == {i \in 0 .. n : k <= N(i)}
  <2>1. T \subseteq Nat /\ n \in T
    BY <1>1
  <2>2. PICK m \in T : \A j \in T : m <= j
    <3> HIDE DEF T
    <3> QED BY <2>1, Least
  <2>3. m \in 1 .. n /\ m - 1 \in 0 .. n /\ m - 1 \notin T
    BY <1>1, <2>2
  <2>4. N(m - 1) < k /\ k <= N(m)
    BY <1>1, <2>3
  <2>5. m \in A /\ N(m) = k
    BY <1>1, <2>3, <2>4
  <2> QED BY <2>5
<1>3. \A k \in 1 .. Cardinality(A) : PlaceOf(A, k) \in A /\ N(PlaceOf(A, k)) = k
  BY <1>2 DEF PlaceOf, N
<1>4. ASSUME NEW i \in A
      PROVE  N(i) \in 1 .. Cardinality(A) /\ PlaceOf(A, N(i)) = i
  <2>1. i \in 1 .. n /\ i - 1 \in 0 .. n /\ i \in 0 .. n /\ n \in 0 .. n /\ i <= n
    OBVIOUS
  <2>2. N(i) = N(i - 1) + 1 /\ N(i) <= N(n)
    BY <1>1, <2>1
  <2>3. N(i) \in 1 .. Cardinality(A)
    BY <1>1, <2>1, <2>2
  <2>4. PlaceOf(A, N(i)) \in A /\ N(PlaceOf(A, N(i))) = N(i)
    BY <1>3, <2>3
  <2>5. ASSUME NEW j \in A, N(j) = N(i) PROVE ~(j < i)
    <3> SUFFICES ASSUME j < i PROVE FALSE
      OBVIOUS
    <3>1. j \in 0 .. n /\ j <= i - 1
      BY <2>5
    <3>2. N(j) <= N(i - 1)
      BY <1>1, <2>1, <3>1
    <3> QED BY <1>1, <2>1, <2>2, <2>5, <3>1, <3>2
  <2>6. ASSUME NEW j \in A, N(j) = N(i) PROVE ~(i < j)
    <3> SUFFICES ASSUME i < j PROVE FALSE
      OBVIOUS
    <3>1. j \in 1 .. n /\ j - 1 \in 0 .. n /\ i <= j - 1
      BY <2>6
    <3>2. N(j) = N(j - 1) + 1 /\ N(i) <= N(j - 1)
      BY <1>1, <2>1, <3>1
    <3> QED BY <1>1, <2>1, <2>6, <3>1, <3>2
  <2>7. PlaceOf(A, N(i)) \in 1 .. n
    BY <2>4
  <2> QED BY <2>1, <2>3, <2>4, <2>5, <2>6, <2>7
<1> QED BY <1>3, <1>4 DEF N

-----------------------------------------------------------------------------
(* Lists of anything: what they hold is all that is known of their         *)
(* elements.                                                               *)

IsList(s) == s \in Seq(ToSet(s))

LEMMA ListOf ==
  ASSUME NEW S, NEW s \in Seq(S)
  PROVE  /\ IsList(s) /\ ToSet(s) \subseteq S
         /\ \A x \in ToSet(s) : \E i \in 1 .. Len(s) : s[i] = x
         /\ \A i \in 1 .. Len(s) : s[i] \in ToSet(s)
         /\ DOMAIN s = 1 .. Len(s) /\ Len(s) \in Nat
<1>1. DOMAIN s = 1 .. Len(s) /\ Len(s) \in Nat
  OBVIOUS
<1>2. ToSet(s) = {s[i] : i \in 1 .. Len(s)}
  BY <1>1 DEF ToSet
<1>3. s \in [1 .. Len(s) -> ToSet(s)]
  <2>1. s = [i \in 1 .. Len(s) |-> s[i]]
    BY <1>1
  <2> QED BY <1>2, <2>1
<1>4. s \in Seq(ToSet(s))
  BY <1>1, <1>3
<1> QED BY <1>1, <1>2, <1>4 DEF IsList

\* Any function on an initial segment is a list.
LEMMA MadeList ==
  ASSUME NEW n \in Int, NEW f, DOMAIN f = 1 .. n, f = [i \in DOMAIN f |-> f[i]]
  PROVE  IsList(f) /\ ToSet(f) = {f[i] : i \in 1 .. n}
<1>1. ToSet(f) = {f[i] : i \in 1 .. n}
  BY DEF ToSet
<1>2. f \in [1 .. n -> ToSet(f)]
  BY <1>1
<1>3. CASE n \in Nat
  BY <1>1, <1>2, <1>3 DEF IsList
<1>4. CASE n < 0
  <2>1. 1 .. n = 1 .. 0
    BY <1>4
  <2>2. f \in [1 .. 0 -> ToSet(f)]
    BY <1>2, <2>1
  <2>3. f \in Seq(ToSet(f))
    BY <2>2
  <2> QED BY <1>1, <2>3 DEF IsList
<1> QED BY <1>3, <1>4

LEMMA EmptyList == IsList(<<>>) /\ ToSet(<<>>) = {} /\ Len(<<>>) = 0
<1>1. <<>> \in Seq({})
  OBVIOUS
<1>2. DOMAIN <<>> = {}
  OBVIOUS
<1> QED BY <1>1, <1>2, ListOf DEF ToSet

LEMMA OneList ==
  ASSUME NEW e
  PROVE  IsList(<<e>>) /\ ToSet(<<e>>) = {e} /\ Len(<<e>>) = 1
<1>1. <<e>> \in Seq({e}) /\ Len(<<e>>) = 1 /\ <<e>>[1] = e
  OBVIOUS
<1>2. DOMAIN <<e>> = {1}
  OBVIOUS
<1>3. ToSet(<<e>>) = {e}
  BY <1>1, <1>2 DEF ToSet
<1> QED BY <1>1, <1>3, ListOf

LEMMA AppendList ==
  ASSUME NEW s, IsList(s), NEW e
  PROVE  /\ IsList(Append(s, e)) /\ ToSet(Append(s, e)) = ToSet(s) \cup {e}
<1> DEFINE S == ToSet(s) \cup {e}
<1>1. s \in Seq(S) /\ e \in S
  BY DEF IsList
<1> HIDE DEF S
<1>2. Append(s, e) \in Seq(S) /\ ToSet(Append(s, e)) = ToSet(s) \cup {e}
  BY <1>1, PushBack
<1> QED BY <1>2, ListOf

LEMMA TailList ==
  ASSUME NEW s, IsList(s), s # <<>>
  PROVE  /\ IsList(Tail(s)) /\ ToSet(Tail(s)) \subseteq ToSet(s)
         /\ Head(s) \in ToSet(s)
         /\ ToSet(s) = {Head(s)} \cup ToSet(Tail(s))
<1> DEFINE S == ToSet(s)
<1>1. s \in Seq(S)
  BY DEF IsList
<1> HIDE DEF S
<1>2. /\ Tail(s) \in Seq(S) /\ Len(Tail(s)) = Len(s) - 1 /\ Len(s) \in Nat \ {0}
      /\ Head(s) = s[1]
      /\ \A i \in 1 .. Len(s) - 1 : Tail(s)[i] = s[i + 1]
  BY <1>1
<1>3. IsList(Tail(s)) /\ ToSet(Tail(s)) \subseteq S
  BY <1>2, ListOf
<1>4. Head(s) \in ToSet(s)
  BY <1>1, <1>2, ListOf
<1>5. ASSUME NEW x \in ToSet(s), x # Head(s)
      PROVE  x \in ToSet(Tail(s))
  <2>1. PICK i \in 1 .. Len(s) : s[i] = x
    BY <1>1, ListOf
  <2>2. i - 1 \in 1 .. Len(Tail(s)) /\ Tail(s)[i - 1] = x
    BY <1>2, <1>5, <2>1
  <2> QED BY <1>2, <2>2, ListOf
<1> QED BY <1>3, <1>4, <1>5 DEF S

LEMMA JoinList ==
  ASSUME NEW s, IsList(s), NEW r, IsList(r)
  PROVE  IsList(s \o r) /\ ToSet(s \o r) = ToSet(s) \cup ToSet(r)
<1> DEFINE S == ToSet(s) \cup ToSet(r)
<1>1. s \in Seq(S) /\ r \in Seq(S)
  BY DEF IsList
<1> HIDE DEF S
<1>2. s \o r \in Seq(S) /\ ToSet(s \o r) = ToSet(s) \cup ToSet(r)
  BY <1>1, Join
<1> QED BY <1>2, ListOf

LEMMA CutList ==
  ASSUME NEW s, IsList(s), NEW n \in 0 .. Len(s)
  PROVE  /\ IsList(SubSeq(s, 1, n)) /\ Len(SubSeq(s, 1, n)) = n
         /\ \A i \in 1 .. n : SubSeq(s, 1, n)[i] = s[i]
         /\ IsList(SubSeq(s, n + 1, Len(s)))
         /\ Len(SubSeq(s, n + 1, Len(s))) = Len(s) - n
         /\ \A i \in 1 .. Len(s) - n : SubSeq(s, n + 1, Len(s))[i] = s[n + i]
         /\ ToSet(SubSeq(s, 1, n)) \subseteq ToSet(s)
         /\ ToSet(SubSeq(s, n + 1, Len(s))) \subseteq ToSet(s)
<1> DEFINE S == ToSet(s)
<1>1. s \in Seq(S)
  BY DEF IsList
<1> HIDE DEF S
<1>2. Len(s) \in Nat
  BY <1>1
<1>3. /\ SubSeq(s, 1, n) \in Seq(S) /\ Len(SubSeq(s, 1, n)) = n
      /\ \A i \in 1 .. n : SubSeq(s, 1, n)[i] = s[i]
  BY <1>1, <1>2
<1>4. /\ SubSeq(s, n + 1, Len(s)) \in Seq(S) /\ Len(SubSeq(s, n + 1, Len(s))) = Len(s) - n
      /\ \A i \in 1 .. Len(s) - n : SubSeq(s, n + 1, Len(s))[i] = s[n + i]
  BY <1>1, <1>2
<1> QED BY <1>3, <1>4, ListOf DEF S
=============================================================================
