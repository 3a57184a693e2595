------------------------ MODULE DeltaDebuggingProofs ------------------------
(***************************************************************************)
(* What is proved of a delta controller for every input length, every goal *)
(* and mode, any number of light threads and listeners, and any bound on   *)
(* batches.                                                                *)
(***************************************************************************)
EXTENDS DeltaDebugging, SequenceFacts

-----------------------------------------------------------------------------
(* Finite sets and sorted sets.                                            *)

LEMMA FiniteImage ==
  ASSUME NEW f, IsFiniteSet(DOMAIN f)
  PROVE  IsFiniteSet({f[x] : x \in DOMAIN f})
<1> DEFINE T == {f[x] : x \in DOMAIN f}
           g == [x \in DOMAIN f |-> f[x]]
<1>1. g \in [DOMAIN f -> T]
  OBVIOUS
<1>2. \A t \in T : \E x \in DOMAIN f : g[x] = t
  OBVIOUS
<1>3. g \in Surjection(DOMAIN f, T)
  BY <1>1, <1>2 DEF Surjection
<1> QED BY <1>3, FS_Surjection

\* Sorted lists members of the set.
LEMMA SortedMembers ==
  ASSUME NEW A, A \subseteq Int, IsFiniteSet(A)
  PROVE  /\ Cardinality(A) \in Nat
         /\ Sorted(A) \in Seq(A)
         /\ Len(Sorted(A)) = Cardinality(A)
         /\ DOMAIN Sorted(A) = 1 .. Cardinality(A)
         /\ \A i, j \in 1 .. Cardinality(A) : i < j => Sorted(A)[i] < Sorted(A)[j]
         /\ \A x \in A : \E i \in 1 .. Cardinality(A) : Sorted(A)[i] = x
<1> DEFINE Below(x) == {m \in A : m < x}
           N == [x \in A |-> Cardinality(Below(x))]
           c == Cardinality(A)
<1>1. c \in Nat
  BY FS_CardinalityType
<1>2. ASSUME NEW x \in A
      PROVE  IsFiniteSet(Below(x)) /\ N[x] \in 0 .. c - 1
  <2>1. Below(x) \in SUBSET A /\ x \notin Below(x) /\ x \in Int
    BY <1>1
  <2>2. IsFiniteSet(Below(x)) /\ Cardinality(Below(x)) <= c /\ (c = Cardinality(Below(x)) => A = Below(x))
    BY <2>1, FS_Subset
  <2>3. Cardinality(Below(x)) \in Nat
    BY <2>2, FS_CardinalityType
  <2>4. Cardinality(Below(x)) # c
    BY <2>1, <2>2
  <2> HIDE DEF Below, c
  <2> QED BY <1>1, <2>2, <2>3, <2>4
<1>3. ASSUME NEW x \in A, NEW y \in A, x < y
      PROVE  N[x] < N[y]
  <2>1. IsFiniteSet(Below(x)) /\ IsFiniteSet(Below(y)) /\ N[x] \in Int /\ N[y] \in Int
    BY <1>2
  <2>0. \A m \in A : m < x => m < y
    BY <1>3
  <2>00. x \notin Below(x) /\ x \in Below(y)
    BY <1>3
  <2>2. x \notin Below(x) /\ Below(x) \cup {x} \in SUBSET Below(y)
    BY <2>0, <2>00
  <2>3. Cardinality(Below(x) \cup {x}) = N[x] + 1
    BY <2>1, <2>2, FS_AddElement
  <2>4. Cardinality(Below(x) \cup {x}) <= Cardinality(Below(y))
    BY <2>1, <2>2, FS_Subset
  <2> HIDE DEF Below
  <2> QED BY <2>1, <2>3, <2>4
<1>4. N \in Injection(A, 0 .. c - 1)
  <2>1. N \in [A -> 0 .. c - 1]
    BY <1>2
  <2>2. ASSUME NEW x \in A, NEW y \in A, N[x] = N[y] PROVE x = y
    <3>1. x \in Int /\ y \in Int /\ N[x] \in Int /\ N[y] \in Int
      BY <1>2
    <3>2. ~(x < y) /\ ~(y < x)
      BY <1>3, <2>2, <3>1
    <3> HIDE DEF N
    <3> QED BY <3>1, <3>2
  <2> HIDE DEF N
  <2> QED BY <2>1, <2>2 DEF Injection, IsInjective
<1>5. IsFiniteSet(0 .. c - 1) /\ Cardinality(0 .. c - 1) = c
  BY <1>1, FS_Interval
<1>6. N \in Surjection(A, 0 .. c - 1)
  <2> HIDE DEF N
  <2> QED BY <1>4, <1>5, FS_Injection
<1>7. ASSUME NEW i \in 1 .. c
      PROVE  Sorted(A)[i] \in A /\ N[Sorted(A)[i]] = i - 1
  <2>1. i - 1 \in 0 .. c - 1
    BY <1>1
  <2>2. PICK x \in A : N[x] = i - 1
    <3> HIDE DEF N
    <3> QED BY <1>6, <2>1 DEF Surjection
  <2>3. Cardinality({m \in A : m < x}) = i - 1
    BY <2>2
  <2>4. Sorted(A)[i] = CHOOSE n \in A : Cardinality({m \in A : m < n}) = i - 1
    BY <1>7 DEF Sorted
  <2>5. \A n \in A : N[n] = Cardinality({m \in A : m < n})
    OBVIOUS
  <2> HIDE DEF Below, N
  <2>6. Sorted(A)[i] \in A /\ Cardinality({m \in A : m < Sorted(A)[i]}) = i - 1
    BY <2>3, <2>4
  <2> QED BY <2>5, <2>6
<1>8. DOMAIN Sorted(A) = 1 .. c
  BY DEF Sorted
<1>10. Sorted(A) \in [1 .. c -> A]
  <2> DEFINE Member(i) == CHOOSE n \in A : Cardinality({m \in A : m < n}) = i - 1
  <2>1. Sorted(A) = [i \in 1 .. c |-> Member(i)]
    BY DEF Sorted
  <2>2. \A i \in 1 .. c : Member(i) \in A
    BY <1>7, <2>1
  <2> HIDE DEF Member
  <2> QED BY <2>1, <2>2
<1>12. ASSUME NEW i \in 1 .. c, NEW j \in 1 .. c, i < j
       PROVE  Sorted(A)[i] < Sorted(A)[j]
  <2> DEFINE x == Sorted(A)[i]
             y == Sorted(A)[j]
  <2>1. x \in A /\ y \in A /\ N[x] = i - 1 /\ N[y] = j - 1 /\ c \in Int
    BY <1>1, <1>7
  <2> HIDE DEF x, y, c, N
  <2>2. x # y /\ ~(y < x)
    BY <1>12, <1>3, <2>1
  <2>3. x < y
    BY <2>1, <2>2
  <2> QED BY <2>3 DEF x, y
<1>13. ASSUME NEW x \in A
       PROVE  \E i \in 1 .. c : Sorted(A)[i] = x
  <2>1. N[x] \in 0 .. c - 1
    BY <1>2
  <2> HIDE DEF c, N
  <2>2. N[x] + 1 \in 1 .. c /\ N[x] = (N[x] + 1) - 1
    BY <1>1, <2>1
  <2>3. Sorted(A)[N[x] + 1] \in A /\ N[Sorted(A)[N[x] + 1]] = N[x]
    BY <1>7, <2>2
  <2>4. Sorted(A)[N[x] + 1] = x
    BY <1>4, <2>3 DEF Injection, IsInjective
  <2> QED BY <2>2, <2>4
<1> HIDE DEF c
<1>11. Sorted(A) \in Seq(A) /\ Len(Sorted(A)) = c
  BY <1>1, <1>8, <1>10
<1> QED BY <1>1, <1>8, <1>11, <1>12, <1>13 DEF c

-----------------------------------------------------------------------------
(* Lists of ranges.                                                        *)

ProperRange == Nat \X (Nat \ {0})

\* A list of ranges that are in order and at least gap apart has exactly the
\* positions of a set.
Describes(s, P, gap) ==
  /\ s \in Seq(ProperRange)
  /\ \A i, j \in DOMAIN s : i < j => End(s[i]) + gap <= Begin(s[j])
  /\ \A p : p \in P <=> \E i \in DOMAIN s : p \in Positions(s[i])

LEMMA RangeFacts ==
  ASSUME NEW r \in ProperRange
  PROVE  /\ r = <<Begin(r), Length(r)>>
         /\ Begin(r) \in Nat /\ Length(r) \in Nat /\ Length(r) > 0
         /\ End(r) = Begin(r) + Length(r)
         /\ Positions(r) = Begin(r) .. End(r) - 1
BY DEF ProperRange, Begin, Length, End, Positions

LEMMA RangeMade ==
  ASSUME NEW b \in Nat, NEW n \in Nat, n > 0
  PROVE  <<b, n>> \in ProperRange /\ Begin(<<b, n>>) = b /\ Length(<<b, n>>) = n /\ End(<<b, n>>) = b + n
BY DEF ProperRange, Begin, Length, End

\* What is known of a list and its ranges.
LEMMA DescribedFacts ==
  ASSUME NEW s, NEW P, NEW gap, Describes(s, P, gap)
  PROVE  /\ Len(s) \in Nat /\ DOMAIN s = 1 .. Len(s)
         /\ \A i \in 1 .. Len(s) :
              /\ s[i] \in ProperRange /\ s[i] = <<Begin(s[i]), Length(s[i])>>
              /\ Begin(s[i]) \in Nat /\ Length(s[i]) \in Nat /\ Length(s[i]) > 0
              /\ End(s[i]) = Begin(s[i]) + Length(s[i])
              /\ Begin(s[i]) < End(s[i]) /\ End(s[i]) \in Nat
              /\ Positions(s[i]) = Begin(s[i]) .. End(s[i]) - 1
         /\ \A i, j \in 1 .. Len(s) : i < j => End(s[i]) + gap <= Begin(s[j])
         /\ \A p : p \in P <=> \E i \in 1 .. Len(s) :
                                 p \in Int /\ Begin(s[i]) <= p /\ p < End(s[i])
         /\ P \subseteq Nat
<1>1. Len(s) \in Nat /\ DOMAIN s = 1 .. Len(s) /\ \A i \in 1 .. Len(s) : s[i] \in ProperRange
  BY DEF Describes
<1>2. ASSUME NEW i \in 1 .. Len(s)
      PROVE  /\ s[i] = <<Begin(s[i]), Length(s[i])>>
             /\ Begin(s[i]) \in Nat /\ Length(s[i]) \in Nat /\ Length(s[i]) > 0
             /\ End(s[i]) = Begin(s[i]) + Length(s[i])
             /\ Begin(s[i]) < End(s[i]) /\ End(s[i]) \in Nat
             /\ Positions(s[i]) = Begin(s[i]) .. End(s[i]) - 1
             /\ \A p : p \in Positions(s[i]) <=> p \in Int /\ Begin(s[i]) <= p /\ p < End(s[i])
  <2>1. s[i] \in ProperRange
    BY <1>1
  <2>2. PICK r : r = s[i]
    OBVIOUS
  <2>3. /\ r = <<Begin(r), Length(r)>>
        /\ Begin(r) \in Nat /\ Length(r) \in Nat /\ Length(r) > 0
        /\ End(r) = Begin(r) + Length(r)
        /\ Positions(r) = Begin(r) .. End(r) - 1
    BY <2>1, <2>2, RangeFacts
  <2>4. /\ Begin(r) < End(r) /\ End(r) \in Nat
        /\ \A p : p \in Positions(r) <=> p \in Int /\ Begin(r) <= p /\ p < End(r)
    BY <2>3
  <2> QED BY <2>2, <2>3, <2>4
<1>3. \A i, j \in 1 .. Len(s) : i < j => End(s[i]) + gap <= Begin(s[j])
  BY <1>1 DEF Describes
<1>4. \A p : p \in P <=> \E i \in 1 .. Len(s) : p \in Int /\ Begin(s[i]) <= p /\ p < End(s[i])
  BY <1>1, <1>2 DEF Describes
<1>5. P \subseteq Nat
  BY <1>2, <1>4
<1> QED BY <1>1, <1>2, <1>3, <1>4, <1>5

\* A list is of ranges that are apart if each pair is.
LEMMA DescribesIf ==
  ASSUME NEW n \in Nat, NEW s, DOMAIN s = 1 .. n, s = [i \in 1 .. n |-> s[i]],
         NEW P, NEW gap,
         \A i \in 1 .. n : s[i] \in ProperRange,
         \A i, j \in 1 .. n : i < j => End(s[i]) + gap <= Begin(s[j]),
         \A p : p \in P <=> \E i \in 1 .. n : p \in Int /\ Begin(s[i]) <= p /\ p < End(s[i])
  PROVE  Describes(s, P, gap) /\ Len(s) = n
<1>1. s \in [1 .. n -> ProperRange]
  OBVIOUS
<1>2. s \in Seq(ProperRange) /\ Len(s) = n
  BY <1>1
<1>3. ASSUME NEW i \in 1 .. n, NEW p
      PROVE  p \in Positions(s[i]) <=> p \in Int /\ Begin(s[i]) <= p /\ p < End(s[i])
  <2>1. PICK r \in ProperRange : r = s[i]
    OBVIOUS
  <2>2. Begin(r) \in Nat /\ End(r) \in Int /\ Positions(r) = Begin(r) .. End(r) - 1
    BY RangeFacts
  <2>3. p \in Positions(r) <=> p \in Int /\ Begin(r) <= p /\ p < End(r)
    BY <2>2
  <2> QED BY <2>1, <2>3
<1> QED BY <1>2, <1>3 DEF Describes

\* There is one list of ranges that do not touch for a set: nothing but the
\* ranges of one list is in another.
LEMMA SameRanges ==
  ASSUME NEW P, NEW s, NEW r, Describes(s, P, 1), Describes(r, P, 1)
  PROVE  \A i \in 1 .. Len(s) : i \in 1 .. Len(r) /\ s[i] = r[i]
<1>n. Len(s) \in Nat /\ Len(r) \in Nat
  BY DescribedFacts
<1>s. \A i \in 1 .. Len(s) : /\ Begin(s[i]) \in Nat /\ End(s[i]) \in Nat
                             /\ Begin(s[i]) < End(s[i])
  BY DescribedFacts
<1>r. \A i \in 1 .. Len(r) : /\ Begin(r[i]) \in Nat /\ End(r[i]) \in Nat
                             /\ Begin(r[i]) < End(r[i])
  BY DescribedFacts
<1>os. \A i, j \in 1 .. Len(s) : i < j => End(s[i]) + 1 <= Begin(s[j])
  BY DescribedFacts
<1>or. \A i, j \in 1 .. Len(r) : i < j => End(r[i]) + 1 <= Begin(r[j])
  BY DescribedFacts
<1>cs. \A p \in Nat : p \in P <=> \E i \in 1 .. Len(s) : Begin(s[i]) <= p /\ p < End(s[i])
  BY DescribedFacts
<1>cr. \A p \in Nat : p \in P <=> \E i \in 1 .. Len(r) : Begin(r[i]) <= p /\ p < End(r[i])
  BY DescribedFacts
<1> DEFINE Bad == {i \in 1 .. Len(s) : ~(i \in 1 .. Len(r) /\ s[i] = r[i])}
<1> SUFFICES ASSUME Bad # {}
             PROVE  FALSE
  OBVIOUS
<1>1. PICK i \in Bad : \A k \in Bad : i <= k
  <2>1. Bad \subseteq Nat
    BY <1>n
  <2> HIDE DEF Bad
  <2> QED BY <2>1, Least
<1>2. i \in 1 .. Len(s) /\ ~(i \in 1 .. Len(r) /\ s[i] = r[i])
  OBVIOUS
<1>3. \A j \in 1 .. Len(s) : j < i => j \in 1 .. Len(r) /\ s[j] = r[j]
  BY <1>1, <1>2, <1>n
<1> HIDE DEF Bad
<1>4. Begin(s[i]) \in P
  BY <1>2, <1>s, <1>cs
<1>5. PICK k \in 1 .. Len(r) : Begin(r[k]) <= Begin(s[i]) /\ Begin(s[i]) < End(r[k])
  BY <1>2, <1>4, <1>s, <1>cr
<1>6. k >= i
  <2> SUFFICES ASSUME k < i
               PROVE  FALSE
    BY <1>2, <1>5, <1>n
  <2>1. k \in 1 .. Len(s) /\ s[k] = r[k]
    BY <1>2, <1>3, <1>5, <1>n
  <2>2. End(s[k]) + 1 <= Begin(s[i]) /\ Begin(s[i]) < End(s[k])
    BY <1>2, <1>5, <1>os, <2>1
  <2> QED BY <1>2, <1>s, <2>1, <2>2
<1>7. i \in 1 .. Len(r)
  BY <1>2, <1>5, <1>6, <1>n
<1>8. Begin(r[i]) <= Begin(s[i])
  <2>1. k = i \/ End(r[i]) + 1 <= Begin(r[k])
    BY <1>5, <1>6, <1>7, <1>or, <1>n
  <2> QED BY <1>2, <1>5, <1>7, <1>r, <1>s, <2>1
<1>9. Begin(s[i]) <= Begin(r[i])
  <2>1. Begin(r[i]) \in P
    BY <1>7, <1>r, <1>cr
  <2>2. PICK m \in 1 .. Len(s) : Begin(s[m]) <= Begin(r[i]) /\ Begin(r[i]) < End(s[m])
    BY <1>7, <2>1, <1>r, <1>cs
  <2>3. m >= i
    <3> SUFFICES ASSUME m < i
                 PROVE  FALSE
      BY <1>2, <2>2, <1>n
    <3>1. m \in 1 .. Len(r) /\ s[m] = r[m]
      BY <1>3, <2>2
    <3>2. End(r[m]) + 1 <= Begin(r[i]) /\ Begin(r[i]) < End(r[m])
      BY <1>7, <2>2, <1>or, <3>1
    <3> QED BY <1>7, <1>r, <3>1, <3>2
  <2>4. m = i \/ End(s[i]) + 1 <= Begin(s[m])
    BY <1>2, <2>2, <2>3, <1>os, <1>n
  <2> QED BY <1>2, <1>7, <1>r, <1>s, <2>2, <2>4
<1>10. End(r[i]) <= End(s[i])
  <2> SUFFICES ASSUME End(s[i]) < End(r[i])
               PROVE  FALSE
    BY <1>2, <1>7, <1>s, <1>r
  <2>1. Begin(r[i]) <= End(s[i]) /\ End(s[i]) \in Nat
    BY <1>2, <1>7, <1>8, <1>s, <1>r
  <2>2. End(s[i]) \in P
    BY <1>7, <1>cr, <2>1
  <2>3. PICK m \in 1 .. Len(s) : Begin(s[m]) <= End(s[i]) /\ End(s[i]) < End(s[m])
    BY <2>1, <2>2, <1>cs
  <2>4. m = i \/ End(s[m]) + 1 <= Begin(s[i]) \/ End(s[i]) + 1 <= Begin(s[m])
    BY <1>2, <2>3, <1>os, <1>n
  <2>5. /\ Begin(s[m]) \in Nat /\ End(s[m]) \in Nat /\ Begin(s[i]) \in Nat
        /\ Begin(s[i]) < End(s[i])
    BY <1>2, <2>3, <1>s
  <2> QED BY <2>1, <2>3, <2>4, <2>5
<1>11. End(s[i]) <= End(r[i])
  <2> SUFFICES ASSUME End(r[i]) < End(s[i])
               PROVE  FALSE
    BY <1>2, <1>7, <1>s, <1>r
  <2>1. Begin(s[i]) <= End(r[i]) /\ End(r[i]) \in Nat
    BY <1>2, <1>7, <1>9, <1>s, <1>r
  <2>2. End(r[i]) \in P
    BY <1>2, <1>cs, <2>1
  <2>3. PICK m \in 1 .. Len(r) : Begin(r[m]) <= End(r[i]) /\ End(r[i]) < End(r[m])
    BY <2>1, <2>2, <1>cr
  <2>4. m = i \/ End(r[m]) + 1 <= Begin(r[i]) \/ End(r[i]) + 1 <= Begin(r[m])
    BY <1>7, <2>3, <1>or, <1>n
  <2>5. /\ Begin(r[m]) \in Nat /\ End(r[m]) \in Nat /\ Begin(r[i]) \in Nat
        /\ Begin(r[i]) < End(r[i])
    BY <1>7, <2>3, <1>r
  <2> QED BY <2>1, <2>3, <2>4, <2>5
<1>12. s[i] = r[i]
  <2>1. s[i] = <<Begin(s[i]), Length(s[i])>> /\ Length(s[i]) \in Nat /\ End(s[i]) = Begin(s[i]) + Length(s[i])
    BY <1>2, DescribedFacts
  <2>2. r[i] = <<Begin(r[i]), Length(r[i])>> /\ Length(r[i]) \in Nat /\ End(r[i]) = Begin(r[i]) + Length(r[i])
    BY <1>7, DescribedFacts
  <2>3. Begin(s[i]) = Begin(r[i]) /\ End(s[i]) = End(r[i])
    BY <1>2, <1>7, <1>8, <1>9, <1>10, <1>11, <1>s, <1>r
  <2>4. Length(s[i]) = Length(r[i])
    BY <1>2, <1>s, <2>1, <2>2, <2>3
  <2> QED BY <2>1, <2>2, <2>3, <2>4
<1> QED BY <1>2, <1>7, <1>12

LEMMA OneDescription ==
  ASSUME NEW P, NEW s, NEW r, Describes(s, P, 1), Describes(r, P, 1)
  PROVE  s = r
<1>1. /\ \A i \in 1 .. Len(s) : i \in 1 .. Len(r) /\ s[i] = r[i]
      /\ \A i \in 1 .. Len(r) : i \in 1 .. Len(s)
  BY SameRanges
<1>2. Len(s) \in Nat /\ Len(r) \in Nat /\ s \in Seq(ProperRange) /\ r \in Seq(ProperRange)
  BY DEF Describes
<1>3. Len(s) = Len(r)
  BY <1>1, <1>2
<1> QED BY <1>1, <1>2, <1>3

\* A member of a finite set is followed by a number that is none.
LEMMA RunLength ==
  ASSUME NEW P, P \subseteq Nat, IsFiniteSet(P), NEW p \in P
  PROVE  \E n \in 1 .. Cardinality(P) : p .. p + n - 1 \subseteq P /\ p + n \notin P
<1> DEFINE c == Cardinality(P)
           Gaps == {k \in Nat : p + k \notin P}
<1>1. c \in Nat /\ p \in Nat
  BY FS_CardinalityType
<1>2. \A k \in Nat : p .. p + k - 1 \subseteq P => k <= c
  <2> TAKE k \in Nat
  <2>1. CASE k = 0
    BY <1>1, <2>1
  <2>2. CASE k > 0 /\ p .. p + k - 1 \subseteq P
    <3>1. Cardinality(p .. p + k - 1) = p + k - 1 - p + 1
      <4>1. p \in Int /\ p + k - 1 \in Int /\ ~(p > p + k - 1)
        BY <1>1, <2>2
      <4> QED BY <4>1, FS_Interval
    <3>2. Cardinality(p .. p + k - 1) <= c
      BY <2>2, FS_Subset
    <3> HIDE DEF c
    <3> QED BY <1>1, <3>1, <3>2
  <2> HIDE DEF c
  <2> QED BY <2>1, <2>2
<1> HIDE DEF c
<1>3. Gaps # {} /\ Gaps \subseteq Nat
  <2> SUFFICES ASSUME Gaps = {}
               PROVE  FALSE
    OBVIOUS
  <2>1. \A x \in p .. p + (c + 1) - 1 : x - p \in Nat /\ x = p + (x - p)
    BY <1>1
  <2>2. p .. p + (c + 1) - 1 \subseteq P
    BY <2>1
  <2>3. c + 1 \in Nat /\ ~(c + 1 <= c)
    BY <1>1
  <2> QED BY <1>2, <2>2, <2>3
<1>4. PICK n \in Gaps : \A k \in Gaps : n <= k
  <2> HIDE DEF Gaps
  <2> QED BY <1>3, Least
<1>5. n \in Nat /\ p + n \notin P /\ n # 0
  BY <1>1
<1>6. p .. p + n - 1 \subseteq P
  <2> SUFFICES ASSUME NEW x \in p .. p + n - 1
               PROVE  x \in P
    OBVIOUS
  <2>1. x - p \in Nat /\ x - p < n /\ x = p + (x - p)
    BY <1>1, <1>5
  <2> QED BY <1>4, <1>5, <2>1
<1>7. n \in 1 .. c
  BY <1>1, <1>2, <1>5, <1>6
<1> QED BY <1>5, <1>6, <1>7 DEF c

\* A member of a set belongs to a run that starts in the set.
LEMMA RunStart ==
  ASSUME NEW P, P \subseteq Nat, NEW q \in P
  PROVE  \E p \in P : p - 1 \notin P /\ p <= q /\ p .. q \subseteq P
<1> DEFINE Gaps == {k \in Nat : q - k - 1 \notin P}
<1>1. q \in Gaps /\ Gaps \subseteq Nat
  <2>1. q \in Nat /\ q - q - 1 = -1 /\ -1 \notin Nat
    OBVIOUS
  <2> QED BY <2>1
<1>2. PICK d \in Gaps : \A k \in Gaps : d <= k
  <2> HIDE DEF Gaps
  <2> QED BY <1>1, Least
<1>3. d \in Nat /\ q - d - 1 \notin P /\ q \in Nat
  OBVIOUS
<1>4. q - d .. q \subseteq P
  <2> SUFFICES ASSUME NEW x \in q - d .. q
               PROVE  x \in P
    OBVIOUS
  <2>1. CASE x = q
    BY <2>1
  <2>2. CASE x # q
    <3>1. q - x - 1 \in Nat /\ q - x - 1 < d /\ q - (q - x - 1) - 1 = x
      BY <1>3, <2>2
    <3> QED BY <1>2, <1>3, <3>1
  <2> QED BY <2>1, <2>2
<1>5. q - d \in P
  BY <1>3, <1>4
<1> QED BY <1>3, <1>4, <1>5

\* The runs of a set describe it.
LEMMA RunsDescribe ==
  ASSUME NEW P, P \subseteq Nat, IsFiniteSet(P)
  PROVE  Describes(RunsOf(P), P, 1)
<1> DEFINE starts == {p \in P : p - 1 \notin P}
           IsRun(p, n) == p .. p + n - 1 \subseteq P /\ p + n \notin P
           len(p) == CHOOSE n \in 1 .. Cardinality(P) : IsRun(p, n)
           c == Cardinality(starts)
           runs == [i \in 1 .. c |-> <<Sorted(starts)[i], len(Sorted(starts)[i])>>]
<1>1. ASSUME NEW p \in starts
      PROVE  p \in Nat /\ len(p) \in Nat /\ len(p) > 0 /\ IsRun(p, len(p))
  <2>1. p \in P
    OBVIOUS
  <2>2. \E n \in 1 .. Cardinality(P) : IsRun(p, n)
    BY <2>1, RunLength
  <2>3. len(p) \in 1 .. Cardinality(P) /\ IsRun(p, len(p))
    <3> HIDE DEF IsRun
    <3> QED BY <2>2
  <2>4. Cardinality(P) \in Nat
    BY FS_CardinalityType
  <2> HIDE DEF len
  <2> QED BY <2>1, <2>3, <2>4
<1> HIDE DEF len
<1>2. starts \subseteq Int /\ IsFiniteSet(starts)
  <2>1. starts \subseteq P
    OBVIOUS
  <2> HIDE DEF starts
  <2>2. starts \subseteq Int
    BY <2>1
  <2> QED BY <2>1, <2>2, FS_Subset
<1>3. /\ c \in Nat /\ DOMAIN Sorted(starts) = 1 .. c
      /\ \A i \in 1 .. c : Sorted(starts)[i] \in starts
      /\ \A i, j \in 1 .. c : i < j => Sorted(starts)[i] < Sorted(starts)[j]
      /\ \A x \in starts : \E i \in 1 .. c : Sorted(starts)[i] = x
  <2> HIDE DEF starts
  <2>1. Sorted(starts) \in Seq(starts) /\ Len(Sorted(starts)) = c
    BY <1>2, SortedMembers
  <2>2. \A i \in 1 .. c : Sorted(starts)[i] \in starts
    BY <2>1
  <2> QED BY <1>2, <2>2, SortedMembers
<1>4. RunsOf(P) = runs
  BY <1>3 DEF RunsOf, len
<1>5. ASSUME NEW i \in 1 .. c
      PROVE  /\ runs[i] \in ProperRange /\ Begin(runs[i]) = Sorted(starts)[i]
             /\ Begin(runs[i]) \in starts
             /\ End(runs[i]) = Sorted(starts)[i] + len(Sorted(starts)[i])
  <2>1. PICK p \in starts : p = Sorted(starts)[i]
    BY <1>3
  <2>2. runs[i] = <<p, len(p)>> /\ p \in Nat /\ len(p) \in Nat /\ len(p) > 0
    BY <1>1, <2>1
  <2>3. /\ <<p, len(p)>> \in ProperRange /\ Begin(<<p, len(p)>>) = p
        /\ End(<<p, len(p)>>) = p + len(p)
    BY <2>2, RangeMade
  <2> HIDE DEF runs, starts
  <2> QED BY <2>1, <2>2, <2>3
<1>6. ASSUME NEW i \in 1 .. c, NEW j \in 1 .. c, i < j
      PROVE  End(runs[i]) + 1 <= Begin(runs[j])
  <2>1. PICK p \in starts, q \in starts : p = Sorted(starts)[i] /\ q = Sorted(starts)[j]
    BY <1>3
  <2>2. p \in Nat /\ q \in Nat /\ len(p) \in Nat /\ p < q /\ q - 1 \notin P
    BY <1>1, <1>3, <1>6, <2>1
  <2>3. p .. p + len(p) - 1 \subseteq P
    BY <1>1
  <2>4. q - 1 >= p + len(p)
    BY <2>2, <2>3
  <2>5. End(runs[i]) = p + len(p) /\ Begin(runs[j]) = q
    BY <1>5, <2>1
  <2> QED BY <2>2, <2>4, <2>5
<1>7. ASSUME NEW i \in 1 .. c, NEW q \in Int, Begin(runs[i]) <= q, q < End(runs[i])
      PROVE  q \in P
  <2>1. PICK p \in starts : p = Sorted(starts)[i]
    BY <1>3
  <2>2. p .. p + len(p) - 1 \subseteq P /\ p \in Nat /\ len(p) \in Nat
    BY <1>1
  <2>3. p <= q /\ q < p + len(p)
    BY <1>5, <1>7, <2>1
  <2> QED BY <2>2, <2>3
<1>8. ASSUME NEW q \in P
      PROVE  \E i \in 1 .. c : q \in Int /\ Begin(runs[i]) <= q /\ q < End(runs[i])
  <2>1. PICK p \in P : p - 1 \notin P /\ p <= q /\ p .. q \subseteq P
    BY RunStart
  <2>2. PICK i \in 1 .. c : Sorted(starts)[i] = p
    BY <1>3, <2>1
  <2>3. p \in Nat /\ len(p) \in Nat /\ p + len(p) \notin P /\ len(p) > 0
    BY <1>1, <2>1
  <2>4. q < p + len(p) /\ q \in Nat
    BY <2>1, <2>3
  <2>5. Begin(runs[i]) = p /\ End(runs[i]) = p + len(p)
    BY <1>5, <2>2
  <2>6. Begin(runs[i]) <= q /\ q < End(runs[i]) /\ q \in Int
    BY <2>1, <2>4, <2>5
  <2> HIDE DEF runs
  <2> QED BY <2>2, <2>6
<1>9. DOMAIN runs = 1 .. c /\ runs = [i \in 1 .. c |-> runs[i]]
  OBVIOUS
<1>10. /\ \A i \in 1 .. c : runs[i] \in ProperRange
       /\ \A i, j \in 1 .. c : i < j => End(runs[i]) + 1 <= Begin(runs[j])
       /\ \A p : p \in P <=> \E i \in 1 .. c : p \in Int /\ Begin(runs[i]) <= p /\ p < End(runs[i])
  <2> HIDE DEF runs, c, starts
  <2> QED BY <1>5, <1>6, <1>7, <1>8
<1> HIDE DEF runs, c
<1>11. Describes(runs, P, 1)
  BY <1>3, <1>9, <1>10, DescribesIf
<1> QED BY <1>4, <1>11

\* What is left is counted up to a position.
LEMMA CoordIs ==
  ASSUME NEW s, NEW R, Describes(s, R, 1), NEW p \in Nat
  PROVE  /\ IsInRange(s, p) <=> p \in R
         /\ Coord(s, p) = Cardinality((0 .. p - 1) \ R)
<1>n. Len(s) \in Nat /\ DOMAIN s = 1 .. Len(s)
  BY DescribedFacts
<1>s. \A i \in 1 .. Len(s) : /\ Begin(s[i]) \in Nat /\ End(s[i]) \in Nat
                             /\ Begin(s[i]) < End(s[i])
                             /\ Positions(s[i]) = Begin(s[i]) .. End(s[i]) - 1
  BY DescribedFacts
<1>o. \A i, j \in 1 .. Len(s) : i < j => End(s[i]) + 1 <= Begin(s[j])
  BY DescribedFacts
<1>c. \A q \in Nat : q \in R <=> \E i \in 1 .. Len(s) : Begin(s[i]) <= q /\ q < End(s[i])
  BY DescribedFacts
<1>1. ASSUME NEW q \in Nat
      PROVE  IsInRange(s, q) <=> q \in R
  <2>1. ASSUME IsInRange(s, q)
        PROVE  q \in R
    <3>1. PICK i \in 1 .. Len(s) : q \in Positions(s[i])
      BY <1>n, <2>1 DEF IsInRange
    <3>2. Begin(s[i]) <= q /\ q < End(s[i])
      BY <1>s, <3>1
    <3> QED BY <1>c, <3>2
  <2>2. ASSUME q \in R
        PROVE  IsInRange(s, q)
    <3>1. PICK i \in 1 .. Len(s) : Begin(s[i]) <= q /\ q < End(s[i])
      BY <1>c, <2>2
    <3>2. q \in Positions(s[i])
      BY <1>s, <3>1
    <3>3. ASSUME NEW j \in 1 .. i - 1
          PROVE  q >= Begin(s[j])
      <4>1. j \in 1 .. Len(s) /\ j < i
        BY <1>n
      <4>2. End(s[j]) + 1 <= Begin(s[i])
        BY <1>o, <4>1
      <4> QED BY <1>s, <3>1, <4>1, <4>2
    <3> QED BY <1>n, <3>2, <3>3 DEF IsInRange
  <2> QED BY <2>1, <2>2
<1>2. {c \in 0 .. p - 1 : ~IsInRange(s, c)} = (0 .. p - 1) \ R
  BY <1>1
<1> QED BY <1>1, <1>2 DEF Coord

\* A range that comes after the others is joined to them.
LEMMA JoinedDescribes ==
  ASSUME NEW m, NEW P, Describes(m, P, 1), NEW new \in ProperRange,
         \A i \in 1 .. Len(m) : End(m[i]) <= Begin(new)
  PROVE  /\ Describes(Joined(m, new), P \cup Positions(new), 1)
         /\ \A i \in 1 .. Len(Joined(m, new)) : End(Joined(m, new)[i]) <= End(new)
<1> DEFINE n == Len(m)
<1>n. n \in Nat /\ DOMAIN m = 1 .. n /\ m = [i \in 1 .. n |-> m[i]] /\ m \in Seq(ProperRange)
  BY DEF Describes
<1>r. \A i \in 1 .. n : m[i] \in ProperRange
  BY <1>n
<1>s. \A i \in 1 .. n : /\ Begin(m[i]) \in Nat /\ End(m[i]) \in Nat /\ Length(m[i]) \in Nat
                        /\ Length(m[i]) > 0 /\ End(m[i]) = Begin(m[i]) + Length(m[i])
                        /\ Begin(m[i]) < End(m[i])
  BY DescribedFacts
<1>o. \A i, j \in 1 .. n : i < j => End(m[i]) + 1 <= Begin(m[j])
  BY DescribedFacts
<1>c. \A p : p \in P <=> \E i \in 1 .. n : p \in Int /\ Begin(m[i]) <= p /\ p < End(m[i])
  BY DescribedFacts
<1>b. /\ Begin(new) \in Nat /\ Length(new) \in Nat /\ Length(new) > 0
      /\ End(new) = Begin(new) + Length(new)
      /\ \A p : p \in Positions(new) <=> p \in Int /\ Begin(new) <= p /\ p < End(new)
  <2>1. /\ Begin(new) \in Nat /\ Length(new) \in Nat /\ Length(new) > 0
        /\ End(new) = Begin(new) + Length(new)
        /\ Positions(new) = Begin(new) .. End(new) - 1
    BY RangeFacts
  <2> QED BY <2>1
<1> HIDE DEF n
<1>1. CASE m # <<>> /\ End(Last(m)) = Begin(new)
  <2> DEFINE wide == <<Begin(m[n]), Length(m[n]) + Length(new)>>
             s == [i \in 1 .. n |-> IF i = n THEN wide ELSE m[i]]
  <2>1. n \in 1 .. n /\ Last(m) = m[n]
    BY <1>1, <1>n DEF Last, n
  <2>2. Joined(m, new) = s
    <3>1. Joined(m, new) = [m EXCEPT ![n] = wide]
      BY <1>1, <2>1 DEF Joined, n
    <3> HIDE DEF wide
    <3>2. [m EXCEPT ![n] = wide] = s
      BY <1>n, <2>1
    <3> QED BY <3>1, <3>2
  <2>3. wide \in ProperRange /\ Begin(wide) = Begin(m[n]) /\ End(wide) = End(new)
    <3>1. Begin(m[n]) \in Nat /\ Length(m[n]) + Length(new) \in Nat /\ Length(m[n]) + Length(new) > 0
      BY <1>s, <1>b, <2>1
    <3>2. /\ wide \in ProperRange /\ Begin(wide) = Begin(m[n])
          /\ End(wide) = Begin(m[n]) + (Length(m[n]) + Length(new))
      BY <3>1, RangeMade
    <3> QED BY <1>1, <1>b, <1>s, <2>1, <3>2
  <2> HIDE DEF wide
  <2>4. s[n] = wide /\ \A i \in 1 .. n : i # n => s[i] = m[i]
    BY <2>1
  <2>5. DOMAIN s = 1 .. n /\ s = [i \in 1 .. n |-> s[i]]
    OBVIOUS
  <2> HIDE DEF s
  <2>6. \A i \in 1 .. n : s[i] \in ProperRange /\ Begin(s[i]) = Begin(m[i])
    BY <1>r, <2>3, <2>4
  <2>7. \A i, j \in 1 .. n : i < j => End(s[i]) + 1 <= Begin(s[j])
    <3> TAKE i, j \in 1 .. n
    <3> HAVE i < j
    <3>1. i # n
      BY <1>n
    <3> QED BY <1>o, <2>4, <2>6, <3>1
  <2>8. ASSUME NEW p
        PROVE  p \in P \cup Positions(new) <=>
                 \E i \in 1 .. n : p \in Int /\ Begin(s[i]) <= p /\ p < End(s[i])
    <3>1. ASSUME p \in P
          PROVE  \E i \in 1 .. n : p \in Int /\ Begin(s[i]) <= p /\ p < End(s[i])
      <4>1. PICK i \in 1 .. n : p \in Int /\ Begin(m[i]) <= p /\ p < End(m[i])
        BY <1>c, <3>1
      <4>2. Begin(s[i]) <= p /\ p < End(s[i])
        <5>1. CASE i = n
          BY <1>1, <1>b, <2>1, <2>3, <2>4, <4>1, <5>1
        <5>2. CASE i # n
          BY <2>4, <4>1, <5>2
        <5> QED BY <5>1, <5>2
      <4> QED BY <4>1, <4>2
    <3>2. ASSUME p \in Positions(new)
          PROVE  \E i \in 1 .. n : p \in Int /\ Begin(s[i]) <= p /\ p < End(s[i])
      <4>1. p \in Int /\ Begin(new) <= p /\ p < End(new)
        BY <1>b, <3>2
      <4>2. Begin(s[n]) <= p /\ p < End(s[n])
        BY <1>1, <1>b, <1>s, <2>1, <2>3, <2>4, <4>1
      <4> QED BY <2>1, <4>1, <4>2
    <3>3. ASSUME NEW i \in 1 .. n, p \in Int, Begin(s[i]) <= p, p < End(s[i])
          PROVE  p \in P \cup Positions(new)
      <4>1. CASE i # n
        BY <1>c, <2>4, <3>3, <4>1
      <4>2. CASE i = n
        <5>1. Begin(m[n]) <= p /\ p < End(new)
          BY <2>3, <2>4, <3>3, <4>2
        <5>2. p < End(m[n]) \/ Begin(new) <= p
          BY <1>1, <1>b, <2>1, <3>3
        <5> QED BY <1>b, <1>c, <2>1, <3>3, <5>1, <5>2
      <4> QED BY <4>1, <4>2
    <3> QED BY <3>1, <3>2, <3>3
  <2>9. \A i \in 1 .. n : End(s[i]) <= End(new)
    <3> TAKE i \in 1 .. n
    <3>1. CASE i = n
      BY <2>3, <2>4, <1>b, <3>1
    <3>2. CASE i # n
      <4>1. End(m[i]) <= Begin(new) /\ End(m[i]) \in Nat
        BY <1>s DEF n
      <4> QED BY <1>b, <2>4, <3>2, <4>1
    <3> QED BY <3>1, <3>2
  <2>10. Describes(s, P \cup Positions(new), 1) /\ Len(s) = n
    BY <1>n, <2>5, <2>6, <2>7, <2>8, DescribesIf
  <2> QED BY <2>2, <2>9, <2>10
<1>2. CASE ~(m # <<>> /\ End(Last(m)) = Begin(new))
  <2> DEFINE s == [i \in 1 .. n + 1 |-> IF i = n + 1 THEN new ELSE m[i]]
  <2>1. Joined(m, new) = s
    <3>1. Joined(m, new) = Append(m, new)
      BY <1>2 DEF Joined
    <3>2. Append(m, new) = s
      <4>1. Append(m, new) \in Seq(ProperRange) /\ Len(Append(m, new)) = n + 1
        BY <1>n DEF n
      <4>2. \A i \in 1 .. n + 1 : Append(m, new)[i] = IF i = n + 1 THEN new ELSE m[i]
        BY <1>n DEF n
      <4> QED BY <1>n, <4>1, <4>2
    <3> QED BY <3>1, <3>2
  <2>2. s[n + 1] = new /\ \A i \in 1 .. n : s[i] = m[i]
    BY <1>n
  <2>3. DOMAIN s = 1 .. n + 1 /\ s = [i \in 1 .. n + 1 |-> s[i]]
    OBVIOUS
  <2> HIDE DEF s
  <2>4. \A i \in 1 .. n : End(m[i]) + 1 <= Begin(new)
    <3> TAKE i \in 1 .. n
    <3>1. n \in 1 .. n /\ m # <<>> /\ Last(m) = m[n]
      BY <1>n DEF Last, n
    <3>2. End(m[n]) <= Begin(new) /\ End(m[n]) # Begin(new)
      BY <1>2, <3>1 DEF n
    <3>3. i = n \/ End(m[i]) + 1 <= Begin(m[n])
      BY <1>o, <1>n, <3>1
    <3>4. Begin(m[n]) < End(m[n]) /\ End(m[n]) \in Nat /\ Begin(m[n]) \in Nat /\ End(m[i]) \in Nat
      BY <1>s, <3>1
    <3>5. End(m[n]) + 1 <= Begin(new)
      BY <1>b, <3>2, <3>4
    <3>6. CASE i = n
      BY <3>5, <3>6
    <3>7. CASE i # n
      BY <1>b, <3>3, <3>4, <3>5, <3>7
    <3> QED BY <3>6, <3>7
  <2>5. \A i \in 1 .. n + 1 : s[i] \in ProperRange
    BY <1>n, <1>r, <2>2
  <2>6. \A i, j \in 1 .. n + 1 : i < j => End(s[i]) + 1 <= Begin(s[j])
    <3> TAKE i, j \in 1 .. n + 1
    <3> HAVE i < j
    <3>1. i \in 1 .. n /\ (j = n + 1 \/ j \in 1 .. n)
      BY <1>n
    <3> QED BY <1>o, <2>2, <2>4, <3>1
  <2>7. ASSUME NEW p
        PROVE  p \in P \cup Positions(new) <=>
                 \E i \in 1 .. n + 1 : p \in Int /\ Begin(s[i]) <= p /\ p < End(s[i])
    <3>1. (\E i \in 1 .. n + 1 : p \in Int /\ Begin(s[i]) <= p /\ p < End(s[i]))
            <=> \/ p \in Int /\ Begin(new) <= p /\ p < End(new)
                \/ \E i \in 1 .. n : p \in Int /\ Begin(m[i]) <= p /\ p < End(m[i])
      <4>1. \A i : i \in 1 .. n + 1 <=> i = n + 1 \/ i \in 1 .. n
        BY <1>n
      <4> QED BY <2>2, <4>1
    <3> QED BY <1>b, <1>c, <3>1
  <2>8. \A i \in 1 .. n + 1 : End(s[i]) <= End(new)
    <3> TAKE i \in 1 .. n + 1
    <3>1. CASE i = n + 1
      BY <1>b, <2>2, <3>1
    <3>2. CASE i \in 1 .. n
      <4>1. End(m[i]) <= Begin(new) /\ End(m[i]) \in Nat
        BY <1>s, <3>2 DEF n
      <4> QED BY <1>b, <2>2, <3>2, <4>1
    <3> QED BY <1>n, <3>1, <3>2
  <2>9. Describes(s, P \cup Positions(new), 1) /\ Len(s) = n + 1
    <3>1. n + 1 \in Nat
      BY <1>n
    <3> QED BY <2>3, <2>5, <2>6, <2>7, <3>1, DescribesIf
  <2> QED BY <2>1, <2>8, <2>9
<1> QED BY <1>1, <1>2

\* The ranges that touch, joined from the first to the m-th.
IsMerged(f, s, m) ==
  f = [i \in 0 .. m |-> IF i = 0 THEN <<>> ELSE Joined(f[i - 1], s[i])]

LEMMA MergedExists ==
  ASSUME NEW s, NEW n \in Nat
  PROVE  \E f : IsMerged(f, s, n)
<1> DEFINE Bad == {m \in Nat : ~ \E f : IsMerged(f, s, m)}
<1> SUFFICES ASSUME Bad # {}
             PROVE  FALSE
  OBVIOUS
<1>1. PICK m \in Bad : \A k \in Bad : m <= k
  <2>1. Bad \subseteq Nat
    OBVIOUS
  <2> HIDE DEF Bad
  <2> QED BY <2>1, Least
<1>2. CASE m = 0
  <2>1. IsMerged([i \in 0 .. 0 |-> <<>>], s, 0)
    BY DEF IsMerged
  <2> QED BY <1>2, <2>1
<1>3. CASE m # 0
  <2>1. m - 1 \in Nat /\ m - 1 \notin Bad
    BY <1>1, <1>3
  <2>2. PICK g : IsMerged(g, s, m - 1)
    BY <2>1
  <2> DEFINE f == [i \in 0 .. m |-> IF i = m THEN Joined(g[m - 1], s[m]) ELSE g[i]]
  <2>3. ASSUME NEW i \in 0 .. m
        PROVE  f[i] = IF i = 0 THEN <<>> ELSE Joined(f[i - 1], s[i])
    <3>1. CASE i = m
      BY <1>3, <2>1, <3>1
    <3>2. CASE i = 0
      BY <1>3, <2>1, <2>2, <3>2 DEF IsMerged
    <3>3. CASE i \in 1 .. m - 1
      <4>1. f[i] = g[i] /\ f[i - 1] = g[i - 1] /\ i \in 0 .. m - 1 /\ i # 0
        BY <2>1, <3>3
      <4>2. g[i] = Joined(g[i - 1], s[i])
        BY <2>2, <4>1 DEF IsMerged
      <4> QED BY <4>1, <4>2
    <3> QED BY <3>1, <3>2, <3>3
  <2>4. f = [i \in 0 .. m |-> f[i]]
    OBVIOUS
  <2> HIDE DEF f
  <2>5. f = [i \in 0 .. m |-> IF i = 0 THEN <<>> ELSE Joined(f[i - 1], s[i])]
    BY <2>3, <2>4
  <2> QED BY <2>5 DEF IsMerged
<1> QED BY <1>2, <1>3

LEMMA MergeIs ==
  ASSUME NEW s, Len(s) \in Nat
  PROVE  \E f : /\ Merge(s) = f[Len(s)] /\ f[0] = <<>>
                /\ \A i \in 1 .. Len(s) : f[i] = Joined(f[i - 1], s[i])
<1> DEFINE f == CHOOSE f : IsMerged(f, s, Len(s))
<1>1. IsMerged(f, s, Len(s))
  BY MergedExists
<1>2. Merge(s) = f[Len(s)]
  BY DEF Merge, IsMerged
<1> HIDE DEF f
<1>3. f[0] = <<>>
  BY <1>1 DEF IsMerged
<1>4. \A i \in 1 .. Len(s) : f[i] = Joined(f[i - 1], s[i])
  BY <1>1 DEF IsMerged
<1> QED BY <1>2, <1>3, <1>4

\* Merging leaves the positions as they are, and no ranges that touch.
LEMMA MergeDescribes ==
  ASSUME NEW s, NEW P, Describes(s, P, 0)
  PROVE  Describes(Merge(s), P, 1)
<1> DEFINE n == Len(s)
           Upto(i) == {p \in Int : \E j \in 1 .. i : Begin(s[j]) <= p /\ p < End(s[j])}
           Good(t, i) == /\ Describes(t, Upto(i), 1)
                         /\ \A j \in 1 .. n, k \in 1 .. Len(t) :
                              j > i => End(t[k]) <= Begin(s[j])
<1>n. n \in Nat
  BY DescribedFacts
<1>r. \A i \in 1 .. n : s[i] \in ProperRange
  BY DEF Describes
<1>s. \A i \in 1 .. n : /\ Begin(s[i]) \in Nat /\ End(s[i]) \in Nat
                        /\ Begin(s[i]) < End(s[i])
                        /\ Positions(s[i]) = Begin(s[i]) .. End(s[i]) - 1
  BY DescribedFacts
<1>o. \A i, j \in 1 .. n : i < j => End(s[i]) <= Begin(s[j])
  <2>1. \A i, j \in 1 .. n : i < j => End(s[i]) + 0 <= Begin(s[j])
    BY DescribedFacts
  <2> QED BY <1>s, <2>1
<1>c. \A p : p \in P <=> \E i \in 1 .. n : p \in Int /\ Begin(s[i]) <= p /\ p < End(s[i])
  BY DescribedFacts
<1>0. PICK f : /\ Merge(s) = f[n] /\ f[0] = <<>>
               /\ \A i \in 1 .. n : f[i] = Joined(f[i - 1], s[i])
  BY <1>n, MergeIs
<1> HIDE DEF n
<1>1. Good(f[0], 0)
  <2>1. Describes(<<>>, Upto(0), 1)
    <3>1. /\ DOMAIN <<>> = {} /\ <<>> \in Seq(ProperRange) /\ 1 .. 0 = {}
      OBVIOUS
    <3> QED BY <3>1 DEF Describes
  <2>2. 1 .. Len(<<>>) = {}
    OBVIOUS
  <2> QED BY <1>0, <2>1, <2>2
<1>2. ASSUME NEW i \in 1 .. n, Good(f[i - 1], i - 1)
      PROVE  Good(f[i], i)
  <2>1. \A k \in 1 .. Len(f[i - 1]) : End(f[i - 1][k]) <= Begin(s[i])
    BY <1>2, <1>n
  <2>2. /\ Describes(f[i], Upto(i - 1) \cup Positions(s[i]), 1)
        /\ \A k \in 1 .. Len(f[i]) : End(f[i][k]) <= End(s[i])
    <3>1. Describes(f[i - 1], Upto(i - 1), 1) /\ s[i] \in ProperRange /\ f[i] = Joined(f[i - 1], s[i])
      BY <1>0, <1>2, <1>r
    <3> HIDE DEF Upto
    <3> QED BY <2>1, <3>1, JoinedDescribes
  <2>3. Upto(i - 1) \cup Positions(s[i]) = Upto(i)
    <3>1. \A j : j \in 1 .. i <=> j = i \/ j \in 1 .. i - 1
      BY <1>n
    <3>2. \A p : p \in Positions(s[i]) <=> p \in Int /\ Begin(s[i]) <= p /\ p < End(s[i])
      BY <1>s
    <3> QED BY <3>1, <3>2
  <2>4. ASSUME NEW j \in 1 .. n, NEW k \in 1 .. Len(f[i]), j > i
        PROVE  End(f[i][k]) <= Begin(s[j])
    <3>1. End(f[i][k]) <= End(s[i]) /\ End(s[i]) <= Begin(s[j])
      BY <1>o, <2>2, <2>4, <1>n
    <3>2. End(f[i][k]) \in Nat /\ End(s[i]) \in Nat /\ Begin(s[j]) \in Nat
      <4> HIDE DEF Upto
      <4> QED BY <1>s, <2>2, DescribedFacts
    <3> QED BY <3>1, <3>2
  <2> QED BY <2>2, <2>3, <2>4
<1>3. Good(f[n], n)
  <2> DEFINE Bad == {i \in 0 .. n : ~Good(f[i], i)}
  <2> HIDE DEF Good
  <2> SUFFICES ASSUME Bad # {}
               PROVE  FALSE
    BY <1>n
  <2>1. PICK i \in Bad : \A k \in Bad : i <= k
    <3>1. Bad \subseteq Nat
      BY <1>n
    <3> HIDE DEF Bad
    <3> QED BY <3>1, Least
  <2>2. i # 0 /\ i \in 0 .. n /\ ~Good(f[i], i)
    BY <1>1
  <2>3. i \in 1 .. n /\ i - 1 \in 0 .. n /\ ~(i <= i - 1)
    BY <1>n, <2>2
  <2>4. Good(f[i - 1], i - 1)
    BY <2>1, <2>3
  <2> QED BY <1>2, <2>2, <2>3, <2>4
<1>4. Upto(n) = P
  BY <1>c
<1> HIDE DEF Upto
<1> QED BY <1>0, <1>3, <1>4

\* A range has the positions of another and more, and has room between the
\* ranges around the i-th.
Widens(w, old, Q) ==
  \A p : (p \in Int /\ Begin(w) <= p /\ p < End(w))
           <=> (p \in Int /\ Begin(old) <= p /\ p < End(old)) \/ p \in Q

Fits(s, i, w) ==
  \A j \in 1 .. Len(s) : /\ j < i => End(s[j]) <= Begin(w)
                         /\ i < j => End(w) <= Begin(s[j])

\* One range of a list is replaced by a wider one.
LEMMA WidenDescribes ==
  ASSUME NEW s, NEW P, Describes(s, P, 0), NEW i \in 1 .. Len(s), NEW w \in ProperRange, NEW Q,
         Widens(w, s[i], Q), Fits(s, i, w), NEW wider, wider = [s EXCEPT ![i] = w]
  PROVE  Describes(wider, P \cup Q, 0)
<1> DEFINE n == Len(s)
           t == [j \in 1 .. n |-> IF j = i THEN w ELSE s[j]]
<1>n. n \in Nat /\ DOMAIN s = 1 .. n /\ s = [j \in 1 .. n |-> s[j]]
  BY DEF Describes
<1>r. \A j \in 1 .. n : s[j] \in ProperRange
  BY DEF Describes
<1>s. \A j \in 1 .. n : Begin(s[j]) \in Nat /\ End(s[j]) \in Nat
  BY DescribedFacts
<1>o. \A j, k \in 1 .. n : j < k => End(s[j]) + 0 <= Begin(s[k])
  BY DescribedFacts
<1>c. \A p : p \in P <=> \E j \in 1 .. n : p \in Int /\ Begin(s[j]) <= p /\ p < End(s[j])
  BY DescribedFacts
<1>w. Begin(w) \in Nat /\ End(w) \in Nat
  <2>1. Begin(w) \in Nat /\ Length(w) \in Nat /\ End(w) = Begin(w) + Length(w)
    BY RangeFacts
  <2> QED BY <2>1
<1>1. wider = t
  BY <1>n
<1>2. t[i] = w /\ \A j \in 1 .. n : j # i => t[j] = s[j]
  OBVIOUS
<1>3. DOMAIN t = 1 .. n /\ t = [j \in 1 .. n |-> t[j]]
  OBVIOUS
<1>4. i \in 1 .. n /\ \A j \in 1 .. n : /\ j < i => End(s[j]) <= Begin(w)
                                        /\ i < j => End(w) <= Begin(s[j])
  BY DEF Fits
<1> HIDE DEF t, n
<1>5. \A j \in 1 .. n : t[j] \in ProperRange
  BY <1>2, <1>r
<1>6. \A j, k \in 1 .. n : j < k => End(t[j]) + 0 <= Begin(t[k])
  <2> TAKE j, k \in 1 .. n
  <2> HAVE j < k
  <2>1. CASE j = i
    <3>1. t[j] = w /\ t[k] = s[k] /\ End(w) <= Begin(s[k])
      BY <1>2, <1>4, <1>n, <2>1
    <3> QED BY <1>w, <3>1
  <2>2. CASE k = i
    <3>1. t[k] = w /\ t[j] = s[j] /\ End(s[j]) <= Begin(w) /\ End(s[j]) \in Nat
      BY <1>2, <1>4, <1>n, <1>s, <2>2
    <3> QED BY <3>1
  <2>3. CASE j # i /\ k # i
    BY <1>2, <1>o, <2>3
  <2> QED BY <2>1, <2>2, <2>3
<1>7. ASSUME NEW p
      PROVE  p \in P \cup Q <=> \E j \in 1 .. n : p \in Int /\ Begin(t[j]) <= p /\ p < End(t[j])
  <2>1. (\E j \in 1 .. n : p \in Int /\ Begin(t[j]) <= p /\ p < End(t[j]))
          <=> \/ p \in Int /\ Begin(w) <= p /\ p < End(w)
              \/ \E j \in 1 .. n : j # i /\ p \in Int /\ Begin(s[j]) <= p /\ p < End(s[j])
    BY <1>2, <1>4
  <2>2. p \in P <=> \/ p \in Int /\ Begin(s[i]) <= p /\ p < End(s[i])
                    \/ \E j \in 1 .. n : j # i /\ p \in Int /\ Begin(s[j]) <= p /\ p < End(s[j])
    BY <1>4, <1>c
  <2> QED BY <2>1, <2>2 DEF Widens
<1>8. Describes(t, P \cup Q, 0) /\ Len(t) = n
  BY <1>n, <1>3, <1>5, <1>6, <1>7, DescribesIf
<1> QED BY <1>1, <1>2, <1>8 DEF n

\* A range is put between those before and those behind it.
LEMMA InsertDescribes ==
  ASSUME NEW s, NEW P, Describes(s, P, 0), NEW i \in 1 .. Len(s) + 1, NEW w \in ProperRange,
         \A j \in 1 .. Len(s) : /\ j < i => End(s[j]) <= Begin(w)
                                /\ i <= j => End(w) <= Begin(s[j])
  PROVE  /\ Describes(InsertAt(s, i, w), P \cup Positions(w), 0)
         /\ Len(InsertAt(s, i, w)) = Len(s) + 1
         /\ \A j \in 1 .. Len(s) : j < i => InsertAt(s, i, w)[j] = s[j]
         /\ i = Len(s) + 1 => InsertAt(s, i, w) = Append(s, w)
<1> DEFINE n == Len(s)
           t == [j \in 1 .. n + 1 |-> IF j < i THEN s[j] ELSE IF j = i THEN w ELSE s[j - 1]]
<1>n. n \in Nat /\ DOMAIN s = 1 .. n /\ s \in Seq(ProperRange) /\ i \in 1 .. n + 1
  BY DEF Describes
<1>r. \A j \in 1 .. n : s[j] \in ProperRange
  BY DEF Describes
<1>s. \A j \in 1 .. n : Begin(s[j]) \in Nat /\ End(s[j]) \in Nat
  BY DescribedFacts
<1>o. \A j, k \in 1 .. n : j < k => End(s[j]) + 0 <= Begin(s[k])
  BY DescribedFacts
<1>c. \A p : p \in P <=> \E j \in 1 .. n : p \in Int /\ Begin(s[j]) <= p /\ p < End(s[j])
  BY DescribedFacts
<1>w. /\ Begin(w) \in Nat /\ End(w) \in Nat
      /\ \A p : p \in Positions(w) <=> p \in Int /\ Begin(w) <= p /\ p < End(w)
  <2>1. /\ Begin(w) \in Nat /\ Length(w) \in Nat /\ End(w) = Begin(w) + Length(w)
        /\ Positions(w) = Begin(w) .. End(w) - 1
    BY RangeFacts
  <2> QED BY <2>1
<1>1. InsertAt(s, i, w) = t
  <2> DEFINE a == SubSeq(s, 1, i - 1)
             z == SubSeq(s, i, n)
  <2>1. InsertAt(s, i, w) = a \o <<w>> \o z
    BY DEF InsertAt
  <2>2. a \in Seq(ProperRange) /\ Len(a) = i - 1 /\ \A j \in 1 .. i - 1 : a[j] = s[j]
    BY <1>n
  <2>3. z \in Seq(ProperRange) /\ Len(z) = n + 1 - i /\ \A j \in 1 .. n + 1 - i : z[j] = s[i + j - 1]
    BY <1>n
  <2>4. <<w>> \in Seq(ProperRange) /\ Len(<<w>>) = 1 /\ <<w>>[1] = w
    OBVIOUS
  <2> HIDE DEF a, z
  <2> DEFINE b == a \o <<w>>
  <2>5. b \in Seq(ProperRange) /\ Len(b) = i /\ b[i] = w /\ \A j \in 1 .. i - 1 : b[j] = s[j]
    BY <1>n, <2>2, <2>4
  <2> HIDE DEF b
  <2>6. /\ b \o z \in Seq(ProperRange) /\ Len(b \o z) = n + 1
        /\ \A j \in 1 .. i : (b \o z)[j] = b[j]
        /\ \A j \in i + 1 .. n + 1 : (b \o z)[j] = z[j - i]
    BY <1>n, <2>3, <2>5
  <2>7. ASSUME NEW j \in 1 .. n + 1
        PROVE  (b \o z)[j] = t[j]
    <3>1. CASE j < i
      BY <1>n, <2>5, <2>6, <3>1
    <3>2. CASE j = i
      BY <1>n, <2>5, <2>6, <3>2
    <3>3. CASE j > i
      <4>1. j \in i + 1 .. n + 1 /\ j - i \in 1 .. n + 1 - i /\ i + (j - i) - 1 = j - 1
        BY <1>n, <3>3
      <4>2. (b \o z)[j] = z[j - i]
        BY <2>6, <4>1
      <4>3. z[j - i] = s[j - 1]
        BY <2>3, <4>1
      <4>4. t[j] = s[j - 1]
        BY <1>n, <3>3
      <4> QED BY <4>2, <4>3, <4>4
    <3>4. j < i \/ j = i \/ j > i
      BY <1>n
    <3> QED BY <3>1, <3>2, <3>3, <3>4
  <2>8. PICK q : q = b \o z
    OBVIOUS
  <2> HIDE DEF t, n
  <2>9. q = t
    <3>1. q \in Seq(ProperRange) /\ Len(q) = n + 1 /\ \A j \in 1 .. n + 1 : q[j] = t[j]
      BY <2>6, <2>7, <2>8
    <3>2. DOMAIN q = 1 .. n + 1 /\ q = [j \in 1 .. n + 1 |-> q[j]]
      BY <1>n, <3>1
    <3>3. t = [j \in 1 .. n + 1 |-> t[j]]
      BY DEF t
    <3> QED BY <3>1, <3>2, <3>3
  <2> QED BY <2>1, <2>8, <2>9 DEF b
<1>2. /\ t[i] = w /\ \A j \in 1 .. n : j < i => t[j] = s[j]
      /\ \A j \in 1 .. n : i <= j => t[j + 1] = s[j]
  BY <1>n
<1>3. DOMAIN t = 1 .. n + 1 /\ t = [j \in 1 .. n + 1 |-> t[j]]
  OBVIOUS
<1>4. \A j \in 1 .. n : /\ j < i => End(s[j]) <= Begin(w)
                        /\ i <= j => End(w) <= Begin(s[j])
  OBVIOUS
<1>9. ASSUME i = n + 1
      PROVE  t = Append(s, w)
  <2>1. Append(s, w) \in Seq(ProperRange) /\ Len(Append(s, w)) = n + 1
    BY <1>n
  <2>2. \A j \in 1 .. n + 1 : Append(s, w)[j] = IF j = n + 1 THEN w ELSE s[j]
    BY <1>n
  <2>3. \A j \in 1 .. n + 1 : Append(s, w)[j] = t[j]
    BY <1>9, <1>n, <2>2
  <2> HIDE DEF t, n
  <2>4. PICK q : q = Append(s, w)
    OBVIOUS
  <2>5. q \in Seq(ProperRange) /\ Len(q) = n + 1
    BY <2>1, <2>4
  <2>6. DOMAIN q = 1 .. n + 1 /\ q = [j \in 1 .. n + 1 |-> q[j]]
    BY <1>n, <2>5
  <2> QED BY <1>3, <2>3, <2>4, <2>6
<1> HIDE DEF t, n
<1>p. \A j \in 1 .. n + 1 : \/ j = i /\ t[j] = w
                            \/ j < i /\ j \in 1 .. n /\ t[j] = s[j]
                            \/ j > i /\ j - 1 \in 1 .. n /\ i <= j - 1 /\ t[j] = s[j - 1]
  <2> TAKE j \in 1 .. n + 1
  <2>1. CASE j = i
    BY <1>2, <2>1
  <2>2. CASE j < i
    BY <1>2, <1>n, <2>2
  <2>3. CASE j > i
    <3>1. j - 1 \in 1 .. n /\ i <= j - 1 /\ (j - 1) + 1 = j
      BY <1>n, <2>3
    <3> QED BY <1>2, <2>3, <3>1
  <2> QED BY <1>n, <2>1, <2>2, <2>3
<1>5. \A j \in 1 .. n + 1 : t[j] \in ProperRange
  BY <1>p, <1>r
<1>6. \A j, k \in 1 .. n + 1 : j < k => End(t[j]) + 0 <= Begin(t[k])
  <2> TAKE j, k \in 1 .. n + 1
  <2> HAVE j < k
  <2>1. CASE j = i
    <3>1. k > i /\ k - 1 \in 1 .. n /\ i <= k - 1 /\ t[k] = s[k - 1]
      BY <1>p, <1>n, <2>1
    <3>2. t[j] = w /\ End(w) <= Begin(s[k - 1])
      BY <1>2, <1>4, <2>1, <3>1
    <3> QED BY <1>w, <3>1, <3>2
  <2>2. CASE j < i /\ k = i
    <3>1. j \in 1 .. n /\ t[j] = s[j] /\ t[k] = w /\ End(s[j]) <= Begin(w) /\ End(s[j]) \in Nat
      BY <1>p, <1>n, <1>4, <1>s, <2>2
    <3> QED BY <3>1
  <2>3. CASE j < i /\ k < i
    BY <1>p, <1>n, <1>o, <2>3
  <2>4. CASE j < i /\ k > i
    <3>1. j \in 1 .. n /\ k - 1 \in 1 .. n /\ j < k - 1 /\ t[j] = s[j] /\ t[k] = s[k - 1]
      BY <1>p, <1>n, <2>4
    <3> QED BY <1>o, <3>1
  <2>5. CASE j > i
    <3>1. j - 1 \in 1 .. n /\ k - 1 \in 1 .. n /\ j - 1 < k - 1 /\ t[j] = s[j - 1] /\ t[k] = s[k - 1]
      BY <1>p, <1>n, <2>5
    <3> QED BY <1>o, <3>1
  <2> QED BY <1>n, <2>1, <2>2, <2>3, <2>4, <2>5
<1>7. ASSUME NEW p
      PROVE  p \in P \cup Positions(w) <=>
               \E j \in 1 .. n + 1 : p \in Int /\ Begin(t[j]) <= p /\ p < End(t[j])
  <2>1. ASSUME p \in P
        PROVE  \E j \in 1 .. n + 1 : p \in Int /\ Begin(t[j]) <= p /\ p < End(t[j])
    <3>1. PICK j \in 1 .. n : p \in Int /\ Begin(s[j]) <= p /\ p < End(s[j])
      BY <1>c, <2>1
    <3>2. CASE j < i
      <4>1. t[j] = s[j] /\ j \in 1 .. n + 1
        BY <1>2, <1>n, <3>2
      <4> QED BY <3>1, <4>1
    <3>3. CASE i <= j
      <4>1. t[j + 1] = s[j] /\ j + 1 \in 1 .. n + 1
        BY <1>2, <1>n, <3>3
      <4> QED BY <3>1, <4>1
    <3> QED BY <1>n, <3>2, <3>3
  <2>2. ASSUME p \in Positions(w)
        PROVE  \E j \in 1 .. n + 1 : p \in Int /\ Begin(t[j]) <= p /\ p < End(t[j])
    BY <1>2, <1>n, <1>w, <2>2
  <2>3. ASSUME NEW j \in 1 .. n + 1, p \in Int, Begin(t[j]) <= p, p < End(t[j])
        PROVE  p \in P \cup Positions(w)
    BY <1>c, <1>p, <1>w, <2>3
  <2> QED BY <2>1, <2>2, <2>3
<1>8. Describes(t, P \cup Positions(w), 0) /\ Len(t) = n + 1
  <2>1. n + 1 \in Nat
    BY <1>n
  <2> QED BY <2>1, <1>3, <1>5, <1>6, <1>7, DescribesIf
<1> QED BY <1>1, <1>2, <1>8, <1>9 DEF n

\* A new range comes after an old one and does not touch it.
Passes(new, old) ==
  /\ End(new) # Begin(old) /\ Begin(new) # End(old)
  /\ ~(End(new) < Begin(old))

\* The i-th old range decides where the new one goes.
Decides(g, s, new, i, t) ==
  \/ /\ End(new) # Begin(g[i]) /\ Begin(new) # End(g[i]) /\ End(new) < Begin(g[i])
     /\ t = InsertAt(s, i, new)
  \/ /\ End(new) = Begin(g[i])
     /\ t = [s EXCEPT ![i] = <<Begin(new), Length(new) + Length(s[i])>>]
  \/ /\ End(new) # Begin(g[i]) /\ Begin(new) = End(g[i])
     /\ t = [s EXCEPT ![i] = <<Begin(s[i]), Length(s[i]) + Length(new)>>]

\* The first old range that a new one touches or comes before decides.
LEMMA PlaceIs ==
  ASSUME NEW g, NEW m \in Nat, DOMAIN g = 1 .. m, NEW s, NEW new
  PROVE  \/ /\ \A j \in 1 .. m : Passes(new, g[j])
            /\ Place(g, s, new) = Append(s, new)
         \/ \E i \in 1 .. m : /\ \A j \in 1 .. m : j < i => Passes(new, g[j])
                              /\ Decides(g, s, new, i, Place(g, s, new))
<1> DEFINE Touches(i) == End(new) = Begin(g[i]) \/ Begin(new) = End(g[i])
           Before(i)  == End(new) < Begin(g[i])
           Reached(i) == \A j \in 1 .. i - 1 : ~Touches(j) /\ ~Before(j)
           place      == {i \in DOMAIN g : Reached(i) /\ (Touches(i) \/ Before(i))}
           Hits       == {i \in 1 .. m : Touches(i) \/ Before(i)}
           ii         == CHOOSE k \in place : TRUE
<1>0. Place(g, s, new) =
        IF place = {} THEN Append(s, new)
        ELSE IF ~Touches(ii) THEN InsertAt(s, ii, new)
             ELSE IF End(new) = Begin(g[ii])
             THEN [s EXCEPT ![ii] = <<Begin(new), Length(new) + Length(s[ii])>>]
             ELSE [s EXCEPT ![ii] = <<Begin(s[ii]), Length(s[ii]) + Length(new)>>]
  BY DEF Place
<1>1. CASE Hits = {}
  <2>1. place = {}
    BY <1>1
  <2>2. \A j \in 1 .. m : ~Touches(j) /\ ~Before(j)
    BY <1>1
  <2> HIDE DEF place, ii
  <2> QED BY <1>0, <2>1, <2>2 DEF Passes
<1>2. CASE Hits # {}
  <2>1. PICK i \in Hits : \A k \in Hits : i <= k
    <3>1. Hits \subseteq Nat
      OBVIOUS
    <3> HIDE DEF Hits
    <3> QED BY <1>2, <3>1, Least
  <2>2. i \in 1 .. m /\ (Touches(i) \/ Before(i))
    OBVIOUS
  <2>3. \A j \in 1 .. m : j < i => ~Touches(j) /\ ~Before(j)
    BY <2>1, <2>2
  <2> HIDE DEF Touches, Before
  <2>4. i \in place
    BY <2>2, <2>3
  <2>5. \A k \in place : k = i
    <3> TAKE k \in place
    <3>1. k \in 1 .. m /\ (Touches(k) \/ Before(k)) /\ Reached(k)
      OBVIOUS
    <3>2. ~(k < i)
      BY <2>3, <3>1
    <3>3. ~(i < k)
      BY <2>2, <3>1
    <3> QED BY <2>2, <3>1, <3>2, <3>3
  <2>6. ii = i /\ place # {}
    <3> HIDE DEF place
    <3> QED BY <2>4, <2>5
  <2> HIDE DEF place, ii
  <2>7. Place(g, s, new) =
          IF ~Touches(i) THEN InsertAt(s, i, new)
          ELSE IF End(new) = Begin(g[i])
          THEN [s EXCEPT ![i] = <<Begin(new), Length(new) + Length(s[i])>>]
          ELSE [s EXCEPT ![i] = <<Begin(s[i]), Length(s[i]) + Length(new)>>]
    BY <1>0, <2>6
  <2>8. \/ ~Touches(i) /\ Before(i) /\ Place(g, s, new) = InsertAt(s, i, new)
        \/ /\ End(new) = Begin(g[i])
           /\ Place(g, s, new) = [s EXCEPT ![i] = <<Begin(new), Length(new) + Length(s[i])>>]
        \/ /\ End(new) # Begin(g[i]) /\ Touches(i)
           /\ Place(g, s, new) = [s EXCEPT ![i] = <<Begin(s[i]), Length(s[i]) + Length(new)>>]
    BY <2>2, <2>7 DEF Touches
  <2> HIDE DEF Hits
  <2>9. /\ \A j \in 1 .. m : j < i => Passes(new, g[j])
        /\ Decides(g, s, new, i, Place(g, s, new))
    BY <2>3, <2>8 DEF Touches, Before, Passes, Decides
  <2> QED BY <2>2, <2>9
<1> QED BY <1>1, <1>2

\* Old ranges that begin before a position are still where they were, and those
\* that end before it are as they were.
Untouched(g, s, b) ==
  \A j \in 1 .. Len(g) :
    Begin(g[j]) < b => /\ j \in 1 .. Len(s) /\ Begin(s[j]) = Begin(g[j])
                       /\ End(g[j]) < b => s[j] = g[j]

\* A range is placed right if it is the first one, or if the position behind it
\* was cut before.
LEMMA PlaceDescribes ==
  ASSUME NEW g, NEW R, Describes(g, R, 1), NEW s, NEW P, Describes(s, P, 0),
         NEW new \in ProperRange, \A p \in Positions(new) : p \notin R,
         NEW b \in Nat, End(new) < b, Untouched(g, s, b),
         s = g \/ End(new) \in R
  PROVE  /\ Describes(Place(g, s, new), P \cup Positions(new), 0)
         /\ Untouched(g, Place(g, s, new), Begin(new))
<1> DEFINE m == Len(g)
           n == Len(s)
           t == Place(g, s, new)
<1>n. m \in Nat /\ n \in Nat /\ DOMAIN g = 1 .. m /\ DOMAIN s = 1 .. n
  BY DescribedFacts
<1>g. \A i \in 1 .. m : /\ Begin(g[i]) \in Nat /\ End(g[i]) \in Nat
                        /\ Begin(g[i]) < End(g[i])
  BY DescribedFacts
<1>s. \A i \in 1 .. n : /\ Begin(s[i]) \in Nat /\ End(s[i]) \in Nat /\ Length(s[i]) \in Nat
                        /\ Length(s[i]) > 0 /\ Begin(s[i]) < End(s[i])
                        /\ End(s[i]) = Begin(s[i]) + Length(s[i])
  BY DescribedFacts
<1>og. \A i, j \in 1 .. m : i < j => End(g[i]) + 1 <= Begin(g[j])
  BY DescribedFacts
<1>os. \A i, j \in 1 .. n : i < j => End(s[i]) <= Begin(s[j])
  <2>1. \A i, j \in 1 .. n : i < j => End(s[i]) + 0 <= Begin(s[j])
    BY DescribedFacts
  <2> QED BY <1>s, <2>1
<1>c. \A p : p \in R <=> \E i \in 1 .. m : p \in Int /\ Begin(g[i]) <= p /\ p < End(g[i])
  BY DescribedFacts
<1>w. /\ Begin(new) \in Nat /\ End(new) \in Nat /\ Length(new) \in Nat /\ Length(new) > 0
      /\ End(new) = Begin(new) + Length(new) /\ Begin(new) < End(new)
      /\ \A p : p \in Positions(new) <=> p \in Int /\ Begin(new) <= p /\ p < End(new)
  <2>1. /\ Begin(new) \in Nat /\ Length(new) \in Nat /\ End(new) = Begin(new) + Length(new)
        /\ Length(new) > 0 /\ Positions(new) = Begin(new) .. End(new) - 1
    BY RangeFacts
  <2> QED BY <2>1
<1>u. \A j \in 1 .. m :
        /\ Begin(g[j]) < b => j \in 1 .. n /\ Begin(s[j]) = Begin(g[j])
        /\ Begin(g[j]) < b /\ End(g[j]) < b => s[j] = g[j]
  BY DEF Untouched
<1>d. ASSUME NEW j \in 1 .. m
      PROVE  End(g[j]) <= Begin(new) \/ End(new) <= Begin(g[j])
  <2> SUFFICES ASSUME Begin(new) < End(g[j]), Begin(g[j]) < End(new)
               PROVE  FALSE
    BY <1>g, <1>w
  <2>1. CASE Begin(new) <= Begin(g[j])
    <3>1. Begin(g[j]) \in Int /\ Begin(g[j]) \in Positions(new) /\ Begin(g[j]) \in R
      BY <1>c, <1>g, <1>w, <2>1
    <3> QED BY <3>1
  <2>2. CASE Begin(g[j]) <= Begin(new)
    <3>1. Begin(new) \in Positions(new) /\ Begin(new) \in R
      BY <1>c, <1>g, <1>w, <2>2
    <3> QED BY <3>1
  <2> QED BY <1>g, <1>w, <2>1, <2>2
<1>p. ASSUME NEW j \in 1 .. m, Passes(new, g[j])
      PROVE  End(g[j]) < Begin(new) /\ j \in 1 .. n /\ s[j] = g[j]
  <2>1. End(g[j]) < Begin(new)
    BY <1>d, <1>g, <1>w, <1>p DEF Passes
  <2>2. End(g[j]) < b /\ Begin(g[j]) < b
    BY <1>g, <1>w, <2>1
  <2> QED BY <1>u, <2>1, <2>2
<1> HIDE DEF m, n
<1>1. ASSUME \A j \in 1 .. m : Passes(new, g[j]), t = Append(s, new)
      PROVE  Describes(t, P \cup Positions(new), 0) /\ Untouched(g, t, Begin(new))
  <2>1. \A j \in 1 .. m : End(g[j]) < Begin(new)
    BY <1>1, <1>p
  <2>2. s = g
    <3> SUFFICES ASSUME End(new) \in R
                 PROVE  FALSE
      OBVIOUS
    <3>1. PICK k \in 1 .. m : End(new) < End(g[k])
      BY <1>c
    <3> QED BY <1>g, <1>w, <2>1, <3>1
  <2>3. m = n /\ \A j \in 1 .. n : End(s[j]) <= Begin(new) /\ j < n + 1 /\ ~(n + 1 <= j)
    BY <1>n, <1>g, <1>w, <2>1, <2>2 DEF m, n
  <2>4. n + 1 \in 1 .. n + 1
    BY <1>n
  <2>5. /\ Describes(InsertAt(s, n + 1, new), P \cup Positions(new), 0)
        /\ Len(InsertAt(s, n + 1, new)) = n + 1
        /\ \A j \in 1 .. n : j < n + 1 => InsertAt(s, n + 1, new)[j] = s[j]
        /\ InsertAt(s, n + 1, new) = Append(s, new)
    BY <2>3, <2>4, InsertDescribes DEF n
  <2>6. /\ Describes(t, P \cup Positions(new), 0) /\ Len(t) = n + 1
        /\ \A j \in 1 .. m : t[j] = g[j]
    BY <1>1, <2>2, <2>3, <2>5
  <2>7. \A j \in 1 .. m : j \in 1 .. Len(t)
    BY <1>n, <2>3, <2>6
  <2> HIDE DEF t
  <2> QED BY <2>6, <2>7 DEF Untouched, m
<1>2. ASSUME NEW i \in 1 .. m,
             \A j \in 1 .. m : j < i => Passes(new, g[j]),
             Decides(g, s, new, i, t)
      PROVE  Describes(t, P \cup Positions(new), 0) /\ Untouched(g, t, Begin(new))
  <2>i. i \in Nat /\ i >= 1
    BY <1>n
  <2>p. \A j \in 1 .. m : j < i => End(g[j]) < Begin(new) /\ j \in 1 .. n /\ s[j] = g[j]
    BY <1>2, <1>p
  <2>q. \A j \in 1 .. n : j < i => j \in 1 .. m /\ End(s[j]) < Begin(new)
    BY <1>n, <2>p
  <2> HIDE DEF t
  <2>1. CASE /\ End(new) # Begin(g[i]) /\ Begin(new) # End(g[i]) /\ End(new) < Begin(g[i])
             /\ t = InsertAt(s, i, new)
    <3>1. s = g
      <4> SUFFICES ASSUME End(new) \in R
                   PROVE  FALSE
        OBVIOUS
      <4>1. PICK k \in 1 .. m : Begin(g[k]) <= End(new) /\ End(new) < End(g[k])
        BY <1>c
      <4>2. ~(k < i)
        BY <1>g, <1>w, <2>p, <4>1
      <4>3. k = i \/ End(g[i]) + 1 <= Begin(g[k])
        BY <1>n, <1>og, <4>1, <4>2
      <4> QED BY <1>g, <1>w, <2>1, <4>1, <4>3
    <3>2. m = n /\ i \in 1 .. n + 1
      BY <1>n, <3>1 DEF m, n
    <3>3. ASSUME NEW j \in 1 .. n, i <= j
          PROVE  End(new) <= Begin(s[j])
      <4>1. j = i \/ End(g[i]) + 1 <= Begin(g[j])
        BY <1>n, <1>og, <3>2, <3>3
      <4> QED BY <1>g, <1>w, <2>1, <3>1, <3>2, <3>3, <4>1
    <3>4. \A j \in 1 .. n : /\ j < i => End(s[j]) <= Begin(new)
                            /\ i <= j => End(new) <= Begin(s[j])
      BY <1>s, <1>w, <2>q, <3>3
    <3>5. /\ Describes(t, P \cup Positions(new), 0) /\ Len(t) = n + 1
          /\ \A j \in 1 .. n : j < i => t[j] = s[j]
      BY <2>1, <3>2, <3>4, InsertDescribes DEF n
    <3>6. ASSUME NEW j \in 1 .. m, Begin(g[j]) < Begin(new)
          PROVE  j \in 1 .. Len(t) /\ t[j] = g[j]
      <4>1. j < i
        <5> SUFFICES ASSUME i <= j
                     PROVE  FALSE
          BY <1>n
        <5>1. End(new) <= Begin(g[j])
          BY <3>1, <3>2, <3>3
        <5> QED BY <1>g, <1>w, <3>6, <5>1
      <4> QED BY <1>n, <2>p, <3>1, <3>2, <3>5, <4>1
    <3> QED BY <3>5, <3>6 DEF Untouched, m
  <2>2. CASE /\ End(new) = Begin(g[i])
             /\ t = [s EXCEPT ![i] = <<Begin(new), Length(new) + Length(s[i])>>]
    <3> DEFINE w == <<Begin(new), Length(new) + Length(s[i])>>
    <3>1. i \in 1 .. n /\ Begin(s[i]) = End(new)
      BY <1>u, <2>2
    <3>2. w \in ProperRange /\ Begin(w) = Begin(new) /\ End(w) = End(s[i])
      <4>1. /\ Begin(new) \in Nat /\ Length(new) + Length(s[i]) \in Nat
            /\ Length(new) + Length(s[i]) > 0
        BY <1>s, <1>w, <3>1
      <4>2. /\ w \in ProperRange /\ Begin(w) = Begin(new)
            /\ End(w) = Begin(new) + (Length(new) + Length(s[i]))
        BY <4>1, RangeMade
      <4> QED BY <1>s, <1>w, <3>1, <4>2
    <3>3. t = [s EXCEPT ![i] = w]
      BY <2>2
    <3> HIDE DEF w
    <3>4. Widens(w, s[i], Positions(new))
      BY <1>s, <1>w, <3>1, <3>2 DEF Widens
    <3>5. \A j \in 1 .. n : /\ j < i => End(s[j]) <= Begin(w)
                            /\ i < j => End(w) <= Begin(s[j])
      BY <1>os, <1>s, <1>w, <2>q, <3>1, <3>2
    <3>6. /\ Describes(t, P \cup Positions(new), 0) /\ Len(t) = n
          /\ \A j \in 1 .. n : j # i => t[j] = s[j]
      <4>1. i \in 1 .. Len(s)
        BY <3>1 DEF n
      <4>2. Fits(s, i, w)
        BY <3>5 DEF Fits, n
      <4>3. Describes(t, P \cup Positions(new), 0)
        BY <3>2, <3>3, <3>4, <4>1, <4>2, WidenDescribes
      <4>4. s \in Seq(ProperRange) /\ n = Len(s)
        BY DEF Describes, n
      <4>5. Len(t) = n /\ t[i] = w /\ \A j \in 1 .. n : j # i => t[j] = s[j]
        BY <3>1, <3>2, <3>3, <4>4
      <4> QED BY <4>3, <4>5
    <3>7. ASSUME NEW j \in 1 .. m, Begin(g[j]) < Begin(new)
          PROVE  j \in 1 .. Len(t) /\ t[j] = g[j]
      <4>1. j < i
        <5>1. j # i
          BY <1>w, <2>2, <3>7
        <5>2. i < j => End(g[i]) + 1 <= Begin(g[j])
          BY <1>og
        <5> QED BY <1>g, <1>n, <1>w, <2>2, <3>7, <5>1, <5>2
      <4>2. j \in 1 .. n /\ s[j] = g[j] /\ j # i
        BY <1>n, <2>p, <4>1
      <4> QED BY <3>6, <4>2
    <3> QED BY <3>6, <3>7 DEF Untouched, m
  <2>3. CASE /\ End(new) # Begin(g[i]) /\ Begin(new) = End(g[i])
             /\ t = [s EXCEPT ![i] = <<Begin(s[i]), Length(s[i]) + Length(new)>>]
    <3> DEFINE w == <<Begin(s[i]), Length(s[i]) + Length(new)>>
    <3>1. i \in 1 .. n /\ s[i] = g[i] /\ End(s[i]) = Begin(new)
      <4>1. Begin(g[i]) < b /\ End(g[i]) < b
        BY <1>g, <1>w, <2>3
      <4> QED BY <1>u, <2>3, <4>1
    <3>2. w \in ProperRange /\ Begin(w) = Begin(s[i]) /\ End(w) = End(new)
      <4>1. /\ Begin(s[i]) \in Nat /\ Length(s[i]) + Length(new) \in Nat
            /\ Length(s[i]) + Length(new) > 0
        BY <1>s, <1>w, <3>1
      <4>2. /\ w \in ProperRange /\ Begin(w) = Begin(s[i])
            /\ End(w) = Begin(s[i]) + (Length(s[i]) + Length(new))
        BY <4>1, RangeMade
      <4> QED BY <1>s, <1>w, <3>1, <4>2
    <3>3. t = [s EXCEPT ![i] = w]
      BY <2>3
    <3> HIDE DEF w
    <3>4. Widens(w, s[i], Positions(new))
      BY <1>s, <1>w, <3>1, <3>2 DEF Widens
    <3>o. ASSUME NEW j \in 1 .. m, i < j
          PROVE  End(new) <= Begin(g[j])
      <4>1. End(g[i]) + 1 <= Begin(g[j])
        BY <1>og, <3>o
      <4>2. ~(End(g[j]) <= Begin(new))
        BY <1>g, <1>w, <2>3, <4>1
      <4> QED BY <1>d, <4>2
    <3>5. ASSUME NEW j \in 1 .. n, i < j
          PROVE  End(new) <= Begin(s[j])
      <4>1. CASE s = g
        BY <3>o, <3>5, <4>1 DEF m, n
      <4>2. CASE End(new) \in R
        <5>1. PICK k \in 1 .. m : Begin(g[k]) <= End(new) /\ End(new) < End(g[k])
          BY <1>c, <4>2
        <5>2. i < k
          <6>1. ~(k < i)
            BY <1>g, <1>w, <2>p, <5>1
          <6>2. k # i
            BY <1>w, <2>3, <5>1
          <6> QED BY <1>n, <2>i, <6>1, <6>2
        <5>3. i + 1 \in 1 .. m /\ i < i + 1 /\ (i + 1 = k \/ i + 1 < k)
          BY <1>n, <2>i, <5>2
        <5>4. Begin(g[i + 1]) <= Begin(g[k])
          <6>1. i + 1 = k \/ End(g[i + 1]) + 1 <= Begin(g[k])
            BY <1>og, <5>3
          <6> QED BY <1>g, <5>3, <6>1
        <5>5. End(new) <= Begin(g[i + 1])
          BY <3>o, <5>3
        <5>6. Begin(g[i + 1]) = End(new)
          BY <1>g, <1>w, <5>1, <5>3, <5>4, <5>5
        <5>7. i + 1 \in 1 .. n /\ Begin(s[i + 1]) = End(new)
          BY <1>u, <5>3, <5>6
        <5>8. i + 1 = j \/ End(s[i + 1]) <= Begin(s[j])
          <6>1. i + 1 = j \/ i + 1 < j
            BY <1>n, <2>i, <3>5
          <6> QED BY <1>os, <5>7, <6>1
        <5> QED BY <1>s, <1>w, <5>7, <5>8
      <4> QED BY <4>1, <4>2
    <3>6. \A j \in 1 .. n : /\ j < i => End(s[j]) <= Begin(w)
                            /\ i < j => End(w) <= Begin(s[j])
      BY <1>os, <3>1, <3>2, <3>5
    <3>7. /\ Describes(t, P \cup Positions(new), 0) /\ Len(t) = n /\ t[i] = w
          /\ \A j \in 1 .. n : j # i => t[j] = s[j]
      <4>1. i \in 1 .. Len(s)
        BY <3>1 DEF n
      <4>2. Fits(s, i, w)
        BY <3>6 DEF Fits, n
      <4>3. Describes(t, P \cup Positions(new), 0)
        BY <3>2, <3>3, <3>4, <4>1, <4>2, WidenDescribes
      <4>4. s \in Seq(ProperRange) /\ n = Len(s)
        BY DEF Describes, n
      <4>5. Len(t) = n /\ t[i] = w /\ \A j \in 1 .. n : j # i => t[j] = s[j]
        BY <3>1, <3>2, <3>3, <4>4
      <4> QED BY <4>3, <4>5
    <3>8. ASSUME NEW j \in 1 .. m, Begin(g[j]) < Begin(new)
          PROVE  /\ j \in 1 .. Len(t) /\ Begin(t[j]) = Begin(g[j])
                 /\ End(g[j]) < Begin(new) => t[j] = g[j]
      <4>1. ~(i < j)
        BY <1>g, <1>w, <3>8, <3>o
      <4>2. CASE j = i
        <5>1. ~(End(g[j]) < Begin(new))
          BY <1>w, <2>3, <4>2
        <5> QED BY <3>1, <3>2, <3>7, <4>2, <5>1
      <4>3. CASE j < i
        <5>1. j \in 1 .. n /\ s[j] = g[j] /\ j # i
          BY <1>n, <2>p, <4>3
        <5> QED BY <3>7, <5>1
      <4> QED BY <1>n, <2>i, <4>1, <4>2, <4>3
    <3> QED BY <3>7, <3>8 DEF Untouched, m
  <2> QED BY <1>2, <2>1, <2>2, <2>3 DEF Decides
<1>3. \/ (\A j \in 1 .. m : Passes(new, g[j])) /\ t = Append(s, new)
      \/ \E i \in 1 .. m : /\ \A j \in 1 .. m : j < i => Passes(new, g[j])
                           /\ Decides(g, s, new, i, t)
  BY <1>n, PlaceIs
<1> HIDE DEF t
<1>4. Describes(t, P \cup Positions(new), 0) /\ Untouched(g, t, Begin(new))
  <2>1. CASE (\A j \in 1 .. m : Passes(new, g[j])) /\ t = Append(s, new)
    BY <1>1, <2>1
  <2>2. CASE \E i \in 1 .. m : /\ \A j \in 1 .. m : j < i => Passes(new, g[j])
                               /\ Decides(g, s, new, i, t)
    <3>1. PICK i \in 1 .. m : /\ \A j \in 1 .. m : j < i => Passes(new, g[j])
                              /\ Decides(g, s, new, i, t)
      BY <2>2
    <3> QED BY <1>2, <3>1
  <2> QED BY <1>3, <2>1, <2>2
<1> QED BY <1>4 DEF t

\* The new ranges, placed from the last to the m-th last.
IsPlaced(f, g, news, m) ==
  f = [i \in 0 .. m |-> IF i = 0 THEN g ELSE Place(g, f[i - 1], news[Len(news) + 1 - i])]

LEMMA PlacedExists ==
  ASSUME NEW g, NEW news, NEW n \in Nat
  PROVE  \E f : IsPlaced(f, g, news, n)
<1> DEFINE Bad == {m \in Nat : ~ \E f : IsPlaced(f, g, news, m)}
<1> SUFFICES ASSUME Bad # {}
             PROVE  FALSE
  OBVIOUS
<1>1. PICK m \in Bad : \A k \in Bad : m <= k
  <2>1. Bad \subseteq Nat
    OBVIOUS
  <2> HIDE DEF Bad
  <2> QED BY <2>1, Least
<1>2. CASE m = 0
  <2>1. IsPlaced([i \in 0 .. 0 |-> g], g, news, 0)
    BY DEF IsPlaced
  <2> QED BY <1>2, <2>1
<1>3. CASE m # 0
  <2>1. m - 1 \in Nat /\ m - 1 \notin Bad
    BY <1>1, <1>3
  <2>2. PICK h : IsPlaced(h, g, news, m - 1)
    BY <2>1
  <2> DEFINE f == [i \in 0 .. m |->
                     IF i = m THEN Place(g, h[m - 1], news[Len(news) + 1 - m]) ELSE h[i]]
  <2>3. ASSUME NEW i \in 0 .. m
        PROVE  f[i] = IF i = 0 THEN g ELSE Place(g, f[i - 1], news[Len(news) + 1 - i])
    <3>1. CASE i = m
      BY <1>3, <2>1, <3>1
    <3>2. CASE i = 0
      BY <1>3, <2>1, <2>2, <3>2 DEF IsPlaced
    <3>3. CASE i \in 1 .. m - 1
      <4>1. f[i] = h[i] /\ f[i - 1] = h[i - 1] /\ i \in 0 .. m - 1 /\ i # 0
        BY <2>1, <3>3
      <4>2. h[i] = Place(g, h[i - 1], news[Len(news) + 1 - i])
        BY <2>2, <4>1 DEF IsPlaced
      <4> QED BY <4>1, <4>2
    <3> QED BY <3>1, <3>2, <3>3
  <2>4. f = [i \in 0 .. m |-> f[i]]
    OBVIOUS
  <2> HIDE DEF f
  <2>5. f = [i \in 0 .. m |->
               IF i = 0 THEN g ELSE Place(g, f[i - 1], news[Len(news) + 1 - i])]
    BY <2>3, <2>4
  <2> QED BY <2>5 DEF IsPlaced
<1> QED BY <1>2, <1>3

LEMMA PlacedIs ==
  ASSUME NEW g, NEW news, Len(news) \in Nat
  PROVE  \E f : /\ Placed(g, news) = f[Len(news)] /\ f[0] = g
                /\ \A i \in 1 .. Len(news) :
                     f[i] = Place(g, f[i - 1], news[Len(news) + 1 - i])
<1> DEFINE f == CHOOSE f : IsPlaced(f, g, news, Len(news))
<1>1. IsPlaced(f, g, news, Len(news))
  BY PlacedExists
<1>2. Placed(g, news) = f[Len(news)]
  BY DEF Placed, IsPlaced
<1> HIDE DEF f
<1>3. f[0] = g
  BY <1>1 DEF IsPlaced
<1>4. \A i \in 1 .. Len(news) : f[i] = Place(g, f[i - 1], news[Len(news) + 1 - i])
  BY <1>1 DEF IsPlaced
<1> QED BY <1>2, <1>3, <1>4

\* New ranges between which everything was cut before are placed one by one.
LEMMA PlacedDescribes ==
  ASSUME NEW g, NEW R, Describes(g, R, 1), NEW news, NEW T, Describes(news, T, 1),
         \A p \in T : p \notin R,
         \A x \in T, y \in T, z \in Int : x < z /\ z < y => z \in R \/ z \in T
  PROVE  Describes(Placed(g, news), R \cup T, 0)
<1> DEFINE n == Len(news)
           r(i) == news[n + 1 - i]
           Latter(i) == {p \in Int : \E j \in 1 .. n : /\ n + 1 - i <= j
                                                    /\ Begin(news[j]) <= p /\ p < End(news[j])}
           Good(t, i) == /\ Describes(t, R \cup Latter(i), 0)
                         /\ i = 0 => t = g
                         /\ i # 0 => Untouched(g, t, Begin(r(i)))
<1>n. n \in Nat
  BY DescribedFacts
<1>t. \A i \in 1 .. n : news[i] \in ProperRange
  BY DEF Describes
<1>s. \A i \in 1 .. n : /\ Begin(news[i]) \in Nat /\ End(news[i]) \in Nat
                        /\ Begin(news[i]) < End(news[i])
                        /\ Positions(news[i]) = Begin(news[i]) .. End(news[i]) - 1
  BY DescribedFacts
<1>o. \A i, j \in 1 .. n : i < j => End(news[i]) + 1 <= Begin(news[j])
  BY DescribedFacts
<1>c. \A p : p \in T <=> \E i \in 1 .. n : p \in Int /\ Begin(news[i]) <= p /\ p < End(news[i])
  BY DescribedFacts
<1>0. PICK f : /\ Placed(g, news) = f[n] /\ f[0] = g
               /\ \A i \in 1 .. n : f[i] = Place(g, f[i - 1], r(i))
  BY <1>n, PlacedIs
<1>g. Describes(g, R, 0)
  <2>1. \A i \in 1 .. Len(g) : Begin(g[i]) \in Nat /\ End(g[i]) \in Nat
    BY DescribedFacts
  <2>2. \A i, j \in 1 .. Len(g) : i < j => End(g[i]) + 1 <= Begin(g[j])
    BY DescribedFacts
  <2>3. \A i, j \in 1 .. Len(g) : i < j => End(g[i]) + 0 <= Begin(g[j])
    BY <2>1, <2>2
  <2>4. DOMAIN g = 1 .. Len(g)
    BY DescribedFacts
  <2> QED BY <2>3, <2>4 DEF Describes
<1> HIDE DEF n
<1>1. Good(f[0], 0)
  <2>1. R \cup Latter(0) = R
    BY <1>n
  <2> HIDE DEF Latter
  <2> QED BY <1>0, <1>g, <2>1
<1>2. ASSUME NEW i \in 1 .. n, Good(f[i - 1], i - 1)
      PROVE  Good(f[i], i)
  <2> DEFINE k == n + 1 - i
  <2>k. k \in 1 .. n /\ news[k] = r(i) /\ n + 1 - (i - 1) = k + 1
    BY <1>n
  <2> HIDE DEF k
  <2>0. /\ news[k] \in ProperRange /\ f[i] = Place(g, f[i - 1], news[k])
        /\ Describes(f[i - 1], R \cup Latter(i - 1), 0)
    BY <1>0, <1>2, <1>t, <2>k
  <2>1. \A p \in Positions(news[k]) : p \notin R
    <3> TAKE p \in Positions(news[k])
    <3>1. p \in Int /\ Begin(news[k]) <= p /\ p < End(news[k])
      BY <1>s, <2>k
    <3>2. p \in T
      BY <1>c, <2>k, <3>1
    <3> QED BY <3>2
  <2>2. Describes(f[i], (R \cup Latter(i - 1)) \cup Positions(news[k]), 0)
        /\ Untouched(g, f[i], Begin(news[k]))
    <3>1. CASE i = 1
      <4>1. f[i - 1] = g
        BY <1>0, <3>1
      <4>2. End(news[k]) + 1 \in Nat /\ End(news[k]) < End(news[k]) + 1
        BY <1>s, <2>k
      <4>3. Untouched(g, g, End(news[k]) + 1)
        BY DEF Untouched
      <4> HIDE DEF Latter
      <4> QED BY <2>0, <2>1, <4>1, <4>2, <4>3, PlaceDescribes
    <3>2. CASE i # 1
      <4>1. k + 1 \in 1 .. n /\ k < k + 1 /\ i - 1 # 0 /\ r(i - 1) = news[k + 1]
        BY <1>n, <2>k, <3>2 DEF k
      <4>2. /\ End(news[k]) < Begin(news[k + 1]) /\ Begin(news[k + 1]) \in Nat
            /\ End(news[k]) \in Nat
        <5>1. End(news[k]) + 1 <= Begin(news[k + 1])
          BY <1>o, <2>k, <4>1
        <5> QED BY <1>s, <2>k, <4>1, <5>1
      <4>3. Untouched(g, f[i - 1], Begin(news[k + 1]))
        BY <1>2, <4>1
      <4>4. End(news[k]) \notin T
        <5> SUFFICES ASSUME NEW j \in 1 .. n, Begin(news[j]) <= End(news[k]), End(news[k]) < End(news[j])
                     PROVE  FALSE
          BY <1>c
        <5>1. \/ j = k \/ End(news[j]) + 1 <= Begin(news[k])
              \/ End(news[k]) + 1 <= Begin(news[j])
          BY <1>n, <1>o, <2>k
        <5>2. /\ Begin(news[j]) \in Nat /\ End(news[j]) \in Nat /\ Begin(news[k]) \in Nat
              /\ End(news[k]) \in Nat /\ Begin(news[k]) < End(news[k])
          BY <1>s, <2>k
        <5> QED BY <5>1, <5>2
      <4>5. End(news[k]) - 1 \in T /\ Begin(news[k + 1]) \in T
        <5>1. /\ End(news[k]) - 1 \in Int /\ Begin(news[k]) <= End(news[k]) - 1
              /\ End(news[k]) - 1 < End(news[k])
          BY <1>s, <2>k
        <5>2. /\ Begin(news[k + 1]) \in Int /\ Begin(news[k + 1]) <= Begin(news[k + 1])
              /\ Begin(news[k + 1]) < End(news[k + 1])
          BY <1>s, <4>1
        <5> QED BY <1>c, <2>k, <4>1, <5>1, <5>2
      <4>6. End(news[k]) \in R
        <5>1. End(news[k]) - 1 < End(news[k]) /\ End(news[k]) \in Int
          BY <4>2
        <5> QED BY <4>2, <4>4, <4>5, <5>1
      <4> HIDE DEF Latter
      <4> QED BY <2>0, <2>1, <4>2, <4>3, <4>6, PlaceDescribes
    <3> QED BY <3>1, <3>2
  <2>3. (R \cup Latter(i - 1)) \cup Positions(news[k]) = R \cup Latter(i)
    <3>1. ASSUME NEW p
          PROVE  p \in Latter(i) <=> p \in Latter(i - 1) \/ p \in Positions(news[k])
      <4>1. p \in Positions(news[k]) <=> p \in Int /\ Begin(news[k]) <= p /\ p < End(news[k])
        BY <1>s, <2>k
      <4>2. \A j \in 1 .. n : n + 1 - i <= j <=> j = k \/ n + 1 - (i - 1) <= j
        BY <1>n, <2>k DEF k
      <4> QED BY <2>k, <4>1, <4>2
    <3> HIDE DEF Latter
    <3> QED BY <3>1
  <2>4. i # 0
    BY <1>n
  <2> HIDE DEF Latter
  <2> QED BY <2>2, <2>3, <2>4, <2>k
<1>3. Good(f[n], n)
  <2> DEFINE Bad == {i \in 0 .. n : ~Good(f[i], i)}
  <2> HIDE DEF Good
  <2> SUFFICES ASSUME Bad # {}
               PROVE  FALSE
    BY <1>n
  <2>1. PICK i \in Bad : \A k \in Bad : i <= k
    <3>1. Bad \subseteq Nat
      BY <1>n
    <3> HIDE DEF Bad
    <3> QED BY <3>1, Least
  <2>2. i # 0 /\ i \in 0 .. n /\ ~Good(f[i], i)
    BY <1>1
  <2>3. i \in 1 .. n /\ i - 1 \in 0 .. n /\ ~(i <= i - 1)
    BY <1>n, <2>2
  <2>4. Good(f[i - 1], i - 1)
    BY <2>1, <2>3
  <2> QED BY <1>2, <2>2, <2>3, <2>4
<1>4. Latter(n) = T
  <2>1. \A j \in 1 .. n : n + 1 - n <= j
    BY <1>n
  <2> QED BY <1>c, <2>1
<1> HIDE DEF Latter
<1> QED BY <1>0, <1>3, <1>4

\* The members of a set before a position.
Earlier(K, p) == {q \in K : q < p}

\* The members at count places from begin on.
Middle(K, begin, count) == {p \in K : Cardinality(Earlier(K, p)) \in begin .. begin + count - 1}

\* When some of what is left is cut from what was left before, the new ranges
\* are the runs of everything that is cut then.
THEOREM CutAgain ==
  ASSUME NEW n \in Nat, NEW R \in SUBSET (0 .. n - 1), NEW begin \in Int, NEW count \in Int
  PROVE  GetNewRangesWithout(RunsOf(R), n, begin, count) =
           RunsOf(R \cup Middle((0 .. n - 1) \ R, begin, count))
<1> DEFINE g == RunsOf(R)
           K == (0 .. n - 1) \ R
           T == {p \in K : Cardinality(Earlier(K, p)) \in begin .. begin + count - 1}
           tocut == {c \in 0 .. n - 1 : /\ ~IsInRange(g, c)
                                        /\ Coord(g, c) \in begin .. begin + count - 1}
<1>1. IsFiniteSet(0 .. n - 1) /\ 0 .. n - 1 \subseteq Nat
  BY FS_Interval
<1>2. IsFiniteSet(R) /\ IsFiniteSet(K) /\ R \subseteq Nat /\ K \subseteq Nat
  <2>1. R \subseteq 0 .. n - 1 /\ K \subseteq 0 .. n - 1
    OBVIOUS
  <2>2. IsFiniteSet(R) /\ IsFiniteSet(K)
    BY <1>1, <2>1, FS_Subset
  <2> QED BY <1>1, <2>1, <2>2
<1>3. Describes(g, R, 1)
  BY <1>2, RunsDescribe
<1> HIDE DEF g
<1>4. tocut = T
  <2>1. \A c \in 0 .. n - 1 : /\ IsInRange(g, c) <=> c \in R
                              /\ Coord(g, c) = Cardinality(Earlier(K, c))
    <3> TAKE c \in 0 .. n - 1
    <3>1. c \in Nat /\ (0 .. c - 1) \ R = Earlier(K, c)
      BY DEF Earlier
    <3>2. /\ IsInRange(g, c) <=> c \in R
          /\ Coord(g, c) = Cardinality((0 .. c - 1) \ R)
      BY <1>3, <3>1, CoordIs
    <3> QED BY <3>1, <3>2
  <2>2. \A c : c \in K <=> c \in 0 .. n - 1 /\ c \notin R
    OBVIOUS
  <2> QED BY <2>1, <2>2
<1>5. T \subseteq K /\ IsFiniteSet(T) /\ T \subseteq Nat
  <2>1. T \subseteq K
    OBVIOUS
  <2> HIDE DEF T
  <2> QED BY <1>2, <2>1, FS_Subset
<1>6. Describes(RunsOf(T), T, 1)
  <2> HIDE DEF T
  <2> QED BY <1>5, RunsDescribe
<1>7. ASSUME NEW x \in T, NEW y \in T, NEW z \in Int, x < z, z < y
      PROVE  z \in R \/ z \in T
  <2> SUFFICES ASSUME z \notin R
               PROVE  z \in T
    OBVIOUS
  <2>1. x \in K /\ y \in K /\ x \in 0 .. n - 1 /\ y \in 0 .. n - 1
    OBVIOUS
  <2>2. z \in K
    <3>1. z \in 0 .. n - 1
      BY <1>7, <2>1
    <3> QED BY <3>1
  <2>3. Earlier(K, x) \subseteq Earlier(K, z) /\ Earlier(K, z) \subseteq Earlier(K, y) /\ Earlier(K, y) \subseteq K
    <3>1. \A q \in K : (q < x => q < z) /\ (q < z => q < y)
      BY <1>2, <1>7, <2>1, <2>2
    <3> QED BY <3>1 DEF Earlier
  <2>4. /\ Cardinality(Earlier(K, x)) \in begin .. begin + count - 1
        /\ Cardinality(Earlier(K, y)) \in begin .. begin + count - 1
    OBVIOUS
  <2>5. /\ IsFiniteSet(Earlier(K, x)) /\ IsFiniteSet(Earlier(K, y)) /\ IsFiniteSet(Earlier(K, z))
        /\ Cardinality(Earlier(K, x)) <= Cardinality(Earlier(K, z))
        /\ Cardinality(Earlier(K, z)) <= Cardinality(Earlier(K, y))
    <3>1. IsFiniteSet(Earlier(K, y))
      BY <1>2, <2>3, FS_Subset
    <3>2. IsFiniteSet(Earlier(K, z)) /\ Cardinality(Earlier(K, z)) <= Cardinality(Earlier(K, y))
      BY <2>3, <3>1, FS_Subset
    <3>3. IsFiniteSet(Earlier(K, x)) /\ Cardinality(Earlier(K, x)) <= Cardinality(Earlier(K, z))
      BY <2>3, <3>2, FS_Subset
    <3> QED BY <3>1, <3>2, <3>3
  <2>6. Cardinality(Earlier(K, z)) \in Nat
    BY <2>5, FS_CardinalityType
  <2>7. Cardinality(Earlier(K, z)) \in begin .. begin + count - 1
    BY <2>4, <2>5, <2>6
  <2> QED BY <2>2, <2>7
<1>8. \A p \in T : p \notin R
  OBVIOUS
<1>9. GetNewRangesWithout(g, n, begin, count) = Merge(Placed(g, RunsOf(T)))
  <2>1. GetNewRangesWithout(g, n, begin, count) = Merge(Placed(g, RunsOf(tocut)))
    BY DEF GetNewRangesWithout
  <2> HIDE DEF tocut, T
  <2> QED BY <1>4, <2>1
<1> HIDE DEF T, tocut
<1>10. Describes(Placed(g, RunsOf(T)), R \cup T, 0)
  BY <1>3, <1>6, <1>7, <1>8, PlacedDescribes
<1>11. Describes(Merge(Placed(g, RunsOf(T))), R \cup T, 1)
  BY <1>10, MergeDescribes
<1>12. Describes(RunsOf(R \cup T), R \cup T, 1)
  <2>1. IsFiniteSet(R \cup T) /\ R \cup T \subseteq Nat
    BY <1>2, <1>5, FS_Union
  <2> QED BY <2>1, RunsDescribe
<1>13. Merge(Placed(g, RunsOf(T))) = RunsOf(R \cup T)
  BY <1>11, <1>12, OneDescription
<1>14. T = Middle(K, begin, count)
  BY DEF T, Middle
<1> QED BY <1>9, <1>13, <1>14 DEF g

-----------------------------------------------------------------------------
(* The inductive invariant.                                                *)

\* Wherever a candidate waits to be tested.
Jobs ==
  {job \in ToSet(medium) : job.kind = "generate"} \cup ToSet(testqueue)
  \cup ToSet(worker.with) \cup ToSet(worker.job)
  \cup UNION {ToSet(light[l].job) : l \in LightThreads}

\* Tests that run or have ended, and have not been stored.
Tests == testing \cup UNION {ToSet(light[l].with) : l \in LightThreads}

\* What the level is made of.
LevelInv ==
  /\ params \in Configurations
  /\ input.kept \in (SUBSET Whole) \ {{}}
  /\ IsList(inputRanges)
  /\ \A r \in ToSet(inputRanges) : r \in Nat \X Int
  /\ level \in Nat \ {0}
  /\ totaltests \in Nat

\* The places where candidates are.
WorkPlaces ==
  {"nextLevel", "filling", "launching", "idle", "checking", "releasing",
   "counting", "closing", "evaluating", "finishing"}
TestPlaces == {"idle", "next", "releasing", "counting", "storing", "stopping"}

AtMostOne(s) == s = <<>> \/ s = <<s[1]>>

\* What a thread, a test and a count are made of.
IsThread(x) == x = [at |-> x.at, with |-> x.with, job |-> x.job]
IsTest(t)   == t = [ident |-> t.ident, batch |-> t.batch, number |-> t.number,
                    retries |-> t.retries, input |-> t.input]
IsCount(t)  == t = [batch |-> t.batch, count |-> t.count, sent |-> t.sent,
                    processed |-> t.processed]

WorkerInv ==
  /\ IsThread(worker) /\ worker.at \in WorkPlaces
  /\ AtMostOne(worker.with) /\ AtMostOne(worker.job)
  /\ worker.at \in {"checking", "releasing"} => worker.with = <<worker.with[1]>>
  /\ worker.job # <<>> => worker.at = "releasing"

LightInv ==
  /\ light = [l \in LightThreads |-> light[l]]
  /\ \A l \in LightThreads :
       /\ IsThread(light[l]) /\ light[l].at \in TestPlaces
       /\ AtMostOne(light[l].with) /\ AtMostOne(light[l].job)
       /\ light[l].at # "idle" => light[l].with = <<light[l].with[1]>>

PlaceInv ==
  /\ WorkerInv /\ LightInv
  /\ batchident \in Nat /\ IsCount(tasks)
  /\ IsList(medium) /\ IsList(testqueue)
  /\ \A job \in ToSet(medium) : job = Evaluate \/ job.kind = "generate"
  /\ \A job \in Jobs : job.kind = "generate"
  /\ IsFiniteSet(testing) /\ \A t \in testing : IsTest(t)

\* Every candidate and test is a part of the original input.
PartInv ==
  /\ \A c \in Jobs : c.input.kept \subseteq Whole
  /\ \A t \in Tests : t.input.kept \in (SUBSET Whole) \ {{}}
  /\ \A c \in completed : c.input.kept \in (SUBSET Whole) \ {{}}

\* From the close of a batch to the next level, and for ever when it was the
\* last, all candidates are of batches that are closed.
Between == finished \/ worker.at \in {"evaluating", "nextLevel", "filling", "finishing"}

BatchInv ==
  /\ \A c \in Jobs : c.batch \in Nat /\ c.batch <= batchident
                     /\ (Between => c.batch < batchident)
  /\ worker.at = "checking" => worker.with[1].batch = batchident

\* The end comes once, and leaves nothing to evaluate.
EndInv ==
  /\ finished => worker.at \in {"idle", "finishing"} /\ tasks.processed = TRUE
  /\ worker.at = "finishing" => finished
  /\ worker.at \in {"closing", "evaluating"} => tasks.processed = TRUE

\* Scores, and what later ones are compared with.
ScoreInv ==
  /\ score \in Nat \X Nat /\ best \in Nat \X Nat
  /\ \A s \in KeptScores : score[s] <= best[s]
  /\ \A c \in completed :
       /\ c.scores \in Nat \X Nat
       /\ \E same \in BOOLEAN : IsGood(params.goal, params.loss, best, same, c.scores)

\* The count of the current batch, and the candidates that it stands for.
TestBatchInv ==
  \A t \in Tests : /\ t.batch \in Nat /\ t.batch <= batchident
                   /\ Between => t.batch < batchident

CountInv ==
  /\ tasks.count \in Int /\ tasks.batch \in Nat /\ tasks.batch <= batchident
  /\ worker.at \in {"filling", "launching"} => tasks.batch = batchident
  /\ worker.at = "filling" => testqueue = <<>> /\ tasks.count <= 0
  /\ tasks.batch = batchident =>
       /\ \A c \in ToSet(testqueue) : c.batch = batchident /\ c.number \notin Outstanding
       /\ tasks.count <= Cardinality(Outstanding)
  /\ \A i, j \in DOMAIN testqueue :
       testqueue[i].number = testqueue[j].number => i = j
-----------------------------------------------------------------------------
(* The candidates of a level.                                              *)

LEMMA FiniteList ==
  ASSUME NEW s, IsList(s)
  PROVE  IsFiniteSet(ToSet(s))
<1>1. DOMAIN s = 1 .. Len(s) /\ Len(s) \in Int
  BY DEF IsList
<1>2. IsFiniteSet(DOMAIN s)
  BY <1>1, FS_Interval
<1>3. IsFiniteSet({s[i] : i \in DOMAIN s})
  BY <1>2, FiniteImage
<1> QED BY <1>3 DEF ToSet

\* A run of equal scores is a range of positions.
LEMMA ExtractedRanges ==
  ASSUME NEW changes, changes \subseteq Nat, NEW n \in Nat
  PROVE  /\ IsList(ExtractRanges(changes, n))
         /\ \A r \in ToSet(ExtractRanges(changes, n)) : r \in Nat \X Int
<1> DEFINE borders == (changes \cap 1 .. n - 1) \cup {0}
           begins  == {b \in borders : b + 1 \notin borders /\ \E e \in borders : b < e}
           After(b) == {e \in borders : b < e}
           runs    == [i \in DOMAIN Sorted(begins) |->
                         <<Sorted(begins)[i], Min(After(Sorted(begins)[i])) - Sorted(begins)[i] - 1>>]
<1>1. borders \subseteq Nat /\ begins \subseteq borders /\ IsFiniteSet(begins)
  <2>1. borders \in SUBSET (0 .. n) /\ begins \in SUBSET (0 .. n)
    OBVIOUS
  <2>2. IsFiniteSet(0 .. n)
    BY FS_Interval
  <2> QED BY <2>1, <2>2, FS_Subset
<1>2. \A b \in begins : Min(After(b)) \in Nat
  <2> TAKE b \in begins
  <2>1. After(b) \subseteq Nat /\ After(b) # {}
    BY <1>1
  <2>2. \E m \in After(b) : \A k \in After(b) : m <= k
    <3> HIDE DEF After
    <3> QED BY <2>1, Least
  <2>3. Min(After(b)) \in After(b)
    <3> HIDE DEF After
    <3> QED BY <2>2 DEF Min
  <2> QED BY <2>1, <2>3
<1>3. /\ Sorted(begins) \in Seq(begins) /\ Len(Sorted(begins)) \in Nat
  <2> HIDE DEF begins, borders
  <2>1. begins \subseteq Int
    BY <1>1
  <2> QED BY <1>1, <2>1, SortedMembers
<1>4. ASSUME NEW i \in 1 .. Len(Sorted(begins))
      PROVE  runs[i] \in Nat \X Int
  <2> HIDE DEF begins, borders, After
  <2>1. PICK b : b = Sorted(begins)[i]
    OBVIOUS
  <2>0. i \in DOMAIN Sorted(begins) /\ b \in begins
    BY <1>3, <2>1, ListOf
  <2>2. b \in begins /\ b \in Nat /\ i \in DOMAIN Sorted(begins)
    BY <1>1, <2>0
  <2>3. runs[i] = <<b, Min(After(b)) - b - 1>>
    BY <2>1, <2>2
  <2>4. Min(After(b)) \in Nat
    BY <1>2, <2>2
  <2> QED BY <2>2, <2>3, <2>4
<1>5. DOMAIN runs = 1 .. Len(Sorted(begins))
  <2> HIDE DEF begins, borders, After
  <2> QED BY <1>3
<1>6. runs = [i \in DOMAIN runs |-> runs[i]]
  OBVIOUS
<1>7. runs = ExtractRanges(changes, n)
  BY DEF ExtractRanges
<1> HIDE DEF runs, begins
<1>8. IsList(runs) /\ ToSet(runs) = {runs[i] : i \in 1 .. Len(Sorted(begins))}
  BY <1>3, <1>5, <1>6, MadeList
<1> QED BY <1>4, <1>7, <1>8

\* The ranges that are not skipped are some of them.
LEMMA ConsideredRanges ==
  ASSUME NEW s, IsList(s), NEW k \in Nat
  PROVE  IsList(Considered(s, k)) /\ ToSet(Considered(s, k)) \subseteq ToSet(s)
<1>1. s \in Seq(ToSet(s)) /\ Len(s) \in Nat
  BY DEF IsList
<1>2. CASE k <= Len(s)
  BY <1>1, <1>2, CutList DEF Considered
<1>3. CASE k > Len(s)
  <2>1. SubSeq(s, k + 1, Len(s)) = <<>>
    BY <1>1, <1>3
  <2> QED BY <2>1, EmptyList DEF Considered
<1> QED BY <1>1, <1>2, <1>3

\* What may be cut at all, position by position.
UsablePositions(ranges, skip, skipped) ==
  UNION {Positions(Usable(range, skip)) : range \in ToSet(Considered(ranges, skipped))}

LEMMA UsableFinite ==
  ASSUME NEW s, IsList(s), \A r \in ToSet(s) : r \in Nat \X Int,
         NEW skip, NEW k \in Nat
  PROVE  /\ IsFiniteSet(UsablePositions(s, skip, k))
         /\ UsablePositions(s, skip, k) \subseteq Int
         /\ UsableLength(s, skip, k) \in Nat
<1> DEFINE left == ToSet(Considered(s, k))
           P == [r \in left |-> Positions(Usable(r, skip))]
<1>1. IsFiniteSet(left) /\ left \subseteq ToSet(s)
  BY ConsideredRanges, FiniteList
<1>2. ASSUME NEW r \in left
      PROVE  IsFiniteSet(Positions(Usable(r, skip))) /\ Positions(Usable(r, skip)) \subseteq Int
  <2>1. r \in Nat \X Int
    BY <1>1
  <2>2. r[1] \in Nat /\ r[2] \in Int
    BY <2>1
  <2>3. Usable(r, skip)[1] \in Int /\ Usable(r, skip)[2] \in Int
    BY <2>2 DEF Usable, Begin, Length
  <2>4. PICK u : u = Usable(r, skip)
    OBVIOUS
  <2>5. Positions(u) = Begin(u) .. (End(u) - 1)
    BY DEF Positions
  <2>6. Begin(u) \in Int /\ End(u) - 1 \in Int
    BY <2>3, <2>4 DEF Begin, End
  <2>7. IsFiniteSet(Positions(u)) /\ Positions(u) \subseteq Int
    BY <2>5, <2>6, FS_Interval
  <2> QED BY <2>4, <2>7
<1>3. DOMAIN P = left /\ IsFiniteSet({P[r] : r \in DOMAIN P})
  <2>1. DOMAIN P = left
    OBVIOUS
  <2> HIDE DEF P
  <2> QED BY <1>1, <2>1, FiniteImage
<1>4. UsablePositions(s, skip, k) = UNION {P[r] : r \in DOMAIN P}
  BY DEF UsablePositions
<1>5. \A T \in {P[r] : r \in DOMAIN P} : IsFiniteSet(T) /\ T \subseteq Int
  BY <1>2
<1>6. IsFiniteSet(UsablePositions(s, skip, k)) /\ UsablePositions(s, skip, k) \subseteq Int
  <2> HIDE DEF P
  <2> QED BY <1>3, <1>4, <1>5, FS_UNION
<1>7. UsableLength(s, skip, k) = Cardinality(UsablePositions(s, skip, k))
  BY DEF UsableLength, UsablePositions
<1> QED BY <1>6, <1>7, FS_CardinalityType

LEMMA PiecesList ==
  ASSUME NEW s, IsList(s), \A r \in ToSet(s) : r \in Nat \X Int,
         NEW skip, NEW k \in Nat, NEW size
  PROVE  \E n \in Nat :
           /\ DOMAIN GetRangesAbove(s, skip, k, size) = 1 .. n
           /\ size \in Int => \A i \in 1 .. n :
                /\ Begin(GetRangesAbove(s, skip, k, size)[i]) \in Int
                /\ Length(GetRangesAbove(s, skip, k, size)[i]) \in Int
<1> DEFINE z == IF size <= 0 THEN 1 ELSE size
           Pieces(range) == {b \in Positions(Usable(range, skip)) :
                               /\ Length(range) >= z
                               /\ (b - Begin(Usable(range, skip))) % z = 0
                               /\ b + z <= End(Usable(range, skip))}
           begins == UNION {Pieces(range) : range \in ToSet(Considered(s, k))}
<1>1. begins \in SUBSET UsablePositions(s, skip, k)
  BY DEF UsablePositions
<1>2. IsFiniteSet(begins) /\ begins \subseteq Int
  <2> HIDE DEF begins
  <2> QED BY <1>1, UsableFinite, FS_Subset
<1>3. Cardinality(begins) \in Nat /\ DOMAIN Sorted(begins) = 1 .. Cardinality(begins)
  <2> HIDE DEF begins
  <2> QED BY <1>2, SortedMembers DEF Sorted
<1>4. GetRangesAbove(s, skip, k, size) = [i \in DOMAIN Sorted(begins) |-> <<Sorted(begins)[i], z>>]
  BY DEF GetRangesAbove
<1>5. \A i \in 1 .. Cardinality(begins) : Sorted(begins)[i] \in Int
  <2> HIDE DEF begins
  <2>1. Sorted(begins) \in Seq(begins) /\ Len(Sorted(begins)) = Cardinality(begins)
    BY <1>2, SortedMembers
  <2>2. PICK sorted : sorted = Sorted(begins)
    OBVIOUS
  <2>3. sorted \in Seq(begins) /\ Len(sorted) = Cardinality(begins)
    BY <2>1, <2>2
  <2>4. \A i \in 1 .. Cardinality(begins) : sorted[i] \in begins
    BY <2>3
  <2> QED BY <1>2, <2>2, <2>4
<1>6. ASSUME size \in Int, NEW i \in 1 .. Cardinality(begins)
      PROVE  /\ Begin(GetRangesAbove(s, skip, k, size)[i]) \in Int
             /\ Length(GetRangesAbove(s, skip, k, size)[i]) \in Int
  <2>1. z \in Int
    BY <1>6
  <2> HIDE DEF begins, z
  <2>2. GetRangesAbove(s, skip, k, size)[i] = <<Sorted(begins)[i], z>>
    BY <1>3, <1>4
  <2> QED BY <1>5, <2>1, <2>2 DEF Begin, Length
<1>7. DOMAIN GetRangesAbove(s, skip, k, size) = 1 .. Cardinality(begins)
  <2> HIDE DEF begins, z
  <2> QED BY <1>3, <1>4
<1> HIDE DEF begins
<1> QED BY <1>3, <1>6, <1>7
\* What is known of a configuration.
LEMMA ParamsFacts ==
  ASSUME params \in Configurations
  PROVE  /\ params.length \in Nat \ {0, 1}
         /\ params.goal \in Goals /\ params.loss \in Losses
         /\ params.scores \in SUBSET (Nat \X Nat)
         /\ params.skipRanges \in Nat /\ params.batchprocessing \in Nat
         /\ params.budget \in Nat /\ params.minLength \in Nat \ {0}
BY DeltaAssumption

LEMMA LimitFacts ==
  ASSUME LevelInv
  PROVE  /\ Limit \in Nat
         /\ IsFiniteSet(input.kept) /\ Cardinality(input.kept) \in Nat
<1>1. params.length \in Nat /\ params.skipRanges \in Nat
  BY ParamsFacts DEF LevelInv
<1>2. IsFiniteSet(Whole)
  BY <1>1, FS_Interval DEF Whole, OrigLength
<1>3. IsFiniteSet(input.kept)
  BY <1>2, FS_Subset DEF LevelInv
<1>4. Cardinality(input.kept) \in Nat
  BY <1>3, FS_CardinalityType
<1>5. UsableLength(inputRanges, params.skip, params.skipRanges) \in Nat
  BY <1>1, UsableFinite DEF LevelInv
<1> QED BY <1>3, <1>4, <1>5 DEF Limit

\* A level is a list of parts of the input.
LEMMA CandidateFacts ==
  ASSUME LevelInv
  PROVE  /\ IsList(Candidates)
         /\ \A c \in ToSet(Candidates) : c.kept \subseteq Whole
<1>1. /\ Cardinality(input.kept) \in Nat /\ input.kept \subseteq Whole
      /\ level \in Nat \ {0} /\ params.skipRanges \in Nat /\ params.minLength \in Nat
  BY LimitFacts, ParamsFacts DEF LevelInv
<1>2. SplitCount \in Int
  <2>1. Cardinality(input.kept) \div level \in Int
    BY <1>1
  <2>2. Maximum(Cardinality(input.kept) \div level, 1) \in Nat \ {0}
    BY <2>1 DEF Maximum
  <2> QED BY <1>1, <2>2 DEF SplitCount
<1>3. \A begin, count : Split(begin, count).kept \subseteq Whole
  BY <1>1 DEF Split, Cut
<1>4. \A begin, count : Complement(begin, count).kept \subseteq Whole
  BY <1>1 DEF Complement
<1> DEFINE complements == [i \in DOMAIN SplitRanges |->
                             Complement(Begin(SplitRanges[i]), Length(SplitRanges[i]))]
           splits == [i \in DOMAIN LongSplits |->
                        Split(Begin(LongSplits[i]), Length(LongSplits[i]))]
<1>5. DOMAIN SplitRanges = 1 .. SplitCount
  BY DEF SplitRanges
<1>6. IsList(complements) /\ ToSet(complements) = {complements[i] : i \in 1 .. SplitCount}
  <2>1. DOMAIN complements = 1 .. SplitCount /\ complements = [i \in DOMAIN complements |-> complements[i]]
    BY <1>5
  <2> HIDE DEF complements
  <2> QED BY <1>2, <2>1, MadeList
<1>7. \E n \in Int : DOMAIN LongSplits = 1 .. n
  <2>1. CASE SplitSize >= params.minLength
    BY <1>2, <1>5, <2>1 DEF LongSplits
  <2>2. CASE ~(SplitSize >= params.minLength) /\ Cardinality(input.kept) < params.minLength
    <3>1. LongSplits = <<>>
      BY <2>2 DEF LongSplits
    <3>2. DOMAIN LongSplits = 1 .. 0
      BY <3>1
    <3> QED BY <3>2
  <2>3. CASE ~(SplitSize >= params.minLength) /\ ~(Cardinality(input.kept) < params.minLength)
    <3>1. LongSplits = <<SplitRanges[SplitCount]>>
      BY <2>3 DEF LongSplits
    <3>2. DOMAIN LongSplits = 1 .. 1
      BY <3>1
    <3> QED BY <3>2
  <2> QED BY <2>1, <2>2, <2>3
<1>8. PICK n \in Int : DOMAIN LongSplits = 1 .. n
  BY <1>7
<1>9. IsList(splits) /\ ToSet(splits) = {splits[i] : i \in 1 .. n}
  <2>1. DOMAIN splits = 1 .. n /\ splits = [i \in DOMAIN splits |-> splits[i]]
    BY <1>8
  <2> HIDE DEF splits
  <2> QED BY <2>1, MadeList
<1>10. CASE Standard
  <2>1. Candidates = splits \o complements
    BY <1>10 DEF Candidates
  <2>2. \A c \in ToSet(splits) : c.kept \subseteq Whole
    BY <1>3, <1>8, <1>9
  <2>3. \A c \in ToSet(complements) : c.kept \subseteq Whole
    BY <1>4, <1>5, <1>6
  <2> HIDE DEF splits, complements
  <2> QED BY <1>6, <1>9, <2>1, <2>2, <2>3, JoinList
<1>11. CASE ~Standard
  <2> DEFINE cuts == GetRangesAbove(inputRanges, params.skip, params.skipRanges, Limit \div level)
             made == [i \in DOMAIN cuts |-> Complement(Begin(cuts[i]), Length(cuts[i]))]
  <2>1. PICK m \in Nat : DOMAIN cuts = 1 .. m
    BY <1>1, PiecesList DEF LevelInv
  <2>2. Candidates = made
    BY <1>11 DEF Candidates
  <2>3. DOMAIN made = 1 .. m /\ made = [i \in DOMAIN made |-> made[i]]
    BY <2>1
  <2>4. \A i \in 1 .. m : made[i].kept \subseteq Whole
    BY <1>4, <2>1
  <2> HIDE DEF made
  <2>5. IsList(made) /\ ToSet(made) = {made[i] : i \in 1 .. m}
    BY <2>3, MadeList
  <2> QED BY <2>2, <2>4, <2>5
<1> QED BY <1>10, <1>11
-----------------------------------------------------------------------------
(* Steps.                                                                  *)

\* A level is evaluated: nothing good was found, or something is adopted.
DeepenStep == \E ending \in {FALSE, BudgetSpent} : Deepen(ending)
AdoptStep  ==
  \E result \in completed, newLevel \in {2, Maximum(level - 1, 2)} :
    \E newBest : Adopt(result, newBest, newLevel)

LightStep(l) ==
  \/ \E t \in testing : RepeatTest(l, t) \/ TakeResult(l, t)
  \/ DropResult(l) \/ StartNext(l) \/ ReleaseTest(l) \/ EndLevel(l)
  \/ (\E same \in BOOLEAN, scores \in params.scores : StoreResult(l, same, scores))
  \/ StopBatch(l)

LEMMA WorkerSteps ==
  ASSUME Worker
  PROVE  \/ TakeCandidate \/ DoTest \/ RejectCandidate \/ ReleaseCandidate
         \/ CheckLevelEmpty \/ TakeEvaluate \/ CloseBatch
         \/ DeepenStep \/ AdoptStep \/ Finish \/ ResetLevel \/ FillQueue \/ LaunchBatch
<1>1. StandardGoDeeper \/ ScoreProgressGoDeeper => DeepenStep
  <2>1. (BudgetSpent /\ params.goal.first # "reproduce") \in {FALSE, BudgetSpent}
    OBVIOUS
  <2> HIDE DEF BudgetSpent
  <2> QED BY <2>1 DEF StandardGoDeeper, ScoreProgressGoDeeper, DeepenStep
<1>2. ASSUME NEW result \in completed,
             \/ AdoptReproducing(result)
             \/ AdoptByPrimary(result) \/ AdoptBySecondary(result) \/ AdoptByBoth(result)
             \/ AdoptComplement(result)
      PROVE  AdoptStep
  BY <1>2 DEF AdoptReproducing, AdoptByPrimary, AdoptBySecondary, AdoptByBoth,
              AdoptComplement, StandardAdopt, AdoptStep
<1>3. StandardNextLevel \/ ScoreProgressNextLevel => ResetLevel
  BY DEF StandardNextLevel, ScoreProgressNextLevel
<1>4. StandardLaunch \/ ScoreProgressLaunch => LaunchBatch
  BY DEF StandardLaunch, ScoreProgressLaunch
<1> QED BY <1>1, <1>2, <1>3, <1>4 DEF Worker

\* The next candidate is the first one, if there is one.
LEMMA NextFacts ==
  ASSUME IsList(testqueue)
  PROVE  /\ AtMostOne(NextCandidate) /\ IsList(NextCandidate)
         /\ ToSet(NextCandidate) \subseteq ToSet(testqueue)
         /\ testqueue = <<>> => NextCandidate = <<>>
         /\ testqueue # <<>> => NextCandidate = <<testqueue[1]>>
         /\ IsList(SubSeq(testqueue, 2, Len(testqueue)))
         /\ ToSet(SubSeq(testqueue, 2, Len(testqueue))) \subseteq ToSet(testqueue)
         /\ testqueue = <<>> => SubSeq(testqueue, 2, Len(testqueue)) = <<>>
<1>1. testqueue \in Seq(ToSet(testqueue)) /\ Len(testqueue) \in Nat
  BY DEF IsList
<1>2. CASE testqueue = <<>>
  <2>1. Len(testqueue) = 0
    BY <1>2
  <2>2. NextCandidate = <<>>
    BY <1>2, <2>1 DEF NextCandidate, Minimum
  <2>3. SubSeq(testqueue, 2, Len(testqueue)) = <<>>
    BY <1>1, <2>1
  <2> QED BY <1>2, <2>2, <2>3, EmptyList DEF AtMostOne
<1>3. CASE testqueue # <<>>
  <2>1. Len(testqueue) >= 1 /\ 1 \in 0 .. Len(testqueue)
    BY <1>1, <1>3
  <2>2. NextCandidate = SubSeq(testqueue, 1, 1)
    BY <1>1, <2>1 DEF NextCandidate, Minimum
  <2>3. IsList(NextCandidate) /\ ToSet(NextCandidate) \subseteq ToSet(testqueue)
    BY <2>1, <2>2, CutList
  <2>4. NextCandidate = <<testqueue[1]>>
    <3>1. PICK u : u = NextCandidate
      OBVIOUS
    <3>2. u \in Seq(ToSet(u)) /\ Len(u) = 1 /\ u[1] = testqueue[1]
      BY <2>1, <2>2, <2>3, <3>1, CutList DEF IsList
    <3>3. u = <<u[1]>>
      BY <3>2
    <3> QED BY <3>1, <3>2, <3>3
  <2>5. 1 + 1 = 2
    OBVIOUS
  <2>6. /\ IsList(SubSeq(testqueue, 2, Len(testqueue)))
        /\ ToSet(SubSeq(testqueue, 2, Len(testqueue))) \subseteq ToSet(testqueue)
    BY <2>1, <2>5, CutList
  <2> QED BY <1>3, <2>3, <2>4, <2>6 DEF AtMostOne
<1> QED BY <1>2, <1>3

LEMMA WorkerStays == PlaceInv /\ [Next]_vars => WorkerInv'
<1> SUFFICES ASSUME PlaceInv, [Next]_vars
             PROVE  WorkerInv'
  OBVIOUS
<1>0. WorkerInv /\ IsList(medium) /\ IsList(testqueue)
  BY DEF PlaceInv
<1>1. CASE UNCHANGED worker
  BY <1>0, <1>1 DEF WorkerInv
<1>2. CASE TakeCandidate
  <2>1. CASE UNCHANGED worker
    BY <1>1, <2>1
  <2>2. CASE worker' = [at |-> "checking", with |-> <<Head(medium)>>, job |-> <<>>]
    BY <1>2, <2>2 DEF TakeCandidate, WorkerInv, WorkPlaces, IsThread, AtMostOne
  <2> QED BY <1>2, <2>1, <2>2 DEF TakeCandidate
<1>3. CASE DoTest
  BY <1>3 DEF DoTest, WorkerIdle, WorkerInv, WorkPlaces, IsThread, AtMostOne
<1>4. CASE RejectCandidate
  BY <1>0, <1>4, NextFacts DEF RejectCandidate, WorkerInv, WorkPlaces, IsThread, AtMostOne
<1>5. CASE ReleaseCandidate
  BY <1>0, <1>5 DEF ReleaseCandidate, WorkerIdle, WorkerInv, WorkPlaces, IsThread, AtMostOne
<1>6. CASE CheckLevelEmpty
  BY <1>6 DEF CheckLevelEmpty, WorkerIdle, WorkerInv, WorkPlaces, IsThread, AtMostOne
<1>7. CASE TakeEvaluate
  <2>1. CASE UNCHANGED worker
    BY <1>1, <2>1
  <2>2. CASE worker' = [WorkerIdle EXCEPT !.at = "closing"]
    BY <2>2 DEF WorkerIdle, WorkerInv, WorkPlaces, IsThread, AtMostOne
  <2> QED BY <1>7, <2>1, <2>2 DEF TakeEvaluate
<1>8. CASE CloseBatch
  BY <1>0, <1>8 DEF CloseBatch, WorkerInv, WorkPlaces, IsThread, AtMostOne
<1>9. CASE DeepenStep
  BY <1>0, <1>9 DEF DeepenStep, Deepen, GoOnOrFinish, WorkerInv, WorkPlaces, IsThread, AtMostOne
<1>10. CASE AdoptStep
  BY <1>0, <1>10 DEF AdoptStep, Adopt, GoOnOrFinish, WorkerInv, WorkPlaces, IsThread, AtMostOne
<1>11. CASE Finish
  BY <1>11 DEF Finish, WorkerIdle, WorkerInv, WorkPlaces, IsThread, AtMostOne
<1>12. CASE ResetLevel
  BY <1>0, <1>12 DEF ResetLevel, WorkerInv, WorkPlaces, IsThread, AtMostOne
<1>13. CASE FillQueue
  BY <1>0, <1>13 DEF FillQueue, WorkerInv, WorkPlaces, IsThread, AtMostOne
<1>14. CASE LaunchBatch
  BY <1>14 DEF LaunchBatch, WorkerIdle, WorkerInv, WorkPlaces, IsThread, AtMostOne
<1>15. ASSUME NEW l \in LightThreads, LightStep(l)
       PROVE  UNCHANGED worker
  BY <1>15 DEF LightStep, RepeatTest, TakeResult, DropResult, StartNext, ReleaseTest, EndLevel,
               StoreResult, StopBatch
<1>16. CASE Rescue \/ \E c \in Listeners : AddCallback(c)
  BY <1>1, <1>16 DEF Rescue, AddCallback
<1>17. CASE UNCHANGED vars
  BY <1>1, <1>17 DEF vars
<1>18. CASE Worker
  BY <1>2, <1>3, <1>4, <1>5, <1>6, <1>7, <1>8, <1>9, <1>10, <1>11, <1>12, <1>13, <1>14,
     <1>18, WorkerSteps
<1>19. CASE \E l \in LightThreads : Light(l)
  BY <1>1, <1>15, <1>19 DEF Light, LightStep
<1> QED BY <1>16, <1>17, <1>18, <1>19 DEF Next
\* A light thread that goes on leaves the others where they are.
LEMMA LightSet ==
  ASSUME LightInv, NEW l \in LightThreads, NEW x, light' = [light EXCEPT ![l] = x]
  PROVE  /\ light'[l] = x
         /\ \A m \in LightThreads : m # l => light'[m] = light[m]
         /\ IsThread(x) /\ x.at \in TestPlaces /\ AtMostOne(x.with) /\ AtMostOne(x.job)
            /\ (x.at # "idle" => x.with = <<x.with[1]>>)
              => LightInv'
<1>1. DOMAIN light = LightThreads
  BY DEF LightInv
<1>2. light' = [m \in LightThreads |-> IF m = l THEN x ELSE light[m]]
  BY <1>1
<1>3. light'[l] = x /\ \A m \in LightThreads : m # l => light'[m] = light[m]
  BY <1>2
<1>4. light' = [m \in LightThreads |-> light'[m]]
  BY <1>2
<1>5. ASSUME IsThread(x), x.at \in TestPlaces, AtMostOne(x.with), AtMostOne(x.job),
             x.at # "idle" => x.with = <<x.with[1]>>
      PROVE  LightInv'
  <2>1. ASSUME NEW m \in LightThreads
        PROVE  /\ IsThread(light'[m]) /\ light'[m].at \in TestPlaces
               /\ AtMostOne(light'[m].with) /\ AtMostOne(light'[m].job)
               /\ light'[m].at # "idle" => light'[m].with = <<light'[m].with[1]>>
    <3>1. CASE m = l
      BY <1>3, <1>5, <3>1
    <3>2. CASE m # l
      BY <1>3, <3>2 DEF LightInv
    <3> QED BY <3>1, <3>2
  <2> QED BY <1>4, <2>1 DEF LightInv, IsThread, AtMostOne
<1> QED BY <1>3, <1>5

\* It keeps what it has in hand.
LEMMA LightMoves ==
  ASSUME LightInv, NEW l \in LightThreads, NEW at \in TestPlaces,
         light[l].at # "idle", light' = [light EXCEPT ![l].at = at]
  PROVE  /\ light'[l] = [at |-> at, with |-> light[l].with, job |-> light[l].job]
         /\ \A m \in LightThreads : m # l => light'[m] = light[m]
         /\ LightInv'
<1> DEFINE x == [light[l] EXCEPT !.at = at]
<1>1. light' = [light EXCEPT ![l] = x]
  OBVIOUS
<1>2. x = [at |-> at, with |-> light[l].with, job |-> light[l].job]
  BY DEF LightInv, IsThread
<1>3. /\ IsThread(x) /\ x.at \in TestPlaces /\ AtMostOne(x.with) /\ AtMostOne(x.job)
      /\ x.at # "idle" => x.with = <<x.with[1]>>
  BY <1>2 DEF LightInv, IsThread
<1> HIDE DEF x
<1> QED BY <1>1, <1>2, <1>3, LightSet

LEMMA LightEffect ==
  ASSUME PlaceInv, NEW l \in LightThreads, LightStep(l)
  PROVE  LightInv' /\ \A m \in LightThreads : m # l => light'[m] = light[m]
<1>0. LightInv /\ IsList(testqueue) /\ IsThread(light[l])
  BY DEF PlaceInv, LightInv
<1>1. CASE UNCHANGED light
  BY <1>0, <1>1 DEF LightInv, IsThread, AtMostOne
<1>2. ASSUME NEW t \in testing, RepeatTest(l, t)
      PROVE  UNCHANGED light
  BY <1>2 DEF RepeatTest
<1>3. ASSUME NEW t \in testing, TakeResult(l, t)
      PROVE  LightInv' /\ \A m \in LightThreads : m # l => light'[m] = light[m]
  <2>1. CASE UNCHANGED light
    BY <1>1, <2>1
  <2>2. CASE light' = [light EXCEPT ![l] = [at |-> "next", with |-> <<t>>, job |-> <<>>]]
    <3> DEFINE x == [at |-> "next", with |-> <<t>>, job |-> <<>>]
    <3>1. /\ IsThread(x) /\ x.at \in TestPlaces /\ AtMostOne(x.with) /\ AtMostOne(x.job)
          /\ x.at # "idle" => x.with = <<x.with[1]>>
      BY DEF IsThread, TestPlaces, AtMostOne
    <3>2. light' = [light EXCEPT ![l] = x]
      BY <2>2
    <3> HIDE DEF x
    <3> QED BY <1>0, <3>1, <3>2, LightSet
  <2> QED BY <1>3, <2>1, <2>2 DEF TakeResult
<1>4. ASSUME light' = [light EXCEPT ![l] = LightIdle]
      PROVE  LightInv' /\ \A m \in LightThreads : m # l => light'[m] = light[m]
  <2>1. /\ IsThread(LightIdle) /\ LightIdle.at \in TestPlaces /\ AtMostOne(LightIdle.with)
        /\ AtMostOne(LightIdle.job) /\ (LightIdle.at # "idle" => LightIdle.with = <<LightIdle.with[1]>>)
    BY DEF IsThread, TestPlaces, AtMostOne, LightIdle
  <2> QED BY <1>0, <1>4, <2>1, LightSet
<1>5. CASE StartNext(l)
  <2> DEFINE x == [at |-> "releasing", with |-> light[l].with, job |-> NextCandidate]
  <2>1. light' = [light EXCEPT ![l] = x]
    BY <1>5 DEF StartNext
  <2>2. /\ IsThread(x) /\ x.at \in TestPlaces /\ AtMostOne(x.with) /\ AtMostOne(x.job)
        /\ x.at # "idle" => x.with = <<x.with[1]>>
    BY <1>0, <1>5, NextFacts DEF StartNext, LightInv, IsThread, TestPlaces
  <2> HIDE DEF x
  <2> QED BY <1>0, <2>1, <2>2, LightSet
<1>6. CASE ReleaseTest(l)
  <2>1. light[l].at # "idle" /\ light' = [light EXCEPT ![l].at = "counting"]
    BY <1>6 DEF ReleaseTest, LightGoes
  <2> QED BY <1>0, <2>1, LightMoves DEF TestPlaces
<1>7. CASE EndLevel(l)
  <2>1. CASE light' = [light EXCEPT ![l].at = "storing"]
    <3>1. light[l].at # "idle"
      BY <1>7 DEF EndLevel
    <3> QED BY <1>0, <2>1, <3>1, LightMoves DEF TestPlaces
  <2> QED BY <1>4, <1>7, <2>1 DEF EndLevel, LightGoes
<1>8. ASSUME NEW same, NEW scores, StoreResult(l, same, scores)
      PROVE  LightInv' /\ \A m \in LightThreads : m # l => light'[m] = light[m]
  <2>1. CASE light' = [light EXCEPT ![l].at = "stopping"]
    <3>1. light[l].at # "idle"
      BY <1>8 DEF StoreResult
    <3> QED BY <1>0, <2>1, <3>1, LightMoves DEF TestPlaces
  <2> QED BY <1>4, <1>8, <2>1 DEF StoreResult, LightGoes
<1>9. CASE DropResult(l) \/ StopBatch(l)
  BY <1>4, <1>9 DEF DropResult, StopBatch
<1> QED BY <1>1, <1>2, <1>3, <1>5, <1>6, <1>7, <1>8, <1>9 DEF LightStep

\* Nobody else touches the light threads.
LEMMA OthersLight ==
  ASSUME Worker \/ Rescue \/ (\E c \in Listeners : AddCallback(c)) \/ UNCHANGED vars
  PROVE  UNCHANGED light /\ (UNCHANGED testing \/ DoTest)
<1>1. CASE Worker
  BY <1>1, WorkerSteps DEF TakeCandidate, DoTest, RejectCandidate, ReleaseCandidate,
     CheckLevelEmpty, TakeEvaluate, CloseBatch, DeepenStep, Deepen, AdoptStep, Adopt, Finish,
     ResetLevel, FillQueue, LaunchBatch
<1> QED BY <1>1 DEF Rescue, AddCallback, vars

LEMMA LightStays == PlaceInv /\ [Next]_vars => LightInv'
<1> SUFFICES ASSUME PlaceInv, [Next]_vars
             PROVE  LightInv'
  OBVIOUS
<1>1. CASE UNCHANGED light
  BY <1>1 DEF PlaceInv, LightInv, IsThread, AtMostOne
<1>2. CASE \E l \in LightThreads : Light(l)
  BY <1>2, LightEffect DEF Light, LightStep
<1> QED BY <1>1, <1>2, OthersLight DEF Next
\* Counting a task off.
LEMMA UncountFacts ==
  ASSUME IsCount(tasks), NEW b, Uncount(b)
  PROVE  /\ IsCount(tasks)' /\ tasks'.batch = tasks.batch /\ tasks'.processed = tasks.processed
         /\ tasks'.count = IF tasks.batch = b THEN tasks.count + (-1) ELSE tasks.count
BY DEF Uncount, Counted, IsCount

\* Where a candidate may be after a step.
LEMMA JobPlaces ==
  /\ \A x : x \in Jobs <=>
       \/ x \in ToSet(medium) /\ x.kind = "generate"
       \/ x \in ToSet(testqueue) \/ x \in ToSet(worker.with) \/ x \in ToSet(worker.job)
       \/ \E l \in LightThreads : x \in ToSet(light[l].job)
BY DEF Jobs

LEMMA JobsStayIf ==
  ASSUME PlaceInv, IsList(medium'), IsList(testqueue'),
         \A x \in ToSet(medium') : x = Evaluate \/ x \in Jobs,
         \A x \in ToSet(testqueue') : x \in Jobs,
         \A x \in ToSet(worker'.with) \cup ToSet(worker'.job) : x \in Jobs,
         \A l \in LightThreads : \A x \in ToSet(light'[l].job) : x \in Jobs
  PROVE  /\ Jobs' \subseteq Jobs /\ \A job \in Jobs' : job.kind = "generate"
         /\ (IsList(medium) /\ IsList(testqueue))'
         /\ \A job \in ToSet(medium') : job = Evaluate \/ job.kind = "generate"
<1>1. \A x \in Jobs : x.kind = "generate"
  BY DEF PlaceInv
<1>2. Evaluate.kind # "generate"
  BY DEF Evaluate
<1>3. \A x \in Jobs' : x \in Jobs
  BY <1>2 DEF Jobs
<1> QED BY <1>1, <1>3 DEF IsList

\* How many steps hand candidates on.
LEMMA Pass ==
  ASSUME PlaceInv
  PROVE  /\ \A x \in ToSet(medium) : x = Evaluate \/ x \in Jobs
         /\ \A x \in ToSet(testqueue) : x \in Jobs
         /\ \A x \in ToSet(worker.with) \cup ToSet(worker.job) : x \in Jobs
         /\ \A l \in LightThreads : \A x \in ToSet(light[l].job) : x \in Jobs
         /\ IsList(medium) /\ IsList(testqueue) /\ IsList(worker.job)
         /\ \A l \in LightThreads : IsList(light[l].job)
         /\ IsList(Append(medium, Evaluate))
         /\ \A x \in ToSet(Append(medium, Evaluate)) : x = Evaluate \/ x \in Jobs
<1>1. \A s : AtMostOne(s) => IsList(s)
  BY EmptyList, OneList DEF AtMostOne
<1>2. IsList(medium) /\ IsList(testqueue)
  BY DEF PlaceInv
<1>3. \A x \in ToSet(medium) : x = Evaluate \/ x \in Jobs
  BY DEF PlaceInv, Jobs
<1>4. IsList(Append(medium, Evaluate)) /\ ToSet(Append(medium, Evaluate)) = ToSet(medium) \cup {Evaluate}
  BY <1>2, AppendList
<1>5. IsList(worker.job) /\ \A l \in LightThreads : IsList(light[l].job)
  BY <1>1 DEF PlaceInv, WorkerInv, LightInv
<1> QED BY <1>2, <1>3, <1>4, <1>5, JobPlaces
\* What a light thread has in hand after a step.
LEMMA LightHand ==
  ASSUME PlaceInv, NEW l \in LightThreads, LightStep(l)
  PROVE  \/ light'[l] = light[l]
         \/ light'[l] = LightIdle
         \/ \E t \in testing : light'[l] = [at |-> "next", with |-> <<t>>, job |-> <<>>]
         \/ light'[l] = [at |-> "releasing", with |-> light[l].with, job |-> NextCandidate]
         \/ \E at \in TestPlaces \ {"idle"} :
              light'[l] = [at |-> at, with |-> light[l].with, job |-> light[l].job]
<1>0. LightInv
  BY DEF PlaceInv
<1>1. ASSUME NEW t \in testing, RepeatTest(l, t)
      PROVE  light'[l] = light[l]
  BY <1>1 DEF RepeatTest
<1>2. ASSUME NEW t \in testing, TakeResult(l, t)
      PROVE  \/ light'[l] = light[l]
             \/ light'[l] = [at |-> "next", with |-> <<t>>, job |-> <<>>]
  <2>1. light' = [light EXCEPT ![l] = [at |-> "next", with |-> <<t>>, job |-> <<>>]] \/ UNCHANGED light
    BY <1>2 DEF TakeResult
  <2>2. PICK x : x = [at |-> "next", with |-> <<t>>, job |-> <<>>]
    OBVIOUS
  <2> QED BY <1>0, <2>1, <2>2, LightSet
<1>3. ASSUME light' = [light EXCEPT ![l] = LightIdle]
      PROVE  light'[l] = LightIdle
  BY <1>0, <1>3, LightSet
<1>4. CASE DropResult(l) \/ StopBatch(l)
  BY <1>3, <1>4 DEF DropResult, StopBatch
<1>5. CASE StartNext(l)
  <2>1. PICK x : x = [at |-> "releasing", with |-> light[l].with, job |-> NextCandidate]
    OBVIOUS
  <2>2. light' = [light EXCEPT ![l] = x]
    BY <1>5, <2>1 DEF StartNext
  <2> QED BY <1>0, <2>1, <2>2, LightSet
<1>6. ASSUME NEW at \in TestPlaces \ {"idle"}, light[l].at # "idle",
             light' = [light EXCEPT ![l].at = at]
      PROVE  light'[l] = [at |-> at, with |-> light[l].with, job |-> light[l].job]
  BY <1>0, <1>6, LightMoves
<1>7. CASE ReleaseTest(l)
  BY <1>6, <1>7 DEF ReleaseTest, LightGoes, TestPlaces
<1>8. CASE EndLevel(l)
  <2>1. CASE light' = [light EXCEPT ![l].at = "storing"]
    BY <1>6, <1>8, <2>1 DEF EndLevel, TestPlaces
  <2> QED BY <1>3, <1>8, <2>1 DEF EndLevel, LightGoes
<1>9. ASSUME NEW same, NEW scores, StoreResult(l, same, scores)
      PROVE  \/ light'[l] = LightIdle
             \/ light'[l] = [at |-> "stopping", with |-> light[l].with, job |-> light[l].job]
  BY <1>3, <1>6, <1>9 DEF StoreResult, LightGoes, TestPlaces
<1> QED BY <1>1, <1>2, <1>4, <1>5, <1>7, <1>8, <1>9 DEF LightStep, TestPlaces

\* A light thread hands on candidates that there are.
LEMMA LightJobs ==
  ASSUME PlaceInv, NEW l \in LightThreads, LightStep(l)
  PROVE  \A m \in LightThreads : \A x \in ToSet(light'[m].job) : x \in Jobs
<1>1. \A m \in LightThreads : m # l => light'[m] = light[m]
  BY LightEffect
<1>2. ToSet(NextCandidate) \subseteq ToSet(testqueue)
  BY NextFacts DEF PlaceInv
<1>3. ToSet(<<>>) = {}
  BY EmptyList
<1>4. light'[l].job = light[l].job \/ light'[l].job = <<>> \/ light'[l].job = NextCandidate
  <2>1. LightIdle.job = <<>>
    BY DEF LightIdle
  <2>2. ASSUME NEW at, NEW with, NEW job, light'[l] = [at |-> at, with |-> with, job |-> job]
        PROVE  light'[l].job = job
    BY <2>2
  <2>3. CASE \E t \in testing : light'[l] = [at |-> "next", with |-> <<t>>, job |-> <<>>]
    BY <2>2, <2>3
  <2>4. CASE light'[l] = [at |-> "releasing", with |-> light[l].with, job |-> NextCandidate]
    BY <2>2, <2>4
  <2>5. CASE \E at \in TestPlaces \ {"idle"} :
               light'[l] = [at |-> at, with |-> light[l].with, job |-> light[l].job]
    BY <2>2, <2>5
  <2> QED BY <2>1, <2>3, <2>4, <2>5, LightHand
<1> QED BY <1>1, <1>2, <1>3, <1>4, Pass

\* The queue after its first n candidates have been taken.
LEMMA QueueCut ==
  ASSUME PlaceInv, NEW n \in 0 .. Len(testqueue)
  PROVE  /\ IsList(SubSeq(testqueue, 1, n)) /\ ToSet(SubSeq(testqueue, 1, n)) \subseteq Jobs
         /\ IsList(SubSeq(testqueue, n + 1, Len(testqueue)))
         /\ ToSet(SubSeq(testqueue, n + 1, Len(testqueue))) \subseteq Jobs
<1>1. IsList(testqueue) /\ ToSet(testqueue) \subseteq Jobs
  BY Pass
<1> QED BY <1>1, CutList
\* Every step but the filling of the queue only hands on candidates.
LEMMA JobsPass ==
  ASSUME PlaceInv, LevelInv, [Next]_vars, ~FillQueue
  PROVE  /\ Jobs' \subseteq Jobs /\ \A job \in Jobs' : job.kind = "generate"
         /\ (IsList(medium) /\ IsList(testqueue))'
         /\ \A job \in ToSet(medium') : job = Evaluate \/ job.kind = "generate"
<1> DEFINE Kept ==
             /\ IsList(medium') /\ IsList(testqueue')
             /\ \A x \in ToSet(medium') : x = Evaluate \/ x \in Jobs
             /\ \A x \in ToSet(testqueue') : x \in Jobs
             /\ \A x \in ToSet(worker'.with) \cup ToSet(worker'.job) : x \in Jobs
             /\ \A l \in LightThreads : \A x \in ToSet(light'[l].job) : x \in Jobs
<1> SUFFICES Kept
  BY JobsStayIf
<1>0. ToSet(<<>>) = {} /\ IsList(<<>>) /\ WorkerInv /\ IsList(medium) /\ IsList(testqueue)
  BY EmptyList DEF PlaceInv
<1>1. \A x : ToSet(<<x>>) = {x}
  BY OneList
<1>2. /\ ToSet(NextCandidate) \subseteq ToSet(testqueue)
      /\ IsList(SubSeq(testqueue, 2, Len(testqueue)))
      /\ ToSet(SubSeq(testqueue, 2, Len(testqueue))) \subseteq ToSet(testqueue)
  BY <1>0, NextFacts
<1>3. CASE UNCHANGED <<medium, testqueue, worker, light>>
  BY <1>3, Pass
<1>4. CASE TakeCandidate
  <2>1. IsList(medium') /\ ToSet(medium') \subseteq ToSet(medium) /\ Head(medium) \in ToSet(medium)
    BY <1>0, <1>4, TailList DEF TakeCandidate
  <2>2. Head(medium).kind = "generate" /\ Head(medium) \in Jobs
    BY <1>4, <2>1 DEF TakeCandidate, Jobs
  <2>3. worker' = worker \/ worker' = [at |-> "checking", with |-> <<Head(medium)>>, job |-> <<>>]
    BY <1>4 DEF TakeCandidate
  <2>4. \A x \in ToSet(worker'.with) \cup ToSet(worker'.job) : x \in Jobs
    BY <1>0, <1>1, <2>2, <2>3, Pass
  <2> QED BY <1>4, <2>1, <2>4, Pass DEF TakeCandidate, batchVars
<1>5. CASE DoTest
  BY <1>0, <1>5, Pass DEF DoTest, WorkerIdle, batchVars
<1>6. CASE RejectCandidate
  <2>1. worker' = [at |-> "releasing", with |-> worker.with, job |-> NextCandidate]
    BY <1>0, <1>6 DEF RejectCandidate, WorkerInv, IsThread
  <2>2. \A x \in ToSet(worker'.with) \cup ToSet(worker'.job) : x \in Jobs
    BY <1>2, <2>1, Pass
  <2> QED BY <1>2, <1>6, <2>2, Pass DEF RejectCandidate, TakeNext
<1>7. CASE ReleaseCandidate
  <2>1. IsList(medium') /\ ToSet(medium') = ToSet(medium) \cup ToSet(worker.job)
    BY <1>0, <1>7, JoinList, Pass DEF ReleaseCandidate
  <2>2. worker' = WorkerIdle \/ worker' = [at |-> "counting", with |-> worker.with, job |-> worker.job]
    BY <1>0, <1>7 DEF ReleaseCandidate, WorkerInv, IsThread
  <2>3. \A x \in ToSet(worker'.with) \cup ToSet(worker'.job) : x \in Jobs
    BY <1>0, <2>2, Pass DEF WorkerIdle
  <2> QED BY <1>7, <2>1, <2>3, Pass DEF ReleaseCandidate
<1>8. CASE CheckLevelEmpty
  BY <1>0, <1>8, Pass DEF CheckLevelEmpty, CallEvaluate, WorkerIdle
<1>9. CASE TakeEvaluate
  <2>1. IsList(medium') /\ ToSet(medium') \subseteq ToSet(medium)
    BY <1>0, <1>9, TailList DEF TakeEvaluate
  <2>2. worker' = worker \/ worker' = [at |-> "closing", with |-> <<>>, job |-> <<>>]
    BY <1>9 DEF TakeEvaluate, WorkerIdle
  <2>3. \A x \in ToSet(worker'.with) \cup ToSet(worker'.job) : x \in Jobs
    BY <1>0, <2>2, Pass
  <2> QED BY <1>9, <2>1, <2>3, Pass DEF TakeEvaluate
<1>10. ASSUME NEW at, worker' = [worker EXCEPT !.at = at]
       PROVE  \A x \in ToSet(worker'.with) \cup ToSet(worker'.job) : x \in Jobs
  <2>1. worker' = [at |-> at, with |-> worker.with, job |-> worker.job]
    BY <1>0, <1>10 DEF WorkerInv, IsThread
  <2> QED BY <2>1, Pass
<1>11. CASE CloseBatch
  BY <1>10, <1>11, Pass DEF CloseBatch
<1>12. CASE DeepenStep
  BY <1>10, <1>12, Pass DEF DeepenStep, Deepen, GoOnOrFinish, batchVars
<1>13. CASE AdoptStep
  BY <1>10, <1>13, Pass DEF AdoptStep, Adopt, GoOnOrFinish, batchVars
<1>14. CASE Finish
  BY <1>0, <1>14, Pass DEF Finish, WorkerIdle, batchVars
<1>15. CASE ResetLevel
  BY <1>0, <1>10, <1>15, Pass DEF ResetLevel
<1>16. CASE LaunchBatch
  <2>1. PICK n \in 0 .. Len(testqueue) :
          /\ testqueue' = SubSeq(testqueue, n + 1, Len(testqueue))
          /\ medium' = Append(medium, Evaluate) \/ medium' = medium \o SubSeq(testqueue, 1, n)
    <3>1. Len(testqueue) \in Nat /\ params.batchprocessing \in Nat
      BY <1>0, ListOf, ParamsFacts DEF IsList, LevelInv
    <3>2. PICK n : n = IF params.batchprocessing = 0 THEN Len(testqueue)
                       ELSE Minimum(params.batchprocessing, Len(testqueue))
      OBVIOUS
    <3>3. n \in 0 .. Len(testqueue)
      BY <3>1, <3>2 DEF Minimum
    <3>4. /\ testqueue' = SubSeq(testqueue, n + 1, Len(testqueue))
          /\ IF testqueue = <<>> THEN CallEvaluate ELSE medium' = medium \o SubSeq(testqueue, 1, n)
      BY <1>16, <3>2 DEF LaunchBatch
    <3> QED BY <3>3, <3>4 DEF CallEvaluate
  <2>2. IsList(testqueue') /\ \A x \in ToSet(testqueue') : x \in Jobs
    BY <2>1, QueueCut
  <2>3. IsList(medium') /\ \A x \in ToSet(medium') : x = Evaluate \/ x \in Jobs
    <3>1. PICK q : q = SubSeq(testqueue, 1, n)
      OBVIOUS
    <3>2. IsList(q) /\ ToSet(q) \subseteq Jobs
      BY <3>1, QueueCut
    <3>3. IsList(medium \o q) /\ ToSet(medium \o q) = ToSet(medium) \cup ToSet(q)
      BY <1>0, <3>2, JoinList
    <3> QED BY <2>1, <3>1, <3>2, <3>3, Pass
  <2> QED BY <1>0, <1>16, <2>2, <2>3, Pass DEF LaunchBatch, WorkerIdle
<1>17. ASSUME NEW l \in LightThreads, LightStep(l)
       PROVE  Kept
  <2>1. worker' = worker /\ \A m \in LightThreads : \A x \in ToSet(light'[m].job) : x \in Jobs
    BY <1>17, LightJobs DEF LightStep, RepeatTest, TakeResult, DropResult, StartNext, ReleaseTest,
       EndLevel, StoreResult, StopBatch
  <2>2. \/ testqueue' = testqueue \/ testqueue' = <<>>
        \/ testqueue' = SubSeq(testqueue, 2, Len(testqueue))
    BY <1>17 DEF LightStep, RepeatTest, TakeResult, DropResult, StartNext, TakeNext, ReleaseTest,
       EndLevel, StoreResult, StopBatch, batchVars
  <2>3. \/ medium' = medium \/ medium' = Append(medium, Evaluate)
        \/ medium' = medium \o light[l].job
    BY <1>17 DEF LightStep, RepeatTest, TakeResult, DropResult, StartNext, ReleaseTest,
       EndLevel, CallEvaluate, StoreResult, StopBatch
  <2>4. IsList(testqueue') /\ \A x \in ToSet(testqueue') : x \in Jobs
    BY <1>0, <1>2, <2>2, Pass
  <2>5. IsList(medium') /\ \A x \in ToSet(medium') : x = Evaluate \/ x \in Jobs
    <3>1. IsList(light[l].job) /\ \A x \in ToSet(light[l].job) : x \in Jobs
      BY Pass
    <3>2. /\ IsList(medium \o light[l].job)
          /\ ToSet(medium \o light[l].job) = ToSet(medium) \cup ToSet(light[l].job)
      BY <1>0, <3>1, JoinList
    <3> QED BY <2>3, <3>1, <3>2, Pass
  <2> QED BY <2>1, <2>4, <2>5, Pass
<1>18. CASE Rescue
  BY <1>18, Pass DEF Rescue, CallEvaluate
<1>19. CASE (\E c \in Listeners : AddCallback(c)) \/ UNCHANGED vars
  BY <1>3, <1>19 DEF AddCallback, vars, batchVars
<1> HIDE DEF Kept
<1>20. CASE Worker
  BY <1>4, <1>5, <1>6, <1>7, <1>8, <1>9, <1>11, <1>12, <1>13, <1>14, <1>15, <1>16, <1>20, WorkerSteps
<1>21. CASE \E l \in LightThreads : Light(l)
  BY <1>17, <1>21 DEF Light, LightStep
<1> QED BY <1>18, <1>19, <1>20, <1>21 DEF Next
\* Only the close of a batch changes its number.
LEMMA NextBatch ==
  ASSUME [Next]_vars, ~CloseBatch
  PROVE  batchident' = batchident
<1>1. CASE Worker
  BY <1>1, WorkerSteps DEF TakeCandidate, DoTest, RejectCandidate, ReleaseCandidate,
     CheckLevelEmpty, TakeEvaluate, DeepenStep, Deepen, AdoptStep, Adopt, Finish,
     ResetLevel, FillQueue, LaunchBatch, batchVars
<1>2. CASE \E l \in LightThreads : Light(l)
  BY <1>2 DEF Light, RepeatTest, TakeResult, DropResult, StartNext, ReleaseTest, EndLevel,
     StoreResult, StopBatch, batchVars
<1>3. CASE Rescue \/ (\E c \in Listeners : AddCallback(c)) \/ UNCHANGED vars
  BY <1>3 DEF Rescue, AddCallback, vars, batchVars
<1> QED BY <1>1, <1>2, <1>3 DEF Next

\* What becomes of the count of the batch.
LEMMA TasksStep ==
  ASSUME PlaceInv, [Next]_vars
  PROVE  /\ IsCount(tasks)'
         /\ ~ResetLevel => tasks'.batch = tasks.batch
                           /\ (tasks.processed = TRUE => tasks'.processed = TRUE)
<1>0. IsCount(tasks)
  BY DEF PlaceInv
<1>1. CASE UNCHANGED tasks
  BY <1>0, <1>1 DEF IsCount
<1>2. ASSUME NEW b, Uncount(b)
      PROVE  IsCount(tasks)' /\ tasks'.batch = tasks.batch /\ tasks'.processed = tasks.processed
  BY <1>0, <1>2, UncountFacts
<1>3. ASSUME TakeNext
      PROVE  IsCount(tasks)' /\ tasks'.batch = tasks.batch /\ tasks'.processed = tasks.processed
  BY <1>0, <1>3 DEF TakeNext, Counted, IsCount
<1>4. ASSUME NEW x, tasks' = [tasks EXCEPT !.sent = x]
      PROVE  IsCount(tasks)' /\ tasks'.batch = tasks.batch /\ tasks'.processed = tasks.processed
  BY <1>0, <1>4 DEF IsCount
<1>5. ASSUME NEW x, tasks' = [tasks EXCEPT !.count = x]
      PROVE  IsCount(tasks)' /\ tasks'.batch = tasks.batch /\ tasks'.processed = tasks.processed
  BY <1>0, <1>5 DEF IsCount
<1>6. ASSUME tasks' = [tasks EXCEPT !.processed = TRUE]
      PROVE  IsCount(tasks)' /\ tasks'.batch = tasks.batch /\ tasks'.processed = TRUE
  BY <1>0, <1>6 DEF IsCount
<1>7. CASE RejectCandidate
  BY <1>3, <1>7 DEF RejectCandidate
<1>8. CASE ReleaseCandidate
  BY <1>2, <1>8 DEF ReleaseCandidate
<1>9. CASE TakeEvaluate
  BY <1>1, <1>6, <1>9 DEF TakeEvaluate
<1>10. CASE LaunchBatch
  BY <1>1, <1>5, <1>10 DEF LaunchBatch
<1>11. CASE ResetLevel
  BY <1>11 DEF ResetLevel, IsCount
<1>12. CASE TakeCandidate \/ DoTest \/ CheckLevelEmpty \/ CloseBatch \/ DeepenStep \/ AdoptStep
            \/ Finish \/ FillQueue
  <2>1. UNCHANGED tasks
    BY <1>12 DEF TakeCandidate, DoTest, CheckLevelEmpty, CloseBatch, DeepenStep, Deepen, AdoptStep,
       Adopt, Finish, FillQueue, batchVars
  <2> QED BY <1>1, <2>1
<1>13. ASSUME NEW l \in LightThreads, LightStep(l)
       PROVE  \/ UNCHANGED tasks \/ TakeNext \/ \E b : Uncount(b)
              \/ \E x : tasks' = [tasks EXCEPT !.sent = x]
  BY <1>13 DEF LightStep, RepeatTest, TakeResult, DropResult, StartNext, ReleaseTest, EndLevel,
     StoreResult, StopBatch, batchVars
<1>14. CASE Rescue \/ (\E c \in Listeners : AddCallback(c)) \/ UNCHANGED vars
  BY <1>1, <1>4, <1>14 DEF Rescue, AddCallback, vars, batchVars
<1>15. CASE Worker
  BY <1>7, <1>8, <1>9, <1>10, <1>11, <1>12, <1>15, WorkerSteps
<1>16. CASE \E l \in LightThreads : Light(l)
  <2>1. PICK l \in LightThreads : LightStep(l)
    BY <1>16 DEF Light, LightStep
  <2> QED BY <1>1, <1>2, <1>3, <1>4, <1>13, <2>1
<1> QED BY <1>14, <1>15, <1>16 DEF Next
\* The candidates of a level are numbered in the current batch.
LEMMA FillFacts ==
  ASSUME PlaceInv, LevelInv, FillQueue
  PROVE  /\ IsList(testqueue')
         /\ \A x \in ToSet(testqueue') :
              \/ x \in ToSet(testqueue)
              \/ /\ x.kind = "generate" /\ x.batch = batchident
                 /\ x.input \in ToSet(Candidates) /\ x.input.kept \subseteq Whole
         /\ testqueue = <<>> =>
              /\ DOMAIN testqueue' = 1 .. Len(testqueue')
              /\ \A i \in DOMAIN testqueue' :
                   testqueue'[i].number = i /\ testqueue'[i].batch = batchident
         /\ worker' = [at |-> "launching", with |-> worker.with, job |-> worker.job]
         /\ UNCHANGED <<medium, testing, light, tasks, batchident>>
<1>1. PICK n \in Nat : DOMAIN Candidates = 1 .. n
  BY CandidateFacts, ListOf DEF IsList
<1> DEFINE made == [i \in DOMAIN Candidates |-> Generate(batchident, i, Candidates[i])]
<1>2. testqueue' = testqueue \o made
  BY DEF FillQueue
<1>3. \A i \in 1 .. n : /\ made[i].kind = "generate" /\ made[i].batch = batchident
                        /\ made[i].number = i /\ made[i].input = Candidates[i]
  BY <1>1 DEF Generate
<1>4. \A i \in 1 .. n : Candidates[i] \in ToSet(Candidates) /\ Candidates[i].kept \subseteq Whole
  BY <1>1, CandidateFacts DEF ToSet
<1>5. DOMAIN made = 1 .. n /\ made = [i \in DOMAIN made |-> made[i]]
  BY <1>1
<1> HIDE DEF made
<1>6. IsList(made) /\ ToSet(made) = {made[i] : i \in 1 .. n}
  BY <1>5, MadeList
<1>7. IsList(testqueue)
  BY DEF PlaceInv
<1>8. IsList(testqueue') /\ ToSet(testqueue') = ToSet(testqueue) \cup ToSet(made)
  BY <1>2, <1>6, <1>7, JoinList
<1>9. ASSUME testqueue = <<>>
      PROVE  testqueue' = made
  <2>1. made \in Seq(ToSet(made))
    BY <1>6 DEF IsList
  <2> QED BY <1>2, <1>9, <2>1
<1>10. \A x \in ToSet(made) :
          /\ x.kind = "generate" /\ x.batch = batchident
          /\ x.input \in ToSet(Candidates) /\ x.input.kept \subseteq Whole
  BY <1>3, <1>4, <1>6
<1>11. testqueue = <<>> =>
         /\ DOMAIN testqueue' = 1 .. Len(testqueue')
         /\ \A i \in DOMAIN testqueue' :
              testqueue'[i].number = i /\ testqueue'[i].batch = batchident
  <2> SUFFICES ASSUME testqueue = <<>>
               PROVE  /\ DOMAIN testqueue' = 1 .. Len(testqueue')
                      /\ \A i \in DOMAIN testqueue' :
                           testqueue'[i].number = i /\ testqueue'[i].batch = batchident
    OBVIOUS
  <2>1. testqueue' = made
    BY <1>9
  <2>2. DOMAIN made = 1 .. Len(made)
    BY <1>6, ListOf DEF IsList
  <2> QED BY <1>3, <1>5, <2>1, <2>2
<1>12. worker' = [at |-> "launching", with |-> worker.with, job |-> worker.job]
  BY DEF FillQueue, PlaceInv, WorkerInv, IsThread
<1>13. UNCHANGED <<medium, testing, light, tasks, batchident>>
  BY DEF FillQueue
<1> QED BY <1>8, <1>10, <1>11, <1>12, <1>13

\* Where tests come from.
LEMMA TestingStep ==
  ASSUME PlaceInv, [Next]_vars
  PROVE  \/ testing' \subseteq testing
         \/ /\ DoTest
            /\ testing' = testing \cup
                 {[ident |-> worker.with[1].batch, batch |-> worker.with[1].batch,
                   number |-> worker.with[1].number, retries |-> 0,
                   input |-> worker.with[1].input]}
         \/ \E t \in testing :
              testing' = (testing \ {t}) \cup {Repeated(t)}
<1>1. CASE DoTest
  BY <1>1 DEF DoTest
<1>2. ASSUME NEW l \in LightThreads, LightStep(l), \A t \in testing : ~RepeatTest(l, t)
      PROVE  testing' \subseteq testing
  BY <1>2 DEF LightStep, TakeResult, DropResult, StartNext, ReleaseTest, EndLevel, StoreResult,
     StopBatch
<1>3. CASE \E l \in LightThreads : Light(l)
  BY <1>2, <1>3 DEF Light, LightStep, RepeatTest, Repeated
<1> QED BY <1>1, <1>3, OthersLight DEF Next

LEMMA PlaceStays == PlaceInv /\ LevelInv /\ [Next]_vars => PlaceInv'
<1> SUFFICES ASSUME PlaceInv, LevelInv, [Next]_vars
             PROVE  PlaceInv'
  OBVIOUS
<1>1. WorkerInv' /\ LightInv'
  BY WorkerStays, LightStays
<1>2. /\ (IsList(medium) /\ IsList(testqueue))'
      /\ \A job \in ToSet(medium') : job = Evaluate \/ job.kind = "generate"
      /\ \A job \in Jobs' : job.kind = "generate"
  <2>1. CASE ~FillQueue
    BY <2>1, JobsPass
  <2>2. CASE FillQueue
    <3>1. /\ IsList(testqueue') /\ \A x \in ToSet(testqueue') : x.kind = "generate"
          /\ worker' = [at |-> "launching", with |-> worker.with, job |-> worker.job]
          /\ UNCHANGED <<medium, testing, light, tasks, batchident>>
      BY <2>2, FillFacts DEF PlaceInv, Jobs
    <3>2. \A job \in Jobs' : job.kind = "generate"
      BY <3>1 DEF PlaceInv, Jobs
    <3> QED BY <3>1, <3>2 DEF PlaceInv, IsList
  <2> QED BY <2>1, <2>2
<1>3. IsFiniteSet(testing') /\ \A t \in testing' : IsTest(t)
  <2>1. IsFiniteSet(testing) /\ \A t \in testing : IsTest(t)
    BY DEF PlaceInv
  <2>2. ASSUME NEW x, NEW U \in SUBSET testing, IsTest(x)
        PROVE  IsFiniteSet(U \cup {x}) /\ \A t \in U \cup {x} : IsTest(t)
    <3>1. IsFiniteSet(U)
      BY <2>1, FS_Subset
    <3> QED BY <2>1, <2>2, <3>1, FS_AddElement
  <2>3. \A a, b, n, r, i : IsTest([ident |-> a, batch |-> b, number |-> n, retries |-> r, input |-> i])
    BY DEF IsTest
  <2>4. CASE testing' \subseteq testing
    BY <2>1, <2>4, FS_Subset
  <2> HIDE DEF IsTest
  <2>5. CASE DoTest
    <3>1. PICK x : /\ IsTest(x)
                   /\ testing' = testing \cup {x}
      BY <2>3, <2>5 DEF DoTest
    <3> QED BY <2>2, <3>1
  <2>6. ASSUME NEW t \in testing,
               testing' = (testing \ {t}) \cup {Repeated(t)}
        PROVE  IsFiniteSet(testing') /\ \A u \in testing' : IsTest(u)
    <3>1. PICK x : IsTest(x) /\ testing' = (testing \ {t}) \cup {x}
      BY <2>3, <2>6 DEF Repeated
    <3> QED BY <2>2, <3>1
  <2> QED BY <2>4, <2>5, <2>6, TestingStep
<1>4. batchident' \in Nat
  <2>1. CASE CloseBatch
    BY <2>1 DEF CloseBatch, PlaceInv
  <2>2. CASE ~CloseBatch
    <3>1. batchident' = batchident
      BY <2>2, NextBatch
    <3> QED BY <3>1 DEF PlaceInv
  <2> QED BY <2>1, <2>2
<1>5. IsCount(tasks)'
  BY TasksStep
<1> QED BY <1>1, <1>2, <1>3, <1>4, <1>5 DEF PlaceInv
-----------------------------------------------------------------------------
(* The level, the budget and the parts that are tested.                    *)

\* Only the evaluation of a level changes it.
LEMMA LevelStep ==
  ASSUME [Next]_vars
  PROVE  /\ params' = params
         /\ ~AdoptStep => UNCHANGED <<input, score, best, inputRanges>>
         /\ ~AdoptStep /\ ~DeepenStep => UNCHANGED <<level, finished>>
<1>1. CASE Worker
  BY <1>1, WorkerSteps DEF TakeCandidate, DoTest, RejectCandidate, ReleaseCandidate,
     CheckLevelEmpty, TakeEvaluate, CloseBatch, DeepenStep, Deepen, AdoptStep, Adopt, Finish,
     ResetLevel, FillQueue, LaunchBatch, levelVars
<1>2. CASE \E l \in LightThreads : Light(l)
  BY <1>2 DEF Light, RepeatTest, TakeResult, DropResult, StartNext, ReleaseTest, EndLevel,
     StoreResult, StopBatch, levelVars
<1>3. CASE Rescue \/ (\E c \in Listeners : AddCallback(c)) \/ UNCHANGED vars
  BY <1>3 DEF Rescue, AddCallback, vars, levelVars
<1> QED BY <1>1, <1>2, <1>3 DEF Next

\* What changes the results.
LEMMA ResultStep ==
  ASSUME [Next]_vars
  PROVE  /\ \/ totaltests' = totaltests
            \/ totaltests' = Minimum(totaltests + 1, params.budget)
         /\ \/ completed' = completed
            \/ completed' = {} /\ (Finish \/ AdoptStep)
            \/ \E l \in LightThreads, same \in BOOLEAN, scores \in params.scores :
                 /\ StoreResult(l, same, scores)
                 /\ IsGood(params.goal, params.loss, best, same, scores)
                 /\ completed' = completed \cup
                      {[input |-> light[l].with[1].input, scores |-> scores]}
<1>1. CASE Worker
  BY <1>1, WorkerSteps DEF TakeCandidate, DoTest, RejectCandidate, ReleaseCandidate,
     CheckLevelEmpty, TakeEvaluate, CloseBatch, DeepenStep, Deepen, AdoptStep, Adopt, Finish,
     ResetLevel, FillQueue, LaunchBatch, resultVars
<1>2. ASSUME NEW l \in LightThreads, Light(l),
             ~ \E same \in BOOLEAN, scores \in params.scores : StoreResult(l, same, scores)
      PROVE  /\ \/ totaltests' = totaltests
                \/ totaltests' = Minimum(totaltests + 1, params.budget)
             /\ completed' = completed
  BY <1>2 DEF Light, RepeatTest, TakeResult, DropResult, StartNext, ReleaseTest, EndLevel,
     StopBatch, resultVars
<1>3. ASSUME NEW l \in LightThreads, NEW same \in BOOLEAN, NEW scores \in params.scores,
             StoreResult(l, same, scores)
      PROVE  /\ totaltests' = totaltests
             /\ \/ completed' = completed
                \/ /\ IsGood(params.goal, params.loss, best, same, scores)
                   /\ completed' = completed \cup
                        {[input |-> light[l].with[1].input, scores |-> scores]}
  BY <1>3 DEF StoreResult
<1>4. CASE \E l \in LightThreads : Light(l)
  BY <1>2, <1>3, <1>4
<1>5. CASE Rescue \/ (\E c \in Listeners : AddCallback(c)) \/ UNCHANGED vars
  BY <1>5 DEF Rescue, AddCallback, vars, resultVars
<1> QED BY <1>1, <1>4, <1>5 DEF Next

\* The ranges of an input are a list of ranges.
LEMMA RangesFacts ==
  ASSUME params \in Configurations, NEW inp, inp.kept \in SUBSET Whole, NEW changes \in Changes
  PROVE  /\ IsList(Ranges(inp, changes))
         /\ \A r \in ToSet(Ranges(inp, changes)) : r \in Nat \X Int
<1>1. IsFiniteSet(Whole)
  <2>1. params.length \in Nat
    BY ParamsFacts
  <2> QED BY <2>1, FS_Interval DEF Whole, OrigLength
<1>2. Cardinality(inp.kept) \in Nat
  BY <1>1, FS_Subset, FS_CardinalityType
<1>3. changes \subseteq Nat
  BY DeltaAssumption
<1>4. CASE Standard
  BY <1>4, EmptyList DEF Ranges
<1>5. CASE ~Standard
  BY <1>2, <1>3, <1>5, ExtractedRanges DEF Ranges
<1> QED BY <1>4, <1>5

LEMMA LevelStays == LevelInv /\ PartInv /\ [Next]_vars => LevelInv'
<1> SUFFICES ASSUME LevelInv, PartInv, [Next]_vars
             PROVE  LevelInv'
  OBVIOUS
<1>0. params' = params /\ Whole' = Whole
  BY LevelStep DEF Whole, OrigLength
<1>1. totaltests' \in Nat
  <2>1. totaltests \in Nat /\ params.budget \in Nat
    BY ParamsFacts DEF LevelInv
  <2> QED BY <2>1, ResultStep DEF Minimum
<1>2. CASE AdoptStep
  <2>1. PICK result \in completed, newLevel \in {2, Maximum(level - 1, 2)} :
          \E newBest : Adopt(result, newBest, newLevel)
    BY <1>2 DEF AdoptStep
  <2>2. input' = result.input /\ level' \in {2, Maximum(level - 1, 2)}
    BY <2>1 DEF Adopt
  <2>3. PICK changes \in Changes : inputRanges' = Ranges(result.input, changes)
    BY <2>1 DEF Adopt
  <2>4. result.input.kept \in (SUBSET Whole) \ {{}}
    BY DEF PartInv
  <2>5. /\ IsList(inputRanges')
        /\ \A r \in ToSet(inputRanges') : r \in Nat \X Int
    BY <2>3, <2>4, RangesFacts DEF LevelInv
  <2>6. level' \in Nat \ {0}
    BY <2>2 DEF LevelInv, Maximum
  <2> QED BY <1>0, <1>1, <2>2, <2>4, <2>5, <2>6 DEF LevelInv, IsList
<1>3. CASE ~AdoptStep
  <2>1. UNCHANGED <<input, inputRanges>>
    BY <1>3, LevelStep
  <2>2. level' \in Nat \ {0}
    <3>1. CASE DeepenStep
      <4>1. level' = level \/ (level < Limit /\ level' = Minimum(2 * level, Limit))
        <5>1. Limit \in Nat /\ level \in Nat
          BY LimitFacts DEF LevelInv
        <5>2. IF level >= Limit THEN level' = level ELSE level' = Minimum(2 * level, Limit)
          BY <3>1 DEF DeepenStep, Deepen
        <5> QED BY <5>1, <5>2
      <4> QED BY <4>1, LimitFacts DEF LevelInv, Minimum
    <3>2. CASE ~DeepenStep
      BY <1>3, <3>2, LevelStep DEF LevelInv
    <3> QED BY <3>1, <3>2
  <2> QED BY <1>0, <1>1, <2>1, <2>2 DEF LevelInv, IsList
<1> QED BY <1>2, <1>3

\* A test has the input of a test that there was, or of the candidate that the
\* medium thread has checked.
LEMMA TestsStep ==
  ASSUME PlaceInv, [Next]_vars, NEW t \in Tests'
  PROVE  \/ \E u \in Tests : t.input = u.input /\ t.batch = u.batch
         \/ /\ DoTest /\ t.input = worker.with[1].input /\ t.batch = worker.with[1].batch
<1>0. ToSet(<<>>) = {} /\ \A x : ToSet(<<x>>) = {x}
  BY EmptyList, OneList
<1>1. CASE t \in testing'
  <2>1. \A u \in testing : u \in Tests
    BY DEF Tests
  <2>2. CASE DoTest
    BY <1>1, <2>1, <2>2 DEF DoTest
  <2>3. ASSUME NEW u \in testing, testing' = (testing \ {u}) \cup {Repeated(u)}
        PROVE  \E v \in Tests : t.input = v.input /\ t.batch = v.batch
    BY <1>1, <2>1, <2>3 DEF Repeated
  <2> QED BY <1>1, <2>1, <2>2, <2>3, TestingStep
<1>2. ASSUME NEW m \in LightThreads, t \in ToSet(light'[m].with)
      PROVE  t \in Tests
  <2>1. CASE light'[m] = light[m]
    BY <1>2, <2>1 DEF Tests
  <2>2. CASE light'[m] # light[m]
    <3>1. LightStep(m)
      <4>1. PICK l \in LightThreads : LightStep(l)
        BY <2>2, OthersLight DEF Next, Light, LightStep
      <4> QED BY <2>2, <4>1, LightEffect
    <3>2. ASSUME NEW at, NEW with, NEW job, light'[m] = [at |-> at, with |-> with, job |-> job]
          PROVE  t \in ToSet(with)
      BY <1>2, <3>2
    <3>3. light'[m] # LightIdle
      BY <1>0, <3>2 DEF LightIdle
    <3>4. ToSet(light[m].with) \subseteq Tests /\ testing \subseteq Tests
      BY DEF Tests
    <3>5. CASE \E u \in testing : light'[m] = [at |-> "next", with |-> <<u>>, job |-> <<>>]
      BY <1>0, <3>2, <3>4, <3>5
    <3>6. CASE light'[m] = [at |-> "releasing", with |-> light[m].with, job |-> NextCandidate]
      BY <3>2, <3>4, <3>6
    <3>7. CASE \E at \in TestPlaces \ {"idle"} :
                 light'[m] = [at |-> at, with |-> light[m].with, job |-> light[m].job]
      BY <3>2, <3>4, <3>7
    <3> QED BY <2>2, <3>1, <3>3, <3>5, <3>6, <3>7, LightHand
  <2> QED BY <2>1, <2>2
<1> QED BY <1>1, <1>2 DEF Tests
LEMMA PartStays == PlaceInv /\ LevelInv /\ PartInv /\ [Next]_vars => PartInv'
<1> SUFFICES ASSUME PlaceInv, LevelInv, PartInv, [Next]_vars
             PROVE  PartInv'
  OBVIOUS
<1>0. Whole' = Whole /\ params.minLength \in Nat \ {0}
  BY LevelStep, ParamsFacts DEF Whole, OrigLength, LevelInv
<1>1. \A c \in Jobs' : c.input.kept \subseteq Whole
  <2>1. CASE ~FillQueue
    BY <2>1, JobsPass DEF PartInv
  <2>2. CASE FillQueue
    <3>1. \A c \in ToSet(testqueue') : c.input.kept \subseteq Whole
      BY <2>2, FillFacts DEF PartInv, Jobs
    <3>2. /\ worker' = [at |-> "launching", with |-> worker.with, job |-> worker.job]
          /\ UNCHANGED <<medium, light>>
      BY <2>2, FillFacts
    <3> QED BY <3>1, <3>2 DEF PartInv, Jobs
  <2> QED BY <2>1, <2>2
<1>2. \A t \in Tests' : t.input.kept \in (SUBSET Whole) \ {{}}
  <2> TAKE t \in Tests'
  <2>1. CASE \E u \in Tests : t.input = u.input
    BY <2>1 DEF PartInv
  <2>2. CASE DoTest /\ t.input = worker.with[1].input
    <3>1. worker.with = <<worker.with[1]>> /\ Cardinality(worker.with[1].input.kept) >= params.minLength
      BY <2>2 DEF DoTest, PlaceInv, WorkerInv
    <3>2. worker.with[1] \in Jobs
      BY <3>1, OneList DEF Jobs
    <3>3. PICK K : K = worker.with[1].input.kept
      OBVIOUS
    <3>4. K # {}
      <4>1. Cardinality({}) = 0
        BY FS_EmptySet
      <4>2. Cardinality(K) >= params.minLength
        BY <3>1, <3>3
      <4> QED BY <1>0, <4>1, <4>2
    <3>5. K \subseteq Whole
      BY <3>2, <3>3 DEF PartInv
    <3>6. K \in (SUBSET Whole) \ {{}}
      BY <3>4, <3>5
    <3>7. t.input.kept = K
      BY <2>2, <3>3
    <3> HIDE DEF Whole
    <3> QED BY <3>6, <3>7
  <2> QED BY <2>1, <2>2, TestsStep
<1>3. \A c \in completed' : c.input.kept \in (SUBSET Whole) \ {{}}
  <2>1. ASSUME NEW l \in LightThreads, NEW same, NEW scores, StoreResult(l, same, scores)
        PROVE  light[l].with[1].input.kept \in (SUBSET Whole) \ {{}}
    <3>1. light[l].with = <<light[l].with[1]>>
      BY <2>1 DEF StoreResult, PlaceInv, LightInv
    <3>2. light[l].with[1] \in Tests
      <4>1. PICK t : t = light[l].with[1]
        OBVIOUS
      <4>2. t \in ToSet(light[l].with)
        BY <3>1, <4>1, OneList
      <4> QED BY <4>1, <4>2 DEF Tests
    <3> QED BY <3>2 DEF PartInv
  <2> QED BY <2>1, ResultStep DEF PartInv
<1> QED BY <1>0, <1>1, <1>2, <1>3 DEF PartInv

-----------------------------------------------------------------------------
(* The end.                                                                *)

\* How the medium thread goes from place to place.
LEMMA WorkerMoves ==
  ASSUME WorkerInv, [Next]_vars
  PROVE  \/ UNCHANGED <<worker, finished>>
         \/ /\ UNCHANGED finished
            /\ \/ /\ TakeCandidate /\ Head(medium).batch = batchident
                  /\ worker'.at = "checking" /\ worker'.with = <<Head(medium)>>
               \/ /\ TakeEvaluate /\ ~tasks.processed /\ worker'.at = "closing"
               \/ CloseBatch /\ worker'.at = "evaluating"
               \/ worker.at = "finishing" /\ worker'.at = "idle"
               \/ ResetLevel /\ worker'.at = "filling"
               \/ worker.at = "filling" /\ worker'.at = "launching"
               \/ /\ worker.at \in {"checking", "releasing", "counting", "launching"}
                  /\ worker'.at \in {"releasing", "counting", "idle"}
         \/ /\ worker.at = "evaluating"
            /\ worker'.at = IF finished' THEN "finishing" ELSE "nextLevel"
            /\ UNCHANGED tasks
<1>1. CASE TakeCandidate
  BY <1>1 DEF TakeCandidate, levelVars
<1>2. CASE DoTest
  BY <1>2 DEF DoTest, levelVars, WorkerIdle
<1>3. CASE RejectCandidate
  BY <1>3 DEF RejectCandidate, levelVars, WorkerInv, IsThread
<1>4. CASE ReleaseCandidate
  BY <1>4 DEF ReleaseCandidate, levelVars, WorkerIdle, WorkerInv, IsThread
<1>5. CASE CheckLevelEmpty
  BY <1>5 DEF CheckLevelEmpty, levelVars, WorkerIdle
<1>6. CASE TakeEvaluate
  BY <1>6 DEF TakeEvaluate, levelVars, WorkerIdle
<1>7. CASE CloseBatch
  BY <1>7 DEF CloseBatch, levelVars, WorkerInv, IsThread
<1>8. CASE AdoptStep
  BY <1>8 DEF AdoptStep, Adopt, GoOnOrFinish, batchVars, WorkerInv, IsThread
<1>9. CASE DeepenStep
  <2>1. PICK finishing : GoOnOrFinish(finishing) /\ worker.at = "evaluating" /\ UNCHANGED tasks
    BY <1>9 DEF DeepenStep, Deepen, batchVars
  <2> QED BY <2>1 DEF GoOnOrFinish, WorkerInv, IsThread
<1>10. CASE Finish
  BY <1>10 DEF Finish, levelVars, WorkerIdle
<1>11. CASE ResetLevel
  BY <1>11 DEF ResetLevel, levelVars, WorkerInv, IsThread
<1>12. CASE FillQueue
  BY <1>12 DEF FillQueue, levelVars, WorkerInv, IsThread
<1>13. CASE LaunchBatch
  BY <1>13 DEF LaunchBatch, levelVars, WorkerIdle
<1>14. CASE \E l \in LightThreads : Light(l)
  BY <1>14 DEF Light, RepeatTest, TakeResult, DropResult, StartNext, ReleaseTest, EndLevel,
     StoreResult, StopBatch, levelVars
<1>15. CASE Rescue \/ (\E c \in Listeners : AddCallback(c)) \/ UNCHANGED vars
  BY <1>15 DEF Rescue, AddCallback, vars, levelVars
<1>16. CASE Worker
  BY <1>1, <1>2, <1>3, <1>4, <1>5, <1>6, <1>7, <1>8, <1>9, <1>10, <1>11, <1>12, <1>13, <1>16,
     WorkerSteps
<1> QED BY <1>14, <1>15, <1>16 DEF Next

\* Nothing of the current batch is left when a level is evaluated for the last
\* time.
LEMMA BatchStays == PlaceInv /\ LevelInv /\ BatchInv /\ EndInv /\ [Next]_vars => BatchInv'
<1> SUFFICES ASSUME PlaceInv, LevelInv, BatchInv, EndInv, [Next]_vars
             PROVE  BatchInv'
  OBVIOUS
<1>0. WorkerInv /\ batchident \in Nat
  BY DEF PlaceInv
<1>1. CASE FillQueue
  <2>1. /\ worker' = [at |-> "launching", with |-> worker.with, job |-> worker.job]
        /\ UNCHANGED <<medium, light, batchident>>
        /\ \A c \in ToSet(testqueue') : c \in ToSet(testqueue) \/ c.batch = batchident
    BY <1>1, FillFacts
  <2>2. worker.at = "filling" /\ finished' = finished /\ ~finished
    BY <1>1 DEF FillQueue, levelVars, EndInv
  <2>3. ~Between' /\ worker'.at # "checking"
    BY <2>1, <2>2 DEF Between
  <2>4. \A c \in Jobs' : c \in Jobs \/ c.batch = batchident
    BY <2>1 DEF Jobs
  <2> QED BY <1>0, <2>1, <2>3, <2>4 DEF BatchInv
<1>2. CASE CloseBatch
  <2>1. Jobs' \subseteq Jobs /\ batchident' = batchident + 1 /\ worker'.at = "evaluating"
    BY <1>0, <1>2, JobsPass DEF CloseBatch, FillQueue, WorkerInv, IsThread
  <2> QED BY <1>0, <2>1 DEF BatchInv
<1>3. CASE ~FillQueue /\ ~CloseBatch
  <2>1. Jobs' \subseteq Jobs /\ batchident' = batchident
    BY <1>3, JobsPass, NextBatch
  <2>2. Between' => Between
    BY <1>0, <1>3, WorkerMoves DEF Between, ResetLevel
  <2>3. worker'.at = "checking" => worker'.with[1].batch = batchident
    BY <1>0, <1>3, WorkerMoves DEF BatchInv
  <2> QED BY <2>1, <2>2, <2>3 DEF BatchInv
<1> QED BY <1>1, <1>2, <1>3

LEMMA EndStays == PlaceInv /\ BatchInv /\ EndInv /\ [Next]_vars => EndInv'
<1> SUFFICES ASSUME PlaceInv, BatchInv, EndInv, [Next]_vars
             PROVE  EndInv'
  OBVIOUS
<1>0. WorkerInv /\ batchident \in Nat
  BY DEF PlaceInv
<1>1. tasks'.processed = TRUE \/ tasks.processed # TRUE \/ ResetLevel
  BY TasksStep
<1>2. CASE UNCHANGED <<worker, finished>>
  <2>1. CASE ResetLevel
    BY <1>2, <2>1 DEF ResetLevel, PlaceInv, WorkerInv, IsThread
  <2> QED BY <1>1, <1>2, <2>1 DEF EndInv
<1>3. CASE TakeCandidate /\ Head(medium).batch = batchident /\ worker'.at = "checking"
           /\ UNCHANGED finished
  <2>1. Head(medium) \in Jobs
    BY <1>3, TailList DEF TakeCandidate, PlaceInv, Jobs
  <2>2. ~finished
    BY <1>0, <1>3, <2>1 DEF BatchInv, Between
  <2> QED BY <1>3, <2>2 DEF EndInv
<1>4. CASE TakeEvaluate /\ ~tasks.processed /\ worker'.at = "closing" /\ UNCHANGED finished
  <2>1. ~finished
    BY <1>4 DEF EndInv
  <2>2. tasks' = [tasks EXCEPT !.processed = TRUE]
    BY <1>4 DEF TakeEvaluate
  <2>3. tasks'.processed = TRUE
    BY <2>2 DEF PlaceInv, IsCount
  <2> QED BY <1>4, <2>1, <2>3 DEF EndInv
<1>5. CASE /\ UNCHANGED finished
           /\ \/ CloseBatch /\ worker'.at = "evaluating"
              \/ worker.at = "finishing" /\ worker'.at = "idle"
              \/ ResetLevel /\ worker'.at = "filling"
              \/ worker.at = "filling" /\ worker'.at = "launching"
              \/ /\ worker.at \in {"checking", "releasing", "counting", "launching"}
                 /\ worker'.at \in {"releasing", "counting", "idle"}
  BY <1>1, <1>5 DEF EndInv, CloseBatch, ResetLevel
<1>6. CASE /\ worker.at = "evaluating"
           /\ worker'.at = IF finished' THEN "finishing" ELSE "nextLevel"
           /\ UNCHANGED tasks
  BY <1>6 DEF EndInv
<1> QED BY <1>0, <1>2, <1>3, <1>4, <1>5, <1>6, WorkerMoves
\* What holds in every state.
DeltaInv == PlaceInv /\ LevelInv /\ PartInv /\ BatchInv /\ EndInv

LEMMA InitPlaces == Init => PlaceInv
<1> SUFFICES ASSUME Init
             PROVE  PlaceInv
  OBVIOUS
<1>0. ToSet(<<>>) = {} /\ IsList(<<>>) /\ IsFiniteSet({})
  BY EmptyList, FS_EmptySet
<1>1. medium = <<>> /\ testqueue = <<>> /\ testing = {} /\ batchident = 0
  BY DEF Init
<1>2. worker = [at |-> "nextLevel", with |-> <<>>, job |-> <<>>]
  BY DEF Init
<1>3. \A l \in LightThreads : light[l] = [at |-> "idle", with |-> <<>>, job |-> <<>>]
  BY DEF Init
<1>4. WorkerInv
  BY <1>2 DEF WorkerInv, WorkPlaces, IsThread, AtMostOne
<1>5. LightInv
  <2>1. light = [l \in LightThreads |-> light[l]]
    BY DEF Init
  <2> QED BY <1>3, <2>1 DEF LightInv, TestPlaces, IsThread, AtMostOne
<1>6. IsCount(tasks)
  BY DEF Init, IsCount
<1>7. Jobs = {}
  BY <1>0, <1>1, <1>2, <1>3 DEF Jobs
<1> QED BY <1>0, <1>1, <1>4, <1>5, <1>6, <1>7 DEF PlaceInv

LEMMA InitDelta == Init => DeltaInv
<1> SUFFICES ASSUME Init
             PROVE  DeltaInv
  OBVIOUS
<1>0. ToSet(<<>>) = {}
  BY EmptyList
<1>1. worker = [at |-> "nextLevel", with |-> <<>>, job |-> <<>>] /\ finished = FALSE
  BY DEF Init
<1>2. \A l \in LightThreads : light[l] = [at |-> "idle", with |-> <<>>, job |-> <<>>]
  BY DEF Init
<1>3. Jobs = {} /\ Tests = {} /\ completed = {}
  BY <1>0, <1>1, <1>2 DEF Init, Jobs, Tests
<1>4. LevelInv
  <2>1. params \in Configurations /\ input = OrigInput /\ level = 2 /\ totaltests = 0
    BY DEF Init
  <2>2. input.kept = Whole
    BY <2>1 DEF OrigInput
  <2>3. 0 \in Whole
    <3>1. params.length \in Nat \ {0, 1}
      BY <2>1, ParamsFacts
    <3> QED BY <3>1 DEF Whole, OrigLength
  <2>4. PICK changes \in Changes : inputRanges = Ranges(OrigInput, changes)
    BY DEF Init
  <2>5. IsList(inputRanges) /\ \A r \in ToSet(inputRanges) : r \in Nat \X Int
    BY <2>1, <2>2, <2>4, RangesFacts
  <2> HIDE DEF Whole
  <2> QED BY <2>1, <2>2, <2>3, <2>5 DEF LevelInv
<1>5. PartInv
  BY <1>3 DEF PartInv
<1>6. BatchInv
  BY <1>1, <1>3 DEF BatchInv
<1>7. EndInv
  BY <1>1 DEF EndInv
<1> QED BY <1>4, <1>5, <1>6, <1>7, InitPlaces DEF DeltaInv

\* A delta controller keeps its candidates and tests where they belong: parts of
\* the original input that are not empty, candidates of closed batches only from
\* the last evaluation on, and an end that comes once.
THEOREM DeltaInvariant == Safety => []DeltaInv
<1>1. DeltaInv /\ [Next]_vars => DeltaInv'
  BY PlaceStays, LevelStays, PartStays, BatchStays, EndStays DEF DeltaInv
<1> QED BY <1>1, InitDelta, PTL DEF Safety

-----------------------------------------------------------------------------
(* The ranges that the derivation is told of.                              *)

\* An input says which positions of the original it lacks.
Exact(inp) == inp.ranges = RunsOf(Whole \ inp.kept)

RangesInv ==
  ~Standard =>
    /\ Exact(input)
    /\ \A c \in Jobs : Exact(c.input)
    /\ \A t \in Tests : Exact(t.input)
    /\ \A c \in completed : Exact(c.input)

\* The candidates of a level of score progress are complements.
LEMMA ComplementCandidates ==
  ASSUME LevelInv, ~Standard, NEW c \in ToSet(Candidates)
  PROVE  \E begin, count \in Int : c = Complement(begin, count)
<1> DEFINE size == Limit \div level
           cuts == GetRangesAbove(inputRanges, params.skip, params.skipRanges, size)
<1>1. size \in Int /\ params.skipRanges \in Nat
  <2>1. Limit \in Nat /\ level \in Nat \ {0}
    BY LimitFacts DEF LevelInv
  <2>2. size \in Int
    BY <2>1
  <2> QED BY <2>2, ParamsFacts DEF LevelInv
<1>2. Candidates = [i \in DOMAIN cuts |-> Complement(Begin(cuts[i]), Length(cuts[i]))]
  BY DEF Candidates
<1> HIDE DEF size
<1>3. PICK m \in Nat :
        /\ DOMAIN cuts = 1 .. m
        /\ \A i \in 1 .. m : Begin(cuts[i]) \in Int /\ Length(cuts[i]) \in Int
  BY <1>1, PiecesList DEF LevelInv
<1> HIDE DEF cuts
<1>4. DOMAIN Candidates = 1 .. m
  BY <1>2, <1>3
<1>5. PICK i \in 1 .. m : c = Candidates[i]
  BY <1>4 DEF ToSet
<1>6. c = Complement(Begin(cuts[i]), Length(cuts[i]))
  BY <1>2, <1>3, <1>5
<1> QED BY <1>3, <1>6

\* A complement of an input that says exactly what it lacks does so too.
LEMMA ComplementExact ==
  ASSUME LevelInv, Exact(input), NEW begin \in Int, NEW count \in Int
  PROVE  Exact(Complement(begin, count))
<1> DEFINE n == OrigLength
           K == input.kept
           R == Whole \ K
           T == Middle(K, begin, count)
<1>1. n \in Nat /\ Whole = 0 .. n - 1 /\ K \subseteq Whole
  BY ParamsFacts DEF LevelInv, Whole, OrigLength
<1>2. Cut(input, begin, count) = T
  BY DEF Cut, Middle, Earlier
<1>3. (IF input = OrigInput THEN <<>> ELSE input.ranges) = RunsOf(R)
  <2>1. input.ranges = RunsOf(R)
    BY DEF Exact
  <2>2. input = OrigInput => input.ranges = <<>>
    BY DEF OrigInput
  <2> QED BY <2>1, <2>2
<1>4. /\ Complement(begin, count).kept = K \ T
      /\ Complement(begin, count).ranges = GetNewRangesWithout(RunsOf(R), n, begin, count)
  <2> DEFINE given == IF input = OrigInput THEN <<>> ELSE input.ranges
  <2>1. Complement(begin, count) =
          [kept |-> K \ Cut(input, begin, count),
           ranges |-> GetNewRangesWithout(given, n, begin, count), complement |-> TRUE]
    BY DEF Complement
  <2>2. given = RunsOf(R)
    BY <1>3
  <2> HIDE DEF given, n, K, R, T
  <2> QED BY <1>2, <2>1, <2>2
<1>5. GetNewRangesWithout(RunsOf(R), n, begin, count) = RunsOf(R \cup T)
  <2>1. R \in SUBSET (0 .. n - 1) /\ K = (0 .. n - 1) \ R
    BY <1>1
  <2>2. n \in Nat /\ T = Middle(K, begin, count)
    BY <1>1
  <2> HIDE DEF n, K, R, T
  <2> QED BY <2>1, <2>2, CutAgain
<1>6. Whole \ (K \ T) = R \cup T
  <2>1. T \subseteq K
    BY DEF Middle
  <2> HIDE DEF T
  <2>2. PICK W : W = Whole
    OBVIOUS
  <2> QED BY <1>1, <2>1, <2>2
<1> HIDE DEF T, R, K
<1> QED BY <1>4, <1>5, <1>6 DEF Exact

\* Inputs keep what they say wherever they go, and new ones say it exactly.
LEMMA RangesStay ==
  PlaceInv /\ LevelInv /\ RangesInv /\ [Next]_vars => RangesInv'
<1> SUFFICES ASSUME PlaceInv, LevelInv, RangesInv, [Next]_vars
             PROVE  RangesInv'
  OBVIOUS
<1>p. params' = params
  BY LevelStep
<1> SUFFICES ASSUME ~Standard
             PROVE  RangesInv'
  BY <1>p DEF RangesInv, Standard
<1>0. Whole' = Whole
  BY LevelStep DEF Whole, OrigLength
<1>x. /\ Exact(input)
      /\ \A c \in Jobs : Exact(c.input)
      /\ \A t \in Tests : Exact(t.input)
      /\ \A c \in completed : Exact(c.input)
  BY DEF RangesInv
<1>1. \A c \in Jobs' : Exact(c.input)
  <2>1. CASE ~FillQueue
    BY <1>x, <2>1, JobsPass
  <2>2. CASE FillQueue
    <3>1. \A c \in ToSet(Candidates) : Exact(c)
      BY <1>x, ComplementCandidates, ComplementExact
    <3>2. \A c \in ToSet(testqueue') : c \in ToSet(testqueue) \/ Exact(c.input)
      BY <2>2, <3>1, FillFacts
    <3>3. /\ worker' = [at |-> "launching", with |-> worker.with, job |-> worker.job]
          /\ UNCHANGED <<medium, light>>
      BY <2>2, FillFacts
    <3>4. \A c \in Jobs' : c \in Jobs \/ Exact(c.input)
      BY <3>2, <3>3 DEF Jobs
    <3> QED BY <1>x, <3>4
  <2> QED BY <2>1, <2>2
<1>2. \A t \in Tests' : Exact(t.input)
  <2> TAKE t \in Tests'
  <2>1. CASE \E u \in Tests : t.input = u.input
    BY <1>x, <2>1
  <2>2. CASE DoTest /\ t.input = worker.with[1].input
    <3>1. worker.with = <<worker.with[1]>>
      BY <2>2 DEF DoTest, PlaceInv, WorkerInv
    <3>2. worker.with[1] \in Jobs
      BY <3>1, OneList DEF Jobs
    <3> QED BY <1>x, <2>2, <3>2
  <2> QED BY <2>1, <2>2, TestsStep
<1>3. \A c \in completed' : Exact(c.input)
  <2>1. ASSUME NEW l \in LightThreads, NEW same, NEW scores, StoreResult(l, same, scores)
        PROVE  Exact(light[l].with[1].input)
    <3>1. light[l].with = <<light[l].with[1]>>
      BY <2>1 DEF StoreResult, PlaceInv, LightInv
    <3>2. light[l].with[1] \in Tests
      <4>1. PICK t : t = light[l].with[1]
        OBVIOUS
      <4>2. t \in ToSet(light[l].with)
        BY <3>1, <4>1, OneList
      <4> QED BY <4>1, <4>2 DEF Tests
    <3> QED BY <1>x, <3>2
  <2> QED BY <1>x, <2>1, ResultStep
<1>4. Exact(input')
  <2>1. CASE AdoptStep
    <3>1. PICK result \in completed : input' = result.input
      BY <2>1 DEF AdoptStep, Adopt
    <3> QED BY <1>x, <3>1
  <2>2. CASE ~AdoptStep
    BY <1>x, <2>2, LevelStep
  <2> QED BY <2>1, <2>2
<1> QED BY <1>0, <1>1, <1>2, <1>3, <1>4 DEF RangesInv, Exact

LEMMA InitRanges == Init => RangesInv
<1> SUFFICES ASSUME Init
             PROVE  RangesInv
  OBVIOUS
<1>0. ToSet(<<>>) = {}
  BY EmptyList
<1>1. worker = [at |-> "nextLevel", with |-> <<>>, job |-> <<>>]
  BY DEF Init
<1>2. \A l \in LightThreads : light[l] = [at |-> "idle", with |-> <<>>, job |-> <<>>]
  BY DEF Init
<1>3. Jobs = {} /\ Tests = {} /\ completed = {}
  BY <1>0, <1>1, <1>2 DEF Init, Jobs, Tests
<1>4. Describes(<<>>, {}, 1) /\ Describes(RunsOf({}), {}, 1)
  <2>1. DOMAIN <<>> = {} /\ <<>> \in Seq(ProperRange)
    OBVIOUS
  <2>2. IsFiniteSet({})
    BY FS_EmptySet
  <2> QED BY <2>1, <2>2, RunsDescribe DEF Describes
<1>5. RunsOf({}) = <<>>
  BY <1>4, OneDescription
<1>6. Exact(input)
  <2>1. input.kept = Whole /\ input.ranges = <<>>
    BY DEF Init, OrigInput
  <2>2. Whole \ Whole = {}
    OBVIOUS
  <2> QED BY <1>5, <2>1, <2>2 DEF Exact
<1> QED BY <1>3, <1>6 DEF RangesInv

\* However often inputs that lack some positions are cut again, what an input of
\* score progress says of the original it was cut from is exactly what it lacks:
\* RangeCalculator::GetNewRangesWithout neither loses a position nor leaves two
\* ranges that touch, for every length of the input and every list of cuts.
THEOREM RangesExact == Safety => []RangesAreExact
<1>1. DeltaInv /\ RangesInv /\ [Next]_vars => RangesInv'
  BY RangesStay DEF DeltaInv
<1>2. RangesInv => RangesAreExact
  BY DEF RangesInv, RangesAreExact, Exact, Tests
<1> QED BY <1>1, <1>2, InitRanges, DeltaInvariant, PTL DEF Safety
-----------------------------------------------------------------------------
(* What follows.                                                           *)

\* A test that is repeated takes the place of the one that has ended.
LEMMA TestsDoNotGrow ==
  ASSUME PlaceInv, [Next]_vars, ~DoTest
  PROVE  Cardinality(testing') <= Cardinality(testing)
<1>1. IsFiniteSet(testing) /\ Cardinality(testing) \in Nat
  BY FS_CardinalityType DEF PlaceInv
<1>2. CASE testing' \subseteq testing
  <2>1. testing' \in SUBSET testing
    BY <1>2
  <2> QED BY <1>1, <2>1, FS_Subset
<1>3. ASSUME NEW t \in testing, NEW x, testing' = (testing \ {t}) \cup {x}
      PROVE  Cardinality(testing') <= Cardinality(testing)
  <2>1. IsFiniteSet(testing \ {t}) /\ Cardinality(testing \ {t}) = Cardinality(testing) - 1
    BY <1>1, FS_RemoveElement
  <2>2. PICK U : U = testing \ {t}
    OBVIOUS
  <2>3. Cardinality(U \cup {x}) = Cardinality(U) \/ Cardinality(U \cup {x}) = Cardinality(U) + 1
    BY <2>1, <2>2, FS_AddElement
  <2>4. Cardinality(U \cup {x}) <= Cardinality(testing)
    BY <1>1, <2>1, <2>2, <2>3
  <2> QED BY <1>3, <2>2, <2>4
<1> QED BY <1>2, <1>3, TestingStep

\* Once delta debugging is finished, it stays finished: no thread, event or
\* result that is late, and not the watchdog, changes the result, begins a batch
\* or adds a test.
THEOREM QuietOnceFinished == Safety => QuietAfterFinish
<1>1. DeltaInv /\ [Next]_vars /\ finished =>
        /\ finished' /\ UNCHANGED <<input, level, batchident>>
        /\ Cardinality(testing') <= Cardinality(testing)
  <2> SUFFICES ASSUME DeltaInv, [Next]_vars, finished
               PROVE  /\ finished' /\ UNCHANGED <<input, level, batchident>>
                      /\ Cardinality(testing') <= Cardinality(testing)
    OBVIOUS
  <2>1. worker.at \in {"idle", "finishing"}
    BY DEF DeltaInv, EndInv
  <2>2. ~AdoptStep /\ ~DeepenStep /\ ~CloseBatch /\ ~DoTest
    BY <2>1 DEF AdoptStep, Adopt, DeepenStep, Deepen, CloseBatch, DoTest
  <2> QED BY <2>2, LevelStep, NextBatch, TestsDoNotGrow DEF DeltaInv
<1>2. DeltaInv /\ [Next]_vars =>
        [finished => /\ finished' /\ UNCHANGED <<input, level, batchident>>
                     /\ Cardinality(testing') <= Cardinality(testing)]_vars
  BY <1>1
<1> QED BY <1>2, DeltaInvariant, PTL DEF Safety, QuietAfterFinish
-----------------------------------------------------------------------------
(* Delta debugging is a reduction.                                         *)

\* A budget that is spent stays spent.
LEMMA BudgetStays ==
  ASSUME LevelInv, [Next]_vars
  PROVE  /\ BudgetSpent => BudgetSpent'
         /\ UNCHANGED totaltests => BudgetSpent' = BudgetSpent
         /\ BudgetSpent \in BOOLEAN /\ BudgetSpent' \in BOOLEAN
<1>1. params' = params
  BY LevelStep
<1>2. totaltests \in Nat /\ params.budget \in Nat
  BY ParamsFacts DEF LevelInv
<1>3. BudgetSpent => BudgetSpent'
  BY <1>1, <1>2, ResultStep DEF BudgetSpent, Minimum
<1> QED BY <1>1, <1>3 DEF BudgetSpent

LEMMA ReductionInit == Init => ReductionSpec!Init
<1> SUFFICES ASSUME Init
             PROVE  ReductionSpec!Init
  OBVIOUS
<1>1. input.kept = Whole /\ level = 2 /\ finished = FALSE /\ completed = {}
  BY DEF Init, OrigInput
<1>2. BudgetSpent = FALSE
  <2>1. totaltests = 0 /\ params.budget \in Nat
    BY ParamsFacts DEF Init
  <2> QED BY <2>1 DEF BudgetSpent
<1>3. {c.input.kept : c \in completed} = {}
  BY <1>1
<1> QED BY <1>1, <1>2, <1>3 DEF ReductionSpec!Init

LEMMA ReductionStep ==
  ASSUME DeltaInv, [Next]_vars
  PROVE  ReductionSpec!Next
<1> DEFINE good == {c.input.kept : c \in completed}
<1>0. /\ PlaceInv /\ LevelInv /\ PartInv /\ EndInv
      /\ params' = params /\ Whole' = Whole
  BY LevelStep DEF DeltaInv, Whole, OrigLength
<1>1. CASE AdoptStep
  <2>1. PICK result \in completed, newLevel \in {2, Maximum(level - 1, 2)} :
          \E newBest : Adopt(result, newBest, newLevel)
    BY <1>1 DEF AdoptStep
  <2>2. /\ worker.at = "evaluating" /\ input' = result.input /\ completed' = {}
        /\ level' \in {2, Maximum(level - 1, 2)} /\ finished' = BudgetSpent
        /\ UNCHANGED totaltests
    BY <2>1 DEF Adopt, GoOnOrFinish
  <2>3. ~finished
    BY <1>0, <2>2 DEF EndInv
  <2>4. level' \in {2, ReductionSpec!Coarser(level)}
    <3>1. level \in Nat
      BY <1>0 DEF LevelInv
    <3> QED BY <2>2, <3>1 DEF Maximum, ReductionSpec!Coarser
  <2>5. input'.kept \in good
    BY <2>1, <2>2
  <2>6. {c.input.kept : c \in completed'} = {}
    BY <2>2
  <2>7. BudgetSpent' = BudgetSpent
    BY <1>0, <2>2, BudgetStays
  <2> HIDE DEF Whole, BudgetSpent, Limit
  <2>8. ReductionSpec!Adopt
    BY <1>0, <2>2, <2>3, <2>4, <2>5, <2>6, <2>7 DEF ReductionSpec!Adopt
  <2> QED BY <2>8 DEF ReductionSpec!Next
<1>2. CASE DeepenStep
  <2>1. PICK ending \in {FALSE, BudgetSpent} : Deepen(ending)
    BY <1>2 DEF DeepenStep
  <2>2. /\ worker.at = "evaluating" /\ completed = {} /\ completed' = {}
        /\ IF level >= Limit THEN finished' = TRUE /\ level' = level
           ELSE level' = Minimum(2 * level, Limit) /\ finished' = ending
        /\ UNCHANGED <<totaltests, input, inputRanges>>
    BY <2>1 DEF Deepen, GoOnOrFinish, resultVars
  <2>3. ~finished /\ level \in Nat /\ Limit \in Nat
    BY <1>0, <2>2, LimitFacts DEF EndInv, LevelInv
  <2>4. Limit' = Limit
    BY <1>0, <2>2 DEF Limit, Standard
  <2>5. good = {} /\ {c.input.kept : c \in completed'} = {}
    BY <2>2
  <2>6. BudgetSpent' = BudgetSpent
    BY <1>0, <2>2, BudgetStays
  <2>7. input'.kept = input.kept
    BY <2>2
  <2> HIDE DEF Whole, BudgetSpent, Limit
  <2>8. CASE level >= Limit
    <3>1. ReductionSpec!Stop
      BY <1>0, <2>2, <2>3, <2>4, <2>5, <2>6, <2>7, <2>8 DEF ReductionSpec!Stop
    <3> QED BY <3>1 DEF ReductionSpec!Next
  <2>9. CASE ~(level >= Limit)
    <3>1. level < Limit
      BY <2>3, <2>9
    <3>2. level' = ReductionSpec!Finer(level, Limit)
      BY <2>2, <2>9 DEF Minimum, ReductionSpec!Finer
    <3>3. finished' \in {FALSE, BudgetSpent}
      BY <2>1, <2>2, <2>9
    <3>4. ReductionSpec!Refine
      BY <1>0, <2>3, <2>4, <2>5, <2>6, <2>7, <3>1, <3>2, <3>3 DEF ReductionSpec!Refine
    <3> QED BY <3>4 DEF ReductionSpec!Next
  <2> QED BY <2>8, <2>9
<1>3. CASE ~AdoptStep /\ ~DeepenStep
  <2>1. UNCHANGED <<input, inputRanges, level, finished>>
    BY <1>3, LevelStep
  <2>2. Limit' = Limit /\ input'.kept = input.kept
    BY <1>0, <2>1 DEF Limit, Standard
  <2>3. BudgetSpent' \in {BudgetSpent, TRUE}
    <3>1. BudgetSpent => BudgetSpent'
      BY <1>0, BudgetStays
    <3>2. BudgetSpent \in BOOLEAN /\ BudgetSpent' \in BOOLEAN
      BY <1>0, BudgetStays
    <3>3. PICK p : p = BudgetSpent /\ p \in BOOLEAN
      BY <3>2
    <3>4. PICK q : q = BudgetSpent' /\ q \in BOOLEAN
      BY <3>2
    <3>5. q = p \/ q = TRUE
      BY <3>1, <3>3, <3>4
    <3> QED BY <3>3, <3>4, <3>5
  <2>4. \/ {c.input.kept : c \in completed'} = good
        \/ \E part \in ReductionSpec!Parts : {c.input.kept : c \in completed'} = good \cup {part}
        \/ finished /\ {c.input.kept : c \in completed'} = {}
    <3>1. CASE completed' = completed
      BY <3>1
    <3>2. CASE completed' = {} /\ Finish
      <4>1. worker.at = "finishing"
        BY <3>2 DEF Finish
      <4>2. finished
        BY <1>0, <4>1 DEF EndInv
      <4>3. {c.input.kept : c \in completed'} = {}
        BY <3>2
      <4> QED BY <4>2, <4>3
    <3>3. ASSUME NEW l \in LightThreads, NEW same, NEW scores, StoreResult(l, same, scores),
                 completed' = completed \cup
                   {[input |-> light[l].with[1].input, scores |-> scores]}
          PROVE  \E part \in ReductionSpec!Parts :
                   {c.input.kept : c \in completed'} = good \cup {part}
      <4>1. PICK t : t = light[l].with[1]
        OBVIOUS
      <4>2. t \in ToSet(light[l].with)
        BY <1>0, <3>3, <4>1, OneList DEF StoreResult, PlaceInv, LightInv
      <4>3. t.input.kept \in (SUBSET Whole) \ {{}}
        BY <1>0, <4>2 DEF Tests, PartInv
      <4>4. PICK c : c = [input |-> t.input, scores |-> scores]
        OBVIOUS
      <4>5. c.input.kept = t.input.kept /\ completed' = completed \cup {c}
        BY <3>3, <4>1, <4>4
      <4>6. {d.input.kept : d \in completed'} = good \cup {t.input.kept}
        BY <4>5
      <4> QED BY <4>3, <4>6 DEF ReductionSpec!Parts
    <3> QED BY <1>3, <3>1, <3>2, <3>3, ResultStep
  <2> HIDE DEF Whole, BudgetSpent, Limit
  <2>5. ReductionSpec!Learn
    BY <1>0, <2>1, <2>2, <2>3, <2>4 DEF ReductionSpec!Learn
  <2> QED BY <2>5 DEF ReductionSpec!Next
<1> QED BY <1>1, <1>2, <1>3

\* Whatever its threads do to each other, the input is only ever replaced by a
\* part that was tested and met the goal, levels get finer only when no such part
\* is left, and the end comes only when there is nothing finer or the budget is
\* spent: a delta controller implements module Reduction.
THEOREM ReductionImplemented == Safety => Reduces
<1>1. DeltaInv /\ [Next]_vars => [ReductionSpec!Next]_ReductionSpec!vars
  BY ReductionStep
<1> QED BY <1>1, DeltaInvariant, ReductionInit, PTL DEF Safety, Reduces, ReductionSpec!Spec
-----------------------------------------------------------------------------
(* What later results are compared with.                                   *)

\* Only the medium thread adopts.
LEMMA AdoptIsWork ==
  ASSUME PlaceInv, [Next]_vars, AdoptStep
  PROVE  Worker
<1>1. PICK finishing : worker.at = "evaluating" /\ GoOnOrFinish(finishing)
  BY DEF AdoptStep, Adopt
<1>2. worker'.at # "evaluating"
  BY <1>1 DEF GoOnOrFinish, PlaceInv, WorkerInv, IsThread
<1>3. worker' # worker
  BY <1>1, <1>2
<1>4. CASE \E l \in LightThreads : Light(l)
  BY <1>3, <1>4 DEF Light, RepeatTest, TakeResult, DropResult, StartNext, ReleaseTest, EndLevel,
     StoreResult, StopBatch
<1> QED BY <1>3, <1>4 DEF Next, Rescue, AddCallback, vars
\* A best score that is raised.
LEMMA RaiseFacts ==
  ASSUME NEW old \in Nat \X Nat, NEW new \in Nat \X Nat
  PROVE  /\ \A s \in {Primary, Secondary} :
              /\ Raise(old, s, new) \in Nat \X Nat
              /\ Raise(old, s, new)[s] >= old[s] /\ Raise(old, s, new)[s] >= new[s]
         /\ RaiseBoth(old, new) \in Nat \X Nat
         /\ RaiseBoth(old, new)[Primary] >= old[Primary]
         /\ RaiseBoth(old, new)[Primary] >= new[Primary]
<1>1. old[1] \in Nat /\ old[2] \in Nat /\ new[1] \in Nat /\ new[2] \in Nat
  OBVIOUS
<1>2. \A x : [<<0, 0>> EXCEPT ![1] = x] = <<x, 0>> /\ [<<0, 0>> EXCEPT ![2] = x] = <<0, x>>
  OBVIOUS
<1>3. /\ Raise(old, 1, new) \in Nat \X Nat
      /\ Raise(old, 1, new)[1] >= old[1] /\ Raise(old, 1, new)[1] >= new[1]
  <2>1. Raise(old, 1, new) = IF old[1] < new[1] THEN <<new[1], 0>> ELSE old
    BY <1>2 DEF Raise
  <2> QED BY <1>1, <2>1
<1>4. /\ Raise(old, 2, new) \in Nat \X Nat
      /\ Raise(old, 2, new)[2] >= old[2] /\ Raise(old, 2, new)[2] >= new[2]
  <2>1. Raise(old, 2, new) = IF old[2] < new[2] THEN <<0, new[2]>> ELSE old
    BY <1>2 DEF Raise
  <2> QED BY <1>1, <2>1
<1>5. /\ RaiseBoth(old, new) \in Nat \X Nat
      /\ RaiseBoth(old, new)[1] >= old[1] /\ RaiseBoth(old, new)[1] >= new[1]
  BY <1>1 DEF RaiseBoth, Primary
<1> QED BY <1>3, <1>4, <1>5 DEF Primary, Secondary

\* A score that is kept is within its loss of the best one in every result.
LEMMA GoodFacts ==
  ASSUME NEW c, NEW same \in BOOLEAN, IsGood(params.goal, params.loss, best, same, c.scores),
         NEW s \in KeptScores
  PROVE  WithinLoss(c.scores[s], best[s], params.loss) /\ s \in {Primary, Secondary}
<1>1. CASE params.goal.first \in {"primary", "both"}
  <2>1. s = Primary
    BY <1>1 DEF KeptScores
  <2> QED BY <1>1, <2>1 DEF IsGood
<1>2. CASE ~(params.goal.first \in {"primary", "both"})
  <2>1. s = Secondary /\ params.goal.first = "secondary"
    BY <1>2 DEF KeptScores
  <2> QED BY <2>1 DEF IsGood
<1> QED BY <1>1, <1>2

\* What an adopted input does to the best score.
LEMMA AdoptScores ==
  ASSUME ScoreInv, Worker, AdoptStep
  PROVE  /\ score' \in Nat \X Nat /\ best' \in Nat \X Nat /\ completed' = {}
         /\ \A s \in KeptScores :
              /\ best'[s] >= best[s] /\ best'[s] >= score'[s]
              /\ WithinLoss(score'[s], best[s], params.loss)
<1>1. worker.at = "evaluating" /\ completed # {}
  BY DEF AdoptStep, Adopt
<1>2. PICK result \in completed :
        \/ AdoptReproducing(result)
        \/ AdoptByPrimary(result) \/ AdoptBySecondary(result) \/ AdoptByBoth(result)
        \/ AdoptComplement(result)
  BY <1>1 DEF Worker, TakeCandidate, DoTest, RejectCandidate, ReleaseCandidate, CheckLevelEmpty,
     TakeEvaluate, CloseBatch, StandardGoDeeper, ScoreProgressGoDeeper, Deepen, Finish,
     StandardNextLevel, ScoreProgressNextLevel, ResetLevel, FillQueue, StandardLaunch,
     ScoreProgressLaunch, LaunchBatch
<1>3. PICK new : new = result.scores
  OBVIOUS
<1>4. best \in Nat \X Nat /\ new \in Nat \X Nat
  BY <1>3 DEF ScoreInv
<1>5. \A s \in KeptScores : WithinLoss(new[s], best[s], params.loss) /\ s \in {Primary, Secondary}
  BY <1>3, GoodFacts DEF ScoreInv
<1>6. ASSUME NEW newBest, newBest \in Nat \X Nat, best' = newBest, score' = new, completed' = {},
             \A s \in KeptScores : newBest[s] >= best[s] /\ newBest[s] >= new[s]
      PROVE  /\ score' \in Nat \X Nat /\ best' \in Nat \X Nat /\ completed' = {}
             /\ \A s \in KeptScores :
                  /\ best'[s] >= best[s] /\ best'[s] >= score'[s]
                  /\ WithinLoss(score'[s], best[s], params.loss)
  BY <1>4, <1>5, <1>6
<1>7. CASE AdoptReproducing(result)
  <2>1. KeptScores = {}
    BY <1>7 DEF AdoptReproducing, KeptScores
  <2>2. best' = best /\ score' = new /\ completed' = {}
    BY <1>3, <1>7 DEF AdoptReproducing, StandardAdopt, Adopt
  <2> QED BY <1>4, <1>6, <2>1, <2>2
<1>8. CASE AdoptByPrimary(result)
  <2>1. KeptScores = {Primary}
    BY <1>8 DEF AdoptByPrimary, KeptScores
  <2>2. best' = Raise(best, Primary, new) /\ score' = new /\ completed' = {}
    BY <1>3, <1>8 DEF AdoptByPrimary, StandardAdopt, Adopt
  <2> QED BY <1>4, <1>6, <2>1, <2>2, RaiseFacts
<1>9. CASE AdoptBySecondary(result)
  <2>1. KeptScores = {Secondary}
    BY <1>9 DEF AdoptBySecondary, StandardAdopt, KeptScores
  <2>2. best' = Raise(best, Secondary, new) /\ score' = new /\ completed' = {}
    BY <1>3, <1>9 DEF AdoptBySecondary, StandardAdopt, Adopt
  <2> QED BY <1>4, <1>6, <2>1, <2>2, RaiseFacts
<1>10. CASE AdoptByBoth(result)
  <2>1. KeptScores = {Primary}
    BY <1>10 DEF AdoptByBoth, KeptScores
  <2>2. best' = Raise(best, Primary, new) /\ score' = new /\ completed' = {}
    BY <1>3, <1>10 DEF AdoptByBoth, StandardAdopt, Adopt
  <2> QED BY <1>4, <1>6, <2>1, <2>2, RaiseFacts
<1>11. CASE AdoptComplement(result)
  <2>1. KeptScores \subseteq {Primary}
    BY <1>11 DEF AdoptComplement, KeptScores
  <2>2. best' = RaiseBoth(best, new) /\ score' = new /\ completed' = {}
    BY <1>3, <1>11 DEF AdoptComplement, Adopt
  <2> QED BY <1>4, <1>6, <2>1, <2>2, RaiseFacts
<1> QED BY <1>2, <1>7, <1>8, <1>9, <1>10, <1>11

LEMMA InitScores == Init => ScoreInv
<1> SUFFICES ASSUME Init
             PROVE  ScoreInv
  OBVIOUS
<1>1. score \in Nat \X Nat /\ params.goal \in Goals
  BY ParamsFacts DEF Init
<1>2. score[1] \in Nat /\ score[2] \in Nat /\ score = <<score[1], score[2]>>
  BY <1>1
<1>3. best = FirstBest(params.goal, score) /\ completed = {}
  BY DEF Init
<1>4. \/ best = <<score[1], 0>> /\ KeptScores \subseteq {1}
      \/ best = <<0, score[2]>> /\ KeptScores \subseteq {2}
      \/ best = score /\ KeptScores \subseteq {1, 2}
  BY <1>1, <1>3 DEF FirstBest, KeptScores, Primary, Secondary, Goals
<1>5. best \in Nat \X Nat /\ \A s \in KeptScores : score[s] <= best[s]
  BY <1>2, <1>4
<1> QED BY <1>1, <1>3, <1>5 DEF ScoreInv

LEMMA ScoreStays == ScoreInv /\ PlaceInv /\ LevelInv /\ [Next]_vars => ScoreInv'
<1> SUFFICES ASSUME ScoreInv, PlaceInv, LevelInv, [Next]_vars
             PROVE  ScoreInv'
  OBVIOUS
<1>0. params' = params /\ KeptScores' = KeptScores
  BY LevelStep DEF KeptScores, Standard
<1>1. CASE AdoptStep
  <2>1. Worker
    BY <1>1, AdoptIsWork
  <2>2. KeptScores \subseteq {1, 2}
    BY DEF KeptScores, Primary, Secondary
  <2>3. /\ score' \in Nat \X Nat /\ best' \in Nat \X Nat /\ completed' = {}
        /\ \A s \in KeptScores : best'[s] >= score'[s]
    BY <1>1, <2>1, AdoptScores
  <2>4. \A s \in {1, 2} : best'[s] \in Nat /\ score'[s] \in Nat
    BY <2>3
  <2>5. \A s \in KeptScores : score'[s] <= best'[s]
    BY <2>2, <2>3, <2>4
  <2> QED BY <1>0, <2>3, <2>5 DEF ScoreInv
<1>2. CASE ~AdoptStep
  <2>1. UNCHANGED <<score, best>>
    BY <1>2, LevelStep
  <2>2. \A c \in completed' :
          /\ c.scores \in Nat \X Nat
          /\ \E same \in BOOLEAN : IsGood(params.goal, params.loss, best, same, c.scores)
    <3>1. params.scores \subseteq Nat \X Nat
      BY ParamsFacts DEF LevelInv
    <3>2. ASSUME NEW inp, NEW same \in BOOLEAN, NEW scores \in params.scores,
                 IsGood(params.goal, params.loss, best, same, scores),
                 completed' = completed \cup {[input |-> inp, scores |-> scores]}
          PROVE  \A c \in completed' :
                   /\ c.scores \in Nat \X Nat
                   /\ \E other \in BOOLEAN : IsGood(params.goal, params.loss, best, other, c.scores)
      BY <3>1, <3>2 DEF ScoreInv
    <3>3. CASE completed' \subseteq completed
      BY <3>3 DEF ScoreInv
    <3> QED BY <3>2, <3>3, ResultStep
  <2> QED BY <1>0, <2>1, <2>2 DEF ScoreInv
<1> QED BY <1>1, <1>2

\* However many inputs are adopted one after the other, each with a little loss,
\* what later ones are compared with never falls below the highest score that an
\* adopted input had.
THEOREM LossesBounded == Safety => LossesDoNotAddUp
<1>1. Init => DeltaInv /\ ScoreInv
  BY InitDelta, InitScores
<1>2. ScoreInv /\ DeltaInv /\ [Next]_vars => ScoreInv'
  BY ScoreStays DEF DeltaInv
<1>3. ScoreInv /\ DeltaInv /\ [Next]_vars =>
        [\A s \in KeptScores :
           /\ best'[s] >= best[s] /\ best'[s] >= score'[s]
           /\ input' # input => WithinLoss(score'[s], best[s], params.loss)]_vars
  <2> SUFFICES ASSUME ScoreInv, DeltaInv, [Next]_vars, NEW s \in KeptScores
               PROVE  /\ best'[s] >= best[s] /\ best'[s] >= score'[s]
                      /\ input' # input => WithinLoss(score'[s], best[s], params.loss)
    OBVIOUS
  <2>1. CASE AdoptStep
    BY <2>1, AdoptIsWork, AdoptScores DEF DeltaInv
  <2>2. CASE ~AdoptStep
    <3>1. UNCHANGED <<input, score, best>>
      BY <2>2, LevelStep
    <3>2. s \in {1, 2}
      BY DEF KeptScores, Primary, Secondary
    <3>3. best[s] \in Nat /\ score[s] \in Nat /\ score[s] <= best[s]
      BY <3>2 DEF ScoreInv
    <3> QED BY <3>1, <3>3
  <2> QED BY <2>1, <2>2
<1> QED BY <1>1, <1>2, <1>3, DeltaInvariant, PTL DEF Safety, LossesDoNotAddUp
-----------------------------------------------------------------------------
(* The candidates that are still to be counted off.                        *)

\* Where a candidate of a batch with a number is outstanding.
IsMark(c, b, n) == c.batch = b /\ c.number = n

Waiting(b, n) == \E job \in ToSet(medium) : job.kind = "generate" /\ IsMark(job, b, n)
Tested(b, n)  == \E t \in testing : IsMark(t, b, n)
Holds(thread, b, n) == \E c \in Held(thread) \cup Found(thread) : IsMark(c, b, n)

Marked(b, n) ==
  \/ Waiting(b, n) \/ Tested(b, n) \/ Holds(worker, b, n)
  \/ \E l \in LightThreads : Holds(light[l], b, n)

LEMMA OutstandingIs ==
  \A n : n \in Outstanding <=> Marked(tasks.batch, n)
<1> TAKE n
<1>1. \A C : n \in OfBatch(C) <=> \E c \in C : IsMark(c, tasks.batch, n)
  BY DEF OfBatch, IsMark
<1>2. n \in OfBatch({job \in ToSet(medium) : job.kind = "generate"}) <=> Waiting(tasks.batch, n)
  BY <1>1 DEF Waiting
<1>3. n \in OfBatch(testing) <=> Tested(tasks.batch, n)
  BY <1>1 DEF Tested
<1>4. \A thread : n \in OfBatch(Held(thread) \cup Found(thread)) <=> Holds(thread, tasks.batch, n)
  BY <1>1 DEF Holds
<1> DEFINE threads == {worker} \cup {light[l] : l \in LightThreads}
<1>5. n \in UNION {OfBatch(Held(thread) \cup Found(thread)) : thread \in threads}
        <=> \E thread \in threads : Holds(thread, tasks.batch, n)
  BY <1>4
<1> HIDE DEF Holds
<1>6. (\E thread \in threads : Holds(thread, tasks.batch, n))
        <=> \/ Holds(worker, tasks.batch, n)
            \/ \E l \in LightThreads : Holds(light[l], tasks.batch, n)
  OBVIOUS
<1> QED BY <1>2, <1>3, <1>5, <1>6 DEF Outstanding, Marked

\* What a thread holds.
LEMMA HoldsIs ==
  ASSUME NEW at, NEW with, NEW job, NEW b, NEW n
  PROVE  Holds([at |-> at, with |-> with, job |-> job], b, n) <=>
           \/ /\ at \in {"checking", "next", "releasing"}
              /\ \E c \in ToSet(with) : IsMark(c, b, n)
           \/ at = "releasing" /\ \E c \in ToSet(job) : IsMark(c, b, n)
BY DEF Holds, Held, Found

\* Most threads hold nothing.
LEMMA HoldsNone ==
  ASSUME NEW x, IsThread(x), x.at \notin {"checking", "next", "releasing"}, NEW b, NEW n
  PROVE  ~Holds(x, b, n)
BY HoldsIs DEF IsThread

\* The list of the medium thread.
LEMMA WaitingIs ==
  ASSUME PlaceInv, NEW b, NEW n
  PROVE  /\ UNCHANGED medium => (Waiting(b, n)' <=> Waiting(b, n))
         /\ medium' = Append(medium, Evaluate) => (Waiting(b, n)' <=> Waiting(b, n))
         /\ medium # <<>> /\ medium' = Tail(medium) =>
              (Waiting(b, n) <=>
                 Waiting(b, n)' \/ (Head(medium).kind = "generate" /\ IsMark(Head(medium), b, n)))
<1>1. IsList(medium) /\ Evaluate.kind # "generate"
  BY DEF PlaceInv, Evaluate
<1>2. ASSUME medium' = Append(medium, Evaluate)
      PROVE  Waiting(b, n)' <=> Waiting(b, n)
  <2>1. ToSet(medium') = ToSet(medium) \cup {Evaluate}
    BY <1>1, <1>2, AppendList
  <2> QED BY <1>1, <2>1 DEF Waiting
<1>3. ASSUME medium # <<>>, medium' = Tail(medium)
      PROVE  Waiting(b, n) <=>
               Waiting(b, n)' \/ (Head(medium).kind = "generate" /\ IsMark(Head(medium), b, n))
  <2>1. ToSet(medium) = {Head(medium)} \cup ToSet(medium')
    BY <1>1, <1>3, TailList
  <2> QED BY <2>1 DEF Waiting
<1> QED BY <1>2, <1>3 DEF Waiting

LEMMA WaitingJoin ==
  ASSUME PlaceInv, NEW b, NEW n, NEW q, IsList(q), \A c \in ToSet(q) : c \in Jobs,
         medium' = medium \o q
  PROVE  Waiting(b, n)' <=> Waiting(b, n) \/ \E c \in ToSet(q) : IsMark(c, b, n)
<1>1. IsList(medium) /\ \A c \in ToSet(q) : c.kind = "generate"
  BY DEF PlaceInv
<1>2. ToSet(medium') = ToSet(medium) \cup ToSet(q)
  BY <1>1, JoinList
<1> QED BY <1>1, <1>2 DEF Waiting

\* A step of one light thread, of which the others hold what they held.
LEMMA OthersHold ==
  ASSUME PlaceInv, NEW l \in LightThreads, LightStep(l), NEW b, NEW n
  PROVE  /\ (\E m \in LightThreads : Holds(light[m], b, n))
              <=> Holds(light[l], b, n) \/ \E m \in LightThreads \ {l} : Holds(light[m], b, n)
         /\ (\E m \in LightThreads : Holds(light[m], b, n))'
              <=> Holds(light'[l], b, n) \/ \E m \in LightThreads \ {l} : Holds(light[m], b, n)
<1>1. \A m \in LightThreads : m # l => light'[m] = light[m]
  BY LightEffect
<1>2. (\E m \in LightThreads : Holds(light[m], b, n))' <=> \E m \in LightThreads : Holds(light'[m], b, n)
  BY DEF Holds, Held, Found
<1> HIDE DEF Holds
<1> QED BY <1>1, <1>2
\* What a step does to the outstanding candidates: nothing, one is no longer
\* outstanding, or some are added.
MarksStay      == \A b, n : Marked(b, n)' <=> Marked(b, n)
MarkLost(c)    == \A b, n : /\ Marked(b, n)' => Marked(b, n)
                            /\ Marked(b, n) => Marked(b, n)' \/ IsMark(c, b, n)
MarksAdded(cs) == \A b, n : Marked(b, n)' <=> Marked(b, n) \/ \E c \in cs : IsMark(c, b, n)

\* Steps of the medium thread that leave the light threads alone.
LEMMA WorkerMarked ==
  ASSUME UNCHANGED light, NEW b, NEW n
  PROVE  Marked(b, n)' <=> \/ Waiting(b, n)' \/ Tested(b, n)' \/ Holds(worker', b, n)
                           \/ \E l \in LightThreads : Holds(light[l], b, n)
BY DEF Marked, Holds, Held, Found

LEMMA CandidateMarks ==
  ASSUME PlaceInv, TakeCandidate
  PROVE  IF Head(medium).batch = batchident THEN MarksStay ELSE MarkLost(Head(medium))
<1>1. WorkerInv /\ worker = [at |-> "idle", with |-> worker.with, job |-> worker.job]
      /\ UNCHANGED <<light, testing>> /\ medium # <<>> /\ medium' = Tail(medium)
      /\ Head(medium).kind = "generate"
  BY DEF PlaceInv, TakeCandidate, WorkerInv, IsThread
<1>2. PICK h : h = Head(medium)
  OBVIOUS
<1>3. ToSet(<<h>>) = {h}
  BY OneList
<1>4. ASSUME NEW b, NEW n
      PROVE  /\ ~Holds(worker, b, n) /\ (Tested(b, n)' <=> Tested(b, n))
             /\ Waiting(b, n) <=> Waiting(b, n)' \/ IsMark(h, b, n)
             /\ Holds([at |-> "checking", with |-> <<h>>, job |-> <<>>], b, n) <=> IsMark(h, b, n)
  <2>1. ~Holds(worker, b, n)
    BY <1>1, HoldsIs
  <2>2. Tested(b, n)' <=> Tested(b, n)
    BY <1>1 DEF Tested
  <2>3. Waiting(b, n) <=> Waiting(b, n)' \/ IsMark(h, b, n)
    BY <1>1, <1>2, WaitingIs
  <2>4. Holds([at |-> "checking", with |-> <<h>>, job |-> <<>>], b, n) <=> IsMark(h, b, n)
    BY <1>3, HoldsIs
  <2> QED BY <2>1, <2>2, <2>3, <2>4
<1>5. CASE h.batch = batchident
  <2>1. worker' = [at |-> "checking", with |-> <<h>>, job |-> <<>>]
    BY <1>2, <1>5 DEF TakeCandidate
  <2>2. MarksStay
    BY <1>1, <1>4, <2>1, WorkerMarked DEF MarksStay, Marked
  <2> QED BY <1>2, <1>5, <2>2
<1>6. CASE h.batch # batchident
  <2>1. worker' = worker
    BY <1>2, <1>6 DEF TakeCandidate
  <2>2. MarkLost(h)
    BY <1>1, <1>4, <2>1, WorkerMarked DEF MarkLost, Marked
  <2> QED BY <1>2, <1>6, <2>2
<1> QED BY <1>5, <1>6

LEMMA TestMarks ==
  ASSUME PlaceInv, DoTest
  PROVE  MarksStay
<1>1. /\ worker = [at |-> "checking", with |-> <<worker.with[1]>>, job |-> worker.job]
      /\ worker' = [at |-> "idle", with |-> <<>>, job |-> <<>>] /\ UNCHANGED <<light, medium>>
  BY DEF PlaceInv, DoTest, WorkerInv, IsThread, WorkerIdle
<1>2. PICK w : w = worker.with[1]
  OBVIOUS
<1>3. ToSet(<<w>>) = {w}
  BY OneList
<1>4. PICK t : t.batch = w.batch /\ t.number = w.number /\ testing' = testing \cup {t}
  <2>1. PICK u : u = [ident |-> w.batch, batch |-> w.batch, number |-> w.number, retries |-> 0,
                      input |-> w.input]
    OBVIOUS
  <2>2. testing' = testing \cup {u}
    BY <1>2, <2>1 DEF DoTest
  <2>3. u.batch = w.batch /\ u.number = w.number
    BY <2>1
  <2> QED BY <2>2, <2>3
<1> SUFFICES ASSUME NEW b, NEW n
             PROVE  Marked(b, n)' <=> Marked(b, n)
  BY DEF MarksStay
<1>5. Holds(worker, b, n) <=> IsMark(w, b, n)
  BY <1>1, <1>2, <1>3, HoldsIs
<1>6. ~Holds(worker', b, n)
  BY <1>1, HoldsIs
<1>7. Tested(b, n)' <=> Tested(b, n) \/ IsMark(w, b, n)
  BY <1>4 DEF Tested, IsMark
<1>8. Waiting(b, n)' <=> Waiting(b, n)
  BY <1>1, WaitingIs
<1> QED BY <1>1, <1>5, <1>6, <1>7, <1>8, WorkerMarked DEF Marked

LEMMA RejectMarks ==
  ASSUME PlaceInv, RejectCandidate
  PROVE  MarksAdded(ToSet(NextCandidate))
<1>1. PICK with : with = worker.with
  OBVIOUS
<1>2. /\ worker.job = <<>> /\ worker = [at |-> "checking", with |-> with, job |-> <<>>]
      /\ worker' = [at |-> "releasing", with |-> with, job |-> NextCandidate]
      /\ UNCHANGED <<light, medium, testing>>
  BY <1>1 DEF PlaceInv, RejectCandidate, WorkerInv, IsThread
<1> SUFFICES ASSUME NEW b, NEW n
             PROVE  Marked(b, n)' <=> Marked(b, n) \/ \E c \in ToSet(NextCandidate) : IsMark(c, b, n)
  BY DEF MarksAdded
<1>3. Holds(worker, b, n) <=> \E c \in ToSet(with) : IsMark(c, b, n)
  BY <1>2, HoldsIs
<1>4. Holds(worker', b, n) <=> \/ \E c \in ToSet(with) : IsMark(c, b, n)
                               \/ \E c \in ToSet(NextCandidate) : IsMark(c, b, n)
  BY <1>2, HoldsIs
<1>5. (Waiting(b, n)' <=> Waiting(b, n)) /\ (Tested(b, n)' <=> Tested(b, n))
  BY <1>2, WaitingIs DEF Tested
<1> QED BY <1>2, <1>3, <1>4, <1>5, WorkerMarked DEF Marked

LEMMA ReleaseMarks ==
  ASSUME PlaceInv, ReleaseCandidate
  PROVE  MarkLost(worker.with[1])
<1>1. PICK w : w = worker.with[1]
  OBVIOUS
<1>2. PICK job : job = worker.job
  OBVIOUS
<1>3. /\ worker = [at |-> "releasing", with |-> <<w>>, job |-> job]
      /\ worker'.at \in {"idle", "counting"} /\ UNCHANGED <<light, testing>>
      /\ worker' = [at |-> worker'.at, with |-> worker'.with, job |-> worker'.job]
      /\ medium' = medium \o job
  BY <1>1, <1>2 DEF PlaceInv, ReleaseCandidate, WorkerInv, IsThread, WorkerIdle
<1>4. ToSet(<<w>>) = {w} /\ IsList(job) /\ \A c \in ToSet(job) : c \in Jobs
  BY <1>2, OneList, Pass
<1> SUFFICES ASSUME NEW b, NEW n
             PROVE  /\ Marked(b, n)' => Marked(b, n)
                    /\ Marked(b, n) => Marked(b, n)' \/ IsMark(w, b, n)
  BY <1>1 DEF MarkLost
<1>5. Holds(worker, b, n) <=> IsMark(w, b, n) \/ \E c \in ToSet(job) : IsMark(c, b, n)
  BY <1>3, <1>4, HoldsIs
<1>6. ~Holds(worker', b, n)
  BY <1>3, HoldsIs
<1>7. Waiting(b, n)' <=> Waiting(b, n) \/ \E c \in ToSet(job) : IsMark(c, b, n)
  BY <1>3, <1>4, WaitingJoin
<1>8. Tested(b, n)' <=> Tested(b, n)
  BY <1>3 DEF Tested
<1> QED BY <1>3, <1>5, <1>6, <1>7, <1>8, WorkerMarked DEF Marked

\* The other steps of the medium thread hold nothing, before or after.
LEMMA OtherMarks ==
  ASSUME PlaceInv, UNCHANGED <<light, testing>>,
         \/ UNCHANGED medium \/ medium' = Append(medium, Evaluate)
         \/ medium # <<>> /\ Head(medium) = Evaluate /\ medium' = Tail(medium),
         \/ UNCHANGED worker
         \/ /\ worker.at \notin {"checking", "releasing", "next"} /\ IsThread(worker)'
            /\ worker'.at \notin {"checking", "releasing", "next"}
  PROVE  MarksStay
<1> SUFFICES ASSUME NEW b, NEW n
             PROVE  Marked(b, n)' <=> Marked(b, n)
  BY DEF MarksStay
<1>1. Waiting(b, n)' <=> Waiting(b, n)
  BY WaitingIs DEF Evaluate
<1>2. Tested(b, n)' <=> Tested(b, n)
  BY DEF Tested
<1>3. Holds(worker', b, n) <=> Holds(worker, b, n)
  BY HoldsIs DEF PlaceInv, WorkerInv, IsThread
<1> QED BY <1>1, <1>2, <1>3, WorkerMarked DEF Marked
LEMMA LaunchMarks ==
  ASSUME PlaceInv, LaunchBatch, testqueue # <<>>, NEW n \in 0 .. Len(testqueue),
         medium' = medium \o SubSeq(testqueue, 1, n)
  PROVE  MarksAdded(ToSet(SubSeq(testqueue, 1, n)))
<1>1. PICK q : q = SubSeq(testqueue, 1, n)
  OBVIOUS
<1>2. IsList(q) /\ \A c \in ToSet(q) : c \in Jobs
  BY <1>1, QueueCut
<1>3. /\ worker = [at |-> "launching", with |-> worker.with, job |-> worker.job]
      /\ worker' = [at |-> "idle", with |-> <<>>, job |-> <<>>]
      /\ UNCHANGED <<light, testing>> /\ medium' = medium \o q
  BY <1>1 DEF LaunchBatch, PlaceInv, WorkerInv, IsThread, WorkerIdle
<1> SUFFICES ASSUME NEW b, NEW k
             PROVE  Marked(b, k)' <=> Marked(b, k) \/ \E c \in ToSet(q) : IsMark(c, b, k)
  BY <1>1 DEF MarksAdded
<1>4. ~Holds(worker, b, k) /\ ~Holds(worker', b, k)
  <2>1. IsThread(worker) /\ worker.at \notin {"checking", "next", "releasing"}
    BY <1>3 DEF IsThread
  <2>2. IsThread(worker') /\ worker'.at \notin {"checking", "next", "releasing"}
    BY <1>3 DEF IsThread
  <2>3. ~Holds(worker, b, k)
    BY <2>1, HoldsNone
  <2>4. ~Holds(worker', b, k)
    BY <2>2, HoldsNone
  <2> QED BY <2>3, <2>4
<1>5. Waiting(b, k)' <=> Waiting(b, k) \/ \E c \in ToSet(q) : IsMark(c, b, k)
  BY <1>2, <1>3, WaitingJoin
<1>6. Tested(b, k)' <=> Tested(b, k)
  BY <1>3 DEF Tested
<1> QED BY <1>3, <1>4, <1>5, <1>6, WorkerMarked DEF Marked

\* Steps of a light thread.
LEMMA LightMarked ==
  ASSUME PlaceInv, NEW l \in LightThreads, LightStep(l), UNCHANGED worker, NEW b, NEW n
  PROVE  \E others \in BOOLEAN :
           /\ Marked(b, n) <=> \/ Waiting(b, n) \/ Tested(b, n) \/ Holds(light[l], b, n)
                               \/ others
           /\ Marked(b, n)' <=> \/ Waiting(b, n)' \/ Tested(b, n)' \/ Holds(light'[l], b, n)
                                \/ others
<1> DEFINE others == \/ Holds(worker, b, n)
                     \/ \E m \in LightThreads \ {l} : Holds(light[m], b, n)
<1>1. (Holds(worker, b, n))' <=> Holds(worker, b, n)
  BY DEF Holds, Held, Found
<1>2. Marked(b, n)' <=> \/ Waiting(b, n)' \/ Tested(b, n)' \/ Holds(worker, b, n)
                        \/ (\E m \in LightThreads : Holds(light[m], b, n))'
  BY <1>1 DEF Marked
<1>3. /\ Marked(b, n) <=> \/ Waiting(b, n) \/ Tested(b, n) \/ Holds(light[l], b, n)
                          \/ others
      /\ Marked(b, n)' <=> \/ Waiting(b, n)' \/ Tested(b, n)' \/ Holds(light'[l], b, n)
                           \/ others
  BY <1>2, OthersHold DEF Marked
<1> QED BY <1>3

LEMMA RepeatMarks ==
  ASSUME PlaceInv, NEW l \in LightThreads, NEW t \in testing, RepeatTest(l, t)
  PROVE  MarksStay
<1>1. /\ UNCHANGED <<worker, light, medium>>
      /\ testing' = (testing \ {t}) \cup {Repeated(t)}
  BY DEF RepeatTest
<1>2. Repeated(t).batch = t.batch /\ Repeated(t).number = t.number
  BY DEF Repeated
<1> SUFFICES ASSUME NEW b, NEW n
             PROVE  Marked(b, n)' <=> Marked(b, n)
  BY DEF MarksStay
<1>3. Tested(b, n)' <=> Tested(b, n)
  BY <1>1, <1>2 DEF Tested, IsMark
<1>4. Waiting(b, n)' <=> Waiting(b, n)
  BY <1>1, WaitingIs
<1> QED BY <1>1, <1>3, <1>4, WorkerMarked DEF Marked

LEMMA ResultMarks ==
  ASSUME PlaceInv, NEW l \in LightThreads, NEW t \in testing, TakeResult(l, t)
  PROVE  IF t.ident = batchident THEN MarksStay ELSE MarkLost(t)
<1>1. /\ UNCHANGED <<worker, medium>> /\ testing' = testing \ {t}
      /\ light[l] = [at |-> "idle", with |-> light[l].with, job |-> light[l].job]
  BY DEF TakeResult, PlaceInv, LightInv, IsThread
<1>2. ToSet(<<t>>) = {t} /\ LightStep(l)
  BY OneList DEF LightStep
<1>3. ASSUME NEW b, NEW n
      PROVE  /\ Waiting(b, n)' <=> Waiting(b, n)
             /\ Tested(b, n) <=> Tested(b, n)' \/ IsMark(t, b, n)
             /\ ~Holds(light[l], b, n)
  <2>1. Waiting(b, n)' <=> Waiting(b, n)
    BY <1>1, WaitingIs
  <2>2. Tested(b, n) <=> Tested(b, n)' \/ IsMark(t, b, n)
    BY <1>1 DEF Tested
  <2>3. ~Holds(light[l], b, n)
    BY <1>1, HoldsIs
  <2> QED BY <2>1, <2>2, <2>3
<1>4. CASE t.ident = batchident
  <2>1. PICK x : x = [at |-> "next", with |-> <<t>>, job |-> <<>>]
    OBVIOUS
  <2>2. light' = [light EXCEPT ![l] = x]
    BY <1>4, <2>1 DEF TakeResult
  <2>3. light'[l] = x
    BY <2>2, LightSet DEF PlaceInv
  <2> SUFFICES ASSUME NEW b, NEW n
               PROVE  Marked(b, n)' <=> Marked(b, n)
    BY <1>4 DEF MarksStay
  <2>4. Holds(light'[l], b, n) <=> IsMark(t, b, n)
    BY <1>2, <2>1, <2>3, HoldsIs
  <2> QED BY <1>1, <1>2, <1>3, <2>4, LightMarked
<1>5. CASE t.ident # batchident
  <2>1. light' = light
    BY <1>5 DEF TakeResult
  <2> SUFFICES ASSUME NEW b, NEW n
               PROVE  /\ Marked(b, n)' => Marked(b, n)
                      /\ Marked(b, n) => Marked(b, n)' \/ IsMark(t, b, n)
    BY <1>5 DEF MarkLost
  <2> QED BY <1>1, <1>3, <2>1, WorkerMarked DEF Marked
<1> QED BY <1>4, <1>5

LEMMA DropMarks ==
  ASSUME PlaceInv, NEW l \in LightThreads, DropResult(l)
  PROVE  MarkLost(light[l].with[1])
<1>1. PICK w : w = light[l].with[1]
  OBVIOUS
<1>2. /\ UNCHANGED <<worker, medium, testing>>
      /\ light[l] = [at |-> "next", with |-> <<w>>, job |-> light[l].job]
      /\ light' = [light EXCEPT ![l] = LightIdle]
  BY <1>1 DEF DropResult, PlaceInv, LightInv, IsThread
<1>3. ToSet(<<w>>) = {w} /\ LightStep(l) /\ light'[l] = LightIdle
  BY <1>2, OneList, LightSet DEF LightStep, PlaceInv
<1> SUFFICES ASSUME NEW b, NEW n
             PROVE  /\ Marked(b, n)' => Marked(b, n)
                    /\ Marked(b, n) => Marked(b, n)' \/ IsMark(w, b, n)
  BY <1>1 DEF MarkLost
<1>4. Holds(light[l], b, n) <=> IsMark(w, b, n)
  BY <1>2, <1>3, HoldsIs
<1>5. ~Holds(light'[l], b, n)
  BY <1>3, HoldsIs DEF LightIdle
<1>6. (Waiting(b, n)' <=> Waiting(b, n)) /\ (Tested(b, n)' <=> Tested(b, n))
  BY <1>2, WaitingIs DEF Tested
<1> QED BY <1>2, <1>3, <1>4, <1>5, <1>6, LightMarked

LEMMA StartMarks ==
  ASSUME PlaceInv, NEW l \in LightThreads, StartNext(l)
  PROVE  MarksAdded(ToSet(NextCandidate))
<1>1. PICK with : with = light[l].with
  OBVIOUS
<1>2. PICK x : x = [at |-> "releasing", with |-> with, job |-> NextCandidate]
  OBVIOUS
<1>3. /\ UNCHANGED <<worker, medium, testing>>
      /\ light[l] = [at |-> "next", with |-> with, job |-> light[l].job]
      /\ light' = [light EXCEPT ![l] = x]
  BY <1>1, <1>2 DEF StartNext, PlaceInv, LightInv, IsThread
<1>4. LightStep(l) /\ light'[l] = x
  BY <1>3, LightSet DEF LightStep, PlaceInv
<1> SUFFICES ASSUME NEW b, NEW n
             PROVE  Marked(b, n)' <=> Marked(b, n) \/ \E c \in ToSet(NextCandidate) : IsMark(c, b, n)
  BY DEF MarksAdded
<1>5. Holds(light[l], b, n) <=> \E c \in ToSet(with) : IsMark(c, b, n)
  BY <1>3, HoldsIs
<1>6. Holds(light'[l], b, n) <=> \/ \E c \in ToSet(with) : IsMark(c, b, n)
                                 \/ \E c \in ToSet(NextCandidate) : IsMark(c, b, n)
  BY <1>2, <1>4, HoldsIs
<1>7. (Waiting(b, n)' <=> Waiting(b, n)) /\ (Tested(b, n)' <=> Tested(b, n))
  BY <1>3, WaitingIs DEF Tested
<1> QED BY <1>3, <1>4, <1>5, <1>6, <1>7, LightMarked

LEMMA ReleaseTestMarks ==
  ASSUME PlaceInv, NEW l \in LightThreads, ReleaseTest(l)
  PROVE  MarkLost(light[l].with[1])
<1>1. PICK w : w = light[l].with[1]
  OBVIOUS
<1>2. PICK job : job = light[l].job
  OBVIOUS
<1>3. /\ UNCHANGED <<worker, testing>> /\ medium' = medium \o job
      /\ light[l] = [at |-> "releasing", with |-> <<w>>, job |-> job]
      /\ light' = [light EXCEPT ![l].at = "counting"] /\ light[l].at # "idle"
  BY <1>1, <1>2 DEF ReleaseTest, LightGoes, PlaceInv, LightInv, IsThread
<1>4. /\ ToSet(<<w>>) = {w} /\ LightStep(l)
      /\ IsList(job) /\ \A c \in ToSet(job) : c \in Jobs
  BY <1>2, OneList, Pass DEF LightStep
<1>5. light'[l] = [at |-> "counting", with |-> light[l].with, job |-> light[l].job]
  BY <1>3, LightMoves DEF TestPlaces, PlaceInv
<1> SUFFICES ASSUME NEW b, NEW n
             PROVE  /\ Marked(b, n)' => Marked(b, n)
                    /\ Marked(b, n) => Marked(b, n)' \/ IsMark(w, b, n)
  BY <1>1 DEF MarkLost
<1>6. Holds(light[l], b, n) <=> IsMark(w, b, n) \/ \E c \in ToSet(job) : IsMark(c, b, n)
  BY <1>3, <1>4, HoldsIs
<1>7. ~Holds(light'[l], b, n)
  BY <1>5, HoldsIs
<1>8. Waiting(b, n)' <=> Waiting(b, n) \/ \E c \in ToSet(job) : IsMark(c, b, n)
  BY <1>3, <1>4, WaitingJoin
<1>9. Tested(b, n)' <=> Tested(b, n)
  BY <1>3 DEF Tested
<1> QED BY <1>3, <1>4, <1>6, <1>7, <1>8, <1>9, LightMarked

\* A thread that has counted its test off holds nothing.
LEMMA CountedMarks ==
  ASSUME PlaceInv, NEW l \in LightThreads,
         EndLevel(l) \/ (\E same, scores : StoreResult(l, same, scores)) \/ StopBatch(l),
         LightStep(l)
  PROVE  MarksStay
<1>0. /\ LightInv /\ IsThread(light[l]) /\ light[l].at \in {"counting", "storing", "stopping"}
      /\ UNCHANGED <<worker, testing>>
      /\ UNCHANGED medium \/ medium' = Append(medium, Evaluate)
  BY DEF EndLevel, StoreResult, StopBatch, CallEvaluate, PlaceInv, LightInv
<1>1. /\ light'[l].at \in {"idle", "storing", "stopping"}
      /\ light'[l] = [at |-> light'[l].at, with |-> light'[l].with, job |-> light'[l].job]
  <2>1. CASE light' = [light EXCEPT ![l] = LightIdle]
    <3>1. light'[l] = LightIdle
      BY <1>0, <2>1, LightSet
    <3> QED BY <3>1 DEF LightIdle
  <2>2. ASSUME NEW at \in {"storing", "stopping"}, light' = [light EXCEPT ![l].at = at]
        PROVE  light'[l] = [at |-> at, with |-> light[l].with, job |-> light[l].job]
    BY <1>0, <2>2, LightMoves DEF TestPlaces
  <2>3. CASE EndLevel(l)
    <3>1. \/ light' = [light EXCEPT ![l] = LightIdle]
          \/ light' = [light EXCEPT ![l].at = "storing"]
      BY <2>3 DEF EndLevel, LightGoes
    <3> QED BY <2>1, <2>2, <3>1
  <2>4. ASSUME NEW same, NEW scores, StoreResult(l, same, scores)
        PROVE  \/ light' = [light EXCEPT ![l] = LightIdle]
               \/ light' = [light EXCEPT ![l].at = "stopping"]
    BY <2>4 DEF StoreResult, LightGoes
  <2>5. CASE StopBatch(l)
    BY <2>1, <2>5 DEF StopBatch
  <2> QED BY <2>1, <2>2, <2>3, <2>4, <2>5
<1> SUFFICES ASSUME NEW b, NEW n
             PROVE  Marked(b, n)' <=> Marked(b, n)
  BY DEF MarksStay
<1>2. ~Holds(light[l], b, n)
  BY <1>0, HoldsIs DEF IsThread
<1>3. ~Holds(light'[l], b, n)
  BY <1>1, HoldsIs
<1>4. (Waiting(b, n)' <=> Waiting(b, n)) /\ (Tested(b, n)' <=> Tested(b, n))
  BY <1>0, WaitingIs DEF Tested
<1> QED BY <1>0, <1>2, <1>3, <1>4, LightMarked
-----------------------------------------------------------------------------
(* The count.                                                              *)

LEMMA FiniteBatch ==
  ASSUME NEW C, IsFiniteSet(C)
  PROVE  IsFiniteSet(OfBatch(C))
<1> DEFINE D == {d \in C : d.batch = tasks.batch}
           f == [c \in D |-> c.number]
<1>1. IsFiniteSet(D)
  <2>1. D \in SUBSET C
    OBVIOUS
  <2> QED BY <2>1, FS_Subset
<1>2. DOMAIN f = D /\ OfBatch(C) = {f[c] : c \in D}
  BY DEF OfBatch
<1> HIDE DEF f, D
<1> QED BY <1>1, <1>2, FiniteImage

\* Finitely many candidates are outstanding.
LEMMA FiniteOutstanding ==
  ASSUME PlaceInv
  PROVE  IsFiniteSet(Outstanding) /\ Cardinality(Outstanding) \in Nat
<1>1. IsFiniteSet({job \in ToSet(medium) : job.kind = "generate"})
  <2>1. IsFiniteSet(ToSet(medium))
    BY FiniteList DEF PlaceInv
  <2>2. {job \in ToSet(medium) : job.kind = "generate"} \in SUBSET ToSet(medium)
    OBVIOUS
  <2> QED BY <2>1, <2>2, FS_Subset
<1>2. \A s : AtMostOne(s) => IsFiniteSet(ToSet(s))
  BY EmptyList, OneList, FiniteList DEF AtMostOne
<1>3. IsFiniteSet({})
  BY FS_EmptySet
<1>4. \A thread : AtMostOne(thread.with) /\ AtMostOne(thread.job)
                    => IsFiniteSet(OfBatch(Held(thread) \cup Found(thread)))
  <2> TAKE thread
  <2> HAVE AtMostOne(thread.with) /\ AtMostOne(thread.job)
  <2>1. IsFiniteSet(Held(thread)) /\ IsFiniteSet(Found(thread))
    BY <1>2, <1>3 DEF Held, Found
  <2>2. IsFiniteSet(Held(thread) \cup Found(thread))
    BY <2>1, FS_Union
  <2> QED BY <2>2, FiniteBatch
<1> DEFINE F == [l \in LightThreads |-> OfBatch(Held(light[l]) \cup Found(light[l]))]
           lights == {F[l] : l \in DOMAIN F}
           W == OfBatch(Held(worker) \cup Found(worker))
<1>5. IsFiniteSet(lights) /\ \A T \in lights : IsFiniteSet(T)
  <2>1. DOMAIN F = LightThreads /\ IsFiniteSet(LightThreads)
    BY DeltaAssumption
  <2>2. \A l \in LightThreads : IsFiniteSet(F[l])
    BY <1>4 DEF PlaceInv, LightInv
  <2> HIDE DEF F
  <2> QED BY <2>1, <2>2, FiniteImage
<1>6. IsFiniteSet(W)
  BY <1>4 DEF PlaceInv, WorkerInv
<1>7. IsFiniteSet(UNION lights)
  <2> HIDE DEF lights
  <2> QED BY <1>5, FS_UNION
<1>8. UNION {OfBatch(Held(thread) \cup Found(thread)) : thread \in {worker} \cup {light[l] : l \in LightThreads}}
        = W \cup UNION lights
  OBVIOUS
<1> DEFINE A == OfBatch({job \in ToSet(medium) : job.kind = "generate"})
           B == OfBatch(testing)
<1>9. IsFiniteSet(A) /\ IsFiniteSet(B)
  BY <1>1, FiniteBatch DEF PlaceInv
<1>10. Outstanding = (A \cup B) \cup (W \cup UNION lights)
  BY <1>8 DEF Outstanding
<1> HIDE DEF A, B, W, lights
<1>11. IsFiniteSet(Outstanding)
  BY <1>6, <1>7, <1>9, <1>10, FS_Union
<1> QED BY <1>11, FS_CardinalityType

\* One more, or one less.
LEMMA OneLess ==
  ASSUME NEW S, IsFiniteSet(S), NEW T, IsFiniteSet(T), NEW x, S \ {x} \subseteq T
  PROVE  Cardinality(S) - 1 <= Cardinality(T)
<1>1. Cardinality(S) \in Nat /\ Cardinality(T) \in Nat
  BY FS_CardinalityType
<1>2. PICK U : U = S \ {x}
  OBVIOUS
<1>3. IsFiniteSet(U) /\ Cardinality(S) - 1 <= Cardinality(U) /\ Cardinality(U) \in Nat
  <2>1. IsFiniteSet(U) /\ Cardinality(U) = IF x \in S THEN Cardinality(S) - 1 ELSE Cardinality(S)
    BY <1>2, FS_RemoveElement
  <2>2. Cardinality(U) \in Nat
    BY <2>1, FS_CardinalityType
  <2> QED BY <1>1, <2>1, <2>2
<1>4. U \in SUBSET T
  BY <1>2
<1>5. Cardinality(U) <= Cardinality(T)
  BY <1>4, FS_Subset
<1> QED BY <1>1, <1>3, <1>5

LEMMA OneMore ==
  ASSUME NEW S, IsFiniteSet(S), NEW T, IsFiniteSet(T), NEW x, x \notin S, S \cup {x} \subseteq T
  PROVE  Cardinality(S) + 1 <= Cardinality(T)
<1>1. Cardinality(S \cup {x}) = Cardinality(S) + 1
  BY FS_AddElement
<1>2. S \cup {x} \in SUBSET T
  OBVIOUS
<1>3. Cardinality(S \cup {x}) <= Cardinality(T)
  BY <1>2, FS_Subset
<1> QED BY <1>1, <1>3

\* A set that holds n different numbers has n members.
LEMMA AtLeast ==
  ASSUME NEW T, IsFiniteSet(T), NEW n \in Nat, NEW f,
         \A i \in 1 .. n : f[i] \in T, \A i, j \in 1 .. n : f[i] = f[j] => i = j
  PROVE  n <= Cardinality(T)
<1> DEFINE g == [i \in 1 .. n |-> f[i]]
<1>1. g \in [1 .. n -> T] /\ \A i, j \in 1 .. n : g[i] = g[j] => i = j
  OBVIOUS
<1> HIDE DEF g
<1>2. g \in Injection(1 .. n, T)
  BY <1>1 DEF Injection, IsInjective
<1>3. Cardinality(1 .. n) = n
  BY FS_Interval
<1> QED BY <1>2, <1>3, FS_Injection

\* The number of a candidate is that of one outstanding, or of one in the queue.
LEMMA MarkPlaces ==
  ASSUME NEW b, NEW n, Marked(b, n)
  PROVE  \E c \in Jobs \cup Tests : IsMark(c, b, n)
<1>1. ASSUME Waiting(b, n)
      PROVE  \E c \in Jobs : IsMark(c, b, n)
  BY <1>1 DEF Waiting, Jobs
<1>2. ASSUME Tested(b, n)
      PROVE  \E c \in Tests : IsMark(c, b, n)
  BY <1>2 DEF Tested, Tests
<1>3. ASSUME Holds(worker, b, n)
      PROVE  \E c \in Jobs : IsMark(c, b, n)
  BY <1>3 DEF Holds, Held, Found, Jobs
<1>4. ASSUME NEW l \in LightThreads, Holds(light[l], b, n)
      PROVE  \E c \in Jobs \cup Tests : IsMark(c, b, n)
  <2>1. PICK c \in Held(light[l]) \cup Found(light[l]) : IsMark(c, b, n)
    BY <1>4 DEF Holds
  <2>2. c \in ToSet(light[l].with) \/ c \in ToSet(light[l].job)
    BY <2>1 DEF Held, Found
  <2> QED BY <2>1, <2>2 DEF Jobs, Tests
<1> QED BY <1>1, <1>2, <1>3, <1>4 DEF Marked

\* Tests are of the current batch or of closed ones.
LEMMA TestBatchStays ==
  PlaceInv /\ BatchInv /\ EndInv /\ TestBatchInv /\ [Next]_vars => TestBatchInv'
<1> SUFFICES ASSUME PlaceInv, BatchInv, EndInv, TestBatchInv, [Next]_vars
             PROVE  TestBatchInv'
  OBVIOUS
<1>0. WorkerInv /\ batchident \in Nat
  BY DEF PlaceInv
<1>1. CASE CloseBatch
  <2>1. batchident' = batchident + 1 /\ ~DoTest
    BY <1>1 DEF CloseBatch, DoTest
  <2>2. \A t \in Tests' : \E u \in Tests : t.batch = u.batch
    BY <2>1, TestsStep
  <2> QED BY <1>0, <2>1, <2>2 DEF TestBatchInv
<1>2. CASE ~CloseBatch
  <2>1. batchident' = batchident
    BY <1>2, NextBatch
  <2>2. Between' => Between
    BY <1>0, <1>2, WorkerMoves DEF Between, ResetLevel
  <2>3. DoTest => worker.with[1].batch = batchident /\ ~Between
    BY DEF DoTest, BatchInv, Between, EndInv
  <2>4. ASSUME NEW t \in Tests'
        PROVE  t.batch \in Nat /\ t.batch <= batchident /\ (Between' => t.batch < batchident)
    <3>1. CASE \E u \in Tests : t.batch = u.batch
      BY <2>2, <3>1 DEF TestBatchInv
    <3>2. CASE DoTest /\ t.batch = worker.with[1].batch
      BY <1>0, <2>2, <2>3, <3>2
    <3> QED BY <3>1, <3>2, TestsStep
  <2> QED BY <2>1, <2>4 DEF TestBatchInv
<1> QED BY <1>1, <1>2
\* What is known of the candidates outstanding holds after a step as well.
LEMMA FiniteNext ==
  (PlaceInv => IsFiniteSet(Outstanding) /\ Cardinality(Outstanding) \in Nat)'
<1>1. PlaceInv => IsFiniteSet(Outstanding) /\ Cardinality(Outstanding) \in Nat
  BY FiniteOutstanding
<1> QED BY <1>1, PTL

LEMMA OutstandingNext ==
  (\A n : n \in Outstanding <=> Marked(tasks.batch, n))'
BY OutstandingIs, PTL

LEMMA OutstandingStep ==
  ASSUME tasks'.batch = tasks.batch
  PROVE  /\ MarksStay => Outstanding' = Outstanding
         /\ \A c : MarkLost(c) =>
              /\ Outstanding' \subseteq Outstanding
              /\ Outstanding \ {c.number} \subseteq Outstanding'
              /\ c.batch # tasks.batch => Outstanding' = Outstanding
         /\ \A cs : MarksAdded(cs) =>
              \A n : n \in Outstanding' <=>
                n \in Outstanding \/ \E c \in cs : c.batch = tasks.batch /\ c.number = n
<1>1. \A n : n \in Outstanding' <=> Marked(tasks.batch, n)'
  BY OutstandingNext
<1>2. \A n : n \in Outstanding <=> Marked(tasks.batch, n)
  BY OutstandingIs
<1>3. ASSUME MarksStay PROVE Outstanding' = Outstanding
  <2>1. \A n : Marked(tasks.batch, n)' <=> Marked(tasks.batch, n)
    BY <1>3 DEF MarksStay
  <2> QED BY <1>1, <1>2, <2>1
<1>4. ASSUME NEW c, MarkLost(c)
      PROVE  /\ Outstanding' \subseteq Outstanding
             /\ Outstanding \ {c.number} \subseteq Outstanding'
             /\ c.batch # tasks.batch => Outstanding' = Outstanding
  <2>1. \A n : /\ Marked(tasks.batch, n)' => Marked(tasks.batch, n)
               /\ Marked(tasks.batch, n) => Marked(tasks.batch, n)' \/ IsMark(c, tasks.batch, n)
    BY <1>4 DEF MarkLost
  <2> QED BY <1>1, <1>2, <2>1 DEF IsMark
<1>5. ASSUME NEW cs, MarksAdded(cs)
      PROVE  \A n : n \in Outstanding' <=>
               n \in Outstanding \/ \E c \in cs : c.batch = tasks.batch /\ c.number = n
  <2>1. \A n : Marked(tasks.batch, n)' <=>
                 Marked(tasks.batch, n) \/ \E c \in cs : IsMark(c, tasks.batch, n)
    BY <1>5 DEF MarksAdded
  <2> QED BY <1>1, <1>2, <2>1 DEF IsMark
<1> QED BY <1>3, <1>4, <1>5

\* Where the medium thread fills the queue or launches the batch, it was there
\* before, unless it is just that step.
StaysAway == worker'.at \in {"filling", "launching"} => worker'.at = worker.at

\* A step that counts nothing.
LEMMA SameCount ==
  ASSUME PlaceInv, CountInv, MarksStay, tasks'.batch = tasks.batch, tasks'.count = tasks.count,
         testqueue' = testqueue \/ testqueue' = <<>>, StaysAway,
         \/ batchident' = batchident
         \/ batchident' = batchident + 1 /\ worker'.at \notin {"filling", "launching"}
  PROVE  CountInv'
<1>1. Outstanding' = Outstanding /\ batchident \in Nat
  BY OutstandingStep DEF PlaceInv
<1>2. ToSet(<<>>) = {} /\ DOMAIN <<>> = {}
  BY EmptyList
<1>3. tasks'.count \in Int /\ tasks'.batch \in Nat /\ tasks'.batch <= batchident'
  BY <1>1 DEF CountInv
<1>4. tasks'.batch = batchident' => batchident' = batchident /\ tasks.batch = batchident
  BY <1>1 DEF CountInv
<1>5. worker'.at \in {"filling", "launching"} => tasks'.batch = batchident'
  BY DEF CountInv, StaysAway
<1>6. worker'.at = "filling" => testqueue' = <<>> /\ tasks'.count <= 0
  BY DEF CountInv, StaysAway
<1>7. \A c \in ToSet(testqueue') : c \in ToSet(testqueue)
  BY <1>2
<1>8. \A i, j \in DOMAIN testqueue' : testqueue'[i].number = testqueue'[j].number => i = j
  BY <1>2 DEF CountInv
<1>9. tasks'.batch = batchident' =>
        /\ \A c \in ToSet(testqueue') : c.batch = batchident' /\ c.number \notin Outstanding'
        /\ tasks'.count <= Cardinality(Outstanding')
  BY <1>1, <1>4, <1>7 DEF CountInv
<1> QED BY <1>3, <1>5, <1>6, <1>8, <1>9 DEF CountInv

\* A step that counts a candidate off.
LEMMA LessCount ==
  ASSUME PlaceInv, PlaceInv', CountInv, NEW c, MarkLost(c),
         Uncount(c.batch) \/ (UNCHANGED tasks /\ c.batch # batchident),
         UNCHANGED <<testqueue, batchident>>, StaysAway
  PROVE  CountInv'
<1>0. IsCount(tasks)
  BY DEF PlaceInv
<1>1. /\ tasks'.batch = tasks.batch /\ tasks'.count \in Int /\ tasks'.count <= tasks.count
      /\ tasks.batch = batchident /\ c.batch = tasks.batch => tasks'.count <= tasks.count - 1
  <2>1. CASE Uncount(c.batch)
    <3>1. /\ tasks'.batch = tasks.batch
          /\ tasks'.count = IF tasks.batch = c.batch THEN tasks.count + (-1) ELSE tasks.count
      BY <1>0, <2>1, UncountFacts
    <3> QED BY <3>1 DEF CountInv
  <2>2. CASE UNCHANGED tasks /\ c.batch # batchident
    BY <2>2 DEF CountInv
  <2> QED BY <2>1, <2>2
<1>2. /\ Outstanding' \subseteq Outstanding
      /\ Outstanding \ {c.number} \subseteq Outstanding'
      /\ c.batch # tasks.batch => Outstanding' = Outstanding
  BY <1>1, OutstandingStep
<1>3. /\ IsFiniteSet(Outstanding) /\ IsFiniteSet(Outstanding')
      /\ Cardinality(Outstanding) \in Nat /\ Cardinality(Outstanding') \in Nat
  BY FiniteOutstanding, FiniteNext
<1>4. Cardinality(Outstanding) - 1 <= Cardinality(Outstanding')
  BY <1>2, <1>3, OneLess
<1>5. tasks'.batch = batchident' => tasks'.count <= Cardinality(Outstanding')
  <2> SUFFICES ASSUME tasks'.batch = batchident'
               PROVE  tasks'.count <= Cardinality(Outstanding')
    OBVIOUS
  <2>1. tasks.batch = batchident /\ tasks.count \in Int /\ tasks.count <= Cardinality(Outstanding)
    BY <1>1 DEF CountInv
  <2>2. CASE c.batch = tasks.batch
    <3>1. tasks'.count <= tasks.count - 1
      BY <1>1, <2>1, <2>2
    <3> QED BY <1>1, <1>3, <1>4, <2>1, <3>1
  <2>3. CASE c.batch # tasks.batch
    BY <1>1, <1>2, <1>3, <2>1, <2>3
  <2> QED BY <2>2, <2>3
<1>6. /\ tasks'.batch \in Nat /\ tasks'.batch <= batchident'
      /\ worker'.at \in {"filling", "launching"} => tasks'.batch = batchident'
  BY <1>1 DEF CountInv, StaysAway
<1>7. worker'.at = "filling" => testqueue' = <<>> /\ tasks'.count <= 0
  <2> SUFFICES ASSUME worker'.at = "filling"
               PROVE  testqueue' = <<>> /\ tasks'.count <= 0
    OBVIOUS
  <2>1. testqueue = <<>> /\ tasks.count <= 0 /\ tasks.count \in Int
    BY DEF CountInv, StaysAway
  <2> QED BY <1>1, <2>1
<1>8. tasks'.batch = batchident' =>
        \A d \in ToSet(testqueue') : d.batch = batchident' /\ d.number \notin Outstanding'
  BY <1>1, <1>2 DEF CountInv
<1>9. \A i, j \in DOMAIN testqueue' : testqueue'[i].number = testqueue'[j].number => i = j
  BY DEF CountInv
<1> QED BY <1>1, <1>5, <1>6, <1>7, <1>8, <1>9 DEF CountInv

\* A step that takes the next candidate from the queue, if there is one.
LEMMA MoreCount ==
  ASSUME PlaceInv, PlaceInv', CountInv, TakeNext, MarksAdded(ToSet(NextCandidate)),
         UNCHANGED batchident, StaysAway
  PROVE  CountInv'
<1>0. IsCount(tasks) /\ IsList(testqueue)
  BY DEF PlaceInv
<1>1. tasks'.batch = tasks.batch /\ tasks'.count = tasks.count + Len(NextCandidate)
  BY <1>0 DEF TakeNext, Counted, IsCount
<1>2. CASE testqueue = <<>>
  <2>1. NextCandidate = <<>> /\ testqueue' = testqueue
    BY <1>0, <1>2, NextFacts DEF TakeNext
  <2>2. ToSet(NextCandidate) = {} /\ Len(NextCandidate) = 0
    BY <2>1, EmptyList
  <2>3. MarksStay
    BY <2>2 DEF MarksAdded, MarksStay
  <2>4. tasks'.count = tasks.count
    BY <1>1, <2>2 DEF CountInv
  <2> QED BY <1>1, <2>1, <2>3, <2>4, SameCount
<1>3. CASE testqueue # <<>>
  <2>1. PICK h : h = testqueue[1]
    OBVIOUS
  <2>2. NextCandidate = <<h>>
    BY <1>0, <1>3, <2>1, NextFacts
  <2>3. ToSet(NextCandidate) = {h} /\ Len(NextCandidate) = 1
    BY <2>2, OneList
  <2>4. tasks'.count = tasks.count + 1 /\ tasks.count \in Int
    BY <1>1, <2>3 DEF CountInv
  <2>5. \A n : n \in Outstanding' <=> n \in Outstanding \/ (h.batch = tasks.batch /\ h.number = n)
    BY <1>1, <2>3, OutstandingStep
  <2>6. /\ Len(testqueue) \in Nat \ {0} /\ DOMAIN testqueue = 1 .. Len(testqueue)
        /\ \A i \in 1 .. Len(testqueue) : testqueue[i] \in ToSet(testqueue)
    BY <1>0, <1>3, ListOf DEF IsList
  <2>7. PICK q : q = testqueue'
    OBVIOUS
  <2>8. IsList(q) /\ Len(q) = Len(testqueue) - 1 /\ \A i \in 1 .. Len(q) : q[i] = testqueue[i + 1]
    <3>1. q = SubSeq(testqueue, 1 + 1, Len(testqueue)) /\ 1 \in 0 .. Len(testqueue)
      BY <2>6, <2>7 DEF TakeNext
    <3>2. /\ IsList(SubSeq(testqueue, 1 + 1, Len(testqueue)))
          /\ Len(SubSeq(testqueue, 1 + 1, Len(testqueue))) = Len(testqueue) - 1
          /\ \A i \in 1 .. Len(testqueue) - 1 :
               SubSeq(testqueue, 1 + 1, Len(testqueue))[i] = testqueue[1 + i]
      BY <1>0, <3>1, CutList
    <3>3. \A i \in 1 .. Len(testqueue) - 1 : 1 + i = i + 1
      BY <2>6
    <3> QED BY <3>1, <3>2, <3>3
  <2>9. /\ DOMAIN q = 1 .. Len(q)
        /\ \A c \in ToSet(q) : \E i \in 1 .. Len(q) : q[i] = c
    BY <2>8, ListOf DEF IsList
  <2>10. \A i \in 1 .. Len(q) : i + 1 \in 1 .. Len(testqueue) /\ i + 1 # 1
    BY <2>6, <2>8
  <2>11. \A i, j \in DOMAIN q : q[i].number = q[j].number => i = j
    <3> TAKE i, j \in DOMAIN q
    <3> HAVE q[i].number = q[j].number
    <3>1. i + 1 \in DOMAIN testqueue /\ j + 1 \in DOMAIN testqueue
          /\ testqueue[i + 1].number = testqueue[j + 1].number
      BY <2>6, <2>8, <2>9, <2>10
    <3>2. i + 1 = j + 1
      BY <3>1 DEF CountInv
    <3>3. i \in Int /\ j \in Int
      BY <2>9
    <3> QED BY <3>2, <3>3
  <2>12. \A c \in ToSet(q) : c \in ToSet(testqueue) /\ c.number # h.number
    <3> TAKE c \in ToSet(q)
    <3>1. PICK i \in 1 .. Len(q) : q[i] = c
      BY <2>9
    <3>2. i + 1 \in DOMAIN testqueue /\ i + 1 # 1 /\ c = testqueue[i + 1] /\ 1 \in DOMAIN testqueue
      BY <2>6, <2>8, <2>10, <3>1
    <3> QED BY <2>1, <2>6, <3>2 DEF CountInv
  <2>13. /\ tasks'.batch \in Nat /\ tasks'.batch <= batchident' /\ tasks'.count \in Int
         /\ worker'.at \in {"filling", "launching"} => tasks'.batch = batchident'
    BY <1>1, <2>4 DEF CountInv, StaysAway
  <2>14. worker'.at # "filling"
    BY <1>3 DEF CountInv, StaysAway
  <2>15. ASSUME tasks'.batch = batchident'
         PROVE  /\ \A c \in ToSet(q) : c.batch = batchident' /\ c.number \notin Outstanding'
                /\ tasks'.count <= Cardinality(Outstanding')
    <3>1. tasks.batch = batchident /\ h \in ToSet(testqueue)
      BY <1>1, <2>1, <2>6, <2>15
    <3>2. h.batch = tasks.batch /\ h.number \notin Outstanding
      BY <3>1 DEF CountInv
    <3>3. /\ IsFiniteSet(Outstanding) /\ IsFiniteSet(Outstanding')
          /\ Cardinality(Outstanding) \in Nat /\ Cardinality(Outstanding') \in Nat
      BY FiniteOutstanding, FiniteNext
    <3>4. Outstanding \cup {h.number} \subseteq Outstanding'
      BY <2>5, <3>2
    <3>5. Cardinality(Outstanding) + 1 <= Cardinality(Outstanding')
      BY <3>2, <3>3, <3>4, OneMore
    <3>6. tasks.count <= Cardinality(Outstanding)
      BY <3>1 DEF CountInv
    <3>7. tasks'.count <= Cardinality(Outstanding')
      BY <2>4, <3>3, <3>5, <3>6
    <3>8. \A c \in ToSet(q) : c.batch = batchident' /\ c.number \notin Outstanding'
      BY <2>5, <2>12, <3>1 DEF CountInv
    <3> QED BY <3>7, <3>8
  <2> QED BY <2>7, <2>11, <2>13, <2>14, <2>15 DEF CountInv
<1> QED BY <1>2, <1>3
\* A new level starts from zero, with an empty queue.
LEMMA ResetCount ==
  ASSUME PlaceInv, PlaceInv', ResetLevel
  PROVE  CountInv'
<1>1. /\ tasks'.batch = batchident' /\ tasks'.count = 0 /\ testqueue' = <<>>
      /\ worker'.at = "filling" /\ batchident' \in Nat
  BY DEF ResetLevel, PlaceInv, WorkerInv, IsThread
<1>2. Cardinality(Outstanding') \in Nat
  BY FiniteNext
<1>3. ToSet(<<>>) = {} /\ DOMAIN <<>> = {}
  BY EmptyList
<1> QED BY <1>1, <1>2, <1>3 DEF CountInv

\* When the queue is filled, no candidate of the batch is outstanding.
LEMMA FillCount ==
  ASSUME PlaceInv, PlaceInv', LevelInv, BatchInv, TestBatchInv, CountInv, FillQueue
  PROVE  CountInv'
<1>1. /\ worker.at = "filling" /\ worker'.at = "launching" /\ testqueue = <<>>
      /\ UNCHANGED <<medium, testing, light, tasks, batchident>>
      /\ tasks.batch = batchident /\ tasks.count \in Int /\ tasks.count <= 0
      /\ batchident \in Nat
  <2>1. worker.at = "filling"
    BY DEF FillQueue
  <2> QED BY <2>1, FillFacts DEF CountInv, PlaceInv
<1>2. /\ IsList(testqueue')
      /\ \A i \in DOMAIN testqueue' : testqueue'[i].number = i /\ testqueue'[i].batch = batchident
  BY <1>1, FillFacts
<1>3. \A c \in ToSet(testqueue') : c.batch = batchident
  BY <1>2 DEF ToSet
<1>4. \A n : n \notin Outstanding
  <2> SUFFICES ASSUME NEW n, n \in Outstanding
               PROVE  FALSE
    OBVIOUS
  <2>1. Marked(batchident, n)
    BY <1>1, OutstandingIs
  <2>2. PICK c \in Jobs \cup Tests : c.batch = batchident
    BY <2>1, MarkPlaces DEF IsMark
  <2>3. c.batch < batchident
    BY <1>1, <2>2 DEF BatchInv, TestBatchInv, Between
  <2> QED BY <1>1, <2>2, <2>3
<1>5. MarksStay
  <2>1. worker.at \notin {"checking", "releasing", "next"}
        /\ worker'.at \notin {"checking", "releasing", "next"}
    BY <1>1
  <2>2. IsThread(worker)'
    BY DEF PlaceInv, WorkerInv
  <2> QED BY <1>1, <2>1, <2>2, OtherMarks
<1>6. Outstanding' = Outstanding
  BY <1>1, <1>5, OutstandingStep
<1>7. Cardinality(Outstanding') \in Nat
  BY FiniteNext
<1> QED BY <1>1, <1>2, <1>3, <1>4, <1>6, <1>7 DEF CountInv

\* The launched part of the queue becomes outstanding, and its size the count.
LEMMA LaunchCount ==
  ASSUME PlaceInv, PlaceInv', LevelInv, CountInv, LaunchBatch
  PROVE  CountInv'
<1>0. /\ worker.at = "launching" /\ worker' = [at |-> "idle", with |-> <<>>, job |-> <<>>]
      /\ UNCHANGED <<light, testing, batchident>>
      /\ tasks.batch = batchident /\ batchident \in Nat /\ IsCount(tasks)
      /\ IsList(testqueue)
  BY DEF LaunchBatch, WorkerIdle, CountInv, PlaceInv
<1>1. PICK n \in 0 .. Len(testqueue) :
        /\ testqueue' = SubSeq(testqueue, n + 1, Len(testqueue))
        /\ IF testqueue = <<>> THEN medium' = Append(medium, Evaluate) /\ UNCHANGED tasks
           ELSE /\ medium' = medium \o SubSeq(testqueue, 1, n)
                /\ tasks' = [tasks EXCEPT !.count = n]
  <2>1. Len(testqueue) \in Nat /\ params.batchprocessing \in Nat
    BY <1>0, ListOf, ParamsFacts DEF IsList, LevelInv
  <2>2. PICK n : n = IF params.batchprocessing = 0 THEN Len(testqueue)
                     ELSE Minimum(params.batchprocessing, Len(testqueue))
    OBVIOUS
  <2>3. n \in 0 .. Len(testqueue)
    BY <2>1, <2>2 DEF Minimum
  <2>4. /\ testqueue' = SubSeq(testqueue, n + 1, Len(testqueue))
        /\ IF testqueue = <<>> THEN CallEvaluate /\ UNCHANGED tasks
           ELSE /\ medium' = medium \o SubSeq(testqueue, 1, n)
                /\ tasks' = [tasks EXCEPT !.count = n]
    BY <2>2 DEF LaunchBatch
  <2> QED BY <2>3, <2>4 DEF CallEvaluate
<1>2. CASE testqueue = <<>>
  <2>1. testqueue' = <<>>
    <3>1. Len(testqueue) = 0 /\ n = 0
      BY <1>2, EmptyList
    <3>2. SubSeq(testqueue, 1, 0) = <<>>
      BY <1>2
    <3> QED BY <1>1, <1>2, <3>1, <3>2
  <2>2. MarksStay
    <3>1. /\ worker.at \notin {"checking", "releasing", "next"} /\ IsThread(worker)'
          /\ worker'.at \notin {"checking", "releasing", "next"}
      BY <1>0 DEF IsThread
    <3> QED BY <1>0, <1>1, <1>2, <3>1, OtherMarks
  <2>3. StaysAway
    BY <1>0 DEF StaysAway
  <2> QED BY <1>0, <1>1, <1>2, <2>1, <2>2, <2>3, SameCount
<1>3. CASE testqueue # <<>>
  <2>1. PICK q : q = testqueue'
    OBVIOUS
  <2>2. PICK r : r = SubSeq(testqueue, 1, n)
    OBVIOUS
  <2>3. /\ Len(testqueue) \in Nat /\ DOMAIN testqueue = 1 .. Len(testqueue) /\ n \in Nat
        /\ \A i \in 1 .. Len(testqueue) : testqueue[i] \in ToSet(testqueue)
    BY <1>0, ListOf DEF IsList
  <2>4. /\ IsList(r) /\ DOMAIN r = 1 .. n /\ \A i \in 1 .. n : r[i] = testqueue[i] /\ r[i] \in ToSet(r)
        /\ \A c \in ToSet(r) : \E i \in 1 .. n : r[i] = c
    <3>1. IsList(r) /\ Len(r) = n /\ \A i \in 1 .. n : r[i] = testqueue[i]
      BY <1>0, <1>1, <2>2, CutList
    <3> QED BY <3>1, ListOf DEF IsList
  <2>5. /\ DOMAIN q = 1 .. Len(testqueue) - n
        /\ \A i \in 1 .. Len(testqueue) - n : q[i] = testqueue[n + i]
        /\ \A c \in ToSet(q) : \E i \in 1 .. Len(testqueue) - n : q[i] = c
    <3>1. /\ IsList(q) /\ Len(q) = Len(testqueue) - n
          /\ \A i \in 1 .. Len(testqueue) - n : q[i] = testqueue[n + i]
      BY <1>0, <1>1, <2>1, CutList
    <3> QED BY <3>1, ListOf DEF IsList
  <2>6. tasks'.batch = batchident /\ tasks'.count = n
    <3>1. tasks' = [tasks EXCEPT !.count = n]
      BY <1>1, <1>3
    <3> QED BY <1>0, <3>1 DEF IsCount
  <2>7. \A k : k \in Outstanding' <=>
          k \in Outstanding \/ \E c \in ToSet(r) : c.batch = batchident /\ c.number = k
    <3>1. medium' = medium \o SubSeq(testqueue, 1, n)
      BY <1>1, <1>3
    <3>2. MarksAdded(ToSet(r))
      BY <1>3, <2>2, <3>1, LaunchMarks
    <3> QED BY <1>0, <2>6, <3>2, OutstandingStep
  <2>8. /\ \A c \in ToSet(testqueue) : c.batch = batchident /\ c.number \notin Outstanding
        /\ \A i, j \in 1 .. Len(testqueue) : testqueue[i].number = testqueue[j].number => i = j
    BY <1>0, <2>3 DEF CountInv
  <2>9. \A i \in 1 .. Len(testqueue) - n : n + i \in 1 .. Len(testqueue) /\ n + i \notin 1 .. n
    BY <2>3
  <2>10. \A i \in 1 .. n : i \in 1 .. Len(testqueue)
    BY <2>3
  <2>11. n <= Cardinality(Outstanding')
    <3>1. IsFiniteSet(Outstanding')
      BY FiniteNext
    <3> DEFINE f == [i \in 1 .. n |-> testqueue[i].number]
    <3>2. \A i \in 1 .. n : f[i] = testqueue[i].number /\ f[i] \in Outstanding'
      <4> TAKE i \in 1 .. n
      <4>1. r[i] = testqueue[i] /\ r[i] \in ToSet(r) /\ testqueue[i] \in ToSet(testqueue)
        BY <2>3, <2>4, <2>10
      <4>2. testqueue[i].batch = batchident
        BY <2>8, <4>1
      <4>3. testqueue[i].number \in Outstanding'
        BY <2>7, <4>1, <4>2
      <4> QED BY <4>3
    <3> HIDE DEF f
    <3>3. \A i, j \in 1 .. n : f[i] = f[j] => i = j
      BY <2>8, <2>10, <3>2
    <3> QED BY <2>3, <3>1, <3>2, <3>3, AtLeast
  <2>12. \A c \in ToSet(q) : c.batch = batchident /\ c.number \notin Outstanding'
    <3> TAKE c \in ToSet(q)
    <3>1. PICK i \in 1 .. Len(testqueue) - n : q[i] = c
      BY <2>5
    <3>2. c = testqueue[n + i] /\ n + i \in 1 .. Len(testqueue)
      BY <2>5, <2>9, <3>1
    <3>3. c.batch = batchident /\ c.number \notin Outstanding
      BY <2>3, <2>8, <3>2
    <3>4. \A d \in ToSet(r) : d.number # c.number
      <4> TAKE d \in ToSet(r)
      <4>1. PICK j \in 1 .. n : r[j] = d
        BY <2>4
      <4>2. d = testqueue[j] /\ j \in 1 .. Len(testqueue) /\ j # n + i
        BY <2>4, <2>9, <2>10, <4>1
      <4> QED BY <2>8, <3>2, <4>2
    <3> QED BY <2>7, <3>3, <3>4
  <2>13. \A i, j \in DOMAIN q : q[i].number = q[j].number => i = j
    <3> TAKE i, j \in DOMAIN q
    <3> HAVE q[i].number = q[j].number
    <3>1. /\ testqueue[n + i].number = testqueue[n + j].number
          /\ n + i \in 1 .. Len(testqueue) /\ n + j \in 1 .. Len(testqueue)
      BY <2>5, <2>9
    <3>2. n + i = n + j
      BY <2>8, <3>1
    <3>3. i \in Int /\ j \in Int
      BY <2>3, <2>5
    <3> QED BY <2>3, <3>2, <3>3
  <2>14. worker'.at = "idle" /\ n \in Int
    BY <1>0, <2>3
  <2> QED BY <1>0, <2>1, <2>6, <2>11, <2>12, <2>13, <2>14 DEF CountInv
<1> QED BY <1>2, <1>3
\* The medium thread.
LEMMA WorkerCounts ==
  ASSUME PlaceInv, PlaceInv', LevelInv, BatchInv, TestBatchInv, CountInv, Worker
  PROVE  CountInv'
<1>0. WorkerInv /\ IsCount(tasks) /\ batchident \in Nat
  BY DEF PlaceInv
<1>1. CASE TakeCandidate
  <2>1. /\ UNCHANGED <<tasks, testqueue, batchident>>
        /\ worker' = worker \/ worker' = [at |-> "checking", with |-> <<Head(medium)>>, job |-> <<>>]
    BY <1>1 DEF TakeCandidate, batchVars
  <2>2. StaysAway
    BY <2>1 DEF StaysAway
  <2>3. CASE Head(medium).batch = batchident
    <3>1. MarksStay
      BY <1>1, <2>3, CandidateMarks
    <3> QED BY <2>1, <2>2, <3>1, SameCount
  <2>4. CASE Head(medium).batch # batchident
    <3>1. MarkLost(Head(medium))
      BY <1>1, <2>4, CandidateMarks
    <3> QED BY <2>1, <2>2, <2>4, <3>1, LessCount
  <2> QED BY <2>3, <2>4
<1>2. CASE DoTest
  <2>1. UNCHANGED <<tasks, testqueue, batchident>> /\ StaysAway
    BY <1>2 DEF DoTest, batchVars, StaysAway, WorkerIdle
  <2> QED BY <1>2, <2>1, TestMarks, SameCount
<1>3. CASE RejectCandidate
  <2>1. worker' = [at |-> "releasing", with |-> worker.with, job |-> NextCandidate]
    BY <1>0, <1>3 DEF RejectCandidate, WorkerInv, IsThread
  <2>2. TakeNext /\ UNCHANGED batchident /\ StaysAway
    BY <1>3, <2>1 DEF RejectCandidate, StaysAway
  <2>3. MarksAdded(ToSet(NextCandidate))
    BY <1>3, RejectMarks
  <2> QED BY <2>2, <2>3, MoreCount
<1>4. CASE ReleaseCandidate
  <2>1. worker' = WorkerIdle \/ worker' = [at |-> "counting", with |-> worker.with, job |-> worker.job]
    BY <1>0, <1>4 DEF ReleaseCandidate, WorkerInv, IsThread
  <2>2. Uncount(worker.with[1].batch) /\ UNCHANGED <<testqueue, batchident>> /\ StaysAway
    BY <1>4, <2>1 DEF ReleaseCandidate, StaysAway, WorkerIdle
  <2>3. MarkLost(worker.with[1])
    BY <1>4, ReleaseMarks
  <2> QED BY <2>2, <2>3, LessCount
<1>5. ASSUME UNCHANGED <<light, testing, testqueue>>,
             tasks'.batch = tasks.batch, tasks'.count = tasks.count,
             \/ UNCHANGED medium \/ medium' = Append(medium, Evaluate)
             \/ medium # <<>> /\ Head(medium) = Evaluate /\ medium' = Tail(medium),
             \/ UNCHANGED worker /\ UNCHANGED batchident
             \/ /\ worker.at \notin {"checking", "releasing", "next"}
                /\ worker'.at \notin {"checking", "releasing", "next", "filling", "launching"}
                /\ batchident' \in {batchident, batchident + 1}
      PROVE  CountInv'
  <2>1. IsThread(worker)'
    BY DEF PlaceInv, WorkerInv
  <2>2. MarksStay
    BY <1>5, <2>1, OtherMarks
  <2>3. StaysAway
    BY <1>5 DEF StaysAway
  <2>4. \/ batchident' = batchident
        \/ batchident' = batchident + 1 /\ worker'.at \notin {"filling", "launching"}
    BY <1>5
  <2> QED BY <1>5, <2>2, <2>3, <2>4, SameCount
<1>6. CASE CheckLevelEmpty
  <2>1. /\ worker.at = "counting" /\ worker'.at = "idle" /\ batchident' = batchident
        /\ UNCHANGED <<light, testing, testqueue, tasks>>
        /\ UNCHANGED medium \/ medium' = Append(medium, Evaluate)
    BY <1>6 DEF CheckLevelEmpty, WorkerIdle, CallEvaluate
  <2> QED BY <1>5, <2>1
<1>7. CASE TakeEvaluate
  <2>1. /\ UNCHANGED <<light, testing, testqueue, batchident>>
        /\ medium # <<>> /\ Head(medium) = Evaluate /\ medium' = Tail(medium)
        /\ worker.at = "idle"
    BY <1>7 DEF TakeEvaluate
  <2>2. tasks'.batch = tasks.batch /\ tasks'.count = tasks.count
    <3>1. tasks' = tasks \/ tasks' = [tasks EXCEPT !.processed = TRUE]
      BY <1>7 DEF TakeEvaluate
    <3> QED BY <1>0, <3>1 DEF IsCount
  <2>3. UNCHANGED worker \/ worker'.at = "closing"
    BY <1>7 DEF TakeEvaluate, WorkerIdle
  <2> QED BY <1>5, <2>1, <2>2, <2>3
<1>8. CASE CloseBatch
  <2>1. worker' = [at |-> "evaluating", with |-> worker.with, job |-> worker.job]
    BY <1>0, <1>8 DEF CloseBatch, WorkerInv, IsThread
  <2>2. /\ worker.at = "closing" /\ worker'.at = "evaluating" /\ batchident' = batchident + 1
        /\ UNCHANGED <<light, testing, testqueue, tasks, medium>>
    BY <1>8, <2>1 DEF CloseBatch
  <2> QED BY <1>5, <2>2
<1>9. CASE DeepenStep \/ AdoptStep
  <2>1. /\ worker.at = "evaluating"
        /\ UNCHANGED <<light, testing, testqueue, tasks, medium, batchident>>
        /\ \E finishing : GoOnOrFinish(finishing)
    BY <1>9 DEF DeepenStep, Deepen, AdoptStep, Adopt, batchVars
  <2>2. PICK at \in {"finishing", "nextLevel"} : worker' = [worker EXCEPT !.at = at]
    BY <2>1 DEF GoOnOrFinish
  <2>3. worker'.at = at
    BY <1>0, <2>2 DEF WorkerInv, IsThread
  <2> QED BY <1>5, <2>1, <2>3
<1>10. CASE Finish
  <2>1. /\ worker.at = "finishing" /\ worker'.at = "idle"
        /\ UNCHANGED <<light, testing, testqueue, tasks, medium, batchident>>
    BY <1>10 DEF Finish, WorkerIdle, batchVars
  <2> QED BY <1>5, <2>1
<1> QED BY <1>1, <1>2, <1>3, <1>4, <1>6, <1>7, <1>8, <1>9, <1>10, WorkerSteps,
           ResetCount, FillCount, LaunchCount

\* A light thread.
LEMMA LightCounts ==
  ASSUME PlaceInv, PlaceInv', CountInv, NEW l \in LightThreads, LightStep(l)
  PROVE  CountInv'
<1>0. LightInv /\ IsCount(tasks)
  BY DEF PlaceInv
<1>1. UNCHANGED worker /\ StaysAway
  BY DEF LightStep, RepeatTest, TakeResult, DropResult, StartNext, ReleaseTest, EndLevel,
     StoreResult, StopBatch, StaysAway
<1>2. UNCHANGED batchident
  BY DEF LightStep, RepeatTest, TakeResult, DropResult, StartNext, ReleaseTest, EndLevel,
     StoreResult, StopBatch, batchVars
<1>3. ASSUME NEW t \in testing, RepeatTest(l, t)
      PROVE  CountInv'
  <2>1. UNCHANGED <<tasks, testqueue>>
    BY <1>3 DEF RepeatTest, batchVars
  <2> QED BY <1>1, <1>2, <1>3, <2>1, RepeatMarks, SameCount
<1>4. ASSUME NEW t \in testing, TakeResult(l, t)
      PROVE  CountInv'
  <2>1. UNCHANGED testqueue
    BY <1>4 DEF TakeResult
  <2>2. CASE t.ident = batchident
    <3>1. MarksStay /\ UNCHANGED tasks
      BY <1>4, <2>2, ResultMarks DEF TakeResult
    <3> QED BY <1>1, <1>2, <2>1, <3>1, SameCount
  <2>3. CASE t.ident # batchident
    <3>1. MarkLost(t) /\ Uncount(t.batch)
      BY <1>4, <2>3, ResultMarks DEF TakeResult
    <3> QED BY <1>1, <1>2, <2>1, <3>1, LessCount
  <2> QED BY <2>2, <2>3
<1>5. CASE DropResult(l)
  <2>1. UNCHANGED testqueue /\ Uncount(light[l].with[1].batch)
    BY <1>5 DEF DropResult
  <2>2. MarkLost(light[l].with[1])
    BY <1>5, DropMarks
  <2> QED BY <1>1, <1>2, <2>1, <2>2, LessCount
<1>6. CASE StartNext(l)
  <2>1. TakeNext
    BY <1>6 DEF StartNext
  <2>2. MarksAdded(ToSet(NextCandidate))
    BY <1>6, StartMarks
  <2> QED BY <1>1, <1>2, <2>1, <2>2, MoreCount
<1>7. CASE ReleaseTest(l)
  <2>1. UNCHANGED testqueue /\ Uncount(light[l].with[1].batch)
    BY <1>7 DEF ReleaseTest
  <2>2. MarkLost(light[l].with[1])
    BY <1>7, ReleaseTestMarks
  <2> QED BY <1>1, <1>2, <2>1, <2>2, LessCount
<1>8. CASE EndLevel(l) \/ (\E same, scores : StoreResult(l, same, scores)) \/ StopBatch(l)
  <2>1. MarksStay
    BY <1>8, CountedMarks
  <2>2. testqueue' = testqueue \/ testqueue' = <<>>
    BY <1>8 DEF EndLevel, StoreResult, StopBatch
  <2>3. tasks'.batch = tasks.batch /\ tasks'.count = tasks.count
    <3>1. tasks' = tasks \/ tasks' = [tasks EXCEPT !.sent = TRUE]
      BY <1>8 DEF EndLevel, StoreResult, StopBatch
    <3> QED BY <1>0, <3>1 DEF IsCount
  <2> QED BY <1>1, <1>2, <2>1, <2>2, <2>3, SameCount
<1> QED BY <1>3, <1>4, <1>5, <1>6, <1>7, <1>8 DEF LightStep

\* The watchdog and the listeners.
LEMMA OthersCount ==
  ASSUME PlaceInv, CountInv, Rescue \/ (\E c \in Listeners : AddCallback(c)) \/ UNCHANGED vars
  PROVE  CountInv'
<1>1. /\ UNCHANGED <<worker, light, testing, testqueue, batchident>>
      /\ UNCHANGED medium \/ medium' = Append(medium, Evaluate)
      /\ tasks' = tasks \/ tasks' = [tasks EXCEPT !.sent = TRUE]
  BY DEF Rescue, AddCallback, CallEvaluate, vars, batchVars
<1>2. tasks'.batch = tasks.batch /\ tasks'.count = tasks.count
  BY <1>1 DEF PlaceInv, IsCount
<1>3. MarksStay
  BY <1>1, OtherMarks
<1>4. StaysAway
  BY <1>1 DEF StaysAway
<1> QED BY <1>1, <1>2, <1>3, <1>4, SameCount

LEMMA InitCounts == Init => TestBatchInv /\ CountInv
<1> SUFFICES ASSUME Init
             PROVE  TestBatchInv /\ CountInv
  OBVIOUS
<1>0. ToSet(<<>>) = {} /\ DOMAIN <<>> = {}
  BY EmptyList
<1>1. /\ worker = [at |-> "nextLevel", with |-> <<>>, job |-> <<>>]
      /\ testqueue = <<>> /\ testing = {} /\ batchident = 0
      /\ tasks = [batch |-> 0, count |-> 0, sent |-> FALSE, processed |-> FALSE]
      /\ \A l \in LightThreads : light[l] = [at |-> "idle", with |-> <<>>, job |-> <<>>]
  BY DEF Init
<1>2. Tests = {}
  BY <1>0, <1>1 DEF Tests
<1>3. Cardinality(Outstanding) \in Nat
  BY InitPlaces, FiniteOutstanding
<1>4. /\ tasks.count = 0 /\ tasks.batch = 0 /\ worker.at = "nextLevel"
      /\ ToSet(testqueue) = {} /\ DOMAIN testqueue = {}
  BY <1>0, <1>1
<1> QED BY <1>1, <1>2, <1>3, <1>4 DEF TestBatchInv, CountInv

\* The count of a batch never exceeds the candidates that are still to come back
\* to it, however the queue is launched, the tests that end take the next
\* candidate, results come late and tests are repeated: no level hangs because
\* of a task that does not exist.
THEOREM NoPhantoms == Safety => []NoPhantomTasks
<1>1. Init => TestBatchInv /\ CountInv
  BY InitCounts
<1>2. DeltaInv /\ TestBatchInv /\ [Next]_vars => TestBatchInv'
  BY TestBatchStays DEF DeltaInv
<1>3. DeltaInv /\ DeltaInv' /\ TestBatchInv /\ CountInv /\ [Next]_vars => CountInv'
  <2> SUFFICES ASSUME DeltaInv, DeltaInv', TestBatchInv, CountInv, [Next]_vars
               PROVE  CountInv'
    OBVIOUS
  <2>1. PlaceInv /\ PlaceInv' /\ LevelInv /\ BatchInv
    BY DEF DeltaInv
  <2>2. CASE Worker
    BY <2>1, <2>2, WorkerCounts
  <2>3. CASE \E l \in LightThreads : Light(l)
    BY <2>1, <2>3, LightCounts DEF Light, LightStep
  <2>4. CASE Rescue \/ (\E c \in Listeners : AddCallback(c)) \/ UNCHANGED vars
    BY <2>1, <2>4, OthersCount
  <2> QED BY <2>2, <2>3, <2>4 DEF Next
<1>4. CountInv => NoPhantomTasks
  BY DEF CountInv, NoPhantomTasks
<1> QED BY <1>1, <1>2, <1>3, <1>4, DeltaInvariant, PTL DEF Safety
=============================================================================
