------------------------ MODULE ExclusionTreeProofs ------------------------
(***************************************************************************)
(* What is proved of the exclusion tree for every set of inputs with any   *)
(* sequences and any limit: it stays pruned, it is a set of verdicts, and  *)
(* both questions are answered as that set answers them.                   *)
(***************************************************************************)
EXTENDS ExclusionTree, SequenceTheorems, FiniteSetTheorems, TLAPS

-----------------------------------------------------------------------------
(* Prefixes.                                                               *)

\* Prefixes of a sequence have the length they are cut to, and a prefix of a
\* prefix is a prefix.
LEMMA PrefixFacts ==
  ASSUME NEW S, NEW s \in Seq(S), NEW k \in 0 .. Len(s)
  PROVE  /\ Prefix(s, k) \in Seq(S)
         /\ Len(Prefix(s, k)) = k
         /\ \A j \in 0 .. k : Prefix(Prefix(s, k), j) = Prefix(s, j)
         /\ IsPrefix(Prefix(s, k), s)
<1>1. /\ Prefix(s, k) \in Seq(S)
      /\ Len(Prefix(s, k)) = k
      /\ \A i \in 1 .. k : Prefix(s, k)[i] = s[i]
  BY SubSeqProperties, ElementOfSeq DEF Prefix
<1>2. ASSUME NEW j \in 0 .. k
      PROVE  Prefix(Prefix(s, k), j) = Prefix(s, j)
  <2>1. CASE j = 0
    BY <2>1, SubSeqEmpty DEF Prefix
  <2>2. CASE j > 0
    BY <1>1, <2>2, SubSeqOfSubSeq DEF Prefix
  <2> QED BY <2>1, <2>2
<1>3. Prefix(Prefix(s, k), k) = Prefix(s, k)
  BY <1>2
<1>4. IsPrefix(Prefix(s, k), s)
  BY <1>1, <1>3 DEF IsPrefix, Prefix
<1> QED BY <1>1, <1>2, <1>4

\* To be a prefix of s is to be s cut to one's length.
LEMMA PrefixIsCut ==
  ASSUME NEW S, NEW s \in Seq(S), NEW p \in Seq(S)
  PROVE  IsPrefix(p, s) <=> Len(p) <= Len(s) /\ p = Prefix(s, Len(p))
BY SubSeqFull DEF IsPrefix, Prefix

\* Being a prefix is an order, and the prefixes of a sequence form a chain.
LEMMA PrefixOrder ==
  ASSUME NEW S, NEW s \in Seq(S), NEW p \in Seq(S), NEW q \in Seq(S)
  PROVE  /\ IsPrefix(s, s) /\ IsPrefix(<<>>, s)
         /\ IsPrefix(p, q) /\ IsPrefix(q, s) => IsPrefix(p, s)
         /\ IsPrefix(p, s) /\ IsPrefix(q, s) /\ Len(p) <= Len(q)
              => IsPrefix(p, q)
         /\ IsPrefix(p, q) /\ IsPrefix(q, p) => p = q
<1>1. IsPrefix(s, s)
  BY SubSeqFull, PrefixIsCut DEF Prefix
<1>2. IsPrefix(<<>>, s)
  BY SubSeqEmpty DEF IsPrefix
<1>3. ASSUME IsPrefix(p, q), IsPrefix(q, s)
      PROVE  IsPrefix(p, s)
  <2>1. Len(q) \in 0 .. Len(s) /\ q = Prefix(s, Len(q))
    BY <1>3, PrefixIsCut
  <2>2. Len(p) \in 0 .. Len(q) /\ p = Prefix(q, Len(p))
    BY <1>3, PrefixIsCut
  <2>3. Prefix(Prefix(s, Len(q)), Len(p)) = Prefix(s, Len(p))
    BY <2>1, <2>2, PrefixFacts
  <2> QED BY <2>1, <2>2, <2>3, PrefixIsCut
<1>4. ASSUME IsPrefix(p, s), IsPrefix(q, s), Len(p) <= Len(q)
      PROVE  IsPrefix(p, q)
  <2>1. Len(q) \in 0 .. Len(s) /\ q = Prefix(s, Len(q))
    BY <1>4, PrefixIsCut
  <2>2. Len(p) \in 0 .. Len(q) /\ p = Prefix(s, Len(p))
    BY <1>4, PrefixIsCut
  <2>3. Prefix(Prefix(s, Len(q)), Len(p)) = Prefix(s, Len(p))
    BY <2>1, <2>2, PrefixFacts
  <2> QED BY <1>4, <2>1, <2>2, <2>3, PrefixIsCut
<1>5. ASSUME IsPrefix(p, q), IsPrefix(q, p)
      PROVE  p = q
  <2>1. Len(p) <= Len(q) /\ p = Prefix(q, Len(p))
    BY <1>5, PrefixIsCut
  <2>2. Len(q) <= Len(p)
    BY <1>5 DEF IsPrefix
  <2>3. Len(p) = Len(q)
    BY <2>1, <2>2
  <2> QED BY <2>1, <2>3, SubSeqFull DEF Prefix
<1> QED BY <1>1, <1>2, <1>3, <1>4, <1>5

-----------------------------------------------------------------------------
(* The shape of the tree.  TreeIsPruned speaks of parents only; that every *)
(* prefix of a node is a node is what makes a walk from the root find it.  *)

Shape ==
  /\ nodes \in [Paths -> Node] /\ Paths \subseteq Seq(Strings)
  /\ Root \in Paths /\ nodes[Root].result = "Undefined"
  /\ depth \in Nat
  /\ \A p \in Paths :
       /\ \A k \in 0 .. Len(p) : Prefix(p, k) \in Paths
       /\ nodes[p].leaf <=> nodes[p].result \in Fixed
       /\ nodes[p].leaf => StrictlyBelow(p) = {}
       /\ p # Root /\ StrictlyBelow(p) = {} => nodes[p].result # "Undefined"
       /\ nodes[p].result # "Undefined" => nodes[p].input \in Inputs
       /\ Len(p) <= depth

\* Inputs are sequences of strings.
LEMMA InputFacts ==
  ASSUME NEW i \in Inputs
  PROVE  Sequence[i] \in Seq(Strings)
BY TreeAssumption

\* The nodes an input needs are the prefixes of its sequence.
LEMMA MissingFacts ==
  ASSUME NEW s \in Seq(Strings)
  PROVE  /\ Missing(s) \subseteq Seq(Strings)
         /\ \A p \in Missing(s) : IsPrefix(p, s) /\ p # <<>> /\ Len(p) <= Len(s)
         /\ s # <<>> => s \in Paths \cup Missing(s)
         /\ \A p \in Seq(Strings) :
              IsPrefix(p, s) /\ p # <<>> => p \in Paths \cup Missing(s)
<1>1. ASSUME NEW p \in Missing(s)
      PROVE  p \in Seq(Strings) /\ IsPrefix(p, s) /\ p # <<>> /\ Len(p) <= Len(s)
  <2>1. PICK k \in 1 .. Len(s) : p = Prefix(s, k)
    BY <1>1 DEF Missing, PrefixesOf
  <2>2. p \in Seq(Strings) /\ Len(p) = k /\ IsPrefix(p, s)
    BY <2>1, PrefixFacts
  <2> QED BY <2>1, <2>2
<1>2. ASSUME NEW p \in Seq(Strings), IsPrefix(p, s), p # <<>>
      PROVE  p \in Paths \cup Missing(s)
  <2>1. Len(p) \in 1 .. Len(s) /\ p = Prefix(s, Len(p))
    BY <1>2, PrefixIsCut
  <2> QED BY <2>1 DEF Missing, PrefixesOf
<1>3. IsPrefix(s, s)
  BY PrefixOrder
<1> QED BY <1>1, <1>2, <1>3

\* An input that does not end early has no prefix with a fixed result.
LEMMA NotDecided ==
  ASSUME Shape, NEW s \in Seq(Strings), ~EndsEarly(s),
         NEW p \in Paths, IsPrefix(p, s)
  PROVE  nodes[p].result \notin Fixed /\ ~nodes[p].leaf
<1> SUFFICES ASSUME nodes[p].result \in Fixed
             PROVE  FALSE
  BY DEF Shape
<1>1. p \in Seq(Strings) /\ p # <<>>
  BY DEF Shape, Root, Fixed
<1>2. Len(p) \in 1 .. Len(s) /\ p = Prefix(s, Len(p))
  BY <1>1, PrefixIsCut
<1>3. ASSUME NEW j \in 1 .. Len(p)
      PROVE  Prefix(s, j) \in Paths
  <2>1. Prefix(p, j) \in Paths
    BY DEF Shape
  <2>2. Prefix(p, j) = Prefix(s, j)
    BY <1>2, PrefixFacts
  <2> QED BY <2>1, <2>2
<1>4. Len(p) \in LeavesOn(s)
  BY <1>2, <1>3 DEF LeavesOn, Reaches, Shape
<1> QED BY <1>2, <1>4 DEF EndsEarly

-----------------------------------------------------------------------------
(* What AddInput leaves behind.                                            *)

\* A node on the way has no verdict.
LEMMA NewNodes ==
  /\ NewNode.result = "Undefined" /\ NewNode.leaf = FALSE
  /\ "Undefined" \notin Results /\ "Undefined" \notin Fixed
BY DEF NewNode, Results, Fixed

\* The new tree: what was there and is not below a fixed result, the way to
\* the new node, and its verdict.
LEMMA AddEffect ==
  ASSUME Shape, NEW i \in Inputs, NEW r \in Results, AddInput(i, r),
         NEW s, s = Sequence[i]
  PROVE  /\ s \in Seq(Strings) /\ s # <<>>
         /\ DOMAIN nodes' = (Paths \cup Missing(s)) \ Killed(s, r)
         /\ s \in DOMAIN nodes' /\ nodes'[s] = Verdict(i, r)
         /\ \A p \in DOMAIN nodes' \ {s} :
              nodes'[p] = IF p \in Paths THEN nodes[p] ELSE NewNode
         /\ \A p \in Paths : p \in Killed(s, r) <=>
              r \in Fixed /\ IsPrefix(s, p) /\ p # s
<1>1. s \in Seq(Strings) /\ s # <<>>
  BY InputFacts DEF AddInput, Ignored
<1>2. DOMAIN Grown(s) = Paths \cup Missing(s)
  BY DEF Grown
<1>3. nodes' = [p \in (Paths \cup Missing(s)) \ Killed(s, r) |->
                  IF p = s THEN Verdict(i, r) ELSE Grown(s)[p]]
  BY <1>2 DEF AddInput
<1>4. \A p \in Paths : p \in Killed(s, r) <=> r \in Fixed /\ IsPrefix(s, p) /\ p # s
  BY DEF Killed, StrictlyBelow, IsStrictPrefix
<1>5. s \in (Paths \cup Missing(s)) \ Killed(s, r)
  BY <1>1, MissingFacts DEF Killed, StrictlyBelow, IsStrictPrefix
<1>6. \A p \in Paths \cup Missing(s) :
        Grown(s)[p] = IF p \in Paths THEN nodes[p] ELSE NewNode
  BY DEF Grown
<1>7. nodes'[s] = Verdict(i, r)
  BY <1>3, <1>5
<1> QED BY <1>1, <1>3, <1>4, <1>5, <1>6, <1>7

\* The new node has the result and its input, and is a leaf exactly if the
\* result is fixed.
LEMMA VerdictEffect ==
  ASSUME NEW i, NEW r, NEW n, n = Verdict(i, r)
  PROVE  n.result = r /\ n.input = i /\ (n.leaf <=> r \in Fixed)
<1>1. n.result = r /\ n.input = i
  BY DEF Verdict
<1>2. n.leaf = (r \in Fixed)
  BY Zenon DEF Verdict
<1> QED BY <1>1, <1>2, Zenon

\* Which nodes are left: those that were there and are not below a fixed
\* result, and the prefixes of s.
LEMMA PathsAfter ==
  ASSUME Shape, NEW i \in Inputs, NEW r \in Results, AddInput(i, r),
         NEW s, s = Sequence[i], NEW p \in Seq(Strings)
  PROVE  p \in Paths' <=> \/ p \in Paths /\ ~(r \in Fixed /\ IsPrefix(s, p) /\ p # s)
                          \/ IsPrefix(p, s)
<1>1. s \in Seq(Strings)
  BY AddEffect
<1>2. p \in Paths' <=> p \in (Paths \cup Missing(s)) \ Killed(s, r)
  BY AddEffect DEF Paths
<1>3. Killed(s, r) \subseteq Paths
  BY DEF Killed, StrictlyBelow
<1>4. \A q \in Missing(s) : q \notin Paths
  BY DEF Missing
<1>5. p \in Missing(s) => IsPrefix(p, s)
  BY <1>1, MissingFacts
<1>6. IsPrefix(p, s) => p \in Paths \cup Missing(s)
  BY <1>1, MissingFacts DEF Shape, Root
<1>7. IsPrefix(p, s) /\ IsPrefix(s, p) => p = s
  BY <1>1, PrefixOrder
<1>8. p \in Paths => (p \in Killed(s, r) <=> r \in Fixed /\ IsPrefix(s, p) /\ p # s)
  BY AddEffect
<1> QED BY <1>2, <1>3, <1>4, <1>5, <1>6, <1>7, <1>8

\* AddInput keeps the shape.
LEMMA AddKeepsShape ==
  ASSUME Shape, NEW i \in Inputs, NEW r \in Results, AddInput(i, r)
  PROVE  Shape'
<1> DEFINE s == Sequence[i]
<1>1. /\ s \in Seq(Strings) /\ s # <<>>
      /\ DOMAIN nodes' = (Paths \cup Missing(s)) \ Killed(s, r)
      /\ s \in DOMAIN nodes' /\ nodes'[s] = Verdict(i, r)
      /\ \A p \in DOMAIN nodes' \ {s} :
           nodes'[p] = IF p \in Paths THEN nodes[p] ELSE NewNode
  BY AddEffect
<1>0. /\ nodes'[s].result = r /\ nodes'[s].input = i
      /\ nodes'[s].leaf <=> r \in Fixed
  BY <1>1, VerdictEffect, Zenon
<1>2. Paths' \subseteq Seq(Strings)
  BY <1>1, MissingFacts DEF Shape, Paths
<1>3. \A p \in Seq(Strings) :
        p \in Paths' <=> \/ p \in Paths /\ ~(r \in Fixed /\ IsPrefix(s, p) /\ p # s)
                         \/ IsPrefix(p, s)
  BY PathsAfter
<1>4. ASSUME NEW p \in Paths'
      PROVE  nodes'[p] \in Node
  <2>1. Verdict(i, r) \in Node
    BY DEF Verdict, Node
  <2>2. NewNode \in Node
    BY DEF NewNode, Node
  <2> QED BY <1>1, <1>4, <2>1, <2>2 DEF Paths, Shape
<1>5. nodes' \in [Paths' -> Node]
  <2>1. nodes' = [p \in DOMAIN nodes' |-> nodes'[p]]
    BY DEF AddInput
  <2> QED BY <1>4, <2>1 DEF Paths
<1>6. Root \in Paths' /\ nodes'[Root].result = "Undefined"
  <2>1. IsPrefix(<<>>, s) /\ <<>> \in Seq(Strings)
    BY <1>1, PrefixOrder
  <2>2. Root \in Paths'
    BY <1>3, <2>1 DEF Root
  <2> QED BY <1>1, <2>2 DEF Root, Paths, Shape
<1>7. depth' \in Nat /\ depth <= depth' /\ Len(s) <= depth'
  BY <1>1 DEF AddInput, Shape
<1>8. ASSUME NEW p \in Paths', NEW k \in 0 .. Len(p)
      PROVE  Prefix(p, k) \in Paths'
  <2> DEFINE q == Prefix(p, k)
  <2>1. p \in Seq(Strings) /\ q \in Seq(Strings) /\ IsPrefix(q, p)
    BY <1>2, PrefixFacts
  <2>2. CASE IsPrefix(p, s)
    BY <1>1, <1>3, <2>1, <2>2, PrefixOrder
  <2>3. CASE p \in Paths /\ ~(r \in Fixed /\ IsPrefix(s, p) /\ p # s)
    <3>1. q \in Paths
      BY <2>3 DEF Shape
    <3>2. IsPrefix(s, q) => IsPrefix(s, p)
      BY <1>1, <2>1, PrefixOrder
    <3>3. IsPrefix(s, q) /\ p = s => q = s
      BY <1>1, <2>1, PrefixOrder
    <3> QED BY <1>3, <2>1, <2>3, <3>1, <3>2, <3>3
  <2> QED BY <1>3, <2>1, <2>2, <2>3
<1>9. ASSUME NEW p \in Paths'
      PROVE  nodes'[p].leaf <=> nodes'[p].result \in Fixed
  <2>1. CASE p = s
    BY <1>0, <1>1, <2>1
  <2>2. CASE p # s /\ p \in Paths
    BY <1>1, <1>9, <2>2 DEF Paths, Shape
  <2>3. CASE p # s /\ p \notin Paths
    BY <1>1, <1>9, <2>3, NewNodes DEF Paths
  <2> QED BY <2>1, <2>2, <2>3
<1>10. ASSUME NEW p \in Paths', nodes'[p].leaf, NEW q \in Paths', IsPrefix(p, q)
       PROVE  q = p
  <2>1. p \in Seq(Strings) /\ q \in Seq(Strings)
    BY <1>2, <1>10
  <2>2. CASE p = s
    <3>1. r \in Fixed
      BY <1>0, <1>10, <2>2
    <3>2. IsPrefix(q, s)
      BY <1>3, <1>10, <2>1, <2>2, <3>1, PrefixOrder
    <3> QED BY <1>1, <1>10, <2>1, <2>2, <3>2, PrefixOrder
  <2>3. CASE p # s
    <3>1. p \in Paths /\ nodes[p].leaf
      BY <1>1, <1>10, <2>3, NewNodes DEF Paths
    <3>2. ~IsPrefix(p, s)
      BY <1>1, <3>1, NotDecided DEF AddInput
    <3>3. ~IsPrefix(q, s)
      BY <1>1, <1>10, <2>1, <3>2, PrefixOrder
    <3>4. q \in Paths
      BY <1>3, <2>1, <3>3
    <3> QED BY <1>10, <3>1, <3>4 DEF Shape, StrictlyBelow, IsStrictPrefix
  <2> QED BY <2>2, <2>3
<1>11. ASSUME NEW p \in Paths', p # Root, nodes'[p].result = "Undefined"
       PROVE  \E q \in Paths' : IsPrefix(p, q) /\ p # q
  <2>1. p \in Seq(Strings) /\ p # s
    BY <1>0, <1>2, <1>11, NewNodes
  <2>2. CASE IsPrefix(p, s)
    BY <1>1, <2>1, <2>2 DEF Paths
  <2>3. CASE ~IsPrefix(p, s)
    <3>1. p \in Paths /\ nodes[p].result = "Undefined"
      BY <1>1, <1>3, <1>11, <2>1, <2>3 DEF Paths
    <3>2. PICK q \in Paths : IsPrefix(p, q) /\ p # q
      BY <1>11, <3>1 DEF Shape, StrictlyBelow, IsStrictPrefix
    <3>3. q \in Seq(Strings)
      BY DEF Shape
    <3>4. ~(r \in Fixed /\ IsPrefix(s, p))
      BY <1>3, <2>1, <2>3
    <3>5. ~(r \in Fixed /\ IsPrefix(s, q))
      <4>1. SUFFICES ASSUME r \in Fixed, IsPrefix(s, q)
                     PROVE  FALSE
        OBVIOUS
      <4>2. Len(p) \in Nat /\ Len(s) \in Nat
        BY <1>1, <2>1
      <4>3. IsPrefix(p, s) \/ IsPrefix(s, p)
        BY <1>1, <2>1, <3>2, <3>3, <4>1, <4>2, PrefixOrder
      <4> QED BY <2>3, <3>4, <4>1, <4>3
    <3> QED BY <1>3, <3>2, <3>3, <3>5
  <2> QED BY <2>2, <2>3
<1>12. ASSUME NEW p \in Paths', nodes'[p].result # "Undefined"
       PROVE  nodes'[p].input \in Inputs
  <2>1. CASE p = s
    BY <1>0, <2>1
  <2>2. CASE p # s
    BY <1>1, <1>12, <2>2, NewNodes DEF Paths, Shape
  <2> QED BY <2>1, <2>2
<1>13. ASSUME NEW p \in Paths'
       PROVE  Len(p) <= depth'
  <2>1. p \in Seq(Strings) /\ Len(p) \in Nat
    BY <1>2
  <2>2. CASE IsPrefix(p, s)
    BY <1>1, <1>7, <2>1, <2>2 DEF IsPrefix, Shape
  <2>3. CASE p \in Paths
    BY <1>7, <2>1, <2>3 DEF Shape
  <2> QED BY <1>3, <2>1, <2>2, <2>3
<1> QED BY <1>2, <1>5, <1>6, <1>7, <1>8, <1>9, <1>10, <1>11, <1>12, <1>13
        DEF Shape, StrictlyBelow, IsStrictPrefix

-----------------------------------------------------------------------------
(* The counts.                                                             *)

Counted ==
  /\ IsFiniteSet(Paths)
  /\ CountsAreExact

\* The three flags a save reads have their types.
Flags == changed \subseteq Paths /\ treechanged \in BOOLEAN

TreeInv == Shape /\ Counted /\ Flags

\* An input needs finitely many nodes.
LEMMA FiniteMissing ==
  ASSUME NEW s \in Seq(Strings)
  PROVE  IsFiniteSet(Missing(s))
<1> DEFINE f == [k \in 1 .. Len(s) |-> Prefix(s, k)]
<1>1. Len(s) \in Nat
  OBVIOUS
<1>2. IsFiniteSet(1 .. Len(s))
  BY <1>1, FS_Interval
<1>3. f \in Surjection(1 .. Len(s), PrefixesOf(s))
  BY DEF Surjection, PrefixesOf
<1>4. IsFiniteSet(PrefixesOf(s))
  BY <1>2, <1>3, FS_Surjection
<1> QED BY <1>4, FS_Subset DEF Missing

\* The size of a set that gains the elements of A and loses those of B.
LEMMA GrowAndShrink ==
  ASSUME NEW P, NEW A, NEW B, IsFiniteSet(P), IsFiniteSet(A),
         A \cap P = {}, B \subseteq P
  PROVE  /\ IsFiniteSet((P \cup A) \ B)
         /\ Cardinality((P \cup A) \ B) =
              Cardinality(P) + Cardinality(A) - Cardinality(B)
<1>1. IsFiniteSet(P \cup A)
  BY FS_Union
<1>2. Cardinality(P \cup A) =
        Cardinality(P) + Cardinality(A) - Cardinality(P \cap A)
  BY FS_Union
<1>3. Cardinality(P \cap A) = 0
  <2>1. P \cap A = {}
    OBVIOUS
  <2> QED BY <2>1, FS_EmptySet
<1>4. /\ Cardinality(P) \in Nat /\ Cardinality(A) \in Nat
      /\ Cardinality(B) \in Nat
  <2>1. IsFiniteSet(B)
    BY FS_Subset
  <2> QED BY <2>1, FS_CardinalityType
<1>5. /\ IsFiniteSet((P \cup A) \ B)
      /\ Cardinality((P \cup A) \ B) =
           Cardinality(P \cup A) - Cardinality((P \cup A) \cap B)
  BY <1>1, FS_Difference
<1>6. (P \cup A) \cap B = B
  OBVIOUS
<1>7. Cardinality((P \cup A) \cap B) = Cardinality(B)
  BY <1>6
<1>8. Cardinality(P \cup A) = Cardinality(P) + Cardinality(A)
  BY <1>2, <1>3, <1>4
<1>9. Cardinality((P \cup A) \ B) = Cardinality(P \cup A) - Cardinality(B)
  BY <1>5, <1>7
<1>10. Cardinality((P \cup A) \ B) =
         Cardinality(P) + Cardinality(A) - Cardinality(B)
  BY <1>4, <1>8, <1>9
<1> QED BY <1>5, <1>10, Zenon

\* The deleted nodes are counted down and the created ones up.
LEMMA AddKeepsCounts ==
  ASSUME Shape, Counted, NEW i \in Inputs, NEW r \in Results, AddInput(i, r)
  PROVE  Counted'
<1> DEFINE s == Sequence[i]
           M == Missing(s)
           K == Killed(s, r)
<1>1. /\ s \in Seq(Strings) /\ s # <<>>
      /\ DOMAIN nodes' = (Paths \cup M) \ K
      /\ s \in DOMAIN nodes' /\ nodes'[s] = Verdict(i, r)
      /\ \A p \in DOMAIN nodes' \ {s} :
           nodes'[p] = IF p \in Paths THEN nodes[p] ELSE NewNode
  BY AddEffect
<1>2. /\ nodes'[s].result = r /\ nodes'[s].input = i
      /\ nodes'[s].leaf <=> r \in Fixed
  BY <1>1, VerdictEffect, Zenon
<1>3. /\ IsFiniteSet(Paths) /\ IsFiniteSet(M) /\ IsFiniteSet(K)
      /\ K \subseteq Paths /\ M \cap Paths = {}
  <2>1. K \subseteq Paths /\ M \cap Paths = {}
    BY DEF Killed, StrictlyBelow, Missing
  <2> QED BY <1>1, <2>1, FiniteMissing, FS_Subset DEF Counted
<1>4. /\ Cardinality(Paths) \in Nat /\ Cardinality(M) \in Nat
      /\ Cardinality(K) \in Nat
  BY <1>3, FS_CardinalityType
<1>6. /\ IsFiniteSet((Paths \cup M) \ K)
      /\ Cardinality((Paths \cup M) \ K) =
           Cardinality(Paths) + Cardinality(M) - Cardinality(K)
  BY <1>3, GrowAndShrink
<1>7. IsFiniteSet(Paths') /\ nodecount' = Cardinality(Paths') - 1
  <2>1. nodecount' = nodecount + Cardinality(M) - Cardinality(K)
    BY DEF AddInput
  <2>2. nodecount = Cardinality(Paths) - 1
    BY DEF Counted, CountsAreExact
  <2>3. Paths' = (Paths \cup M) \ K
    BY <1>1 DEF Paths
  <2> HIDE DEF M, K
  <2> QED BY <1>4, <1>6, <2>1, <2>2, <2>3
<1>8. \A p \in Paths : IsPrefix(p, s) => ~nodes[p].leaf
  BY <1>1, NotDecided DEF AddInput
<1>9. IsPrefix(s, s)
  BY <1>1, PrefixOrder
<1>10. IsFiniteSet(Leaves) /\ Cardinality(Leaves) \in Nat
  BY <1>3, FS_Subset, FS_CardinalityType DEF Leaves
<1>11. leafcount' = Cardinality(Leaves')
  <2>1. leafcount = Cardinality(Leaves)
    BY DEF Counted, CountsAreExact
  <2>2. CASE r \notin Fixed
    <3>1. K = {}
      BY <2>2 DEF Killed
    <3>2. Leaves' = Leaves
      <4>1. ASSUME NEW p \in Leaves' PROVE p \in Leaves
        BY <1>1, <1>2, <2>2, <4>1, NewNodes DEF Leaves, Paths
      <4>2. ASSUME NEW p \in Leaves PROVE p \in Leaves'
        BY <1>1, <1>8, <1>9, <3>1, <4>2 DEF Leaves, Paths
      <4> QED BY <4>1, <4>2
    <3>3. leafcount' = leafcount
      BY <1>10, <2>1, <2>2 DEF AddInput, LeafGain
    <3> QED BY <2>1, <3>2, <3>3
  <2>3. CASE r \in Fixed
    <3>1. Leaves' = (Leaves \ K) \cup {s}
      <4>1. ASSUME NEW p \in Leaves' PROVE p \in (Leaves \ K) \cup {s}
        BY <1>1, <4>1, NewNodes DEF Leaves, Paths
      <4>2. ASSUME NEW p \in Leaves \ K PROVE p \in Leaves'
        BY <1>1, <1>8, <1>9, <4>2 DEF Leaves, Paths
      <4>3. s \in Leaves'
        BY <1>1, <1>2, <2>3 DEF Leaves, Paths
      <4> QED BY <4>1, <4>2, <4>3
    <3>2. s \notin Leaves
      BY <1>8, <1>9 DEF Leaves
    <3>3. leafcount' = leafcount + (1 - Cardinality(K \cap Leaves))
      BY <2>3 DEF AddInput, LeafGain
    <3>4. /\ IsFiniteSet(Leaves \ K)
          /\ Cardinality(Leaves \ K) = Cardinality(Leaves) - Cardinality(K \cap Leaves)
      <4>1. Leaves \cap K = K \cap Leaves
        OBVIOUS
      <4> HIDE DEF K
      <4> QED BY <1>10, <4>1, FS_Difference
    <3>5. Cardinality(K \cap Leaves) \in Nat
      <4>1. K \cap Leaves \in SUBSET Leaves
        OBVIOUS
      <4> HIDE DEF K
      <4> QED BY <1>10, <4>1, FS_Subset, FS_CardinalityType
    <3>6. Cardinality((Leaves \ K) \cup {s}) = Cardinality(Leaves \ K) + 1
      <4>1. s \notin Leaves \ K
        BY <3>2
      <4> HIDE DEF K, s
      <4> QED BY <3>4, <4>1, FS_AddElement
    <3> HIDE DEF K, s
    <3> QED BY <1>10, <2>1, <3>1, <3>3, <3>4, <3>5, <3>6
  <2> QED BY <2>2, <2>3
<1> QED BY <1>7, <1>11 DEF Counted, CountsAreExact-----------------------------------------------------------------------------
(* The invariant.                                                          *)

\* No deleted node stays flagged, and what AddInput flags is a node.
LEMMA AddKeepsFlags ==
  ASSUME Shape, Flags, NEW i \in Inputs, NEW r \in Results, AddInput(i, r)
  PROVE  Flags'
<1> DEFINE s == Sequence[i]
<1>1. /\ s \in DOMAIN nodes'
      /\ DOMAIN nodes' = (Paths \cup Missing(s)) \ Killed(s, r)
  BY AddEffect
<1>2. changed' = (changed \cup Flagged(s)) \ Killed(s, r)
  BY DEF AddInput
<1>3. Attached(s) \subseteq Paths
  BY DEF Attached
<1>4. changed' \subseteq Paths'
  BY <1>1, <1>2, <1>3 DEF Flagged, Flags, Paths
<1>5. treechanged' \in BOOLEAN
  BY Zenon DEF AddInput
<1> QED BY <1>4, <1>5 DEF Flags

\* The empty tree has the invariant.
LEMMA TreeInit ==
  Init => TreeInv
<1> SUFFICES ASSUME Init
             PROVE  TreeInv
  OBVIOUS
<1>1. Paths = {Root} /\ nodes[Root] = NewNode
  BY DEF Init, Paths
<1>2. Root \in Seq(Strings) /\ Len(Root) = 0
  BY DEF Root
<1>3. \A k \in 0 .. 0 : Prefix(Root, k) = Root
  BY SubSeqEmpty DEF Prefix, Root
<1>4. NewNode \in Node
  BY DEF NewNode, Node
<1>5. Shape
  BY <1>1, <1>2, <1>3, <1>4, NewNodes
     DEF Shape, Init, Paths, StrictlyBelow, IsStrictPrefix
<1>6. IsFiniteSet(Paths) /\ Cardinality(Paths) = 1
  BY <1>1, FS_Singleton
<1>7. Leaves = {}
  BY <1>1, NewNodes DEF Leaves
<1>8. Cardinality(Leaves) = 0
  BY <1>7, FS_EmptySet
<1>9. Counted
  BY <1>6, <1>8 DEF Counted, CountsAreExact, Init
<1>10. Flags
  BY <1>1 DEF Flags, Init
<1> QED BY <1>5, <1>9, <1>10 DEF TreeInv

\* Every insertion and every save keeps it.
LEMMA TreeStep ==
  TreeInv /\ [Next]_vars => TreeInv'
<1> SUFFICES ASSUME TreeInv, [Next]_vars
             PROVE  TreeInv'
  OBVIOUS
<1> USE DEF TreeInv
<1>1. CASE \E i \in Inputs, r \in Results : AddInput(i, r)
  BY <1>1, AddKeepsShape, AddKeepsCounts, AddKeepsFlags
<1>2. ASSUME UNCHANGED <<nodes, counts>>, Flags'
      PROVE  TreeInv'
  <2>1. Shape'
    BY <1>2 DEF Shape, Paths, StrictlyBelow, counts
  <2>2. Counted'
    BY <1>2 DEF Counted, CountsAreExact, Paths, Leaves, counts
  <2> QED BY <1>2, <2>1, <2>2
<1>3. CASE Save
  BY <1>2, <1>3 DEF Save, Flags
<1>4. CASE UNCHANGED vars
  BY <1>2, <1>4 DEF vars, flags, Flags, Paths
<1> QED BY <1>1, <1>3, <1>4 DEF Next

\* Shape, counts and flags hold together in every reachable state.
LEMMA TreeInvariant ==
  Spec => []TreeInv
BY TreeInit, TreeStep, PTL DEF Spec

-----------------------------------------------------------------------------
(* The theorems.                                                           *)

\* The type invariant, of which one part is no matter of typing: the unsigned
\* leafcount and nodecount never fall below zero.
THEOREM TypeCorrect ==
  Spec => []TypeOK
<1>1. TreeInv => TypeOK
  <2> SUFFICES ASSUME TreeInv
               PROVE  TypeOK
    OBVIOUS
  <2>1. IsFiniteSet(Leaves) /\ IsFiniteSet({Root}) /\ {Root} \subseteq Paths
    BY FS_Subset, FS_Singleton DEF TreeInv, Counted, Shape, Leaves
  <2>2. Cardinality({Root}) = 1
    BY FS_Singleton
  <2>3. Cardinality(Paths) \in Nat /\ 1 <= Cardinality(Paths)
    BY <2>1, <2>2, FS_Subset, FS_CardinalityType DEF TreeInv, Counted
  <2>4. leafcount \in Nat
    BY <2>1, FS_CardinalityType DEF TreeInv, Counted, CountsAreExact
  <2>5. nodecount \in Nat
    BY <2>3 DEF TreeInv, Counted, CountsAreExact
  <2> QED BY <2>4, <2>5 DEF TypeOK, TreeInv, Shape, Flags
<1> QED BY <1>1, TreeInvariant, PTL

\* Every node hangs at its parent, leaves are the fixed results and end the
\* tree, and every other end is a sequence that was tried, for any series of
\* results that AddInput is given.
THEOREM StaysPruned ==
  Spec => []TreeIsPruned
<1>1. TreeInv => TreeIsPruned
  <2> SUFFICES ASSUME TreeInv, NEW p \in Paths, p # Root
               PROVE  Front(p) \in Paths
    BY DEF TreeIsPruned, TreeInv, Shape
  <2>1. p \in Seq(Strings) /\ Len(p) - 1 \in 0 .. Len(p)
    BY DEF TreeInv, Shape, Root
  <2>2. Front(p) = Prefix(p, Len(p) - 1)
    BY DEF Front, Prefix
  <2> QED BY <2>1, <2>2 DEF TreeInv, Shape
<1> QED BY <1>1, TreeInvariant, PTL

\* The counts AddInput and DeleteChildrenIntern keep node by node are the
\* sizes of the tree and of the set of its leaves.
THEOREM CountsStayExact ==
  Spec => []CountsAreExact
<1>1. TreeInv => CountsAreExact
  BY DEF TreeInv, Counted
<1> QED BY <1>1, TreeInvariant, PTL

\* An incremental save leaves out nothing: a node gets or loses a child, or a
\* verdict, only in a step that flags it.
THEOREM ChangesStayFlagged ==
  Spec => []ChangesAreFlagged
<1> USE DEF TreeInv
<1>1. Init => ChangesAreFlagged
  BY DEF Init, ChangesAreFlagged, Paths
<1>2. ASSUME TreeInv, ChangesAreFlagged, NEW i \in Inputs, NEW r \in Results,
             AddInput(i, r)
      PROVE  ChangesAreFlagged'
  <2> DEFINE s == Sequence[i]
  <2>1. /\ s \in Seq(Strings) /\ s # <<>>
        /\ DOMAIN nodes' = (Paths \cup Missing(s)) \ Killed(s, r)
        /\ \A p \in DOMAIN nodes' \ {s} :
             nodes'[p] = IF p \in Paths THEN nodes[p] ELSE NewNode
        /\ \A p \in Paths : p \in Killed(s, r) <=>
             r \in Fixed /\ IsPrefix(s, p) /\ p # s
    BY <1>2, AddEffect
  <2>2. /\ changed' = (changed \cup Flagged(s)) \ Killed(s, r)
        /\ disk' = disk
        /\ treechanged' = (treechanged \/ Missing(s) # {})
        /\ depth' = IF depth < Len(s) THEN Len(s) ELSE depth
    BY <1>2 DEF AddInput
  <2>3. ASSUME NEW p \in Paths', p \notin changed'
        PROVE  p \in DOMAIN disk'.nodes /\ disk'.nodes[p] = Record(p)'
    <3>1. /\ p \in Paths /\ p \notin changed /\ p # s
          /\ p \notin Attached(s) /\ p \notin Killed(s, r)
      BY <2>1, <2>2, <2>3 DEF Flagged, Paths
    <3>2. nodes'[p] = nodes[p]
      BY <2>1, <2>3, <3>1 DEF Paths
    <3>3. ASSUME NEW x, x # Root, Front(x) = p
          PROVE  x \in Paths' <=> x \in Paths
      <4>1. CASE x \in Missing(s)
        BY <3>1, <3>3, <4>1 DEF Attached
      <4>2. CASE x \notin Missing(s) /\ x \in Paths
        <5>1. x \in Seq(Strings) /\ p \in Seq(Strings)
          BY <1>2, <3>1, <4>2 DEF Shape
        <5>2. p = Prefix(x, Len(x) - 1) /\ Len(x) - 1 \in 0 .. Len(x)
          BY <3>3, <5>1 DEF Front, Prefix, Root
        <5>3. Len(p) = Len(x) - 1 /\ IsPrefix(p, x)
          BY <5>1, <5>2, PrefixFacts
        <5>4. ASSUME x \in Killed(s, r)
              PROVE  FALSE
          <6>1. r \in Fixed /\ IsPrefix(s, x) /\ s # x
            BY <2>1, <4>2, <5>4
          <6>2. Len(s) <= Len(p)
            <7>1. Len(s) <= Len(x) /\ s = Prefix(x, Len(s))
              BY <2>1, <5>1, <6>1, PrefixIsCut
            <7>2. Len(s) # Len(x)
              BY <5>1, <6>1, <7>1, SubSeqFull DEF Prefix
            <7> QED BY <2>1, <5>1, <5>3, <7>1, <7>2
          <6>3. IsPrefix(s, p)
            BY <2>1, <5>1, <5>3, <6>1, <6>2, PrefixOrder
          <6> QED BY <2>1, <3>1, <6>1, <6>3
        <5> QED BY <2>1, <4>2, <5>4 DEF Paths
      <4>3. CASE x \notin Missing(s) /\ x \notin Paths
        BY <2>1, <4>3 DEF Paths
      <4> QED BY <4>1, <4>2, <4>3
    <3>4. {x \in Paths' \ {Root} : Front(x) = p}
            = {x \in Paths \ {Root} : Front(x) = p}
      BY <3>3
    <3>5. Record(p)' = Record(p)
      BY <3>2, <3>4 DEF Record
    <3> QED BY <1>2, <2>2, <3>1, <3>5 DEF ChangesAreFlagged
  <2>4. ASSUME ~treechanged'
        PROVE  disk'.depth = depth'
    <3>1. ~treechanged /\ s \in Paths
      BY <1>2, <2>1, <2>2, <2>4, MissingFacts
    <3>2. Len(s) <= depth /\ depth \in Nat
      BY <1>2, <3>1 DEF Shape
    <3> QED BY <1>2, <2>1, <2>2, <3>1, <3>2 DEF ChangesAreFlagged
  <2> QED BY <2>3, <2>4 DEF ChangesAreFlagged
<1>3. ASSUME ChangesAreFlagged, Save
      PROVE  ChangesAreFlagged'
  <2>1. Paths' = Paths /\ nodes' = nodes /\ depth' = depth
    BY <1>3 DEF Save, Paths, counts
  <2>2. ASSUME NEW p \in Paths
        PROVE  p \in DOMAIN disk'.nodes /\ disk'.nodes[p] = Record(p)
    BY <1>3 DEF Save, ChangesAreFlagged
  <2>3. disk'.depth = depth
    BY <1>3 DEF Save, ChangesAreFlagged
  <2>4. \A p : Record(p)' = Record(p)
    BY <2>1 DEF Record
  <2> QED BY <2>1, <2>2, <2>3, <2>4 DEF ChangesAreFlagged
<1>4. ASSUME ChangesAreFlagged, UNCHANGED vars
      PROVE  ChangesAreFlagged'
  BY <1>4 DEF ChangesAreFlagged, vars, counts, flags, Paths, Record
<1>5. TreeInv /\ ChangesAreFlagged /\ [Next]_vars => ChangesAreFlagged'
  BY <1>2, <1>3, <1>4 DEF Next
<1> QED BY <1>1, <1>5, TreeInvariant, PTL DEF Spec-----------------------------------------------------------------------------
(* The tree implements the set of verdicts.                                *)

\* Both modules speak of the same prefixes, results and replies.
LEMMA SameWords ==
  /\ \A p, s : Set!IsPrefix(p, s) <=> IsPrefix(p, s)
  /\ Set!Fixed = Fixed /\ Set!Results = Results
  /\ \A x : Set!Hit(x) = Hit(x) /\ Set!Ext(x) = Ext(x)
  /\ Set!NoReply = NoReply
BY DEF Set!IsPrefix, IsPrefix, Set!Fixed, Fixed, Set!Results, Results,
       Set!Hit, Hit, Set!Ext, Ext, Set!NoReply, NoReply

\* The set holds the nodes with a result, and of each the result and the input.
LEMMA VerdictFacts ==
  /\ DOMAIN Verdicts = {p \in Paths : nodes[p].result # "Undefined"}
  /\ \A p \in DOMAIN Verdicts : /\ Verdicts[p].result = nodes[p].result
                                /\ Verdicts[p].input = nodes[p].input
                                /\ Verdicts[p] = [result |-> nodes[p].result,
                                                  input |-> nodes[p].input]
BY DEF Verdicts

\* The tree refuses, drops and records what the set does: that a walk finds the
\* deciding leaf, and that DeleteChildrenIntern deletes every verdict below the
\* new one, needs the shape.
LEMMA AddRecords ==
  ASSUME Shape, NEW i \in Inputs, NEW r \in Results, AddInput(i, r)
  PROVE  Set!Record(i, r)
<1> DEFINE s == Sequence[i]
<1>1. /\ s \in Seq(Strings) /\ s # <<>>
      /\ DOMAIN nodes' = (Paths \cup Missing(s)) \ Killed(s, r)
      /\ s \in DOMAIN nodes' /\ nodes'[s] = Verdict(i, r)
      /\ \A p \in DOMAIN nodes' \ {s} :
           nodes'[p] = IF p \in Paths THEN nodes[p] ELSE NewNode
  BY AddEffect
<1>2. nodes'[s].result = r /\ nodes'[s].input = i /\ r # "Undefined"
  BY <1>1, VerdictEffect, NewNodes
<1>3. ASSUME NEW p \in DOMAIN Verdicts, Set!Decides(p, s)
      PROVE  FALSE
  <2>1. p \in Paths /\ nodes[p].result \in Fixed /\ IsPrefix(p, s)
    BY <1>3, VerdictFacts, SameWords DEF Set!Decides
  <2> QED BY <1>1, <2>1, NotDecided DEF AddInput
<1>4. Set!Recordable(s)
  <2>1. Len(s) <= LengthLimit
    BY <1>1, TreeAssumption DEF AddInput, Ignored
  <2>2. ~Set!Decided(s)
    BY <1>3 DEF Set!Decided
  <2> QED BY <1>1, <2>1, <2>2 DEF Set!Recordable
<1> DEFINE D == Set!Kept(s, r) \cup {s}
<1>5. ASSUME NEW p
      PROVE  p \in Paths' /\ nodes'[p].result # "Undefined" <=> p \in D
  <2>1. p \in Set!Kept(s, r) <=>
          /\ p \in Paths /\ nodes[p].result # "Undefined"
          /\ ~(r \in Fixed /\ IsPrefix(s, p))
    BY VerdictFacts, SameWords DEF Set!Kept
  <2>2. CASE p = s
    BY <1>1, <1>2, <2>2 DEF Paths
  <2>3. CASE p # s
    <3>1. ASSUME p \in Paths', nodes'[p].result # "Undefined"
          PROVE  p \in D
      <4>1. p \in Paths /\ nodes[p].result # "Undefined"
        BY <1>1, <2>3, <3>1, NewNodes DEF Paths
      <4>2. p \notin Killed(s, r)
        BY <1>1, <3>1 DEF Paths
      <4>3. ~(r \in Fixed /\ IsPrefix(s, p))
        BY <2>3, <4>1, <4>2, AddEffect
      <4> QED BY <2>1, <4>1, <4>3
    <3>2. ASSUME p \in D
          PROVE  p \in Paths' /\ nodes'[p].result # "Undefined"
      <4>1. /\ p \in Paths /\ nodes[p].result # "Undefined"
            /\ ~(r \in Fixed /\ IsPrefix(s, p))
        BY <2>1, <2>3, <3>2
      <4>2. p \in Paths'
        BY <4>1, PathsAfter DEF Shape
      <4> QED BY <1>1, <2>3, <4>1, <4>2 DEF Paths
    <3> QED BY <3>1, <3>2
  <2> QED BY <2>2, <2>3
<1>6. Verdicts' = [p \in D |-> [result |-> nodes'[p].result,
                                input |-> nodes'[p].input]]
  <2> HIDE DEF D
  <2>1. {p \in Paths' : nodes'[p].result # "Undefined"} = D
    BY <1>5
  <2> QED BY <2>1 DEF Verdicts
<1>7. ASSUME NEW p \in D, p # s
      PROVE  [result |-> nodes'[p].result, input |-> nodes'[p].input] = Verdicts[p]
  <2>1. p \in DOMAIN Verdicts
    BY <1>7 DEF Set!Kept
  <2>2. p \in Paths
    BY <2>1, VerdictFacts
  <2>3. nodes'[p] = nodes[p]
    BY <1>1, <1>5, <1>7, <2>2 DEF Paths
  <2> QED BY <2>1, <2>3, VerdictFacts
<1>8. Verdicts' = [p \in D |-> IF p = s THEN [result |-> r, input |-> i]
                                        ELSE Verdicts[p]]
  <2> HIDE DEF D, s
  <2> QED BY <1>2, <1>6, <1>7
<1> QED BY <1>4, <1>8 DEF Set!Record

\* Nothing but a recorded verdict changes the set the tree stands for.
THEOREM TreeImplementsSet ==
  Spec => ExclusionSpec
<1>1. Init => Set!Init
  <2> SUFFICES ASSUME Init
               PROVE  Verdicts = <<>>
    BY DEF Set!Init
  <2>1. Paths = {Root} /\ nodes[Root] = NewNode
    BY DEF Init, Paths
  <2>2. {p \in Paths : nodes[p].result # "Undefined"} = {}
    BY <2>1, NewNodes
  <2> QED BY <2>2 DEF Verdicts
<1>2. TreeInv /\ [Next]_vars => [Set!Next]_Verdicts
  <2> SUFFICES ASSUME TreeInv, [Next]_vars
               PROVE  [Set!Next]_Verdicts
    OBVIOUS
  <2>1. CASE \E i \in Inputs, r \in Results : AddInput(i, r)
    BY <2>1, AddRecords, SameWords DEF Set!Next, TreeInv
  <2>2. CASE UNCHANGED nodes
    BY <2>2 DEF Verdicts, Paths
  <2> QED BY <2>1, <2>2 DEF Next, Save, vars
<1> QED BY <1>1, <1>2, TreeInvariant, PTL DEF Spec, ExclusionSpec, Set!Spec-----------------------------------------------------------------------------
(* The answers are those of the set.                                       *)

\* The three kinds of reply are told apart by their two flags.
LEMMA ReplyFacts ==
  \A x : Hit(x) # NoReply
<1>1. NoReply.hit = FALSE
  BY DEF NoReply
<1>2. \A x : Hit(x).hit = TRUE
  BY DEF Hit
<1> QED BY <1>1, <1>2, Zenon

\* A leaf on the walk along s is a verdict that decides s, and the walk meets
\* no second one.
LEMMA LeafDecides ==
  ASSUME Shape, NEW s \in Seq(Strings), NEW k \in LeavesOn(s)
  PROVE  /\ Prefix(s, k) \in DOMAIN Verdicts /\ Set!Decides(Prefix(s, k), s)
         /\ \A j \in LeavesOn(s) : j = k
<1>1. ASSUME NEW j \in LeavesOn(s)
      PROVE  /\ j \in 1 .. Len(s) /\ Prefix(s, j) \in Paths
             /\ Prefix(s, j) \in Seq(Strings) /\ Len(Prefix(s, j)) = j
             /\ nodes[Prefix(s, j)].leaf /\ IsPrefix(Prefix(s, j), s)
             /\ nodes[Prefix(s, j)].result \in Fixed
  <2>1. j \in 1 .. Len(s) /\ Prefix(s, j) \in Paths /\ nodes[Prefix(s, j)].leaf
    BY <1>1 DEF LeavesOn, Reaches
  <2>2. j \in 0 .. Len(s)
    BY <2>1
  <2>3. /\ Prefix(s, j) \in Seq(Strings) /\ Len(Prefix(s, j)) = j
        /\ IsPrefix(Prefix(s, j), s)
    BY <2>2, PrefixFacts
  <2> QED BY <2>1, <2>3 DEF Shape
<1>2. Prefix(s, k) \in DOMAIN Verdicts /\ Set!Decides(Prefix(s, k), s)
  BY <1>1, VerdictFacts, SameWords, NewNodes DEF Set!Decides
<1>3. ASSUME NEW a \in LeavesOn(s), NEW b \in LeavesOn(s), a <= b
      PROVE  a = b
  <2>1. IsPrefix(Prefix(s, a), Prefix(s, b))
    BY <1>1, <1>3, PrefixOrder
  <2>2. Prefix(s, a) = Prefix(s, b)
    BY <1>1, <2>1 DEF Shape, StrictlyBelow, IsStrictPrefix
  <2> QED BY <1>1, <2>2
<1>4. ASSUME NEW j \in LeavesOn(s)
      PROVE  j = k
  <2>1. j \in Nat /\ k \in Nat
    BY <1>1
  <2> QED BY <1>3, <2>1
<1> QED BY <1>2, <1>4

\* The walk along s finds a leaf exactly if a verdict decides s.
LEMMA WalkDecides ==
  ASSUME Shape, NEW s \in Seq(Strings)
  PROVE  Set!Decided(s) <=> LeavesOn(s) # {}
<1>1. ASSUME NEW p \in DOMAIN Verdicts, Set!Decides(p, s)
      PROVE  LeavesOn(s) # {}
  <2>1. p \in Paths /\ nodes[p].result \in Fixed /\ IsPrefix(p, s)
    BY <1>1, VerdictFacts, SameWords DEF Set!Decides
  <2>2. p \in Seq(Strings) /\ p # <<>> /\ nodes[p].leaf
    BY <2>1, NewNodes DEF Shape, Root
  <2>3. Len(p) \in 1 .. Len(s) /\ p = Prefix(s, Len(p))
    BY <2>1, <2>2, PrefixIsCut
  <2>4. ASSUME NEW j \in 1 .. Len(p)
        PROVE  Prefix(s, j) \in Paths
    <3>1. Prefix(p, j) \in Paths
      BY <2>1 DEF Shape
    <3>2. Prefix(p, j) = Prefix(s, j)
      BY <2>3, PrefixFacts
    <3> QED BY <3>1, <3>2
  <2>5. Len(p) \in LeavesOn(s)
    BY <2>2, <2>3, <2>4 DEF LeavesOn, Reaches
  <2> QED BY <2>5
<1> QED BY <1>1, LeafDecides DEF Set!Decided

\* An undecided s was tried exactly if it has a verdict.
LEMMA WalkTries ==
  ASSUME Shape, NEW s \in Seq(Strings), ~Set!Decided(s)
  PROVE  /\ Tried(s) # {} <=> s \in DOMAIN Verdicts
         /\ Tried(s) # {} => Tried(s) = {Len(s)} /\ Prefix(s, Len(s)) = s
<1>1. Prefix(s, Len(s)) = s /\ IsPrefix(s, s)
  BY SubSeqFull, PrefixOrder DEF Prefix
<1>2. Tried(s) \subseteq {Len(s)}
  BY DEF Tried
<1>3. ASSUME Tried(s) # {}
      PROVE  s \in DOMAIN Verdicts
  <2>1. Len(s) \in Tried(s) /\ Len(s) # 0 /\ Len(s) \in Nat
    BY <1>2, <1>3 DEF Tried
  <2>2. Len(s) \in 1 .. Len(s)
    BY <2>1
  <2>3. s \in Paths /\ nodes[s].result = "Unfinished"
    BY <1>1, <2>1, <2>2 DEF Tried, Reaches
  <2> QED BY <2>3, VerdictFacts
<1>4. ASSUME s \in DOMAIN Verdicts
      PROVE  Tried(s) # {}
  <2>1. s \in Paths /\ nodes[s].result # "Undefined"
    BY <1>4, VerdictFacts
  <2>2. nodes[s].result \notin Fixed
    BY <1>1, <1>4, VerdictFacts, SameWords DEF Set!Decided, Set!Decides
  <2>3. nodes[s].result = "Unfinished"
    BY <2>1, <2>2 DEF Shape, Node, Results
  <2>4. s # <<>> /\ Len(s) # 0
    BY <2>1 DEF Shape, Root
  <2>5. Reaches(s, Len(s))
    BY <2>1 DEF Shape, Reaches
  <2> QED BY <1>1, <2>3, <2>4, <2>5 DEF Tried
<1> QED BY <1>1, <1>2, <1>3, <1>4

\* The least element of a set of one number.
LEMMA MinOfOne ==
  ASSUME NEW S, NEW k \in Int, S = {k}
  PROVE  Min(S) = k
BY DEF Min

\* HasPrefix.
LEMMA PrefixAnswer ==
  ASSUME Shape, NEW s \in Seq(Strings)
  PROVE  /\ HasPrefix(s) \in Set!Answers(s)
         /\ HasPrefix(s) = NoReply <=> Set!Answers(s) = {NoReply}
<1>1. CASE Set!Decided(s)
  <2>1. PICK k \in LeavesOn(s) : TRUE
    BY <1>1, WalkDecides
  <2>2. LeavesOn(s) = {k} /\ k \in Int
    BY <2>1, LeafDecides DEF LeavesOn
  <2>3. Min(LeavesOn(s)) = k
    BY <2>2, MinOfOne
  <2>4. HasPrefix(s) = Hit(nodes[Prefix(s, k)].input)
    BY <2>2, <2>3 DEF HasPrefix
  <2>5. HasPrefix(s) = Hit(Verdicts[Prefix(s, k)].input)
    BY <2>1, <2>4, LeafDecides, VerdictFacts
  <2>6. Set!Answers(s) =
          {Hit(Verdicts[p].input) : p \in {q \in DOMAIN Verdicts : Set!Decides(q, s)}}
    BY <1>1, SameWords DEF Set!Answers
  <2>7. HasPrefix(s) \in Set!Answers(s)
    BY <2>1, <2>5, <2>6, LeafDecides
  <2> QED BY <2>5, <2>7, ReplyFacts
<1>2. CASE ~Set!Decided(s)
  <2>1. LeavesOn(s) = {}
    BY <1>2, WalkDecides
  <2>2. CASE s \in DOMAIN Verdicts
    <3>1. Tried(s) = {Len(s)} /\ Prefix(s, Len(s)) = s
      BY <1>2, <2>2, WalkTries
    <3>2. Min(Tried(s)) = Len(s)
      BY <3>1, MinOfOne
    <3>3. HasPrefix(s) = Hit(nodes[s].input)
      BY <2>1, <3>1, <3>2 DEF HasPrefix
    <3>4. HasPrefix(s) = Hit(Verdicts[s].input)
      BY <2>2, <3>3, VerdictFacts
    <3>5. Set!Answers(s) = {Hit(Verdicts[s].input)}
      BY <1>2, <2>2, SameWords DEF Set!Answers
    <3> QED BY <3>4, <3>5, ReplyFacts
  <2>3. CASE s \notin DOMAIN Verdicts
    <3>1. HasPrefix(s) = NoReply
      BY <1>2, <2>1, <2>3, WalkTries DEF HasPrefix
    <3>2. Set!Answers(s) = {NoReply}
      BY <1>2, <2>3, SameWords DEF Set!Answers
    <3> QED BY <3>1, <3>2
  <2> QED BY <2>2, <2>3
<1> QED BY <1>1, <1>2

\* The nodes the search stops at are the verdicts at or below s.
LEMMA SearchEnds ==
  ASSUME Shape, NEW s \in Seq(Strings)
  PROVE  /\ Ends(s) = Set!Extensions(s)
         /\ FirstEnds(s) = Set!Shortest(s)
         /\ Ends(s) # {} => s \in Paths
<1>1. ASSUME NEW p \in Paths
      PROVE  nodes[p].leaf \/ nodes[p].result = "Unfinished"
               <=> nodes[p].result # "Undefined"
  <2>1. nodes[p].leaf <=> nodes[p].result \in Fixed
    BY DEF Shape
  <2>2. nodes[p].result \in Results \cup {"Undefined"}
    BY DEF Shape, Node
  <2> QED BY <2>1, <2>2, NewNodes DEF Results, Fixed
<1>2. Ends(s) = Set!Extensions(s)
  BY <1>1, VerdictFacts, SameWords DEF Ends, Set!Extensions
<1>3. FirstEnds(s) = Set!Shortest(s)
  BY <1>2 DEF FirstEnds, Set!Shortest
<1>4. ASSUME NEW p \in Ends(s)
      PROVE  s \in Paths
  <2>1. p \in Paths /\ p \in Seq(Strings) /\ IsPrefix(s, p)
    BY DEF Ends, Shape
  <2>2. Len(s) \in 0 .. Len(p) /\ s = Prefix(p, Len(s))
    BY <2>1, PrefixIsCut
  <2> QED BY <2>1, <2>2 DEF Shape
<1> QED BY <1>2, <1>3, <1>4

\* Both questions answer as the set does: an input is excluded exactly by a
\* prefix with a fixed result or by its own sequence, and where it is not, the
\* extension that is returned is a shortest one.
THEOREM AnswersStayRight ==
  Spec => []AnswersAreRight
<1>1. ASSUME Shape, NEW s \in Seq(Strings)
      PROVE  HasPrefixAndShortestExtension(s) \subseteq Set!ExtendedAnswers(s)
  <2>1. CASE HasPrefix(s) = NoReply /\ Ends(s) # {}
    <3>1. HasPrefixAndShortestExtension(s) =
            {Ext(nodes[p].input) : p \in FirstEnds(s)}
      BY <1>1, <2>1, SearchEnds DEF HasPrefixAndShortestExtension
    <3>2. Set!ExtendedAnswers(s) = {Ext(Verdicts[p].input) : p \in Set!Shortest(s)}
      BY <1>1, <2>1, SearchEnds, PrefixAnswer, SameWords DEF Set!ExtendedAnswers
    <3>3. \A p \in FirstEnds(s) : Verdicts[p].input = nodes[p].input
      BY <1>1, SearchEnds, VerdictFacts DEF Set!Shortest, Set!Extensions
    <3> QED BY <1>1, <3>1, <3>2, <3>3, SearchEnds
  <2>2. CASE ~(HasPrefix(s) = NoReply /\ Ends(s) # {})
    <3>1. HasPrefixAndShortestExtension(s) = {HasPrefix(s)}
      BY <2>2 DEF HasPrefixAndShortestExtension
    <3>2. Set!ExtendedAnswers(s) = Set!Answers(s)
      BY <1>1, <2>2, SearchEnds, PrefixAnswer, SameWords DEF Set!ExtendedAnswers
    <3> QED BY <1>1, <3>1, <3>2, PrefixAnswer
  <2> QED BY <2>1, <2>2
<1>2. TreeInv => AnswersAreRight
  BY <1>1, InputFacts, PrefixAnswer DEF AnswersAreRight, TreeInv
<1> QED BY <1>2, TreeInvariant, PTL
=============================================================================
