---------------------------- MODULE ExclusionTree ----------------------------
(***************************************************************************)
(* The exclusion tree of src/src/ExclusionTree.cpp: the sequences of       *)
(* strings of the inputs that were run, with their results.  The end of a  *)
(* test adds its input, holding the lock of the tree exclusively: one      *)
(* step.  The two questions, which are asked when an input is generated    *)
(* and before its test starts, hold the lock shared and change nothing:    *)
(* they are operators, and may be asked in every state.                    *)
(*                                                                         *)
(* HasChild finds at most one child for a string, so that a node is named  *)
(* by the strings on the way to it: the children of p are the nodes        *)
(* Append(p, string), and the root is <<>>.                                *)
(***************************************************************************)
EXTENDS Integers, Sequences, FiniteSets, SequencesExt

CONSTANTS
  Inputs,       \* the inputs
  Sequence,     \* _sequence of an input
  Strings,      \* what a sequence is made of
  LengthLimit,  \* exclusionTreeLengthLimit
  NoInput       \* _InputID of a node no input ended at

ASSUME TreeAssumption ==
  /\ Sequence \in [Inputs -> Seq(Strings)]
  /\ LengthLimit \in Nat
  /\ NoInput \notin Inputs

VARIABLES
  nodes,        \* the nodes: _result, IsLeaf and _InputID of each
  depth,        \* depth
  leafcount,    \* leafcount
  nodecount,    \* nodecount
  changed,      \* the nodes whose change flag is set
  treechanged,  \* the change flag of the tree itself
  disk          \* what the save files say of each node, and of the depth

counts == <<depth, leafcount, nodecount>>
flags  == <<changed, treechanged>>
vars   == <<nodes, counts, flags, disk>>

Root    == <<>>
Fixed   == {"Passing", "Failing"}
Results == Fixed \cup {"Unfinished"}
Node    == [result : Results \cup {"Undefined"}, leaf : BOOLEAN,
            input : Inputs \cup {NoInput}]
NewNode == [result |-> "Undefined", leaf |-> FALSE, input |-> NoInput]

Paths     == DOMAIN nodes
Leaves    == {p \in Paths : nodes[p].leaf}
Prefix(s, k)      == SubSeq(s, 1, k)
PrefixesOf(s)     == {Prefix(s, k) : k \in 1 .. Len(s)}
StrictlyBelow(s)  == {p \in Paths : IsStrictPrefix(s, p)}

\* What a question returns: nothing, an input that excludes the one asked for,
\* or an input that extends it.
NoReply == [hit |-> FALSE, ext |-> FALSE]
Hit(i)  == [hit |-> TRUE, ext |-> FALSE, input |-> i]
Ext(i)  == [hit |-> FALSE, ext |-> TRUE, input |-> i]

Init ==
  /\ nodes = [p \in {Root} |-> NewNode]
  /\ depth = 0 /\ leafcount = 0 /\ nodecount = 0
  /\ changed = {Root} /\ treechanged = TRUE
  /\ disk = [nodes |-> <<>>, depth |-> 0]

-----------------------------------------------------------------------------
(* The walk from the root along the strings of s, by HasChild.             *)

\* The walk comes to the node after k strings.
Reaches(s, k) == \A j \in 1 .. k : Prefix(s, j) \in Paths

\* The leaf the walk ends at, if there is one.
LeavesOn(s) == {k \in 1 .. Len(s) : Reaches(s, k) /\ nodes[Prefix(s, k)].leaf}

\* Mutant of EndsEarly: only the sequence itself is looked at.
EndsEarlyAtEnd(s) == Len(s) \in LeavesOn(s)

\* The walk of AddInput ends early only at a leaf with a fixed result.
EndsEarly(s) == \E k \in LeavesOn(s) : nodes[Prefix(s, k)].result \in Fixed

Ignored(s) == s = <<>> \/ Len(s) > LengthLimit

Missing(s) == PrefixesOf(s) \ Paths

\* The node a missing child is appended to, if one is missing.
Attached(s) == {p \in Paths : \E x \in Missing(s) : Front(x) = p}

Grown(s) ==
  [p \in Paths \cup Missing(s) |-> IF p \in Paths THEN nodes[p] ELSE NewNode]

Verdict(i, r) == [result |-> r, leaf |-> r \in Fixed, input |-> i]

\* Mutant of Killed: only the children themselves are deleted.
KilledChildren(s, r) ==
  IF r \in Fixed THEN {p \in StrictlyBelow(s) : Len(p) = Len(s) + 1} ELSE {}

\* DeleteChildrenIntern.
Killed(s, r) == IF r \in Fixed THEN StrictlyBelow(s) ELSE {}

\* Mutants of LeafGain: deleted leaves are still counted; the new one is not.
LeafGainOnly(s, r) == IF r \in Fixed THEN 1 ELSE 0
LeafLossOnly(s, r) == 0 - Cardinality(Killed(s, r) \cap Leaves)

LeafGain(s, r) ==
  IF r \in Fixed THEN 1 - Cardinality(Killed(s, r) \cap Leaves) ELSE 0

\* Mutant of Flagged: the node that gets new children is forgotten.
FlaggedEndOnly(s) == Missing(s) \cup {s}

Flagged(s) == Attached(s) \cup Missing(s) \cup {s}

AddInput(i, r) ==
  LET s == Sequence[i] IN
  /\ ~Ignored(s)
  /\ ~EndsEarly(s)
  /\ nodes' = [p \in DOMAIN Grown(s) \ Killed(s, r) |->
                 IF p = s THEN Verdict(i, r) ELSE Grown(s)[p]]
  /\ nodecount' = nodecount + Cardinality(Missing(s))
                    - Cardinality(Killed(s, r))
  /\ leafcount' = leafcount + LeafGain(s, r)
  /\ depth' = IF depth < Len(s) THEN Len(s) ELSE depth
  /\ changed' = (changed \cup Flagged(s)) \ Killed(s, r)
  /\ treechanged' = (treechanged \/ Missing(s) # {})
  /\ UNCHANGED disk
-----------------------------------------------------------------------------
(* The questions.                                                          *)

\* Mutant of Tried: an unfinished prefix is taken for an answer too.
TriedPrefix(s) ==
  {k \in 1 .. Len(s) : Reaches(s, k) /\ nodes[Prefix(s, k)].result = "Unfinished"}

\* The walk comes to the end of s and finds that it was tried without a result.
Tried(s) ==
  {k \in {Len(s)} \ {0} : Reaches(s, k) /\ nodes[Prefix(s, k)].result = "Unfinished"}

\* The walk ends with an answer at the first leaf, else at the end of s.
HasPrefix(s) ==
  IF LeavesOn(s) # {}
    THEN Hit(nodes[Prefix(s, Min(LeavesOn(s)))].input)
  ELSE IF Tried(s) # {}
    THEN Hit(nodes[Prefix(s, Min(Tried(s)))].input)
  ELSE NoReply

\* The nodes at or below s the breadth-first search would stop at.
Ends(s) == {p \in Paths : IsPrefix(s, p)
                          /\ (nodes[p].leaf \/ nodes[p].result = "Unfinished")}

\* It meets shorter ones first; the order within a level is that of creation.
FirstEnds(s) == {p \in Ends(s) : \A q \in Ends(s) : Len(p) <= Len(q)}

HasPrefixAndShortestExtension(s) ==
  IF HasPrefix(s) = NoReply /\ s \in Paths /\ Ends(s) # {}
    THEN {Ext(nodes[p].input) : p \in FirstEnds(s)}
    ELSE {HasPrefix(s)}

-----------------------------------------------------------------------------
(* Save writes the forms whose flag is set (Data::SaveIntern); tasks and   *)
(* tests are frozen meanwhile, so that nothing is added.                   *)

\* WriteData of a node: its result and its children.
Record(p) == [node |-> nodes[p],
              children |-> {Last(c) : c \in {x \in Paths \ {Root} : Front(x) = p}}]

Save ==
  /\ disk' = [nodes |-> [p \in Paths |-> IF p \in changed THEN Record(p)
                                                         ELSE disk.nodes[p]],
              depth |-> IF treechanged THEN depth ELSE disk.depth]
  /\ changed' = {}
  /\ treechanged' = FALSE
  /\ UNCHANGED <<nodes, counts>>

Next ==
  \/ \E i \in Inputs, r \in Results : AddInput(i, r)
  \/ Save

Spec == Init /\ [][Next]_vars

-----------------------------------------------------------------------------
(* Properties.                                                             *)

\* The type invariant.  The counters are unsigned: none falls below zero.
TypeOK ==
  /\ nodes \in [Paths -> Node] /\ Paths \subseteq Seq(Strings)
  /\ Root \in Paths
  /\ depth \in Nat /\ leafcount \in Nat /\ nodecount \in Nat
  /\ changed \subseteq Paths /\ treechanged \in BOOLEAN

\* Every node hangs at its parent, the leaves are the nodes with a fixed
\* result and have nothing below them, and every other end of the tree is a
\* sequence that was tried: AddInput and DeleteChildrenIntern, through any
\* series of results, leave neither orphans nor paths no input ends on, on
\* which the search of HasPrefixAndShortestExtension would come out empty.
TreeIsPruned ==
  \A p \in Paths :
    /\ p # Root => Front(p) \in Paths
    /\ nodes[p].leaf <=> nodes[p].result \in Fixed
    /\ nodes[p].leaf => StrictlyBelow(p) = {}
    /\ p # Root /\ StrictlyBelow(p) = {} => nodes[p].result # "Undefined"
    /\ nodes[p].result # "Undefined" => nodes[p].input \in Inputs
    /\ Len(p) <= depth

\* The counts the session shows are those of the tree, although AddInput and
\* DeleteChildrenIntern count every node and leaf by itself.
CountsAreExact ==
  /\ nodecount = Cardinality(Paths) - 1
  /\ leafcount = Cardinality(Leaves)

\* A node that is not flagged, and the depth of a tree that is not, are in the
\* save files as they are in memory: an incremental save leaves out nothing.
ChangesAreFlagged ==
  /\ \A p \in Paths \ changed :
       p \in DOMAIN disk.nodes /\ disk.nodes[p] = Record(p)
  /\ ~treechanged => disk.depth = depth

\* The tree is a set of verdicts: AddInput records what the set records and
\* forgets what it forgets.
Verdicts ==
  LET with == {p \in Paths : nodes[p].result # "Undefined"} IN
  [p \in with |-> [result |-> nodes[p].result, input |-> nodes[p].input]]

Set == INSTANCE ExclusionSet WITH verdicts <- Verdicts

ExclusionSpec == Set!Spec

\* Whatever was recorded before, in whatever order, the walk and the search
\* answer as the set does: an input is excluded exactly by a prefix with a
\* fixed result or by its own sequence, and the extension is a shortest one.
AnswersAreRight ==
  \A i \in Inputs :
    LET s == Sequence[i] IN
    /\ HasPrefix(s) \in Set!Answers(s)
    /\ HasPrefixAndShortestExtension(s) \subseteq Set!ExtendedAnswers(s)
=============================================================================
