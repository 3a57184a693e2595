--------------------------- MODULE EarleyParser ---------------------------
(***************************************************************************)
(* The parser of src/include/EarleyParser.h on the tree that               *)
(* InsertParseNodes of src/src/Grammar.cpp makes for it: given the         *)
(* sequence nodes that an extraction keeps, is there a tree for them, and  *)
(* which sequence nodes has the first one?                                 *)
(*                                                                         *)
(* A chart is a sequence, from input position 0 on, of sequences of        *)
(* states; a state refers to the states it came from, its backtrace, by    *)
(* their places <<position, number>> in the chart.                         *)
(***************************************************************************)
EXTENDS GrammarTree

CONSTANT MaxChart   \* bound on the states of one position and on the depth
                    \* of a tree: beyond it the parser does not end

NoState == <<>>

-----------------------------------------------------------------------------
(* InsertParseNodes: a sequence node S is replaced by a new node, wherever *)
(* it occurs, and the new node has the one alternative S.                  *)

Node(n)      == <<"node", n>>
ParseNode(n) == <<"parse", n>>

SequenceNodes(t) == {n \in t.nodes : t.kind[n] = "sequence"}

\* The alternatives of a node as the parser sees them (getProduction): those
\* beneath a sequence node do not count.
Productions(t, x) ==
  LET Shown(e) == [k \in DOMAIN t.body[e] |->
                     IF /\ t.body[e][k] \in SequenceNodes(t)
                        /\ e \in t.parents[t.body[e][k]]
                     THEN ParseNode(t.body[e][k]) ELSE Node(t.body[e][k])]
  IN  IF x[1] = "parse" THEN << <<Node(x[2])>> >>
      ELSE IF t.kind[x[2]] = "sequence" THEN <<>>
      ELSE [i \in DOMAIN t.alts[x[2]] |-> Shown(t.alts[x[2]][i])]

IsLeaf(t, x) == x[1] = "node" /\ t.kind[x[2]] = "sequence"

-----------------------------------------------------------------------------
(* The chart.                                                              *)

State(nt, number, production, start, progress, back) ==
  [nonTerminal |-> nt, number |-> number, production |-> production,
   start |-> start, progress |-> progress, back |-> back]

IsComplete(s) == s.progress = Len(s.production)
NextSymbol(s) == s.production[s.progress + 1]

CreateChart(t, length) ==
  LET alts == Productions(t, Node(t.root))
  IN  [i \in 1 .. length + 1 |->
         IF i = 1
         THEN [k \in DOMAIN alts |-> State(Node(t.root), k, alts[k], 0, 0, <<NoState>>)]
         ELSE <<>>]

SameState(a, b) ==
  /\ a.nonTerminal = b.nonTerminal /\ a.number = b.number
  /\ a.start = b.start /\ a.progress = b.progress

\* One state for each alternative; a state that is there already gets one
\* more origin.
Predict(t, chart, i, from) ==
  LET x    == NextSymbol(chart[i][from])
      alts == Productions(t, x)
      Insert(column, k) ==
        LET new  == State(x, k, alts[k], i - 1, 0, << <<i, from>> >>)
            same == {j \in DOMAIN column : SameState(column[j], new)}
        IN  IF same = {} THEN Append(column, new)
            ELSE LET first == CHOOSE j \in same : \A l \in same : j <= l
                 IN  [column EXCEPT ![first].back = Append(@, <<i, from>>)]
  IN  [chart EXCEPT ![i] = FoldLeft(Insert, @, [k \in DOMAIN alts |-> k])]

Advance(s, origin) ==
  State(s.nonTerminal, s.number, s.production, s.start, s.progress + 1, <<origin>>)

Scan(chart, i, from, input) ==
  LET s == chart[i][from]
  IN  IF i <= Len(input) /\ input[i] = NextSymbol(s)
      THEN [chart EXCEPT ![i + 1] = Append(@, Advance(s, <<i, from>>))]
      ELSE chart

\* No look whether the advanced state is there already.
Complete(chart, i, from) ==
  LET s       == chart[i][from]
      waiting == SelectSeq(chart[s.start + 1],
                           LAMBDA w : ~IsComplete(w) /\ NextSymbol(w) = s.nonTerminal)
  IN  [chart EXCEPT ![i] = @ \o [k \in DOMAIN waiting |-> Advance(waiting[k], <<i, from>>)]]

\* The chart when every state has been handled, or NoChart: a column that is
\* extended while it is read, or that never ends.
NoChart == <<>>

RECURSIVE Parse(_, _, _, _, _)
Parse(t, chart, i, j, input) ==
  IF i > Len(chart) THEN chart
  ELSE IF j > Len(chart[i]) THEN Parse(t, chart, i + 1, 1, input)
  ELSE LET s == chart[i][j]
       IN  IF Len(chart[i]) > MaxChart \/ (IsComplete(s) /\ s.start = i - 1)
           THEN NoChart
           ELSE Parse(t, CASE IsComplete(s) -> Complete(chart, i, j)
                           [] ~IsComplete(s) /\ Productions(t, NextSymbol(s)) # <<>> ->
                                Predict(t, chart, i, j)
                           [] OTHER -> Scan(chart, i, j, input),
                      i, j + 1, input)

-----------------------------------------------------------------------------
(* returnParsingTrees: the first complete state of the root is expanded    *)
(* into a tree, from right to left along the backtraces.                   *)

At(chart, place) == chart[place[1]][place[2]]

\* One step back.  Where there are several origins, the first that has the
\* production of the father is taken: NoMatch if there is none, Undefined if
\* there is no father or no state.
NoMatch == "no match"

Back(chart, father, place) ==
  IF place \in {<<Undefined>>, NoState} THEN <<Undefined>>
  ELSE LET origins == At(chart, place).back
           match   == {k \in DOMAIN origins :
                         /\ At(chart, origins[k]).nonTerminal = father[1]
                         /\ At(chart, origins[k]).number = father[2]}
       IN  IF Len(origins) = 1 THEN origins[1]
           ELSE IF father = NoState \/ NoState \in Range(origins) THEN <<Undefined>>
           ELSE IF match = {} THEN <<NoMatch>>
           ELSE origins[CHOOSE k \in match : \A l \in match : k <= l]

Failed(place) == place \in {<<Undefined>>, <<NoMatch>>}

\* The leaves of the subtree of a node, left to right, and the place the
\* expansion has come back to.
RECURSIVE ExpandNode(_, _, _, _, _, _)
ExpandNode(t, chart, father, self, k, acc) ==
  IF k = 0 \/ Failed(acc.at) THEN acc
  ELSE LET s     == At(chart, self)
           me    == <<s.nonTerminal, s.number>>
           once  == Back(chart, father, acc.at)
           twice == IF Failed(once) THEN once ELSE Back(chart, father, once)
           leaf  == [leaves |-> <<s.production[k]>> \o acc.leaves,
                     at     |-> twice, depth |-> acc.depth]
           below == IF once = NoState \/ acc.depth = MaxChart
                    THEN [acc EXCEPT !.at = <<Undefined>>]
                    ELSE IF Failed(once) THEN [acc EXCEPT !.at = <<Undefined>>]
                    ELSE ExpandNode(t, chart, me, once, Len(At(chart, once).production),
                                    [acc EXCEPT !.at = once, !.depth = @ + 1])
       IN  ExpandNode(t, chart, father, self, k - 1,
                      IF IsLeaf(t, s.production[k]) THEN leaf
                      ELSE [below EXCEPT !.depth = acc.depth])

\* The complete states of the root at the end of the input.
Roots(t, column) ==
  SelectSeq([j \in DOMAIN column |-> j],
            LAMBDA j : column[j].nonTerminal = Node(t.root) /\ IsComplete(column[j]))

\* All the trees, and the first one of them.
Trees(t, chart) ==
  LET last == Len(chart)
      Start(j) == [leaves |-> <<>>, at |-> <<last, j>>, depth |-> 0]
      Tree(j)  == ExpandNode(t, chart, NoState, <<last, j>>,
                             Len(chart[last][j].production), Start(j))
      roots    == Roots(t, chart[last])
  IN  [k \in DOMAIN roots |-> Tree(roots[k])]

First(trees) ==
  IF trees = <<>> THEN [outcome |-> None, leaves |-> <<>>]
  ELSE IF \E k \in DOMAIN trees : trees[k].at = <<Undefined>>
  THEN [outcome |-> Undefined, leaves |-> <<>>]
  ELSE [outcome |-> "tree",
        leaves  |-> [k \in DOMAIN trees[1].leaves |-> trees[1].leaves[k][2]]]

\* The sequence nodes of the first tree; outcome None if there is no tree,
\* Undefined if the parser reads a state that is not there.
TreeOf(t, chart) ==
  IF chart = NoChart THEN [outcome |-> Undefined, leaves |-> <<>>]
  ELSE First(Trees(t, chart))

FirstTree(t, input) == TreeOf(t, Parse(t, CreateChart(t, Len(input)), 1, 1, input))
=============================================================================
