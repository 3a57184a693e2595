---------------------------- MODULE Derivation ----------------------------
(***************************************************************************)
(* Inputs from a grammar: Derive, DeriveFromNode, Extract, ExtractEarley   *)
(* and, for simple grammars, Extend of src/src/Grammar.cpp.  A derivation  *)
(* tree is abstracted to its nodes in the order of a walk from left to     *)
(* right: the word of sequence nodes, and the nonterminals that are still  *)
(* to be expanded.  What sequence nodes produce beneath them is content    *)
(* and appears only where it is a node of its own.                         *)
(***************************************************************************)
EXTENDS EarleyParser

CONSTANTS
  Targets,     \* lengths that are asked for
  MaxItems,    \* bound on the nodes of a derivation
  TrackBacks   \* nodes that an extension takes back

VARIABLES
  items,       \* the nodes in order: sequence nodes and open nonterminals
  qseq, qnon,  \* qseqnonterminals and qnonterminals, as queues of items
  target, seq, \* the length asked for and the sequence nodes generated
  flip, round, \* the direction of choice, what is left of a round
  lastId,      \* numbers the items
  job,         \* what is being done: Derive, Extend or Extract
  source,      \* the word of the tree that was derived first
  kept,        \* the word that an extraction or extension keeps of it
  length,      \* _sequenceNodes
  valid        \* _valid of the tree

deriveVars == <<items, qseq, qnon, target, seq, flip, round, lastId, job, source,
                kept, length, valid>>
vars == <<treeVars, deriveVars>>

IsSequence(n) == tree.kind[n] = "sequence"

\* The sequence nodes among the items.
Word(list) ==
  LET marks1 == SelectSeq(list, LAMBDA item : IsSequence(item.node))
  IN  [k \in DOMAIN marks1 |-> marks1[k].node]

ToSequence(nodes) == SelectSeq(nodes, LAMBDA n : tree.kind[n] # "terminal")

NewItems(nodes) ==
  [k \in DOMAIN nodes |-> [id |-> lastId + k, node |-> nodes[k]]]

\* The items after item has got the children new.  A sequence node stays, a
\* nonterminal gives way to its children; an item that is not in the list is
\* the root of a tree that is extended: its children come last.
Placed(item, new) ==
  IF ~\E k \in DOMAIN items : items[k].id = item.id THEN items \o new
  ELSE LET k == CHOOSE k \in DOMAIN items : items[k].id = item.id
       IN  SubSeq(items, 1, IF IsSequence(item.node) THEN k ELSE k - 1)
             \o new \o SubSeq(items, k + 1, Len(items))

\* Item is expanded into nodes.  Only the first loop goes on with what
\* produces sequence nodes.
Expand(item, nodes, sorted) ==
  LET new       == NewItems(ToSequence(nodes))
      Forward(i) == sorted /\ i.node \in marks.sequencing
      count     == Cardinality({k \in DOMAIN nodes : IsSequence(nodes[k])})
  IN  /\ lastId + Len(new) <= MaxItems
      /\ items' = Placed(item, new)
      /\ qseq' = Tail(qseq) \o SelectSeq(new, Forward)
      /\ qnon' = qnon \o SelectSeq(new, LAMBDA i : ~Forward(i))
      /\ lastId' = lastId + Len(new)
      /\ seq' = seq + count
      /\ length' = length + count

-----------------------------------------------------------------------------
(* DeriveFromNode, first loop: rounds over the nodes that produce sequence *)
(* nodes, until there are enough.                                          *)

StartRound ==
  /\ phase = "first" /\ round = 0
  /\ IF seq < target /\ qseq # <<>>
     THEN round' = Len(qseq) /\ UNCHANGED phase
     ELSE phase' = "second" /\ UNCHANGED round
  /\ UNCHANGED <<grammar, tree, marks, pending, gone>>
  /\ UNCHANGED <<items, qseq, qnon, target, seq, flip, lastId, job, source, kept,
                 length, valid>>

\* The alternatives to choose from: the one with most sequence nodes, the
\* first of these in the first round and the last from then on; if there are
\* no such, one that can produce sequence nodes later.
Favoured(n) ==
  LET alts == tree.alts[n]
      most == {k \in DOMAIN alts : /\ marks.counts[alts[k]] > 0
                                   /\ \A l \in DOMAIN alts :
                                        marks.counts[alts[l]] <= marks.counts[alts[k]]}
  IN  IF most = {} THEN {k \in DOMAIN alts : alts[k] \in marks.sequential}
      ELSE IF flip THEN {CHOOSE k \in most : \A l \in most : l <= k}
      ELSE {CHOOSE k \in most : \A l \in most : k <= l}

\* A regex produces as much as is missing, at least one.
Children(e) ==
  LET missing == target - seq
  IN  IF e \in tree.regex
      THEN [k \in 1 .. (IF missing = 0 THEN 1 ELSE missing) |-> tree.body[e][1]]
      ELSE tree.body[e]

EndStep == round' = round - 1 /\ flip' = (flip \/ round = 1)

ExpandForSequences ==
  /\ phase = "first" /\ round > 0
  /\ \E k \in Favoured(Head(qseq).node) :
       Expand(Head(qseq), Children(tree.alts[Head(qseq).node][k]), TRUE)
  /\ EndStep
  /\ UNCHANGED <<treeVars, target, job, source, kept, valid>>

\* A sequence node without such alternatives waits for the third loop.
Postpone ==
  /\ phase = "first" /\ round > 0
  /\ Favoured(Head(qseq).node) = {} /\ IsSequence(Head(qseq).node)
  /\ qseq' = Tail(qseq)
  /\ qnon' = Append(qnon, Head(qseq))
  /\ EndStep
  /\ UNCHANGED <<treeVars, items, target, seq, lastId, job, source, kept, length, valid>>

\* "Error during Derivation": the caller sets the tree valid all the same.
GiveUp ==
  /\ phase = "first" /\ round > 0
  /\ Favoured(Head(qseq).node) = {} /\ ~IsSequence(Head(qseq).node)
  /\ phase' = "failed"
  /\ UNCHANGED <<grammar, tree, marks, pending, gone, deriveVars>>

-----------------------------------------------------------------------------
(* Second loop: what can produce sequence nodes is expanded without, if it *)
(* can be; third loop: everything else.  Neither looks for a regex, whose  *)
(* vector of nodes is empty.                                               *)

Body(e) == IF e \in tree.regex THEN <<>> ELSE tree.body[e]

Frugal(n) ==
  LET alts  == Range(tree.alts[n])
      quiet == alts \ marks.sequential
  IN  IF quiet = {} THEN alts ELSE quiet

NextLoop ==
  /\ phase = "second" /\ qseq = <<>>
  /\ phase' = "third"
  /\ UNCHANGED <<grammar, tree, marks, pending, gone, deriveVars>>

ExpandRest ==
  /\ phase = "second" /\ qseq # <<>>
  /\ \E e \in Frugal(Head(qseq).node) : Expand(Head(qseq), Body(e), FALSE)
  /\ UNCHANGED <<treeVars, target, flip, round, job, source, kept, valid>>

ExpandAll ==
  /\ phase = "third" /\ qnon # <<>>
  /\ \E e \in Range(tree.alts[Head(qnon).node]) :
       LET new == NewItems(ToSequence(Body(e)))
           count == Cardinality({k \in DOMAIN Body(e) : IsSequence(Body(e)[k])})
       IN  /\ lastId + Len(new) <= MaxItems
           /\ items' = Placed(Head(qnon), new)
           /\ qnon' = Tail(qnon) \o new
           /\ lastId' = lastId + Len(new)
           /\ seq' = seq + count
           /\ length' = length + count
  /\ UNCHANGED <<treeVars, qseq, target, flip, round, job, source, kept, valid>>

-----------------------------------------------------------------------------
(* Derive.                                                                 *)

Derive(t) ==
  /\ phase = "ready" /\ job = None
  /\ LET root == [id |-> 1, node |-> tree.root]
     IN  items' = <<root>> /\ qseq' = <<root>>
  /\ qnon' = <<>> /\ lastId' = 1
  /\ target' = t
  /\ seq' = IF IsSequence(tree.root) THEN 1 ELSE 0
  /\ length' = 0
  /\ flip' = FALSE /\ round' = 0
  /\ job' = "Derive" /\ phase' = "first"
  /\ UNCHANGED <<grammar, tree, marks, pending, gone, source, kept, valid>>

\* Derive overwrites the count of sequence nodes; Extend adds to it.
FinishDerivation ==
  /\ phase = "third" /\ qnon = <<>>
  /\ valid' = TRUE
  /\ length' = IF job = "Derive" THEN seq ELSE length
  /\ source' = IF job = "Derive" THEN Word(items) ELSE source
  /\ phase' = IF job = "Derive" THEN "derived" ELSE "done"
  /\ UNCHANGED <<grammar, tree, marks, pending, gone, items, qseq, qnon, target, seq,
                 flip, round, lastId, job, kept>>

-----------------------------------------------------------------------------
(* Extract: the sequence nodes of the segments, or the others up to stop.  *)
(* Segments start at 0 and do not overlap.                                 *)

\* The loops of Extract for a simple grammar.
Outside(segments, stop) ==
  LET Gap(k) == LET from == IF k = 1 THEN 0 ELSE segments[k - 1][1] + segments[k - 1][2]
                    to   == IF k > Len(segments) \/ segments[k][1] > stop THEN stop
                            ELSE segments[k][1]
                IN  [i \in 1 .. (IF to > from THEN to - from ELSE 0) |-> from + i - 1]
  IN  FoldLeft(LAMBDA acc, k : acc \o Gap(k), <<>>, [k \in 1 .. Len(segments) + 1 |-> k])

Inside(segments) ==
  FoldLeft(LAMBDA acc, segment : acc \o [i \in 1 .. segment[2] |-> segment[1] + i - 1],
           <<>>, segments)

\* ExtractEarley looks at stop in both cases, Extract only at the others.
Picked(segments, stop, complement) ==
  LET inside == IF tree.simple THEN Inside(segments)
                ELSE SelectSeq(Inside(segments), LAMBDA p : p < stop)
      places == IF complement THEN Outside(segments, stop) ELSE inside
  IN  [k \in DOMAIN places |-> source[places[k] + 1]]

\* A simple grammar: the root must be a regex over what is kept.
FitsRegex(word) ==
  /\ word # <<>>
  /\ Len(tree.alts[tree.root]) = 1
  /\ tree.alts[tree.root][1] \in tree.regex
  /\ \A k \in DOMAIN word : tree.body[tree.alts[tree.root][1]][1] = word[k]

\* ExtractEarley: the tree must have a place for every node that is kept.
Judged(parsed, word) ==
  CASE parsed.outcome = "tree" /\ Len(parsed.leaves) < Len(word) -> [parsed EXCEPT !.outcome = None]
    [] Len(parsed.leaves) > Len(word) -> [outcome |-> Undefined, leaves |-> <<>>]
    [] OTHER -> parsed

\* What an extraction leaves: the sequence nodes and whether it is valid.
Extraction(word) ==
  IF ~tree.simple
  THEN Judged(FirstTree(tree, [k \in DOMAIN word |-> Node(word[k])]), word)
  ELSE IF FitsRegex(word) THEN [outcome |-> "tree", leaves |-> word]
  ELSE [outcome |-> None, leaves |-> <<>>]

Result(word, found) ==
  /\ kept' = word
  /\ items' = [k \in DOMAIN found.leaves |-> [id |-> k, node |-> found.leaves[k]]]
  /\ length' = Len(found.leaves)
  /\ valid' = (found.outcome = "tree")
  /\ lastId' = Len(found.leaves)
  /\ phase' = IF found.outcome = Undefined THEN Undefined ELSE "done"

Segments(n) ==
  {<< <<b, l>> >> : b \in 0 .. n - 1, l \in 1 .. n} \cup
  (IF tree.simple
   THEN {<< <<b, 1>>, <<c, 1>> >> : b \in 0 .. n - 1, c \in 0 .. n - 1}
   ELSE {})

Sound(segments, n) ==
  \A k \in DOMAIN segments :
    /\ segments[k][1] + segments[k][2] <= n
    /\ k > 1 => segments[k - 1][1] + segments[k - 1][2] <= segments[k][1]

Extract(segments, stop, complement) ==
  /\ phase = "derived" /\ Len(source) = length
  /\ Sound(segments, Len(source)) /\ stop <= Len(source)
  /\ job' = "Extract"
  /\ LET word == Picked(segments, stop, complement)
     IN  Result(word, Extraction(word))
  /\ UNCHANGED <<grammar, tree, marks, pending, gone, qseq, qnon, target, seq, flip,
                 round, source>>

-----------------------------------------------------------------------------
(* Extend, for a simple grammar: the tree but for its last nodes, then new *)
(* children for the root.                                                  *)

Extend(trackback, t) ==
  /\ phase = "derived" /\ tree.simple /\ Len(source) = length
  /\ job' = "Extend"
  /\ LET word == SubSeq(source, 1, Len(source) - trackback)
         root == [id |-> 0, node |-> tree.root]
     IN  IF trackback > 0 /\ ~FitsRegex(word)
         THEN /\ Result(word, [outcome |-> None, leaves |-> <<>>])
              /\ UNCHANGED <<qseq, target, seq, flip, round>>
         ELSE /\ kept' = word
              /\ items' = [k \in DOMAIN word |-> [id |-> k, node |-> word[k]]]
              /\ length' = Len(word) /\ lastId' = Len(word) /\ valid' = FALSE
              /\ qseq' = <<root>> /\ target' = t /\ seq' = 0
              /\ flip' = FALSE /\ round' = 0 /\ phase' = "first"
  /\ UNCHANGED <<grammar, tree, marks, pending, gone, qnon, source>>

-----------------------------------------------------------------------------
Init ==
  /\ TreeInit
  /\ items = <<>> /\ qseq = <<>> /\ qnon = <<>>
  /\ target = 0 /\ seq = 0 /\ length = 0 /\ lastId = 0
  /\ flip = FALSE /\ round = 0
  /\ job = None /\ source = <<>> /\ kept = <<>> /\ valid = FALSE

Grow ==
  \/ StartRound \/ ExpandForSequences \/ Postpone \/ GiveUp
  \/ NextLoop \/ ExpandRest \/ ExpandAll
  \/ FinishDerivation

Next ==
  \/ Build /\ UNCHANGED deriveVars
  \/ \E t \in Targets : Derive(t)
  \/ Grow
  \/ \E segments \in Segments(Len(source)), stop \in 1 .. Len(source),
        complement \in BOOLEAN : Extract(segments, stop, complement)
  \/ \E trackback \in TrackBacks, t \in Targets : Extend(trackback, t)

Spec == Init /\ [][Next]_vars

-----------------------------------------------------------------------------
(* What a grammar means.                                                   *)

SubWords(word) == {SubSeq(word, i, j) : i \in 1 .. Len(word) + 1, j \in 0 .. Len(word)}

\* One more step of the derivation of parts of a word from every symbol.
Longer(g, parts, words) ==
  LET Join(left, right) == {u \o v : u \in left, v \in right} \cap parts
      Alternative(n, k) == FoldLeft(LAMBDA acc, x : Join(acc, words[x]), {<<>>},
                                    RuleOf(g, n).alts[k])
  IN  [n \in DOMAIN words |->
         IF n \notin RuleNames(g) THEN {<<>>}
         ELSE IF RuleOf(g, n).kind = "sequence" THEN {<<n>>} \cap parts
         ELSE UNION {Alternative(n, k) : k \in DOMAIN RuleOf(g, n).alts}]

RECURSIVE AllWords(_, _, _)
AllWords(g, parts, words) ==
  LET more == Longer(g, parts, words)
  IN  IF more = words THEN words ELSE AllWords(g, parts, more)

\* The sequence nodes of word can be derived from the root.
IsWord(g, word) ==
  word \in AllWords(g, SubWords(word), [n \in Symbols(g) |-> {}])[g.root]

\* The nodes that can be reached from the root.
RECURSIVE ReachedFrom(_, _)
ReachedFrom(t, nodes) ==
  LET more == nodes \cup UNION {UNION {Range(t.body[e]) : e \in Range(t.alts[n])} : n \in nodes}
  IN  IF more = nodes THEN nodes ELSE ReachedFrom(t, more)

\* The nodes that produce a word of terminals.
RECURSIVE Ending(_, _)
Ending(t, nodes) ==
  LET more == nodes \cup {n \in DOMAIN t.alts :
                            \E e \in Range(t.alts[n]) : Range(t.body[e]) \subseteq nodes}
  IN  IF more = nodes THEN nodes ELSE Ending(t, more)

Terminals(t) == {n \in DOMAIN t.kind : t.kind[n] = "terminal"}

\* A node other than its own that leads from an alternative back to it.
IsMutual(t, e) ==
  \E n \in Range(t.body[e]) \ {t.owner[e]} : t.owner[e] \in ReachedFrom(t, {n})

Built == phase \notin {"read", "pruning", "thrown"}

\* The flags of the alternatives that are reached agree with their nodes.
MarksAreExact ==
  \A e \in tree.expansions :
    tree.owner[e] \in marks.reached =>
      (e \in marks.productive <=> Range(tree.body[e]) \subseteq marks.producing)

\* What references and is referenced from a node and its alternatives.
IsLinked(n) ==
  /\ tree.kind[n] # "terminal" => tree.alts[n] # <<>>
  /\ tree.parents[n] \subseteq tree.expansions
  /\ \A e \in Range(tree.alts[n]) :
       /\ e \in tree.expansions /\ tree.owner[e] = n
       /\ \A x \in Range(tree.body[e]) : e \in tree.parents[x]

(* After pruning, what can be reached from the root can be derived from:   *)
(* every node has an alternative and produces a word, every reference      *)
(* leads to an object that is still there, and parents and alternatives    *)
(* agree; and the first pruning has taken nothing but what was marked:     *)
(* "we are sure there are always expansions to choose from, as we have     *)
(* pruned the tree", Grammar.cpp:2037.  If no rules are recursive through  *)
(* each other, nothing is marked or left unmarked by mistake: "the         *)
(* expansion is only producing if and only if ALL its nodes are also       *)
(* producing", Grammar.cpp:749.                                            *)
GrammarIsUsable ==
  LET live == ReachedFrom(tree, {tree.root})
  IN  /\ /\ phase = "pruning" /\ gone = Nothing
         /\ \A e \in tree.expansions : ~IsMutual(tree, e)
         => MarksAreExact
      /\ Built /\ tree.root \in marks.producing =>
           /\ live \subseteq tree.nodes \cap Ending(tree, Terminals(tree))
           /\ \A n \in live : IsLinked(n)
      /\ phase = "pruned" /\ tree.root \in marks.producing =>
           \A n \in live :
             tree.alts[n] = SelectSeq(Constructed(grammar).alts[n],
                                      LAMBDA e : e \in marks.productive)

\* The sequence level is a regular expression that the parser copes with.
IsTame ==
  IF tree.simple THEN tree.regex # {} /\ IsSequence(tree.body[tree.alts[tree.root][1]][1])
  ELSE \A n \in ReachedFrom(tree, {tree.root}) :
         tree.kind[n] = "nonterminal" =>
           \A e \in Range(tree.alts[n]) :
             /\ tree.body[e] # <<>> /\ tree.kind[tree.body[e][1]] # "terminal"
             /\ \A k \in 2 .. Len(tree.body[e]) : IsSequence(tree.body[e][k])

\* The places of the sequence nodes an extraction is to keep.
InSegments(segments, p) ==
  \E k \in DOMAIN segments :
    segments[k][1] <= p /\ p < segments[k][1] + segments[k][2]

Asked(segments, stop, complement) ==
  LET Kept(p) == IF complement THEN p < stop /\ ~InSegments(segments, p)
                 ELSE (tree.simple \/ p < stop) /\ InSegments(segments, p)
      places  == SelectSeq([k \in DOMAIN source |-> k - 1], Kept)
  IN  [k \in DOMAIN places |-> source[places[k] + 1]]

SegmentsAreKept ==
  \A segments \in Segments(Len(source)), stop \in 1 .. Len(source), complement \in BOOLEAN :
    Sound(segments, Len(source)) =>
      Picked(segments, stop, complement) = Asked(segments, stop, complement)

Finished == phase = "derived" \/ (phase = "done" /\ valid)

(* Every tree that is called valid is a tree of the grammar as it was      *)
(* written, whatever pruning, simplification, derivation, extension and    *)
(* extraction have made of it: nothing is left unexpanded, the count of    *)
(* sequence nodes is right, and the sequence nodes are a word of the       *)
(* grammar.  An extraction has the nodes of the segments or the others,    *)
(* and it fails only if they are not a word (for grammars the parser copes *)
(* with), and a simple grammar gives the length that is asked for.         *)
TreesAreWords ==
  /\ Finished =>
       /\ \A k \in DOMAIN items : IsSequence(items[k].node)
       /\ length = Len(items)
       /\ IsWord(grammar, Word(items))
  /\ phase = "derived" => SegmentsAreKept
  /\ phase = "done" /\ valid /\ job = "Extract" => Word(items) = kept
  /\ phase = "done" /\ ~valid /\ job = "Extract" /\ IsTame =>
       kept = <<>> \/ ~IsWord(grammar, kept)
  /\ phase = "derived" /\ tree.simple /\ IsTame => length = target
  /\ phase = "done" /\ valid /\ job = "Extend" =>
       /\ IsTame => length = Len(kept) + target
       /\ SubSeq(Word(items), 1, Len(kept)) = kept

=============================================================================
