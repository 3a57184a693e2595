---------------------------- MODULE GrammarTree ----------------------------
(***************************************************************************)
(* The tree of a grammar, class GrammarTree of src/src/Grammar.cpp: how    *)
(* the rules that ParseScala has read become the tree inputs are derived   *)
(* from.  Construct gathers flags (does this produce a word? does this     *)
(* produce sequence nodes?) and prunes what is of no use; then             *)
(* CheckForSequenceSimplicityAndSimplify tries to turn the rules above the *)
(* sequence nodes into a regular expression, and FixRoot prepares the      *)
(* others for the parser.                                                  *)
(*                                                                         *)
(* Pointers between objects are names: a node is a string, an expansion    *)
(* the pair of the rule it was written in and its number there; number 0   *)
(* is the regex that replaces the alternatives of a rule.  Every           *)
(* occurrence of a terminal is a node of its own, as in Construct.         *)
(***************************************************************************)
EXTENDS Integers, Sequences, FiniteSets, SequencesExt

CONSTANTS
  Grammars,    \* grammars as read: [root, rules], a rule is [name, kind, alts]
  FixedStart   \* the name of the node that FixRoot adds

VARIABLES
  grammar,     \* the grammar as read
  tree,        \* the objects and their references
  marks,       \* the flags and counts of the last GatherFlags
  pending,     \* the stack of Prune, as a set: [nodes, expansions, touched]
  gone,        \* what has _remove set: [nodes, expansions]
  phase        \* what happens to the grammar next

treeVars == <<grammar, tree, marks, pending, gone, phase>>

NoOwner == "no owner"
None    == "none"

RuleNames(g) == {g.rules[i].name : i \in DOMAIN g.rules}
Symbols(g)   == RuleNames(g) \cup
                UNION {UNION {Range(g.rules[i].alts[k]) : k \in DOMAIN g.rules[i].alts} :
                         i \in DOMAIN g.rules}
RuleOf(g, n) == CHOOSE rule \in Range(g.rules) : rule.name = n

-----------------------------------------------------------------------------
(* Construct: one expansion for each alternative, one node for each        *)
(* symbol.                                                                 *)

WrittenExpansions(g) ==
  UNION {{<<g.rules[i].name, k>> : k \in DOMAIN g.rules[i].alts} : i \in DOMAIN g.rules}

Expansions(g) ==
  WrittenExpansions(g) \cup {<<n, 0>> : n \in RuleNames(g)} \cup {<<FixedStart, 1>>}

Constructed(g) ==
  LET nodes   == Symbols(g)
      written == WrittenExpansions(g)
      Body(e) == IF e \in written THEN RuleOf(g, e[1]).alts[e[2]] ELSE <<>>
  IN  [root       |-> g.root,
       nodes      |-> nodes,
       expansions |-> written,
       kind       |-> [n \in nodes \cup {FixedStart} |->
                         IF n \in RuleNames(g) THEN RuleOf(g, n).kind
                         ELSE IF n = FixedStart THEN "nonterminal" ELSE "terminal"],
       alts       |-> [n \in nodes \cup {FixedStart} |->
                         IF n \in RuleNames(g)
                         THEN [k \in DOMAIN RuleOf(g, n).alts |-> <<n, k>>] ELSE <<>>],
       body       |-> [e \in Expansions(g) |-> Body(e)],
       owner      |-> [e \in Expansions(g) |-> IF e \in written THEN e[1] ELSE NoOwner],
       parents    |-> [n \in nodes \cup {FixedStart} |->
                         {e \in written : n \in Range(Body(e))}],
       regex      |-> {},
       simple     |-> FALSE]

-----------------------------------------------------------------------------
(* GatherFlags.  The flags of a node or an expansion are final when it is  *)
(* finished.  An expansion that is on the path is skipped; a node that is  *)
(* on the path, but not finished, is entered again.                        *)

Unmarked(counts) ==
  [reached |-> {}, producing |-> {}, sequencing |-> {}, finished |-> {},
   productive |-> {}, sequential |-> {}, complete |-> {}, counts |-> counts]

\* Adds x to a set, or takes it out of it.
Put(set, x, in) == IF in THEN set \cup {x} ELSE set \ {x}

RECURSIVE GatherNode(_, _, _, _)
RECURSIVE GatherExpansion(_, _, _, _)

GatherNode(t, n, path, m) ==
  LET ids        == t.alts[n]
      Skipped(e) == e \in path /\ e \notin m.complete
      visited    == FoldLeft(LAMBDA acc, e :
                               IF e \in acc.complete \/ e \in path THEN acc
                               ELSE GatherExpansion(t, e, path, acc),
                             [m EXCEPT !.reached = @ \cup {n}], ids)
      used       == {e \in Range(ids) : ~Skipped(e)}
  IN  IF t.kind[n] = "terminal"
      THEN [m EXCEPT !.reached = @ \cup {n}, !.producing = @ \cup {n},
                     !.finished = @ \cup {n}]
      ELSE [visited EXCEPT
              !.producing  = Put(@, n, used \cap visited.productive # {}),
              !.sequencing = Put(@, n, \/ t.kind[n] = "sequence"
                                       \/ used \cap visited.sequential # {}),
              !.finished   = @ \cup {n}]

GatherExpansion(t, e, path, m) ==
  LET Visit(acc, n) ==
        LET v == IF n \in acc.finished THEN acc
                 ELSE GatherNode(t, n, path \cup {e}, acc)
        IN  [v EXCEPT
               !.productive = IF n \in v.producing THEN @ ELSE @ \ {e},
               !.sequential = IF n \in v.sequencing THEN @ \cup {e} ELSE @,
               !.counts[e]  = IF n \in v.sequencing THEN @ + 1 ELSE @]
  IN  [FoldLeft(Visit, [m EXCEPT !.productive = @ \cup {e}], t.body[e])
         EXCEPT !.complete = @ \cup {e}]

\* The counts of sequence nodes are never reset.
GatherFlags(t, counts) == GatherNode(t, t.root, {}, Unmarked(counts))

-----------------------------------------------------------------------------
(* Prune.  The order in which the objects are handled depends on addresses *)
(* (the sets of shared pointers) and on the stack: any order here.         *)

FirstPending(t, m) ==
  [nodes      |-> {t.root} \cup (t.nodes \ m.reached),
   expansions |-> {e \in t.expansions : t.owner[e] = NoOwner},
   touched    |-> {}]

Nothing == [nodes |-> {}, expansions |-> {}]
NothingPending == [nodes |-> {}, expansions |-> {}, touched |-> {}]

Gather ==
  /\ phase = "read"
  /\ marks' = GatherFlags(tree, marks.counts)
  /\ pending' = FirstPending(tree, marks')
  /\ gone' = Nothing
  /\ phase' = "pruning"
  /\ UNCHANGED <<grammar, tree>>

Useless(n) ==
  n \notin marks.producing \/ n \in gone.nodes \/ n \notin marks.reached

\* A useless node takes the expansions it occurs in and its own with it.
RemoveNode(n) ==
  /\ phase = "pruning"
  /\ n \in pending.nodes /\ Useless(n)
  /\ LET removed == tree.parents[n] \cup Range(tree.alts[n])
     IN  /\ gone' = [nodes |-> gone.nodes \cup {n},
                     expansions |-> gone.expansions \cup removed]
         /\ pending' = [pending EXCEPT !.nodes = @ \ {n},
                                       !.expansions = @ \cup removed]
  /\ tree' = [tree EXCEPT !.parents[n] = {}, !.alts[n] = <<>>]
  /\ UNCHANGED <<grammar, marks, phase>>

KeepNode(n) ==
  /\ phase = "pruning"
  /\ n \in pending.nodes /\ ~Useless(n)
  /\ LET alts == Range(tree.alts[n])
     IN  pending' = [nodes      |-> pending.nodes \ {n},
                     expansions |-> pending.expansions \cup (alts \ pending.touched),
                     touched    |-> pending.touched \cup alts]
  /\ UNCHANGED <<grammar, tree, marks, gone, phase>>

Unproductive(e) == e \in gone.expansions \/ e \notin marks.productive

\* A removed expansion leaves its owner, and a node that occurs nowhere
\* else goes with it.
RemoveExpansion(e) ==
  /\ phase = "pruning"
  /\ e \in pending.expansions /\ Unproductive(e)
  /\ LET owner  == tree.owner[e]
         left   == {n \in Range(tree.body[e]) \ gone.nodes :
                      tree.parents[n] \ {e} = {} /\ n # tree.root}
     IN  /\ tree' = [tree EXCEPT
                       !.parents = [n \in DOMAIN @ |->
                                      IF n \in Range(tree.body[e]) \ gone.nodes
                                      THEN @[n] \ {e} ELSE @[n]],
                       !.alts    = [n \in DOMAIN @ |->
                                      IF n = owner
                                      THEN SelectSeq(@[n], LAMBDA x : x # e) ELSE @[n]]]
         /\ gone' = [nodes      |-> gone.nodes \cup left,
                     expansions |-> gone.expansions \cup {e}]
         /\ pending' = [pending EXCEPT !.nodes = @ \cup left, !.expansions = @ \ {e}]
  /\ UNCHANGED <<grammar, marks, phase>>

KeepExpansion(e) ==
  /\ phase = "pruning"
  /\ e \in pending.expansions /\ ~Unproductive(e)
  /\ pending' = [pending EXCEPT !.nodes = @ \cup Range(tree.body[e]),
                                !.expansions = @ \ {e}]
  /\ UNCHANGED <<grammar, tree, marks, gone, phase>>

\* What is marked leaves the hash maps; the list of rules keeps its names.
FinishPrune ==
  /\ phase = "pruning"
  /\ pending.nodes = {} /\ pending.expansions = {}
  /\ tree' = [tree EXCEPT !.nodes = @ \ gone.nodes,
                          !.expansions = @ \ gone.expansions]
  /\ phase' = IF tree.simple THEN "ready" ELSE "pruned"
  /\ UNCHANGED <<grammar, marks, pending, gone>>

-----------------------------------------------------------------------------
(* CheckForSequenceSimplicityAndSimplify: if every rule above the sequence *)
(* nodes is a plain renaming, N -> M, or a repetition of one symbol, the   *)
(* renamings are resolved and the repetitions become regexes.              *)

\* A rule beneath the sequence nodes is of no interest.
Covered(n) == tree.kind[n] = "sequence" \/ n \notin marks.sequencing

IsRenaming(t, n) ==
  /\ t.kind[n] # "sequence"
  /\ Len(t.alts[n]) = 1
  /\ Len(t.body[t.alts[n][1]]) = 1

\* What a name stands for after zero or more renamings.
RECURSIVE Renamed(_)
Renamed(n) ==
  IF tree.kind[n] = "nonterminal" /\ ~Covered(n) /\ IsRenaming(tree, n)
  THEN {n} \cup Renamed(tree.body[tree.alts[n][1]][1])
  ELSE {n}

Same(m, n) == Renamed(m) \cap Renamed(n) # {}

\* Mutant of IsPlus: any second symbol counts as the rule's own.
IsPlusOfAny(n, one, two) == \E k \in 1 .. 2 : Same(one[1], two[k])

\* N -> one | two1 two2, in either order, as a repetition of one.
IsPlus(n, one, two) ==
  \/ /\ \E k \in 1 .. 2 : Same(one[1], two[k])
     /\ \E k \in 1 .. 2 : Same(two[k], n)
  \/ Same(two[1], two[2]) /\ ~Same(one[1], two[1])

IsRepetition(n) ==
  /\ Len(tree.alts[n]) = 2
  /\ LET first  == tree.body[tree.alts[n][1]]
         second == tree.body[tree.alts[n][2]]
     IN  \/ Len(first) = 1 /\ Len(second) = 2 /\ IsPlus(n, first, second)
         \/ Len(first) = 2 /\ Len(second) = 1 /\ IsPlus(n, second, first)
         \/ /\ Len(first) = 0 /\ Len(second) = 2
            /\ \E k \in 1 .. 2 : Same(second[k], n)

\* Every occurrence of a renaming becomes what it is renamed to; a renaming
\* that occurs nowhere gives up its alternative, and the root its place.
Resolve(t, n) ==
  LET e     == t.alts[n][1]
      child == t.body[e][1]
      uses  == t.parents[n]
      moved == {x \in uses : n \in Range(t.body[x])}
  IN  [t EXCEPT
         !.root         = IF uses = {} /\ n = @ THEN child ELSE @,
         !.owner[e]     = NoOwner,
         !.alts[n]      = <<>>,
         !.body         = [x \in DOMAIN @ |->
                             IF x \in uses
                             THEN [k \in DOMAIN @[x] |-> IF @[x][k] = n THEN child ELSE @[x][k]]
                             ELSE @[x]],
         !.parents[n]     = {},
         !.parents[child] = (@ \ {e}) \cup moved]

ResolveAll(t) ==
  FoldLeft(LAMBDA acc, rule :
             IF IsRenaming(acc, rule.name) THEN Resolve(acc, rule.name) ELSE acc,
           t, grammar.rules)

\* getRegexInfo: the repeated node of a rule; None if the alternatives do not
\* have the form any more, Undefined where _nodes[1] of an alternative with
\* one symbol is read.
Undefined == "undefined"

PlusNode(n, one, two) ==
  IF (\E k \in 1 .. 2 : one[1] = two[k]) /\ (\E k \in 1 .. 2 : two[k] = n)
  THEN IF two[1] = n THEN two[2] ELSE Undefined
  ELSE IF two[1] = two[2] /\ one[1] # two[1] THEN one[1] ELSE None

RegexNode(t, n) ==
  LET first  == t.body[t.alts[n][1]]
      second == t.body[t.alts[n][2]]
  IN  CASE Len(first) = 1 /\ Len(second) = 2 -> PlusNode(n, first, second)
        [] Len(first) = 2 /\ Len(second) = 1 -> PlusNode(n, second, first)
        [] OTHER -> IF second[1] = n THEN second[2]
                    ELSE IF second[2] = n THEN second[1] ELSE None

\* Mutant of MakeRegex.
MakeRegexOnTop(t, n) ==
  LET node == RegexNode(t, n)
      e    == <<n, 0>>
  IN  IF node = None THEN t
      ELSE [t EXCEPT !.owner[e] = n, !.body[e] = <<node>>, !.alts[n] = <<e>>,
                     !.parents[node] = @ \cup {e}, !.regex = @ \cup {e},
                     !.expansions = @ \cup {e}]

\* The alternatives of a repetition are cut off and a regex takes their place.
MakeRegex(t, n) ==
  LET node == RegexNode(t, n)
      old  == Range(t.alts[n])
      e    == <<n, 0>>
      cut  == [x \in DOMAIN t.parents |->
                 t.parents[x] \ {o \in old : x \in Range(t.body[o])}]
  IN  IF node = None THEN t
      ELSE [t EXCEPT
              !.owner   = [x \in DOMAIN @ |-> IF x \in old THEN NoOwner
                                             ELSE IF x = e THEN n ELSE @[x]],
              !.body    = [x \in DOMAIN @ |-> IF x \in old THEN <<>>
                                             ELSE IF x = e THEN <<node>> ELSE @[x]],
              !.alts[n] = <<e>>,
              !.parents = [cut EXCEPT ![node] = @ \cup {e}],
              !.regex   = @ \cup {e},
              !.expansions = @ \cup {e}]

\* The rules that are neither covered nor a renaming.
Repetitions ==
  SelectSeq(grammar.rules,
            LAMBDA rule : ~Covered(rule.name) /\ ~IsRenaming(tree, rule.name))

IsSimple ==
  /\ tree.root \in marks.sequencing
  /\ \A i \in DOMAIN Repetitions : IsRepetition(Repetitions[i].name)

\* The list of rules is looked up in the hash map, which throws when a rule
\* has been pruned.
RulesAreKept == RuleNames(grammar) \subseteq tree.nodes

ThrowOutOfRange ==
  /\ phase = "pruned"
  /\ tree.root \in marks.sequencing /\ ~RulesAreKept
  /\ phase' = "thrown"
  /\ UNCHANGED <<grammar, tree, marks, pending, gone>>

Simplify ==
  /\ phase = "pruned"
  /\ RulesAreKept /\ IsSimple
  /\ LET resolved == ResolveAll(tree)
         reads    == {RegexNode(resolved, Repetitions[i].name) : i \in DOMAIN Repetitions}
         regexed  == FoldLeft(LAMBDA t, rule : MakeRegex(t, rule.name), resolved, Repetitions)
         simple   == [regexed EXCEPT !.simple = TRUE]
     IN  IF Undefined \in reads
         THEN /\ phase' = "undefined"
              /\ UNCHANGED <<tree, marks, pending, gone>>
         ELSE /\ tree' = simple
              /\ marks' = GatherFlags(simple, marks.counts)
              /\ pending' = FirstPending(simple, marks')
              /\ gone' = Nothing
              /\ phase' = "pruning"
  /\ UNCHANGED grammar

\* FixRoot: the parser wants a root with one alternative that is one node.
NeedsNewRoot(t) ==
  LET alts == t.alts[t.root]
      body == t.body[alts[1]]
  IN  \/ Len(alts) > 1
      \/ /\ Len(alts) = 1
         /\ \/ Len(body) > 1
            \/ Len(body) = 1 /\ t.kind[body[1]] = "terminal"

WithNewRoot(t) ==
  LET e == <<FixedStart, 1>>
  IN  [t EXCEPT !.root = FixedStart, !.nodes = @ \cup {FixedStart},
                !.expansions = @ \cup {e}, !.alts[FixedStart] = <<e>>,
                !.body[e] = <<t.root>>, !.owner[e] = FixedStart,
                !.parents[t.root] = @ \cup {e}]

FixRoot ==
  /\ phase = "pruned"
  /\ ~(RulesAreKept /\ IsSimple)
  /\ tree.root \in marks.sequencing => RulesAreKept
  /\ tree' = IF NeedsNewRoot(tree) THEN WithNewRoot(tree) ELSE tree
  /\ marks' = IF NeedsNewRoot(tree) THEN GatherFlags(tree', marks.counts) ELSE marks
  /\ phase' = "ready"
  /\ UNCHANGED <<grammar, pending, gone>>

-----------------------------------------------------------------------------
TreeInit ==
  /\ grammar \in Grammars
  /\ tree = Constructed(grammar)
  /\ marks = Unmarked([e \in Expansions(grammar) |-> 0])
  /\ pending = NothingPending
  /\ gone = Nothing
  /\ phase = "read"

Prune ==
  \/ \E n \in pending.nodes : RemoveNode(n) \/ KeepNode(n)
  \/ \E e \in pending.expansions : RemoveExpansion(e) \/ KeepExpansion(e)
  \/ FinishPrune

Build == Gather \/ Prune \/ ThrowOutOfRange \/ Simplify \/ FixRoot
=============================================================================
