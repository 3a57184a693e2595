---------------------------- MODULE SearchRecords ---------------------------
(***************************************************************************)
(* The records of the grammar, with those of its nodes and expansions, and *)
(* of a controller of delta debugging.  As in FormRecords.                 *)
(***************************************************************************)
EXTENDS ControlRecords

-----------------------------------------------------------------------------
\* GrammarNode and GrammarExpansion announce their size for the grammar.

GrammarNodeSize(n) ==
  4 + (8 + n.identifier) + (8 + n.derivation) + 8 + (8 + 8 * n.expansions) + 8 + 4
    + (8 + 8 * n.parents) + 1 + 1 + 1

GrammarNodeWritten(n) ==
  Words(<<"classversion">>)
    \o String("identifier", n.identifier) \o String("derivation", n.derivation)
    \o Longs(<<"id">>) \o List("expansions", n.expansions, 8)
    \o Longs(<<"flags">>) \o Words(<<"type">>) \o List("parents", n.parents, 8)
    \o Bytes(<<"reachable", "producing", "remove">>)

GrammarNodeRead(n) ==
  Words(<<"classversion">>)
    \o String("identifier", n.identifier) \o String("derivation", n.derivation)
    \o Longs(<<"id">>) \o List("expansions", n.expansions, 8)
    \o Longs(<<"flags">>) \o Words(<<"type">>) \o List("parents", n.parents, 8)
    \o Bytes(<<"reachable", "producing", "remove">>)

ExpansionSize(v, nodes) ==
  4 + (8 + 8 * nodes) + 4 + 8 + 1 + 8 + 1 + 8 + (IF v = 1 THEN 0 ELSE 4 + 4 + 4)

ExpansionWritten(nodes) ==
  Words(<<"classversion">>) \o List("nodes", nodes, 8)
    \o Words(<<"weight">>) \o Longs(<<"id">>) \o Bytes(<<"producing">>) \o Longs(<<"flags">>)
    \o Bytes(<<"remove">>) \o Longs(<<"parent">>)
    \o Words(<<"nonterminals", "seqnonterminals", "terminals">>)

ExpansionRead(v, nodes) ==
  Words(<<"classversion">>) \o List("nodes", nodes, 8)
    \o Words(<<"weight">>) \o Longs(<<"id">>) \o Bytes(<<"producing">>) \o Longs(<<"flags">>)
    \o Bytes(<<"remove">>) \o Longs(<<"parent">>)
    \o (IF v = 1 THEN <<>> ELSE Words(<<"nonterminals", "seqnonterminals", "terminals">>))

RegexSize == 4 + 8 + 4 + 8 + 1 + 8 + 1 + 8 + 4 + 4 + 4

RegexWritten ==
  Words(<<"classversion">>) \o Longs(<<"node">>) \o Words(<<"min">>) \o Longs(<<"id">>)
    \o Bytes(<<"producing">>) \o Longs(<<"flags">>) \o Bytes(<<"remove">>)
    \o Longs(<<"parent">>) \o Words(<<"nonterminals", "seqnonterminals", "terminals">>)

RegexRead ==
  Words(<<"classversion">>) \o Longs(<<"node">>) \o Words(<<"min">>) \o Longs(<<"id">>)
    \o Bytes(<<"producing">>) \o Longs(<<"flags">>) \o Bytes(<<"remove">>)
    \o Longs(<<"parent">>) \o Words(<<"nonterminals", "seqnonterminals", "terminals">>)

-----------------------------------------------------------------------------
\* Grammar.  Version 2 tells a regular expression from an expansion.

GrammarStatic(v) == 4 + 8 + 4 + 1 + 8 + 4 + 4 + 4 + 4 + (IF v = 1 THEN 0 ELSE 1)

GrammarSize(c) ==
  FormSize(c.flags) + GrammarStatic(2) + (8 + 8 * c.ruleorder)
    + 8 + c.nodes * (8 + GrammarNodeSize(c))
    + 8 + c.plain * (1 + 8 + ExpansionSize(2, c.nodes)) + c.regex * (1 + 8 + RegexSize)
    + (8 + c.nonterminals * 8) + (8 + c.terminals * 8)

GrammarWritten(c) ==
  FormHead(c.flags)
    \o Longs(<<"nextid">>) \o Words(<<"numcycles">>) \o Bytes(<<"valid">>) \o Longs(<<"root">>)
    \o List("ruleorder", c.ruleorder, 8)
    \o Longs(<<"hashmap">>) \o Repeat(c.nodes, Longs(<<"id">>) \o GrammarNodeWritten(c))
    \o Longs(<<"hashmap_expansions">>)
    \o Repeat(c.plain, Bytes(<<"regex">>) \o Longs(<<"id">>) \o ExpansionWritten(c.nodes))
    \o Repeat(c.regex, Bytes(<<"regex">>) \o Longs(<<"id">>) \o RegexWritten)
    \o List("nonterminals", c.nonterminals, 8) \o List("terminals", c.terminals, 8)
    \o Words(<<"extension_min", "extension_max", "backtrack_min", "backtrack_max">>)
    \o Bytes(<<"simpleGrammar">>)

GrammarRead0x1(c) ==
  FormHead(c.flags)
    \o Longs(<<"nextid">>) \o Words(<<"numcycles">>) \o Bytes(<<"valid">>) \o Longs(<<"root">>)
    \o List("ruleorder", c.ruleorder, 8)
    \o Longs(<<"hashmap">>) \o Repeat(c.nodes, Longs(<<"id">>) \o GrammarNodeRead(c))
    \o Longs(<<"hashmap_expansions">>)
    \o Repeat(c.plain, Longs(<<"id">>) \o ExpansionRead(1, c.nodes))
    \o List("nonterminals", c.nonterminals, 8) \o List("terminals", c.terminals, 8)
    \o Words(<<"extension_min", "extension_max", "backtrack_min", "backtrack_max">>)

GrammarRead0x2(c) ==
  FormHead(c.flags)
    \o Longs(<<"nextid">>) \o Words(<<"numcycles">>) \o Bytes(<<"valid">>) \o Longs(<<"root">>)
    \o List("ruleorder", c.ruleorder, 8)
    \o Longs(<<"hashmap">>) \o Repeat(c.nodes, Longs(<<"id">>) \o GrammarNodeRead(c))
    \o Longs(<<"hashmap_expansions">>)
    \o Repeat(c.plain, Bytes(<<"regex">>) \o Longs(<<"id">>) \o ExpansionRead(2, c.nodes))
    \o Repeat(c.regex, Bytes(<<"regex">>) \o Longs(<<"id">>) \o RegexRead)
    \o List("nonterminals", c.nonterminals, 8) \o List("terminals", c.terminals, 8)
    \o Words(<<"extension_min", "extension_max", "backtrack_min", "backtrack_max">>)
    \o Bytes(<<"simpleGrammar">>)

-----------------------------------------------------------------------------
\* DeltaController.  The size of its parameters is the sizeof of their class
\* with its virtual table and padding; less is written.

GoalSize ==
  [None |-> 24, ReproduceResult |-> 32, MaximizePrimaryScore |-> 32,
   MaximizeSecondaryScore |-> 32, MaximizeBothScores |-> 40]

DeltaStatic(v) ==
  4 + 5 * 4 + 1 + 8 + 8 + 4
    + (IF v = 1 THEN 1 ELSE 8 + 16 + 4 * 4 + 1)
    + (IF v >= 3 THEN 8 + 1 + 8 + 1 + 1 + 8 + 8 + 8 + 8 ELSE 0)
    + (IF v >= 4 THEN 4 ELSE 0)

DeltaSize(c) ==
  FormSize(c.flags) + DeltaStatic(4) + (8 + 28 * c.results) + (8 + 8 * c.activeInputs)
    + (8 + 8 * c.completedTests) + 4 + 8 + (8 + 8 * c.waitingTests) + (8 + 8 * c.splits)
    + (8 + 8 * c.complements) + (8 + 9 * c.dinfo) + GoalSize[c.goal]
    + c.callbacks * c.callback.length + c.testqueue * c.callback.length

ParamsWritten(goal) ==
  Words(<<"goal">>) \o Longs(<<"class size">>)
    \o Words(<<"minimalSubsetSize">>) \o Bytes(<<"bypassTests">>) \o Words(<<"budget", "mode">>)
    \o CASE goal = "None" -> <<>>
         [] goal = "ReproduceResult" -> Words(<<"secondarygoal">>)
         [] goal = "MaximizePrimaryScore" -> Words(<<"lossPrimary", "lossPrimaryAbsolute">>)
         [] goal = "MaximizeSecondaryScore" -> Words(<<"lossSecondary", "lossSecondaryAbsolute">>)
         [] goal = "MaximizeBothScores" ->
              Words(<<"lossPrimary", "lossPrimaryAbsolute", "lossSecondary",
                      "lossSecondaryAbsolute">>)

\* The members up to the goal, and those of the batch that is being made.
DeltaProgressWritten(c) ==
  FormHead(c.flags)
    \o Words(<<"tasks", "remainingtasks", "tests", "remainingtests", "totaltests">>)
    \o Bytes(<<"finished">>) \o Longs(<<"origInput", "input">>) \o Words(<<"level">>)
    \o Longs(<<"results">>)
    \o Repeat(c.results, Longs(<<"id", "lossPrimary", "lossSecondary">>) \o Words(<<"level">>))
    \o List("activeInputs", c.activeInputs, 8) \o List("completedTests", c.completedTests, 8)

DeltaStateWritten(c) ==
  Queue("callbacks", c.callback, c.callbacks)
    \o Longs(<<"bestPrimary", "bestSecondary">>)
    \o Words(<<"skippedTests", "prefixTests", "invalidTests", "activetests">>)
    \o Bytes(<<"stopbatch">>) \o List("waitingTests", c.waitingTests, 8)

DeltaBatchWritten(c) ==
  Longs(<<"skipRanges">>) \o Bytes(<<"active">>) \o Longs(<<"batchtasks">>)
    \o Bytes(<<"sendEndEvent", "processedEndEvent">>)
    \o List("splits", c.splits, 8) \o List("complements", c.complements, 8)
    \o Longs(<<"dinfo">>)
    \o Repeat(c.dinfo, Bytes(<<"complement">>) \o Words(<<"positionbegin", "length">>))
    \o Queue("testqueue", c.callback, c.testqueue)
    \o Longs(<<"batchident", "DD_begin", "DD_end">>) \o Words(<<"approxTests">>)

DeltaWritten(c) ==
  DeltaProgressWritten(c) \o ParamsWritten(c.goal) \o DeltaStateWritten(c)
    \o DeltaBatchWritten(c)

\* Version 1 skipped a third loss, of a goal it wrote with one more.
ParamsRead(v, goal) ==
  Words(<<"goal">>) \o Longs(<<"class size">>)
    \o Words(<<"minimalSubsetSize">>) \o Bytes(<<"bypassTests">>) \o Words(<<"budget", "mode">>)
    \o CASE goal = "None" -> <<>>
         [] goal = "ReproduceResult" -> Words(<<"secondarygoal">>)
         [] goal = "MaximizePrimaryScore" -> Words(<<"lossPrimary", "lossPrimaryAbsolute">>)
         [] goal = "MaximizeSecondaryScore" ->
              (IF v = 1 THEN Words(<<"skipped">>) ELSE <<>>)
                \o Words(<<"lossSecondary", "lossSecondaryAbsolute">>)
         [] goal = "MaximizeBothScores" ->
              Words(<<"lossPrimary", "lossPrimaryAbsolute", "lossSecondary",
                      "lossSecondaryAbsolute">>)

DeltaProgressRead(v, c) ==
  FormHead(c.flags)
    \o Words(<<"tasks", "remainingtasks", "tests", "remainingtests", "totaltests">>)
    \o Bytes(<<"finished">>) \o Longs(<<"origInput", "input">>) \o Words(<<"level">>)
    \o Longs(<<"results">>)
    \o Repeat(c.results,
              (IF v = 1 THEN Longs(<<"id", "loss">>)
               ELSE Longs(<<"id", "lossPrimary", "lossSecondary">>)) \o Words(<<"level">>))
    \o List("activeInputs", c.activeInputs, 8) \o List("completedTests", c.completedTests, 8)

DeltaStateRead(c) ==
  Queue("callbacks", c.callback, c.callbacks)
    \o Longs(<<"bestPrimary", "bestSecondary">>)
    \o Words(<<"skippedTests", "prefixTests", "invalidTests", "activetests">>)
    \o Bytes(<<"stopbatch">>) \o List("waitingTests", c.waitingTests, 8)

DeltaBatchRead(v, c) ==
  (IF v < 3 THEN <<>>
   ELSE Longs(<<"skipRanges">>) \o Bytes(<<"active">>) \o Longs(<<"batchtasks">>)
          \o Bytes(<<"sendEndEvent", "processedEndEvent">>)
          \o List("splits", c.splits, 8) \o List("complements", c.complements, 8)
          \o Longs(<<"dinfo">>)
          \o Repeat(c.dinfo, Bytes(<<"complement">>) \o Words(<<"positionbegin", "length">>))
          \o Queue("testqueue", c.callback, c.testqueue)
          \o Longs(<<"batchident", "DD_begin", "DD_end">>))
    \o (IF v < 4 THEN <<>> ELSE Words(<<"approxTests">>))

DeltaRead(v, c) ==
  DeltaProgressRead(v, c) \o ParamsRead(v, c.goal)
    \o (IF v = 1 THEN Bytes(<<"hascall">>) \o Repeat(c.callbacks, c.callback.fields)
        ELSE DeltaStateRead(c) \o DeltaBatchRead(v, c))
=============================================================================
