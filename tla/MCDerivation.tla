---------------------------- MODULE MCDerivation ----------------------------
(***************************************************************************)
(* Small grammars for Derivation: each of the forms that                   *)
(* CheckForSequenceSimplicityAndSimplify, Prune and the parser tell apart. *)
(***************************************************************************)
EXTENDS Derivation

Rule(name, alts)     == [name |-> name, kind |-> "nonterminal", alts |-> alts]
Sequence(name, alts) == [name |-> name, kind |-> "sequence", alts |-> alts]
Grammar(rules)       == [root |-> "start", rules |-> rules]

SeqS == Sequence("s", << <<"t1">>, <<"t2">> >>)
SeqU == Sequence("u", << <<"t3">> >>)

\* FormatExamples/grammar3.scala: s+, with the alternatives in either order.
Plus == Grammar(<< Rule("start", << <<"list">> >>),
                   Rule("list", << <<"s">>, <<"list", "s">> >>), SeqS >>)
PlusFirst == Grammar(<< Rule("start", << <<"list">> >>),
                        Rule("list", << <<"list", "opt">>, <<"s">> >>),
                        Rule("opt", << <<"s">> >>), SeqS >>)
\* s*
Star == Grammar(<< Rule("start", << <<>>, <<"start", "s">> >>), SeqS >>)
\* A repetition of a repetition.
Nested == Grammar(<< Rule("start", << <<"start", "list">>, <<"list">> >>),
                     Rule("list", << <<"list", "s">>, <<"s">> >>), SeqS >>)
\* A right-recursive repetition.
RightPlus == Grammar(<< Rule("start", << <<"s">>, <<"s", "start">> >>), SeqS >>)
\* Left-linear, but no repetition of one symbol.
LeftLinear == Grammar(<< Rule("start", << <<"start", "s">>, <<"start", "u">>, <<"s">> >>),
                         SeqS, SeqU >>)
\* The same to the right.
RightLinear == Grammar(<< Rule("start", << <<"s", "start">>, <<"u", "start">>, <<"s">> >>),
                          SeqS, SeqU >>)
\* No recursion, with a terminal beside sequence nodes.
Flat == Grammar(<< Rule("start", << <<"s", "u">>, <<"t4", "u">>, <<"u", "s", "s">> >>),
                   SeqS, SeqU >>)
\* Terms and sums, both recursive.
Sums == Grammar(<< Rule("start", << <<"sum">> >>),
                   Rule("sum", << <<"term">>, <<"term", "u", "sum">> >>),
                   Rule("term", << <<"t4", "sum", "t5">>, <<"s">> >>), SeqS, SeqU >>)
\* A rule that produces nothing, beneath sequence nodes and without any.
Barren == Grammar(<< Rule("start", << <<"s">>, <<"loop">> >>),
                     Rule("loop", << <<"loop", "s">> >>), SeqS >>)
NoSequences == Grammar(<< Rule("start", << <<"word">>, <<"loop", "word">> >>),
                          Rule("word", << <<"t1">>, <<"t2", "word">> >>),
                          Rule("loop", << <<"t3", "loop">> >>),
                          Rule("apart", << <<"t4", "loop">> >>) >>)
Empty == Grammar(<< Rule("start", << <<"t1", "start">> >>) >>)

\* All grammars with two rules of at most two alternatives of these forms.
OneOrTwo(set) == {<<x>> : x \in set} \cup {<<x, y>> : x \in set, y \in set}
Pairs == {Grammar(<< Rule("start", first), Rule("list", second), SeqS >>) :
            first  \in OneOrTwo({<<"list">>, <<"s">>, <<"s", "list">>, <<"start", "list">>,
                                 <<"t4", "list">>}),
            second \in OneOrTwo({<<>>, <<"s">>, <<"list", "s">>, <<"s", "list">>,
                                 <<"start">>})}
MCGrammars == Pairs \cup {Plus, PlusFirst, Star, Nested, RightPlus, LeftLinear, RightLinear, Flat,
               Sums, Barren, NoSequences, Empty}
MCSums == {Sums}
MCTargets == {1, 3}
MCTrackBacks == {0, 1}
=============================================================================
