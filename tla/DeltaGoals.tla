----------------------------- MODULE DeltaGoals -----------------------------
(***************************************************************************)
(* What a DeltaController of src/src/DeltaDebugging.cpp looks for: which   *)
(* tests are good, which of the good ones is reduced next, and what later  *)
(* ones are compared with.                                                 *)
(*                                                                         *)
(* A goal is [first, second]: first is "reproduce", "primary", "secondary" *)
(* or "both"; second, the secondary goal of ReproduceResult, is "none",    *)
(* "primary", "secondary" or "both".  A result is [input, scores], with    *)
(* the primary and secondary score, which are not negative here.           *)
(***************************************************************************)
EXTENDS Integers, FiniteSets

Modes == {"Standard", "ScoreProgress"}

Goals ==
  [first : {"primary", "secondary", "both"}, second : {"none"}]
  \cup [first : {"reproduce"}, second : {"none", "primary", "secondary", "both"}]

\* Which score is the first one.
Primary == 1
Secondary == 2

\* acceptableLoss in hundredths, and acceptableLossAbsolute.
Losses == [relative : Nat, absolute : Nat]

\* With a best score of zero the relative loss is not a number or infinite, and
\* the comparison is false or true.
WithinLoss(score, best, loss) ==
  /\ IF best = 0 THEN score > 0
                 ELSE 100 * (best - score) < loss.relative * best
  /\ best - score < loss.absolute

\* StandardEvaluateInput, and the loops over the completed tests of
\* StandardEvaluateLevel and ScoreProgressEvaluateLevel.  same tells whether the
\* oracle said what it said of the original input.
IsGood(goal, loss, best, same, scores) ==
  CASE goal.first = "reproduce" -> same
    [] goal.first = "primary"   -> WithinLoss(scores[Primary], best[Primary], loss)
    [] goal.first = "secondary" -> WithinLoss(scores[Secondary], best[Secondary], loss)
    [] goal.first = "both"      ->
         \A s \in {Primary, Secondary} : WithinLoss(scores[s], best[s], loss)

\* _bestScore as Start sets it.
FirstBest(goal, scores) ==
  LET by == IF goal.first = "reproduce" THEN goal.second ELSE goal.first
  IN  CASE by = "primary"   -> <<scores[Primary], 0>>
        [] by = "secondary" -> <<0, scores[Secondary]>>
        [] OTHER            -> scores

\* Mutant of Raise: the best score is that of the new base, whatever it lost.
RaiseAlways(best, s, scores) == [<<0, 0>> EXCEPT ![s] = scores[s]]

\* _bestScore in the standard mode when an input with these scores is adopted:
\* the score that is not s is set to zero.
Raise(best, s, scores) ==
  IF best[s] < scores[s] THEN [<<0, 0>> EXCEPT ![s] = scores[s]] ELSE best

\* The same in score progress mode, whatever the goal.
RaiseBoth(best, scores) == IF best[Primary] <= scores[Primary] THEN scores ELSE best

-----------------------------------------------------------------------------
(* The order of the good results.                                          *)

Size(result) == Cardinality(result.input.kept)

PrimaryLess(a, b) ==
  \/ a.scores[Primary] > b.scores[Primary]
  \/ a.scores[Primary] = b.scores[Primary] /\ a.scores[Secondary] > b.scores[Secondary]

\* With equal secondary scores it compares the primary with the secondary one,
\* which is no order: any of them may be first.
SecondaryLess(a, b) == a.scores[Secondary] > b.scores[Secondary]

\* PrimaryLess of ScoreProgressEvaluateLevel.
PrimaryThenLength(a, b) ==
  \/ a.scores[Primary] > b.scores[Primary]
  \/ /\ a.scores[Primary] = b.scores[Primary]
     /\ Size(a) < Size(b) \/ (Size(a) = Size(b) /\ a.scores[Secondary] > b.scores[Secondary])

\* The longest first, and of those the one with the lowest primary score.
LengthLess(a, b) ==
  \/ Size(a) > Size(b)
  \/ /\ Size(a) = Size(b)
     /\ \/ a.scores[Primary] < b.scores[Primary]
        \/ a.scores[Primary] = b.scores[Primary] /\ a.scores[Secondary] > b.scores[Secondary]

Less(order, a, b) ==
  CASE order = "primary"   -> PrimaryLess(a, b)
    [] order = "secondary" -> SecondaryLess(a, b)
    [] order = "shorter"   -> PrimaryThenLength(a, b)
    [] order = "longer"    -> LengthLess(a, b)

\* The results that a multiset with this order may begin with.
FirstOf(order, results) == {a \in results : \A b \in results : ~Less(order, b, a)}

\* passing[0] of ScoreProgressEvaluateLevel.
Passing(goal, completed) ==
  LET by == IF goal.first = "reproduce" THEN goal.second ELSE goal.first
  IN  CASE by = "secondary"            -> FirstOf("secondary", completed)
        [] by \in {"primary", "both"} -> FirstOf("shorter", completed)
        [] by = "none"                 -> FirstOf("longer", completed)
=============================================================================
