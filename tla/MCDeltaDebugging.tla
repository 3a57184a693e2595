-------------------------- MODULE MCDeltaDebugging --------------------------
(***************************************************************************)
(* Small reductions for TLC.                                               *)
(***************************************************************************)
EXTENDS DeltaDebugging

Config(length, mode, goal, scores, skip, batch, budget, retries) ==
  [length |-> length, mode |-> mode, goal |-> goal, scores |-> scores,
   loss |-> [relative |-> 60, absolute |-> 3], skip |-> skip, skipRanges |-> 0,
   batchprocessing |-> batch, budget |-> budget, minLength |-> 1, retries |-> retries]

Goal(first, second) == [first |-> first, second |-> second]

NoScore == {<<0, 0>>}

\* Splits and complements of two positions; ranges of up to three positions,
\* all at a time or one by one, with and without a budget.  Losing one of two is
\* acceptable, losing one of one is not.
Reductions ==
  {Config(2, "Standard", Goal("reproduce", "none"), NoScore, "None", 1, 2, 1),
   Config(2, "Standard", Goal("primary", "none"), {<<1, 1>>, <<2, 0>>}, "None", 1, 1, 0),
   Config(2, "Standard", Goal("secondary", "none"), {<<1, 1>>, <<0, 2>>}, "None", 1, 1, 0),
   Config(2, "Standard", Goal("both", "none"), {<<1, 1>>, <<2, 0>>}, "None", 1, 1, 0),
   Config(4, "ScoreProgress", Goal("reproduce", "none"), NoScore, "None", 0, 0, 1),
   Config(4, "ScoreProgress", Goal("reproduce", "primary"), {<<1, 1>>, <<2, 0>>}, "SkipFirst", 1, 0, 1),
   Config(4, "ScoreProgress", Goal("primary", "none"), {<<1, 0>>, <<2, 1>>, <<3, 0>>}, "SkipFirst", 1, 0, 1),
   Config(4, "ScoreProgress", Goal("secondary", "none"), {<<1, 1>>, <<0, 2>>}, "None", 1, 1, 1),
   Config(5, "ScoreProgress", Goal("primary", "none"), {<<1, 0>>}, "None", 1, 1, 1)}

LastOrMiddle == {{4}, {3}, {2}}
=============================================================================
