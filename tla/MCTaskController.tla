-------------------------- MODULE MCTaskController --------------------------
(***************************************************************************)
(* Small pools for TLC.  l, m and h name light, medium and heavy tasks.    *)
(***************************************************************************)
EXTENDS TaskController

CONSTANTS l1, l2, m1, h1, h2

MCFunctionType ==
  [t \in Tasks |-> CASE t \in {l1, l2} -> "Light"
                     [] t = m1         -> "Medium"
                     [] OTHER          -> "Heavy"]

\* Where a property needs no queue of two, one task of each class is enough.
ThreeTasks == {l1, m1, h1}
TwoLightOneHeavy == {l1, l2, h1}
LightAndHeavy == {l1, h1, h2}
=============================================================================
