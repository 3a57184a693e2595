------------------------------ MODULE Reduction ------------------------------
(***************************************************************************)
(* What delta debugging promises, with one step for a level: from an input *)
(* that shows a result it goes to a part of it that was tested and found   *)
(* good, or it looks at finer parts, and it stops only when nothing good   *)
(* is left to look at and there are no finer parts, or when its budget of  *)
(* tests is spent.                                                         *)
(*                                                                         *)
(* Module DeltaDebugging implements this specification, whatever its       *)
(* threads do to each other.                                               *)
(***************************************************************************)
EXTENDS Integers

VARIABLES
  whole,            \* the positions of the original input
  base,             \* the part that is being reduced
  level,            \* how finely it is divided
  limit,            \* how many of its positions may be cut at all
  good,             \* parts that were tested and found good
  budgetSpent,      \* whether the budget of tests is spent
  done

vars == <<whole, base, level, limit, good, budgetSpent, done>>

Parts == (SUBSET whole) \ {{}}

Coarser(n)    == IF n > 2 THEN n - 1 ELSE 2
Finer(n, max) == IF 2 * n < max THEN 2 * n ELSE max

\* How much of an input may be cut depends on the input.
Init ==
  /\ base = whole
  /\ level = 2
  /\ good = {}
  /\ budgetSpent = FALSE
  /\ done = FALSE

\* A result comes in.  Even after the end, when it changes nothing any more and
\* is forgotten.
Learn ==
  /\ \/ good' = good
     \/ \E part \in Parts : good' = good \cup {part}
     \/ done /\ good' = {}
  /\ budgetSpent' \in {budgetSpent, TRUE}
  /\ UNCHANGED <<whole, base, level, limit, done>>

Adopt ==
  /\ ~done
  /\ base' \in good
  /\ level' \in {2, Coarser(level)}
  /\ good' = {}
  /\ done' = budgetSpent
  /\ UNCHANGED <<whole, budgetSpent>>

Refine ==
  /\ ~done
  /\ good = {}
  /\ level < limit
  /\ level' = Finer(level, limit)
  /\ done' \in {FALSE, budgetSpent}
  /\ UNCHANGED <<whole, base, limit, good, budgetSpent>>

Stop ==
  /\ ~done
  /\ good = {}
  /\ level >= limit
  /\ done' = TRUE
  /\ UNCHANGED <<whole, base, level, limit, good, budgetSpent>>

Next == Learn \/ Adopt \/ Refine \/ Stop

Spec == Init /\ [][Next]_vars
=============================================================================
