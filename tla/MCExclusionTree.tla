-------------------------- MODULE MCExclusionTree --------------------------
(***************************************************************************)
(* Eight inputs over two strings: prefixes of each other, two inputs with  *)
(* the same sequence, an empty one and one over the limit.                 *)
(***************************************************************************)
EXTENDS ExclusionTree

CONSTANTS a, b

AllInputs  == {"empty", "a", "ab", "ab2", "aa", "ba", "aba", "abab"}
TwoStrings == {a, b}

Sequences == [i \in AllInputs |->
  CASE i = "empty" -> <<>>
    [] i = "a"     -> <<a>>
    [] i = "ab"    -> <<a, b>>
    [] i = "ab2"   -> <<a, b>>
    [] i = "aa"    -> <<a, a>>
    [] i = "ba"    -> <<b, a>>
    [] i = "aba"   -> <<a, b, a>>
    [] i = "abab"  -> <<a, b, a, b>>]
=============================================================================
