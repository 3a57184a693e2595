---------------------------- MODULE ExclusionSet ----------------------------
(***************************************************************************)
(* What the exclusion tree promises: it is a set of verdicts on sequences. *)
(* A sequence with a fixed result decides all its extensions, so their     *)
(* verdicts are dropped and no new ones accepted; an unfinished one says   *)
(* only that this very sequence was tried.  ExclusionTree implements it.   *)
(***************************************************************************)
EXTENDS Naturals, Sequences, SequencesExt

CONSTANTS
  Inputs,       \* the inputs tests were made of
  Sequence,     \* the sequence of strings of an input
  LengthLimit   \* longer sequences are not recorded

VARIABLE
  verdicts      \* sequence -> its result and the input that had it

Fixed   == {"Passing", "Failing"}
Results == Fixed \cup {"Unfinished"}
Verdict == [result : Results, input : Inputs]

\* p is a prefix of s whose result is fixed.
Decides(p, s) ==
  p \in DOMAIN verdicts /\ verdicts[p].result \in Fixed /\ IsPrefix(p, s)

Decided(s) == \E p \in DOMAIN verdicts : Decides(p, s)

Recordable(s) == s # <<>> /\ Len(s) <= LengthLimit /\ ~Decided(s)

\* The verdicts that stay when s gets the result r.
Kept(s, r) ==
  {p \in DOMAIN verdicts : ~(r \in Fixed /\ IsPrefix(s, p))}

Init == verdicts = <<>>

Record(i, r) ==
  LET s == Sequence[i] IN
  /\ Recordable(s)
  /\ verdicts' = [p \in Kept(s, r) \cup {s} |->
                    IF p = s THEN [result |-> r, input |-> i] ELSE verdicts[p]]

Next == \E i \in Inputs, r \in Results : Record(i, r)

Spec == Init /\ [][Next]_verdicts

-----------------------------------------------------------------------------
(* The two questions.                                                      *)

NoReply == [hit |-> FALSE, ext |-> FALSE]
Hit(i)  == [hit |-> TRUE, ext |-> FALSE, input |-> i]
Ext(i)  == [hit |-> FALSE, ext |-> TRUE, input |-> i]

\* The input that decides s, or the one that tried s itself without a result.
Answers(s) ==
  IF Decided(s)
    THEN {Hit(verdicts[p].input) : p \in {q \in DOMAIN verdicts : Decides(q, s)}}
  ELSE IF s \in DOMAIN verdicts THEN {Hit(verdicts[s].input)}
  ELSE {NoReply}

Extensions(s) == {p \in DOMAIN verdicts : IsPrefix(s, p)}

Shortest(s) ==
  {p \in Extensions(s) : \A q \in Extensions(s) : Len(p) <= Len(q)}

\* Without such an input: one that had a verdict on a shortest extension of s.
ExtendedAnswers(s) ==
  IF Answers(s) = {NoReply} /\ Extensions(s) # {}
    THEN {Ext(verdicts[p].input) : p \in Shortest(s)}
    ELSE Answers(s)
=============================================================================
