---------------------------- MODULE DeltaRanges ----------------------------
(***************************************************************************)
(* The arithmetic of ranges that delta debugging is built on: the template *)
(* classes RangeIterator and RangeCalculator of                            *)
(* src/src/DeltaDebugging.cpp and ExtractRanges of src/src/Input.cpp.      *)
(*                                                                         *)
(* A range is a pair <<begin, length>> of positions that start at 0, as in *)
(* the code; a list of ranges is a sequence of them, sorted by begin.      *)
(***************************************************************************)
EXTENDS Integers, Sequences, FiniteSets, SequencesExt

Begin(range)     == range[1]
Length(range)    == range[2]
End(range)       == range[1] + range[2]
Positions(range) == Begin(range) .. End(range) - 1

\* The positions of a list of ranges.
Covered(ranges) == UNION {Positions(ranges[i]) : i \in DOMAIN ranges}

\* The numbers of a set in ascending order.
Sorted(numbers) ==
  [i \in 1 .. Cardinality(numbers) |->
     CHOOSE n \in numbers : Cardinality({m \in numbers : m < n}) = i - 1]

\* The maximal runs of consecutive numbers in a set, in ascending order.
RunsOf(positions) ==
  LET Run(p) == <<p, CHOOSE n \in 1 .. Cardinality(positions) :
                       /\ p .. p + n - 1 \subseteq positions
                       /\ p + n \notin positions>>
      starts == {p \in positions : p - 1 \notin positions}
  IN  [i \in DOMAIN Sorted(starts) |-> Run(Sorted(starts)[i])]

-----------------------------------------------------------------------------
(* Where the score of an input makes no progress.  changes holds the       *)
(* positions whose individual score differs from the one before.  A run of *)
(* equal scores is entered without its last element, and the run that      *)
(* reaches the end of the input is not entered at all.                     *)

ExtractRanges(changes, length) ==
  LET borders  == (changes \cap 1 .. length - 1) \cup {0}
      begins   == {b \in borders : b + 1 \notin borders /\ \E e \in borders : b < e}
      Run(b)   == <<b, Min({e \in borders : b < e}) - b - 1>>
  IN  [i \in DOMAIN Sorted(begins) |-> Run(Sorted(begins)[i])]

-----------------------------------------------------------------------------
(* RangeIterator: the ranges from number skipped + 1 on, each without its  *)
(* first or its last position.                                             *)

SkipOptions == {"None", "SkipFirst", "SkipLast"}

Usable(range, skip) ==
  CASE skip = "SkipFirst" -> <<Begin(range) + 1, Length(range) - 1>>
    [] skip = "SkipLast"  -> <<Begin(range), Length(range) - 1>>
    [] OTHER              -> range

Considered(ranges, skipped) == SubSeq(ranges, skipped + 1, Len(ranges))

UsableLength(ranges, skip, skipped) ==
  Cardinality(UNION {Positions(Usable(range, skip)) :
                     range \in ToSet(Considered(ranges, skipped))})

\* Pieces of exactly minsize positions; what is left of a range is dropped.
GetRangesAbove(ranges, skip, skipped, minsize) ==
  LET size == IF minsize <= 0 THEN 1 ELSE minsize
      PieceBegins(range) ==
        LET whole == Usable(range, skip)
        IN  {b \in Positions(whole) : /\ Length(range) >= size
                                      /\ (b - Begin(whole)) % size = 0
                                      /\ b + size <= End(whole)}
      begins == UNION {PieceBegins(range) : range \in ToSet(Considered(ranges, skipped))}
  IN  [i \in DOMAIN Sorted(begins) |-> <<Sorted(begins)[i], size>>]

-----------------------------------------------------------------------------
(* RangeCalculator: ranges of an original sequence that are already cut.   *)

IsInRange(ranges, pos) ==
  \E i \in DOMAIN ranges :
    /\ pos \in Positions(ranges[i])
    /\ \A j \in 1 .. i - 1 : pos >= Begin(ranges[j])

\* Mutant of Coord: what is cut already is not left out.
CoordOfOriginal(ranges, pos) == pos

\* The position in what is left for a position of the original.
Coord(ranges, pos) == Cardinality({c \in 0 .. pos - 1 : ~IsInRange(ranges, c)})

\* The new range becomes part of the first range that it touches, or is
\* inserted at its place.  ranges are the old ones, segments those built.
Place(ranges, segments, new) ==
  LET Touches(i) == End(new) = Begin(ranges[i]) \/ Begin(new) = End(ranges[i])
      Before(i)  == End(new) < Begin(ranges[i])
      Reached(i) == \A j \in 1 .. i - 1 : ~Touches(j) /\ ~Before(j)
      place      == {i \in DOMAIN ranges : Reached(i) /\ (Touches(i) \/ Before(i))}
  IN  IF place = {} THEN Append(segments, new)
      ELSE LET i == CHOOSE k \in place : TRUE
           IN  IF ~Touches(i) THEN InsertAt(segments, i, new)
               ELSE IF End(new) = Begin(ranges[i])
               THEN [segments EXCEPT ![i] = <<Begin(new), Length(new) + Length(@)>>]
               ELSE [segments EXCEPT ![i] = <<Begin(@), Length(@) + Length(new)>>]

\* The new ranges are placed from the last to the first.
Placed(ranges, news) ==
  LET placed[i \in 0 .. Len(news)] ==
        IF i = 0 THEN ranges
                 ELSE Place(ranges, placed[i - 1], news[Len(news) + 1 - i])
  IN  placed[Len(news)]

\* A range that begins where the one before ends becomes a part of it.
Joined(merged, new) ==
  IF merged # <<>> /\ End(Last(merged)) = Begin(new)
    THEN [merged EXCEPT ![Len(merged)] = <<Begin(@), Length(@) + Length(new)>>]
    ELSE Append(merged, new)

Merge(segments) ==
  LET merged[i \in 0 .. Len(segments)] ==
        IF i = 0 THEN <<>> ELSE Joined(merged[i - 1], segments[i])
  IN  merged[Len(segments)]

\* The ranges that are cut when count positions of what is left, from begin
\* on, are cut as well.
GetNewRangesWithout(ranges, origlength, begin, count) ==
  LET tocut == {c \in 0 .. origlength - 1 :
                  /\ ~IsInRange(ranges, c)
                  /\ Coord(ranges, c) \in begin .. begin + count - 1}
  IN  Merge(Placed(ranges, RunsOf(tocut)))
=============================================================================
