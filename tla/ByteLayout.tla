----------------------------- MODULE ByteLayout -----------------------------
(***************************************************************************)
(* What the functions of include/BufferOperations.h do to the order and    *)
(* the size of the bytes of a record.  A layout is the sequence of the     *)
(* fields a WriteData writes or a ReadData reads; a field has the name of  *)
(* the member it carries and its width in bytes.                           *)
(*                                                                         *)
(* Some classes write into an ArrayBuffer of the size they announced.      *)
(* Such a buffer refuses what does not fit; a string needs more room than  *)
(* it takes, which is the "spare" of its fields.                           *)
(***************************************************************************)
EXTENDS Integers, Sequences, SequencesExt

Field(name, width, spare) == [name |-> name, width |-> width, spare |-> spare]

Fields(width, names) == [i \in DOMAIN names |-> Field(names[i], width, 0)]

\* bool; int32_t and float; 64 bit integers, double, FormID and times.
Bytes(names) == Fields(1, names)
Words(names) == Fields(4, names)
Longs(names) == Fields(8, names)

\* A container: the number of its elements and the elements.
List(name, n, width) == <<Field(name, 8 + n * width, 0)>>

\* n times the same fields.
Repeat(n, fields) == FlattenSeq([i \in 1 .. n |-> fields])

\* A string: its length and its characters.  Write checks that both fit, and
\* WriteIntern drops the characters, without a word, when there are not eight
\* more bytes than they need.
String(name, len) ==
  <<Field("length", 8, len), Field(name, len, IF len = 0 THEN 0 ELSE 8)>>

\* A block of bytes with its length; WriteIntern is not used for it.
Block(name, len) == <<Field(name, 8 + len, 0)>>

Total(layout) ==
  LET sum[i \in 0 .. Len(layout)] == IF i = 0 THEN 0 ELSE sum[i - 1] + layout[i].width
  IN  sum[Len(layout)]

\* ArrayBuffer::Write: what is free after a field; nothing is once one was refused.
Refused == -1
Left(free, f) == IF f.width + f.spare <= free THEN free - f.width ELSE Refused

FitsInto(layout, room) ==
  LET free[i \in 0 .. Len(layout)] == IF i = 0 THEN room ELSE Left(free[i - 1], layout[i])
  IN  free[Len(layout)] # Refused

\* The reader finds in each member what the writer put there.
SameFields(written, read) ==
  /\ Len(written) = Len(read)
  /\ \A i \in DOMAIN written :
       written[i].name = read[i].name /\ written[i].width = read[i].width
=============================================================================
