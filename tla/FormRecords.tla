---------------------------- MODULE FormRecords -----------------------------
(***************************************************************************)
(* The records of the forms that hold the results of a session: inputs,    *)
(* tests, derivation trees, the exclusion tree, generations, the generator *)
(* and the session.  For each class: the size it announces (GetStaticSize  *)
(* and GetDynamicSize), what WriteData writes and what ReadData of a       *)
(* version reads, in their order.  c has the numbers of elements of the    *)
(* containers and the lengths of the strings.                              *)
(*                                                                         *)
(* A size and a reader of an old version are kept by the code for the save *)
(* files of that version.                                                  *)
(***************************************************************************)
EXTENDS ByteLayout

-----------------------------------------------------------------------------
\* Form and StrippedForm.  flags is a multiset: SetFlag adds an element, and
\* UnsetFlag removes one.

FormSize(flags) == 4 + 8 + 8 + 8 + 8 * flags

FormFields(flags) ==
  Words(<<"formversion">>) \o Longs(<<"formid", "flagsAlloc">>) \o List("flags", flags, 8)

StrippedSize == 4 + 8 + 8

StrippedFields == Words(<<"formversion">>) \o Longs(<<"formid", "flagsAlloc">>)

\* StrippedForm::ReadDataLegacy reads past the flags of a Form.
StrippedLegacyFields(flags) == FormFields(flags)

FormHead(flags) == Words(<<"classversion">>) \o FormFields(flags)

-----------------------------------------------------------------------------
\* Input.  GetDynamicSize and WriteData set the flag RegenerateOnLoad of an
\* input that has a sequence; GetDynamicSize takes one away when it is done.

\* Mutant of InputFlagsSized: the flag is counted as it is before it is set.
InputFlagsUncounted(c) == c.flags + c.regenerate

InputFlagsSized(c) == c.flags + c.regenerate + (IF c.sequence THEN 1 ELSE 0)

InputFlagsWritten(c) ==
  c.flags + (IF c.sequence THEN c.regenerate + 1
             ELSE IF c.regenerate = 0 THEN 0 ELSE c.regenerate - 1)

InputStatic(v) ==
  CASE v = 1 -> 4 + 1 + 1 + 8 + 4 + 8 + 8 + 8 + 8 + 8 + 8 + 8 + 8 + 8 + 1 + 8 + 8 + 8
    [] v = 2 -> 4 + 1 + 1 + 8 + 4 + 8 + 8 + 8 + 8 + 8 + 8 + 8 + 1 + 8 + 8 + 8 + 1 + 1 + 8
    [] v = 3 -> 4 + 1 + 1 + 8 + 4 + 8 + 8 + 8 + 8 + 8 + 8 + 8 + 1 + 8 + 8 + 8 + 1 + 1 + 8 + 8

InputSize(c) ==
  FormSize(InputFlagsSized(c)) + InputStatic(3) + 8 + 16 * c.segments
    + (8 + 8 * c.primaryScores) + (8 + 8 * c.secondaryScores) + (8 + c.stringrep)

InputWritten(c) ==
  FormHead(InputFlagsWritten(c))
    \o Bytes(<<"hasfinished", "trimmed">>) \o Longs(<<"executiontime">>)
    \o Words(<<"exitcode">>) \o Longs(<<"oracleResult", "test", "derive">>)
    \o String("stringrep", c.stringrep)
    \o Longs(<<"primaryScore", "secondaryScore", "trimmedlength", "parentInput">>)
    \o List("segments", c.segments, 16)
    \o Bytes(<<"complement">>) \o Longs(<<"generationID", "derivedInputs", "generationTime">>)
    \o Bytes(<<"enablePrimary", "enableSecondary">>)
    \o List("primaryScores", c.primaryScores, 8)
    \o List("secondaryScores", c.secondaryScores, 8)
    \o Longs(<<"derivedFails", "olderinputs">>)

\* Version 1 kept the sequences of an input that is not to be freed, and had one
\* segment, whose begin and length were fields.
InputRead(v, c) ==
  FormHead(InputFlagsWritten(c))
    \o Bytes(<<"hasfinished", "trimmed">>) \o Longs(<<"executiontime">>)
    \o Words(<<"exitcode">>) \o Longs(<<"oracleResult", "test", "derive">>)
    \o String("stringrep", c.stringrep)
    \o (IF v = 1 /\ c.doNotFree
        THEN List("sequence", c.strings, 8) \o List("orig_sequence", c.strings, 8) ELSE <<>>)
    \o Longs(<<"primaryScore", "secondaryScore", "trimmedlength", "parentInput">>)
    \o (IF v = 1 THEN Longs(<<"begin", "length">>) ELSE List("segments", c.segments, 16))
    \o Bytes(<<"complement">>) \o Longs(<<"generationID", "derivedInputs", "generationTime">>)
    \o (IF v = 1 THEN <<>>
        ELSE Bytes(<<"enablePrimary", "enableSecondary">>)
               \o List("primaryScores", c.primaryScores, 8)
               \o List("secondaryScores", c.secondaryScores, 8)
               \o Longs(<<"derivedFails">>))
    \o (IF v = 3 THEN Longs(<<"olderinputs">>) ELSE <<>>)

-----------------------------------------------------------------------------
\* Test.  The output is written when it is to be stored, else an empty string;
\* a callback is a block with a length, in version 1 without it.  c.callback is
\* the length of its record, 0 if there is none.

TestStatic == 4 + 1 + 8 + 8 + 8 + 8 + 8 + 8 + 1 + 1 + 1

TestSize(c) ==
  FormSize(c.flags) + TestStatic + (8 + c.lastwritten) + (8 + 8 * c.reactiontime)
    + (IF c.storeoutput THEN 8 + c.output ELSE 8)
    + (IF c.callback > 0 THEN c.callback + 8 ELSE 0)

TestOutput(c) == IF c.storeoutput THEN c.output ELSE 0

TestWritten(c) ==
  FormHead(c.flags)
    \o Bytes(<<"running">>) \o Longs(<<"starttime", "endtime", "input">>)
    \o String("lastwritten", c.lastwritten) \o Longs(<<"lasttime">>)
    \o List("reactiontime", c.reactiontime, 8)
    \o String("output", TestOutput(c))
    \o Longs(<<"identifier", "exitreason">>) \o Bytes(<<"valid", "hascallback">>)
    \o (IF c.callback > 0 THEN Block("callback", c.callback) ELSE <<>>)
    \o Bytes(<<"skipOracle">>)

TestRead(v, c) ==
  FormHead(c.flags)
    \o Bytes(<<"running">>) \o Longs(<<"starttime", "endtime", "input">>)
    \o String("lastwritten", c.lastwritten) \o Longs(<<"lasttime">>)
    \o List("reactiontime", c.reactiontime, 8)
    \o String("output", TestOutput(c))
    \o Longs(<<"identifier", "exitreason">>) \o Bytes(<<"valid", "hascallback">>)
    \o (IF c.callback = 0 THEN <<>>
        ELSE IF v = 1 THEN <<Field("callback", c.callback, 0)>>
        ELSE Block("callback", c.callback))
    \o Bytes(<<"skipOracle">>)

-----------------------------------------------------------------------------
\* DerivationTree

DerivationTreeStatic(v) ==
  CASE v = 1 -> 4 + 8 + 1 + 4 + 4 + 8 + 8 + 8 + 8 + 1 + 8
    [] v = 2 -> 4 + 8 + 1 + 4 + 4 + 8 + 8 + 8 + 1 + 8

DerivationTreeSize(c) ==
  FormSize(c.flags) + DerivationTreeStatic(2) + 8 + 16 * c.segments

DerivationTreeWritten(c) ==
  FormHead(c.flags)
    \o Longs(<<"grammarID">>) \o Bytes(<<"regenerate">>) \o Words(<<"seed", "targetlen">>)
    \o Longs(<<"parentID">>) \o List("segments", c.segments, 16)
    \o Longs(<<"length", "stop">>) \o Bytes(<<"complement">>) \o Longs(<<"inputID">>)

DerivationTreeRead(v, c) ==
  FormHead(c.flags)
    \o Longs(<<"grammarID">>) \o Bytes(<<"regenerate">>) \o Words(<<"seed", "targetlen">>)
    \o Longs(<<"parentID">>)
    \o (IF v = 1 THEN Longs(<<"begin", "length">>)
        ELSE List("segments", c.segments, 16) \o Longs(<<"length">>))
    \o Longs(<<"stop">>) \o Bytes(<<"complement">>) \o Longs(<<"inputID">>)

-----------------------------------------------------------------------------
\* ExclusionTreeNode and ExclusionTree.  That a node is a leaf is a flag since
\* version 3; a node was a Form with a multiset of flags in version 2.

NodeStatic(v) ==
  CASE v = 1 -> 4 + 8 + 8 + 1 + 8 + 8
    [] v = 2 -> 4 + 8 + 1 + 8 + 8
    [] v = 3 -> 4 + 8 + 8 + 8

NodeSize(c) == StrippedSize + NodeStatic(3) + 8 + 8 * c.children

NodeWritten(c) ==
  Words(<<"classversion">>) \o StrippedFields
    \o Longs(<<"stringID">>) \o List("children", c.children, 8)
    \o Longs(<<"result", "InputID">>)

NodeRead(v, c) ==
  Words(<<"classversion">>)
    \o (IF v = 2 THEN StrippedLegacyFields(c.flags) ELSE StrippedFields)
    \o Longs(<<"stringID">>)
    \o (IF v = 1 THEN Longs(<<"id">>) ELSE <<>>)
    \o List("children", c.children, 8)
    \o (IF v = 3 THEN <<>> ELSE Bytes(<<"isLeaf">>))
    \o Longs(<<"result", "InputID">>)

TreeStatic(v) == 4 + (IF v = 3 THEN 8 ELSE 0) + 8 + 8 + 8 + 8

TreeSize(c) == FormSize(c.flags) + TreeStatic(4)

TreeWritten(c) == FormHead(c.flags) \o Longs(<<"root", "depth", "leafcount", "nodecount">>)

TreeRead(v, c) ==
  FormHead(c.flags)
    \o (IF v = 3 THEN Longs(<<"nextid">>) ELSE <<>>)
    \o Longs(<<"root", "depth", "leafcount", "nodecount">>)

-----------------------------------------------------------------------------
\* Generation, Generator and Session

GenerationStatic(v) ==
  CASE v = 1 -> 4 + 8 + 8 + 8 + 8 + 8 + 8 + 8 + 4
    [] v = 2 -> 4 + 8 + 8 + 8 + 8 + 8 + 8 + 8 + 4 + 8 + 8 + 8 + 8

GenerationSize(c) ==
  FormSize(c.flags) + GenerationStatic(2) + (8 + 8 * c.generatedInputs) + (8 + 8 * c.ddInputs)
    + (8 + 8 * c.ddControllers) + (8 + 8 * c.sources)

GenerationLists(c) ==
  List("generatedInputs", c.generatedInputs, 8) \o List("ddInputs", c.ddInputs, 8)
    \o List("ddControllers", c.ddControllers, 8) \o List("sources", c.sources, 8)

GenerationWritten(c) ==
  FormHead(c.flags)
    \o Longs(<<"size", "generatedSize", "ddSize", "targetSize", "maxSimultaneousGeneration",
               "activeInputs", "maxActiveInputs">>)
    \o Words(<<"generationNumber">>) \o GenerationLists(c)
    \o Longs(<<"maxDerivedFailingInputs", "maxDerivedInputs", "gen_begin", "gen_end">>)

GenerationRead(v, c) ==
  FormHead(c.flags)
    \o Longs(<<"size", "generatedSize", "ddSize", "targetSize", "maxSimultaneousGeneration",
               "activeInputs", "maxActiveInputs">>)
    \o Words(<<"generationNumber">>) \o GenerationLists(c)
    \o (IF v = 1 THEN <<>>
        ELSE Longs(<<"maxDerivedFailingInputs", "maxDerivedInputs", "gen_begin", "gen_end">>))

GeneratorSize(c)   == FormSize(c.flags) + 4 + 8
GeneratorFields(c) == FormHead(c.flags) \o Longs(<<"grammar">>)

SessionSize(c)   == FormSize(c.flags) + 4
SessionFields(c) == FormHead(c.flags)
=============================================================================
