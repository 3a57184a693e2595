------------------------------- MODULE Records ------------------------------
(***************************************************************************)
(* Every kind of record of a save file, over containers that are empty or  *)
(* hold two elements, and strings that are empty or have two characters.   *)
(*                                                                         *)
(* CreateRecord writes the announced size and the type and lets WriteData  *)
(* write the rest.  ReadRecord gives the stream to ReadData: a class with  *)
(* a buffer takes as many bytes as were announced, any other as many as it *)
(* reads, and a record that was read past its announced size is thrown     *)
(* away.  Nothing skips to the next record, so that one member read amiss  *)
(* spoils the rest of the file.                                            *)
(***************************************************************************)
EXTENDS SearchRecords

\* Every container and string empty, all of them filled, and each of them alone.
Counts(names) ==
  {[n \in names |-> IF n \in filled THEN 2 ELSE 0] :
     filled \in {{}, names} \cup {{n} : n \in names}}

Empty(names) == [n \in names |-> 0]

\* Numbers of elements, and what else a record depends on.
With(counts, more) ==
  [x \in DOMAIN counts \cup DOMAIN more |->
     IF x \in DOMAIN more THEN more[x] ELSE counts[x]]

\* kind is "buffer" if the class writes into an ArrayBuffer, "exact" if its
\* parts are written with a size of their own, else "stream".
Kind(class, kind, size, written, read) ==
  [class |-> class, kind |-> kind, size |-> size, written |-> written, read |-> read]

CreateRecord(record) == record.size + 8 + 4

-----------------------------------------------------------------------------
(* What the current version writes and reads, class by class.              *)

InputRecord(c) == Kind("Input", "buffer", InputSize(c), InputWritten(c), InputRead(3, c))
TestRecord(c)  == Kind("Test", "buffer", TestSize(c), TestWritten(c), TestRead(2, c))
DerivationTreeRecord(c) ==
  Kind("DerivationTree", "buffer", DerivationTreeSize(c), DerivationTreeWritten(c),
       DerivationTreeRead(2, c))
NodeRecord(c) ==
  Kind("ExclusionTreeNode", "buffer", NodeSize(c), NodeWritten(c), NodeRead(3, c))

TreeRecord(c) == Kind("ExclusionTree", "stream", TreeSize(c), TreeWritten(c), TreeRead(4, c))
GenerationRecord(c) ==
  Kind("Generation", "stream", GenerationSize(c), GenerationWritten(c), GenerationRead(2, c))
GeneratorRecord(c) ==
  Kind("Generator", "stream", GeneratorSize(c), GeneratorFields(c), GeneratorFields(c))
SessionRecord(c) ==
  Kind("Session", "stream", SessionSize(c), SessionFields(c), SessionFields(c))
ControllerRecord(c) ==
  Kind("TaskController", "stream", ControllerSize(c), ControllerWritten(c),
       ControllerRead(2, c))
HandlerRecord(c) ==
  Kind("ExecutionHandler", "stream", HandlerSize(c), HandlerWritten(c),
       HandlerRead(c.stopping + c.running + c.waiting + c.waitingExec, c))
SessionDataRecord(c) ==
  Kind("SessionData", "stream", SessionDataSize(c), SessionDataWritten(c),
       SessionDataRead(2, c))
OracleRecord(c) == Kind("Oracle", "stream", OracleSize(c), OracleWritten(c), OracleRead(c))
SettingsRecord(c) ==
  Kind("Settings", "stream", SettingsSize(c), SettingsWritten(c), SettingsRead(5, c))
GrammarRecord(c) ==
  Kind("Grammar", "stream", GrammarSize(c), GrammarWritten(c), GrammarRead0x2(c))
DeltaRecord(c) ==
  Kind("DeltaController", "stream", DeltaSize(c), DeltaWritten(c), DeltaRead(4, c))

CallbackRecord(f) == Kind("callback", "exact", f.length, f.fields, f.fields)
StringTableRecord(c) ==
  Kind("strings", "stream", StringTableSize(c), StringTableWritten(c), StringTableRead(c))
HeaderRecord(c) == Kind("header", "exact", HeaderSize(c), HeaderWritten(c), HeaderRead(3, c))

\* The containers and strings of each class.
InputLists == {"flags", "segments", "primaryScores", "secondaryScores", "stringrep"}
TestLists == {"flags", "lastwritten", "reactiontime", "output"}
TreeLists == {"flags", "segments"}
GenerationContainers == {"flags", "generatedInputs", "ddInputs", "ddControllers", "sources"}
ControllerLists == {"flags", "tasks", "medium", "light", "executed", "name"}
HandlerLists == {"flags", "stopping", "running", "waiting", "waitingExec"}
SessionLists ==
  {"flags", "positive", "negative", "unfinished", "undefined", "recentfails", "generations"}
GrammarLists ==
  {"flags", "ruleorder", "nodes", "plain", "regex", "nonterminals", "terminals",
   "identifier", "derivation", "expansions", "parents"}
DeltaLists ==
  {"flags", "results", "activeInputs", "completedTests", "callbacks", "waitingTests",
   "splits", "complements", "dinfo", "testqueue"}

NoCallback == [length |-> 0, fields |-> <<>>]

BufferRecords ==
  {InputRecord(With(n, [regenerate |-> r, sequence |-> s])) :
     n \in Counts(InputLists), r \in 0 .. 1, s \in BOOLEAN}
  \cup
  {TestRecord(With(n, [storeoutput |-> s, callback |-> f.length])) :
     n \in Counts(TestLists), s \in BOOLEAN, f \in Callbacks \cup {NoCallback}}
  \cup {DerivationTreeRecord(c) : c \in Counts(TreeLists)}
  \cup {NodeRecord(c) : c \in Counts({"children"})}

StreamRecords ==
  {TreeRecord(c) : c \in Counts({"flags"})}
  \cup {GenerationRecord(c) : c \in Counts(GenerationContainers)}
  \cup {GeneratorRecord(c) : c \in Counts({"flags"})}
  \cup {SessionRecord(c) : c \in Counts({"flags"})}
  \cup {ControllerRecord(With(n, [callback |-> f])) :
          n \in Counts(ControllerLists), f \in Callbacks}
  \cup {HandlerRecord(c) : c \in Counts(HandlerLists)}
  \cup {SessionDataRecord(c) : c \in Counts(SessionLists)}
  \cup {OracleRecord([flags |-> 0, strings |-> s]) : s \in Counts(ToSet(OracleStrings))}
  \cup {SettingsRecord([flags |-> 0, strings |-> s]) : s \in Counts(ToSet(SettingsStrings))}
  \cup {GrammarRecord(c) : c \in Counts(GrammarLists)}
  \cup {DeltaRecord(With(n, [goal |-> g, callback |-> f])) :
          n \in Counts(DeltaLists), g \in DOMAIN GoalSize,
          f \in {DDTestCallback, DDGenerateComplementCallback}}

OtherRecords ==
  {CallbackRecord(f) : f \in Callbacks}
  \cup {StringTableRecord(c) : c \in Counts({"strings", "text"})}
  \cup {HeaderRecord(With(n, [callback |-> f])) :
          n \in Counts({"priors"}), f \in Callbacks \cup {NoCallback}}

AllRecords == BufferRecords \cup StreamRecords \cup OtherRecords

-----------------------------------------------------------------------------
\* ReadData finds every member where WriteData put it: the two are written apart
\* from each other (Input.cpp:90 and 148, and so for each class).
MembersInPlace(r) == SameFields(r.written, r.read)

\* The size a record announces, computed by a third function, is enough: no write
\* into the buffer of a record is refused and no string is dropped (Input.cpp:99),
\* and ReadRecord throws no record away that was written whole (Record.h:72).
SizeSuffices(r) ==
  CASE r.kind = "buffer" -> FitsInto(r.written, CreateRecord(r) - 12)
    [] r.kind = "stream" -> Total(r.written) <= CreateRecord(r) - 12
    [] r.kind = "exact"  -> Total(r.written) = r.size

\* The readers of inputs and tests refuse a record that is shorter than the static
\* size of its version (Input.cpp:160 and 199, Test.cpp:857); the shortest record
\* of every version, old ones too, is long enough.
ShortestAccepted ==
  /\ \A v \in 1 .. 3, s \in BOOLEAN :
       Total(InputRead(v, With(Empty(InputLists),
                               [regenerate |-> 0, sequence |-> s, doNotFree |-> FALSE])))
         >= InputStatic(v)
  /\ \A v \in 1 .. 2, s \in BOOLEAN :
       Total(TestRead(v, With(Empty(TestLists), [storeoutput |-> s, callback |-> 0])))
         >= TestStatic

\* Every kind of record is read as it was written: each member from the bytes it
\* was written to, within the size that was announced, and no reader refuses it.
RecordsAreRead ==
  (\A r \in AllRecords : MembersInPlace(r) /\ SizeSuffices(r)) /\ ShortestAccepted
=============================================================================
