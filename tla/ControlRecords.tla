--------------------------- MODULE ControlRecords ---------------------------
(***************************************************************************)
(* The records of the forms that drive a session: the task controller with *)
(* its callbacks, the execution handler, the data of the session, the      *)
(* oracle and the settings; and the parts of a save file that are no       *)
(* forms: its header and the table of the strings.  As in FormRecords.     *)
(***************************************************************************)
EXTENDS FormRecords

-----------------------------------------------------------------------------
\* Callbacks: the functions tasks call.  A record has a type and the ids of its
\* forms.  WriteData and GetData write the same members, and the two readers
\* read them; GetLength is what everyone who stores a callback relies on.

Callback(length, members) == [length |-> 8 + length, fields |-> Longs(<<"type">>) \o members]

TestCallback == Callback(16, Longs(<<"session", "input">>))

DDTestCallback == Callback(32, Longs(<<"session", "controller", "input", "batchident">>))

DDEvaluateExplicitCallback == Callback(8, Longs(<<"controller">>))

DDGenerateComplementCallback ==
  Callback(40, Longs(<<"controller">>) \o Words(<<"begin", "length">>)
                 \o Longs(<<"approxthreshold", "batchident", "input">>))

DDGenerateCheckSplit ==
  Callback(32, Longs(<<"controller", "input", "approxthreshold", "batchident">>))

MasterGenerationCallback == Callback(8, Longs(<<"session">>))

GenerationFinishedCallback ==
  Callback(8 + 8 + 1, Longs(<<"session", "generation">>) \o Bytes(<<"afterSave">>))

GenerationEndCallback == Callback(8, Longs(<<"session">>))

FinishSessionCallback == Callback(8, Longs(<<"session">>))

\* These have their type only: the session is found by its class, and a write of
\* input is not continued after loading.
SessionDDTestCallback  == Callback(0, <<>>)
ExecInitTestsCallback  == Callback(0, <<>>)
WriteTestInputCallback == Callback(0, <<>>)

Callbacks ==
  {TestCallback, DDTestCallback, DDEvaluateExplicitCallback, DDGenerateComplementCallback,
   DDGenerateCheckSplit, MasterGenerationCallback, GenerationFinishedCallback,
   GenerationEndCallback, FinishSessionCallback, SessionDDTestCallback,
   ExecInitTestsCallback, WriteTestInputCallback}

\* A queue of tasks: their number and their records.
Queue(name, callback, n) == Longs(<<name>>) \o Repeat(n, callback.fields)

-----------------------------------------------------------------------------
\* TaskController.  Version 1 had one queue and one kind of threads.

ControllerStatic == 4 + 1 + 1 + 1 + 5 * 4 + 4 * 1 + 8 + 8 + 8 + 8

ControllerSize(c) ==
  FormSize(c.flags) + ControllerStatic
    + c.tasks * c.callback.length + c.medium * c.callback.length
    + c.light * c.callback.length
    + 8 + c.executed * (8 + c.name + 8)

Executed(c) ==
  Longs(<<"executedTasks">>) \o Repeat(c.executed, String("name", c.name) \o Longs(<<"count">>))

ControllerWritten(c) ==
  FormHead(c.flags)
    \o Bytes(<<"terminate", "wait", "active">>)
    \o Words(<<"numthreads", "numLight", "numMedium", "numHeavy", "numAll">>)
    \o Bytes(<<"enableFine", "enableLight", "enableMedium", "enableHeavy">>)
    \o Queue("tasks", c.callback, c.tasks) \o Queue("medium", c.callback, c.medium)
    \o Queue("light", c.callback, c.light)
    \o Longs(<<"completedjobs">>) \o Executed(c)

ControllerRead(v, c) ==
  FormHead(c.flags)
    \o Bytes(<<"terminate", "wait", "active">>) \o Words(<<"numthreads">>)
    \o (IF v = 1 THEN Queue("tasks", c.callback, c.tasks) \o Longs(<<"completedjobs">>)
        ELSE Words(<<"numLight", "numMedium", "numHeavy", "numAll">>)
               \o Bytes(<<"enableFine", "enableLight", "enableMedium", "enableHeavy">>)
               \o Queue("tasks", c.callback, c.tasks) \o Queue("medium", c.callback, c.medium)
               \o Queue("light", c.callback, c.light)
               \o Longs(<<"completedjobs">>) \o Executed(c))

-----------------------------------------------------------------------------
\* ExecutionHandler: the tests of its four containers become one list.

HandlerSize(c) ==
  FormSize(c.flags) + 4 + 1 + 8 + 1 + 8 + 1 + 4 + 8
    + c.stopping * 8 + c.running * 8 + c.waiting * 8 + c.waitingExec * 8

HandlerFields == Bytes(<<"enableFragments">>) \o Longs(<<"waittime">>) \o Bytes(<<"cleared">>)
                   \o Longs(<<"nextid">>) \o Bytes(<<"active">>) \o Words(<<"maxConcurrentTests">>)

HandlerWritten(c) ==
  FormHead(c.flags) \o HandlerFields
    \o List("tests", c.waiting + c.waitingExec + c.running + c.stopping, 8)

HandlerRead(n, c) == FormHead(c.flags) \o HandlerFields \o List("tests", n, 8)

-----------------------------------------------------------------------------
\* SessionData

SessionDataStatic(v) == 4 + 26 * 8 + (IF v = 1 THEN 0 ELSE 8 + 8 + 1 + 1 + 8)

SessionDataSize(c) ==
  FormSize(c.flags) + SessionDataStatic(2) + c.positive * 8 + c.negative * 16
    + c.unfinished * 16 + c.undefined * 8 + c.recentfails + c.generations * 8

SessionDataWritten(c) ==
  FormHead(c.flags)
    \o Longs(<<"positiveNumber", "negativeNumber", "unfinishedNumber", "undefinedNumber">>)
    \o List("positive", c.positive, 8) \o List("negative", c.negative, 16)
    \o List("unfinished", c.unfinished, 16) \o List("undefined", c.undefined, 8)
    \o List("recentfails", c.recentfails, 1) \o List("generations", c.generations, 8)
    \o Longs(<<"generationfails", "generatedinputs", "generatedWithPrefix",
               "generatedExcluded", "lastchecks", "natural", "lastinput", "terminated",
               "timeout", "fragmenttimeout", "memory", "pipe", "initerror", "failureRate",
               "addtestFails", "grammar", "generation", "lastGenerationID">>)
    \o Bytes(<<"generationEnding", "generationFinishing">>) \o Longs(<<"defaultGen">>)

SessionDataRead(v, c) ==
  FormHead(c.flags)
    \o Longs(<<"positiveNumber", "negativeNumber", "unfinishedNumber", "undefinedNumber">>)
    \o List("positive", c.positive, 8) \o List("negative", c.negative, 16)
    \o List("unfinished", c.unfinished, 16) \o List("undefined", c.undefined, 8)
    \o List("recentfails", c.recentfails, 1)
    \o (IF v = 1 THEN <<>> ELSE List("generations", c.generations, 8))
    \o Longs(<<"generationfails", "generatedinputs", "generatedWithPrefix",
               "generatedExcluded", "lastchecks", "natural", "lastinput", "terminated",
               "timeout", "fragmenttimeout", "memory">>)
    \o (IF v = 1 THEN <<>> ELSE Longs(<<"pipe">>))
    \o Longs(<<"initerror", "failureRate", "addtestFails", "grammar", "generation",
               "lastGenerationID">>)
    \o (IF v = 1 THEN <<>>
        ELSE Bytes(<<"generationEnding", "generationFinishing">>) \o Longs(<<"defaultGen">>))

-----------------------------------------------------------------------------
\* Oracle: seven strings; the announced size counts their lengths twice.  A
\* path is empty when its file is missing.

OracleStrings == <<"path", "oracle", "oraclePath", "cmd", "cmdPath", "script", "scriptPath">>

Strings(names, len) == FlattenSeq([i \in DOMAIN names |-> String(names[i], len[names[i]])])

OracleSize(c) ==
  FormSize(c.flags) + 4 + 4 + 1 + 6 * 8 + Total(Strings(OracleStrings, c.strings))

OracleWritten(c) ==
  FormHead(c.flags) \o Words(<<"type">>) \o Bytes(<<"valid">>)
    \o Strings(OracleStrings, c.strings)

OracleRead(c) ==
  FormHead(c.flags) \o Words(<<"type">>) \o Bytes(<<"valid">>)
    \o String("path", c.strings.path) \o String("oracle", c.strings.oracle)
    \o String("oraclePath", c.strings.oraclePath)
    \o String("cmd", c.strings.cmd) \o String("cmdPath", c.strings.cmdPath)
    \o String("script", c.strings.script) \o String("scriptPath", c.strings.scriptPath)

-----------------------------------------------------------------------------
\* Settings: each version added members at the end.

SettingsStatic(v) ==
  4 + (4 + 1 + 3 * 4 + 3 * 8) + (1 + 8 + 8 + 4 + 1) + 1
    + (1 + 8 + 4 + 1 + 8 + 1 + 8) + (4 * 4 + 1 + 1 + 4 + 4) + 4 * (1 + 8)
    + (1 + 2 * (1 + 8) + 1 + 1 + 8)
    + (IF v >= 2 THEN 4 * 4 + 8 + 8 + 1 + 1 + 4 * 4 + 8 + 4 + 1 + 4 + 4 + 1 + 4 * 4 + 1 + 1
       ELSE 0)
    + (IF v >= 3 THEN 4 ELSE 0)
    + (IF v >= 4 THEN 1 + 8 + 1 + 8 ELSE 0)
    + (IF v >= 5 THEN 1 + 4 ELSE 0)

SettingsStrings ==
  <<"oraclepath", "lua_path_cmd", "lua_path_script", "lua_path_cmd_replay",
    "lua_path_oracle", "grammar_path", "savepath", "oraclepath_Unix">>

SettingsSize(c) ==
  FormSize(c.flags) + SettingsStatic(5) + Total(Strings(SettingsStrings, c.strings))

SettingsWritten(c) ==
  FormHead(c.flags)
    \o Words(<<"oracle">>) \o Strings(SubSeq(SettingsStrings, 1, 6), c.strings)
    \o Bytes(<<"usehardwarethreads">>)
    \o Words(<<"numthreads", "numcomputingthreads", "concurrenttests">>)
    \o Longs(<<"memory_limit", "memory_softlimit", "memory_sweep_period">>)
    \o Bytes(<<"enablesaves">>) \o Longs(<<"autosave_every_tests", "autosave_every_seconds">>)
    \o String("savepath", c.strings.savepath)
    \o Words(<<"compressionLevel">>) \o Bytes(<<"compressionExtreme">>)
    \o Bytes(<<"constructinputsiteratively", "deltadebugging">>)
    \o Longs(<<"executeAboveLength">>) \o Words(<<"mode">>)
    \o Bytes(<<"allowScoreOptimization">>) \o Longs(<<"optimizationLossThreshold">>)
    \o Bytes(<<"approximativeTestExecution">>) \o Longs(<<"approximativeThreshold">>)
    \o Words(<<"generationsize", "tweakstart", "tweakmax", "activeGeneratedInputs">>)
    \o Bytes(<<"generationalMode", "allowBacktrackFailedInputs">>)
    \o Words(<<"numberOfInputsToDeltaDebug", "numberOfSources">>)
    \o Bytes(<<"use_foundnegatives">>) \o Longs(<<"foundnegatives">>)
    \o Bytes(<<"use_foundpositives">>) \o Longs(<<"foundpositives">>)
    \o Bytes(<<"use_timeout">>) \o Longs(<<"timeout">>)
    \o Bytes(<<"use_overalltests">>) \o Longs(<<"overalltests">>)
    \o Bytes(<<"executeFragments", "use_testtimeout">>) \o Longs(<<"testtimeout">>)
    \o Bytes(<<"use_fragmenttimeout">>) \o Longs(<<"fragmenttimeout">>)
    \o Bytes(<<"storePUToutput", "storePUToutputSuccessful">>) \o Longs(<<"maxUsedMemory">>)
    \o String("oraclepath_Unix", c.strings.oraclepath_Unix)
    \o Words(<<"generationLengthMin", "generationLengthMax", "sourcesType">>)
    \o Longs(<<"maxNumberOfFailsPerSource", "maxNumberOfGenerationsPerSource">>)
    \o Words(<<"chance_new_generations">>)
    \o Bytes(<<"disableExclusionTree", "saveAfterEachGeneration">>)
    \o Words(<<"extensionMin", "extensionMax", "backtrackMin", "backtrackMax">>)
    \o Longs(<<"testEnginePeriod">>) \o Words(<<"skipoptions">>)
    \o Bytes(<<"runReproduceResults">>) \o Words(<<"batchprocessing", "budgetGenEnd">>)
    \o Bytes(<<"activateSettings">>)
    \o Words(<<"numLightThreads", "numMediumThreads", "numHeavyThreads", "numAllThreads">>)
    \o Bytes(<<"disableExecHandlerSleep", "repeatTimeoutedTests">>)
    \o Words(<<"exclusionTreeLengthLimit">>)
    \o Bytes(<<"skipDeltaDebuggedParts">>) \o Longs(<<"optimizationLossAbsolute">>)
    \o Bytes(<<"use_generations">>) \o Longs(<<"generations">>)
    \o Bytes(<<"incrementalSaveFiles">>) \o Words(<<"createFullSaveEvery">>)

SettingsRead(v, c) ==
  LET Since(version, fields) == IF v >= version THEN fields ELSE <<>> IN
  FormHead(c.flags)
    \o Words(<<"oracle">>) \o Strings(SubSeq(SettingsStrings, 1, 6), c.strings)
    \o Bytes(<<"usehardwarethreads">>)
    \o Words(<<"numthreads", "numcomputingthreads", "concurrenttests">>)
    \o Longs(<<"memory_limit", "memory_softlimit", "memory_sweep_period">>)
    \o Bytes(<<"enablesaves">>) \o Longs(<<"autosave_every_tests", "autosave_every_seconds">>)
    \o String("savepath", c.strings.savepath)
    \o Words(<<"compressionLevel">>) \o Bytes(<<"compressionExtreme">>)
    \o Bytes(<<"constructinputsiteratively", "deltadebugging">>)
    \o Longs(<<"executeAboveLength">>) \o Words(<<"mode">>)
    \o Bytes(<<"allowScoreOptimization">>) \o Longs(<<"optimizationLossThreshold">>)
    \o Bytes(<<"approximativeTestExecution">>) \o Longs(<<"approximativeThreshold">>)
    \o Words(<<"generationsize", "tweakstart", "tweakmax", "activeGeneratedInputs">>)
    \o Bytes(<<"generationalMode", "allowBacktrackFailedInputs">>)
    \o Words(<<"numberOfInputsToDeltaDebug", "numberOfSources">>)
    \o Bytes(<<"use_foundnegatives">>) \o Longs(<<"foundnegatives">>)
    \o Bytes(<<"use_foundpositives">>) \o Longs(<<"foundpositives">>)
    \o Bytes(<<"use_timeout">>) \o Longs(<<"timeout">>)
    \o Bytes(<<"use_overalltests">>) \o Longs(<<"overalltests">>)
    \o Bytes(<<"executeFragments", "use_testtimeout">>) \o Longs(<<"testtimeout">>)
    \o Bytes(<<"use_fragmenttimeout">>) \o Longs(<<"fragmenttimeout">>)
    \o Bytes(<<"storePUToutput", "storePUToutputSuccessful">>) \o Longs(<<"maxUsedMemory">>)
    \o Since(2,
         String("oraclepath_Unix", c.strings.oraclepath_Unix)
           \o Words(<<"generationLengthMin", "generationLengthMax", "sourcesType">>)
           \o Longs(<<"maxNumberOfFailsPerSource", "maxNumberOfGenerationsPerSource">>)
           \o Words(<<"chance_new_generations">>)
           \o Bytes(<<"disableExclusionTree", "saveAfterEachGeneration">>)
           \o Words(<<"extensionMin", "extensionMax", "backtrackMin", "backtrackMax">>)
           \o Longs(<<"testEnginePeriod">>) \o Words(<<"skipoptions">>)
           \o Bytes(<<"runReproduceResults">>) \o Words(<<"batchprocessing", "budgetGenEnd">>)
           \o Bytes(<<"activateSettings">>)
           \o Words(<<"numLightThreads", "numMediumThreads", "numHeavyThreads",
                      "numAllThreads">>)
           \o Bytes(<<"disableExecHandlerSleep", "repeatTimeoutedTests">>))
    \o Since(3, Words(<<"exclusionTreeLengthLimit">>))
    \o Since(4, Bytes(<<"skipDeltaDebuggedParts">>) \o Longs(<<"optimizationLossAbsolute">>)
                  \o Bytes(<<"use_generations">>) \o Longs(<<"generations">>))
    \o Since(5, Bytes(<<"incrementalSaveFiles">>) \o Words(<<"createFullSaveEvery">>))

-----------------------------------------------------------------------------
\* The table of the strings, a record of its own, and the header of a file.

StringTableSize(c) == 4 + 8 + c.strings * (8 + 8 + c.text)

StringTableWritten(c) ==
  Words(<<"version">>) \o Longs(<<"strings">>)
    \o Repeat(c.strings, Longs(<<"id">>) \o String("text", c.text))

StringTableRead(c) ==
  Words(<<"version">>) \o Longs(<<"strings">>)
    \o Repeat(c.strings, Longs(<<"id">>) \o String("text", c.text))

\* The header announces the sizes of its parts; the part of the callback is flat.
HeaderSize(c) == 38 + 5 + 8 + 4 * c.priors + 256 + 8

HeaderWritten(c) ==
  Words(<<"saveversion">>) \o Longs(<<"guid1", "guid2", "nextformid">>)
    \o Bytes(<<"globalTasks", "globalExec">>) \o Longs(<<"runtime">>)
    \o Words(<<"compressionLevel">>) \o Bytes(<<"compressionExtreme">>)
    \o Longs(<<"priors">>) \o Repeat(c.priors, Words(<<"prior">>))
    \o Bytes(<<"hascallback">>) \o c.callback.fields
    \o Fields(256 - c.callback.length - 1, <<"unused">>)
    \o Longs(<<"records">>)

\* Version 2 has no prior saves.  The reader learns the length of the callback
\* from the callback it has read.
HeaderRead(v, c) ==
  Words(<<"saveversion">>) \o Longs(<<"guid1", "guid2", "nextformid">>)
    \o Bytes(<<"globalTasks", "globalExec">>) \o Longs(<<"runtime">>)
    \o Words(<<"compressionLevel">>) \o Bytes(<<"compressionExtreme">>)
    \o (IF v >= 3 THEN Longs(<<"priors">>) \o Repeat(c.priors, Words(<<"prior">>)) ELSE <<>>)
    \o Bytes(<<"hascallback">>) \o c.callback.fields
    \o Fields(256 - 1 - c.callback.length, <<"unused">>)
    \o Longs(<<"records">>)
=============================================================================
