# TimeFuzz in TLA+

TimeFuzz is a grammar-based fuzzer that runs for hours, starts thousands of
test processes from many threads, and saves and restores its whole state
while it runs. This directory models the parts of it that decide whether
such a run is correct: who runs a task, who starts and ends a test and talks to
its process, how one generation of inputs follows another, how an input is
derived and reduced, what a save contains, and what is excluded from being run
again. Every module is translated from the C++ sources under `src/`; paths below
are relative to `src/`, so `src/TaskController.cpp` is
`src/src/TaskController.cpp` of the repository.

The modules are checked with TLC on small instances. Theorems about the task
controller, the execution handler, tests and their pipes, the store, the exclusion tree,
delta debugging, generations and the end of a session hold for all values of the constants
and are proved with TLAPS.

    tlc -config pool_coarse.cfg MCTaskController.tla
    tlapm TaskControllerProofs.tla
    tlapm ExecutionHandlerProofs.tla
    tlapm TestPipesProofs.tla
    tlapm SaveFilesProofs.tla
    tlapm ExclusionTreeProofs.tla
    tlapm DeltaDebuggingProofs.tla
    tlapm SessionEndProofs.tla

`PROJECT.json` lists the components, the runs, the source lines every
definition stands for (`map`), what is hard to test in this code (`hazards`)
with the properties that would notice, for every checked property a plausible
bug that breaks it (`mutants`), the disagreements between code and
documentation (`findings`), and the theorems.

## 1. The system

### Components

| Component | State | Operations | Shared with | Hard because |
|---|---|---|---|---|
| **TaskController** (`TaskController.cpp`) | three deques of tasks, a mutex and condition variable for each, a status per thread, `_freeze`, `_terminate`, `_wait` | `Start`, `AddTask`, four worker loops, `RequestFreeze`/`Freeze`, `Thaw`, `ClearTasks`, `Stop` | everybody adds tasks; `Data::Save` and `Session` freeze and stop | flags written without the mutex their readers hold, waits with and without timeouts, threads that serve one queue or all |
| **ExecutionHandler** (`ExecutionHandler.cpp`) | queues of waiting, prepared and starting tests, lists of running and stopping tests, `_currentTests`, `_frozen`, `_active` | `AddTest`, `InitTests`, `TestStarter`, `InternalLoop`, `StopTest`, `ReinitHandler`, `Freeze`, `Thaw`, `ClearTests`, two ways to stop | calls callbacks through the task pool; watchdog of the session; `Data::Save` | four kinds of threads move one test; lock-free checks; a loop may be replaced while it hangs |
| **Test, IPCommManager, Processes** (`Test.cpp`, `IPCommManager.cpp`, `Processes.cpp`) | pipes, validity and spin lock of a test; queue of writes and its semaphore; processes | `WriteInput`, `WriteNext`, `CheckInput`, `ReadOutput`, `IsRunning`, `KillProcess`, `InValidate`, `PerformWrites`, spawn, wait | `TestStarter`, `InternalLoop`, `TestWaiter`, pool, a detached thread | blocking pipes, numbers of files that are used again, several threads that ask for one process |
| **Data and save files** (`Data.cpp`, `Form.cpp`) | hash map of forms with change flags, next form id, save number, chain of prior saves; the files on disk | `CreateForm`, `DeleteForm`, `Save` (full, incremental), `Load` | every object is a form; freezes controller and handler | crash in a save, restarts, loads of old saves, files that build on each other |
| **ExclusionTree** (`ExclusionTree.cpp`) | tree of strings with results, counts | `AddInput`, `HasPrefix`, `HasPrefixAndShortestExtension` | asked by generators, `StartTest` and delta debugging; fed by the end of tests | results arrive in any order and prune what came before |
| **Generation, SessionData, SessionFunctions** | sizes and counts of one generation, its sources, its delta controllers; current generation, `_generationEnding`, `_generationFinishing` | `GenerateTests`, `TestEnd`, `CheckGenerationEnd`, `GenerationEndCallback`, `GenerationFinishedCallback`, `SetNewGeneration` | tasks of the pool | the counts decide when a generation ends, a lost one stalls the session; the switch races with callbacks of the old generation |
| **Session** (`Session.cpp`) | a thread that watches, pause and abort flags | start, pause, save, stop, wait, watchdog | all of the above | freezes and stops in one order, and others call in between; the watchdog repeats what may only be slow |
| **DeltaDebugging** (`DeltaDebugging.cpp`) | per input a controller with a level, a batch, a count of tasks, waiting and completed tests | tests subsets asynchronously, evaluates a level in its callbacks, ends | execution handler, generation, watchdog | counts of outstanding tests across callbacks, results of a level that is closed |
| **Grammar, parser, derivation** (`Grammar.cpp`, `EarleyParser.h`) | a graph of nodes and expansions with shared pointers and flags; derivation trees | construct, prune, simplify; derive, extract, extend; parse | generators, delta debugging | flags that are gathered in cycles, pruning while counting, positions counted over trees |
| **Records** (`Record.h`, `BufferOperations.cpp`, `ArrayBuffer.cpp`, every form) | bytes of a save file | announce a size, write, read, for each class and version | `Data::Save`, `Data::Load` | sizes, writers and readers are written by hand, one member after the other |
| Locks and containers (`ThreadSafe.h`, `Utility.h`, `StableSet.h`) | recursive reader/writer locks of forms | lock, unlock, upgrade | all | home-made locks |
| Oracle, Lua | | calls to scripts | | external but for its record |
| Settings, logging, evaluation, user interface | | plain I/O | | |

### How they interact

Work is a task. A generator task makes inputs, asks the exclusion tree, and
gives tests to the execution handler (`AddTest`). `TestStarter` starts their processes, adds
a task to the pool that prepares more of them (`InitTests`), and has
their input written, by itself, by the queue of writes or by the pool, and
`InternalLoop` watches them; when one ends, or runs too long, `StopTest` gives
its callback to the pool. The callback evaluates the result, adds the input to
the exclusion tree, counts it in its generation, and perhaps ends the generation
or begins to delta debug. A delta controller derives parts of its input
(`Extract`), tests them through the same handler and answers those who wait for
it. When nothing of a generation is left to do, its callbacks put a new one in
its place. A save freezes the pool and the handler, writes all
(or all changed) forms, and thaws both. `Session::StopSession` stops or empties
both, and a watchdog thread replaces a handler loop that hangs, wakes delta
controllers that stand still and repeats the end of a generation.

So the guarantees needed are:

- *task controller*: every task runs once or is dropped by a clear or stop,
  never both; nothing runs while a save is written; freeze and stop return;
- *execution handler*: every test is started at most once and answered exactly
  once; the number of running processes is bounded; a save lists every test;
- *tests and processes*: a process gets the input of its own test, whole and in
  order; its end is noticed, its output read, and it is waited for;
- *save files*: what was alive is there after loading, with the values it had;
  ids and file numbers are never reused; every save on disk can be loaded;
- *exclusion tree*: it excludes exactly what is decided, and forgets nothing;
- *generation*: its counts neither run dry nor over; it is replaced when
  all of it is done, not before, and generations go on;
- *delta debugging*: it only ever goes to a tested and good part of its input,
  stops when nothing smaller is good, and tells everybody who waits;
- *grammar*: pruning removes what is useless and nothing else; what is derived,
  extracted or extended is a word of the grammar with the nodes asked for.

## 2. The modules

| Module | Models |
|---|---|
| `TaskPool` | what a pool promises: a task is submitted, begun, completed or dropped, each at most once |
| `TaskController` | the pool of `TaskController.cpp`; implements `TaskPool` |
| `SequenceFacts` | lemmas about deques: push, pop, membership, no duplicates |
| `TaskControllerProofs` | theorems about `TaskController` |
| `Snapshots` | what saving and loading promise: pictures that are taken once, never altered and given back exactly |
| `SaveFiles` | forms, change flags, full and incremental files, loading; implements `Snapshots` |
| `SaveFilesProofs` | theorems about `SaveFiles` |
| `ByteLayout` | what the buffers do to the order and size of the members of a record |
| `FormRecords`, `ControlRecords`, `SearchRecords` | the records of results, of what drives a session, of grammars and controllers |
| `Records` | every kind of record, over containers that are empty or filled |
| `ExecutionHandler` | the handler, its threads, the watchdog and the session around it |
| `ExecutionHandlerProofs` | theorems about `ExecutionHandler` |
| `TestPipes` | pipes, processes, the queue of writes, and the four threads that use them |
| `TestPipesProofs` | theorems about `TestPipes` |
| `ExclusionSet` | what the tree promises: a set of verdicts on sequences and the answers that follow from it |
| `ExclusionTree` | the tree of `ExclusionTree.cpp`; implements `ExclusionSet` |
| `ExclusionTreeProofs` | theorems about `ExclusionTree` |
| `GenerationCycle` | counts, callbacks and flags by which one generation follows another, with the watchdog |
| `SessionEnd` | saves during a session and its end, over `GenerationCycle` |
| `SessionEndProofs` | theorems about `GenerationCycle` and `SessionEnd` |
| `DeltaRanges` | the arithmetic of splits, ranges and complements |
| `DeltaGoals` | goals, losses and scores: what is good, what is reduced next, what later inputs are compared with |
| `Reduction` | what delta debugging promises, one step for a level |
| `DeltaDebugging` | a delta controller with its tasks, tests, callbacks and watchdog; implements `Reduction` |
| `DeltaDebuggingProofs` | theorems about `DeltaDebugging` |
| `GrammarTree` | constructing, flagging, pruning and simplifying a grammar |
| `EarleyParser` | the parser that extraction uses for grammars that are not simple; extends `GrammarTree` |
| `Derivation` | `Derive`, `Extract`, `ExtractEarley`, `Extend`; extends `EarleyParser` |
| `MC...` | the values TLC gives to the constants of the module behind the prefix |

### TaskController

`tasks[q]` are the deques, `lock[q]` the mutexes, `pc[w]` is where worker `w`
is in its loop, `cur[w]` the task it holds, `status[w]` its `_status`, and
`control` what the session thread does. A critical section of a worker is two
steps, `TestPredicate` and what follows, because `_freeze`, `_terminate` and
`_wait` are written by threads without the worker's mutex. `asleep` is the wait
set of a condition variable: `NotifyOne` and `NotifyAll` wake from it, a
`Timeout` may end a `wait_for` and a `SpuriousWakeup` any wait.
`ScanStatus` is the busy loop of `Freeze`, one thread per step.

`Start` has three forms. `NumAll > 0` or a single thread gives threads that
serve all queues under `_lock` (`Coarse`); otherwise there is one mutex per
class. `Route` is the fall-through of the `switch` in `AddTask` for a class whose
control is disabled.

History variables: `added`, `done`, `disposed`.

### ExecutionHandler

Each thread has a program counter: `starter` (`TestStarter`), `loop[l]` (the
first `InternalLoop` and the one that replaces it), `prep[p]` (pool threads in
`InitTests`), `control` (session). Who holds a mutex follows from them. All
waits have a timeout of at most 200 ms, so a wait is a step that needs its mutex
again and notifications are not modelled. A process is alive until
`ProcessEnds`, which may be at any time, or until the loop kills it. The pool is
represented by the tasks that prepare tests and by its freeze: the callback given to it is
counted in `answers`, which is where "the test is answered" is decided. A thread takes
a task (`TakeInitJob`) and only then says that it runs (`BeginInit`); `ReadStatus` is what the busy loop of
`TaskController::Freeze` finds of one thread, kept in `seen`. A thread found in between is
overlooked: the freeze returns (`PoolFreezeReturns`, `FreezeForEnd`) and its task goes on, with whatever
test it then takes (`Overlooked`). `course` is what may happen to
the handler in a behaviour: it is stopped, ended, its loop is replaced, it is saved.

### TestPipes

What a test is to the operating system. A pipe holds `Capacity` units of its
input; `fd` is the number of the end that is written and `file` whose pipe a
number means now, so that a number can be given to another test after
`InValidate`. `holder` is the writer that holds the spin lock `_availFlag`, which is held inside the
blocking `write`; the loop holds it from `BeginReading` to `EndReading`, over as many rounds of
`ReadSome` as the process, which writes in between, gives it reason for. A process reads, writes and ends whenever it likes, or never; it
is a zombie until somebody waits for it, which is either `IsRunning` (whoever
asks), or `TestWaiter`, whose `waitpid(0)` takes any. `queue`, `sem` and
`pass` are `_writeQueue`, `_writeQueueSem` and the detached thread that works on the
queue; `course.kind` says by which of the three ways input is given. A unit of input
has a number in its test; `InputInOrder` looks at the places at which the units of a
test stand in what a process was given.

### SaveFiles

`forms` is `_hashmap`; a form has a value, a change flag and the flags for
having been saved and deleted. Two forms with fixed ids stand for the
singletons: `Tree` for those that are written when changed, `Controller`
for the task controller, whose record is its queue. A save file has a header
(chain of prior saves, next id) and one record per form; `WriteRecord` is one
step, so that the process can `Die` between two. `Load` reads the chain in the
order of `LoadIntern` and keeps, of several records of a form, the one the code
keeps. `shots` is history: what was alive at the end of each complete save.
`regime` is how a session saves: full files or incremental ones with a full one
every so often, files that may fail to open, and a process that may die over a save.
`tears` of `Snapshots` says whether a save may be cut short: only then does it allow
a picture that was not finished.

### ByteLayout, FormRecords, ControlRecords, SearchRecords, Records

For each class there is the size it announces, the members its `WriteData` writes, and
those its `ReadData` reads for each version, in their order. The modules have no
behaviour: `RecordsComeBack` compares the three for containers and strings that are
empty or filled. It is an invariant of run `saves`, whose files hold such records. Every class
has an operator for its record, over any numbers of elements (`InputRecord`, `GrammarRecord`, ...),
so that the theorem `RecordsOfAnySize` can speak of sizes that no run reaches.

### ExclusionTree

A node is named by the strings on the way to it, because `HasChild` finds at
most one child for a string. `AddInput` is one step, as it holds `_lock`
exclusively; `HasPrefix` and `HasPrefixAndShortestExtension` hold it shared and
change nothing, so they are operators, and `AnswersAreRight` asks them for every
input in every state. The breadth-first search returns one of the nearest ends;
which of several depends on the order of creation, and is left open.
`Save` clears the change flags as an incremental save does.

### GenerationCycle

`generated` and `active` are the counts of the current generation, `ending` and
`finishing` the two flags of `SessionData`, `callbacks` the number of
`MasterGenerationCallback`s, of which there are at most `MaxCallbacks`.
`worker[w]` is what a thread of the pool does: it makes tests, works on the
end of one, or is in one of the three callbacks, step by step between accesses
to what they share; `light` and `heavy` are what waits in the pool. Tests and
delta controllers are reduced to what the cycle sees of them. Inputs that fail to
start or are repeated, controllers that hang and saves that are skipped are
`mishaps`, of which there are few per generation. `Look` is the look of
`SessionControl` at a program that stands still.

### SessionEnd

`thread[t]` are the threads that `SaveCheck` and `EndCheck` detach. A save
freezes the handler and the pool, waits until every thread of the pool waits for a task
(`AllWait`), thaws both and runs its callback; one in `WaitForGen` does not wait for a task.
The end of a session freezes, empties and thaws both. `terms` says what ends the session
(nothing, a number of generations, a timeout, memory), whether it saves by itself, and
whether the look after a save is `prompt`, that is, comes before the callback of the save
has replaced the generation.

### DeltaDebugging

An input is the set of positions it keeps and the ranges it was cut by. `medium` is
the queue of the one medium thread and `worker` where that thread is: it takes
and tests candidates (`TakeCandidate`, `DoTest`), or evaluates a level
(`CallbackExplicitEvaluate`) in the steps close, adopt or deepen, fill, launch or
finish. `light[l]` is a thread in `CallbackTest`; `testing` are tests in the
execution handler. `tasks` is the count of the batch with its flags, which
outlives the batch: `tasks.batch` and `batchident` say so. `TakeNextAnyway`,
`TakeEvaluateTwice` and `AddCallbackAnyway` are `TakeNext`, `TakeEvaluate` and
`AddCallback` without a check that the code makes; they are what mutants
use. `score` and `best` are the scores of the input and `_bestScore`; a test that ends
gets one of the scores of the configuration. `Reduction` has only the part that is being
reduced, the level, and what was found good; `Adopt`, `Refine` and `Stop` are its steps.

### GrammarTree, EarleyParser, Derivation

A grammar is built, flagged (`GatherFlags`), pruned one object at a time in any
order, simplified and given a new root, one action for each call that
`Construct` makes. Nodes are strings, and an expansion is named by the rule it was
written in and its number there. `marks` are the flags of the last gathering:
they are computed by a recursion over a cyclic graph that returns when it meets a
node it is in, and are modelled as that recursion.

`EarleyParser` computes the chart position by position with the code's predictor,
scanner and completer and walks back through it as `expandNode` does.

In `Derivation` a derivation is its frontier: the nodes in the order of a walk from
left to right. Each step of `Derive` takes one item from one of the two queues,
picks one of the alternatives that the code's choice leaves and puts its nodes
in its place. `Extract` follows with the segments of `ExtractRange`;
`Extend` goes on from the end of a derivation. Random choices are left open.

## 3. Runs

| Run | Instance | What it shows |
|---|---|---|
| `pool_coarse` | 2 threads for all queues, a light, a medium and a regular task, one of them added in front; one freeze, clears idle and frozen, `Stop(true)` and `Stop(false)` | no task is lost or run twice; `Stop(true)` drains; freeze and stop return; implements `TaskPool` with its liveness |
| `pool_fine` | one thread per class, three tasks, one freeze, clears idle and frozen | only the clear of a frozen pool takes the front away that the light loop has been told of; quiescence is stable; an unfrozen, unstopped pool runs every task although its threads wait without timeout; implements the safety of `TaskPool` |
| `saves` | full files, some of which cannot be opened or are torn, or incremental ones with each second one full; three saves, restarts, loads of any save, the process may die in a save; records with every container empty or filled | no name or id is given twice; implements `Snapshots`, which says exactly which pictures may be torn; every kind of record is read as it was written |
| `exclusion` | eight inputs up to length 4, limit 3 | no dead ends or orphans, exact counts, flagged changes, implements `ExclusionSet`, right answers |
| `handler` | two tests (one bypassing), two processes at a time, one preparer whose task the freeze of the pool may overlook, at any moment a save and perhaps a stop, or an end, or a replaced loop | started at most once; until the session ends or the loop is replaced, answered at most once, with exact counts, nothing while frozen; what a save and `ClearTests` may miss; every test is answered, also with a replaced loop |
| `pipes` | two tests, a writer, pipes of two units; input by the queue of writes, by the pool or in fragments, that fits or not; processes that talk or not | input arrives in order and in the right process as long as the test is valid; every test whose input fits ends, and its process is waited for, unless some process writes without a pause for ever |
| `generation` | generations of two inputs, one at a time; one or two threads, two delta controllers, with saves, hanging controllers, or score optimization; sessions without end and ones that end after two generations, a timeout or for want of memory | counts stay in range; a generation is replaced only when it is done; generations go on or the session ends, and then nothing is done for it any more |
| `delta` | inputs of two to five positions, both modes, every goal, with and without batches and budget; a medium and two light threads, one repetition, a listener | implements `Reduction`; exact ranges; losses do not add up; no level waits for a task that is not there; levels end; nothing happens after the end; accepted callbacks run |
| `grammar` | about 900 grammars of two rules and twelve hand-made ones, lengths 1 and 3 | after pruning a grammar can be used as it is; every tree called valid is a word of the grammar as written |
| `bug_save` | one regular task | a save may be written while a task runs (finding) |
| `bug_stale_form` | incremental files | a changed form comes back from incremental files with its first value (finding) |
| `bug_autosave` | two threads, autosaves | a save may wait for a thread that waits for what the save has frozen (finding) |

### Bounds

- *Two threads on one mutex* are enough for every race between two workers, and
  the session is a third thread; *three tasks*, one per class, meet every
  priority decision and leave a second task of the same queue while one is held.
  The theorems then lift the safety results to any number of threads and tasks.
- *One freeze* (`MaxFreezes`) per run: a second one adds the race between `Thaw`
  and the next `Freeze`, which is listed below.
- *Two tests with two processes at a time* are one that is prepared or started while the other
  is watched, and two in one round of the loop, which is where a replaced loop and the first one share
  `_handleTests`. That never more than `MaxConcurrent` run cannot fail with so few tests: it is proved
  for every number (`CountExact`). `Preparers` has one thread, which may be overlooked,
  because `InitTests` pops under one mutex; the theorems have any number.
- *Pipes of two units* (`Capacity`) and inputs of one and two units leave a writer in
  the middle of its input with the pipe empty, half full and full; with two tests
  a number of a file can be given again.
- *Three saves* (`MaxSaves`) are the shortest chain with a full file between
  incremental ones; `MaxId` leaves two dynamic forms.
- *The inputs of the tree* contain a prefix chain of length four, siblings, a
  second branch, two inputs with the same sequence, an empty one and one over
  the limit: every branch of `AddInput` and of both questions is taken.
- *Generations of two inputs, one at a time* (`target`, `Step`), of which two may be
  active (`MaxActive`), have a last input that must wait for room; *two callbacks*
  (`MaxCallbacks`) are one that works and one that is refused or queued behind it; *two
  controllers* are one that ends early and one that is waited for; *two savers* are one that
  saves and one that is skipped for it; the session ends with its second generation (`Goal`),
  so that one is replaced before; `mishaps` bounds the rest.
- *Inputs of two to five positions* have levels that divide evenly and
  unevenly, a last split that takes the rest, and in the other mode runs of equal scores at
  the start, in the middle and at the end. `MaxBatches` of three gives a level whose late
  results meet the next one and the one after. Losses are such that losing one of two
  is acceptable, and losing one again is not.
- *Grammars of two rules* contain every way in which two nodes refer to each other;
  the hand-made ones have what needs a third: nested repetition, both recursions,
  mutual recursion, rules without sequence nodes and rules without words.
  `MaxItems` and `MaxChart` cut derivations and parses that do not end.

Deadlock is not checked where the system really stops: a stopped pool or handler
takes no step, all tests of `pipes` end, a controller or session finishes, a grammar is
used up, and the bounds end the behaviours of `SaveFiles`. `exclusion`, which goes on
for ever, is checked for deadlock.

### Fairness

Weak fairness of each thread is the operating system's scheduler. A
`Timeout` of a worker gets strong fairness: it is enabled only while the worker
sleeps, notifications may take it out of the wait set again and again, and the
deadline of `wait_for` passes all the same. `WF(SessionStep)` says that the
session finishes a call it began and thaws what it froze (`Data::Save` and
`StopSession` do, on every path). Weak fairness of "some process ends" is the timeout after
which the loop kills a test, which `EveryTestEnds` of `TestPipes` is about. Nobody is obliged to add tasks or tests, to save, clear,
stop or reinit, and spurious wakeups are not counted on.

In `pipes` no process is obliged to read or to end, but one that was sent
`SIGTERM` dies. That the loop finds a test to be late is strong fairness of the
step that looks at it: the clock goes on, and the loop looks again and again. That it does is
a premise of `EveryTestEnds` and not fairness of the code: `OutputPauses` says that the loop leaves
`ReadOutput` infinitely often, which a process that writes faster than it is read prevents (section 6).

In `generation` and `delta` the threads of the pool are fair because those of
`TaskController` are (`UnfrozenTasksEnd`), and tests end because those of `ExecutionHandler`
do (`EveryTestAnswered`). The threads of a save and of the end of a session, once
detached, run on; the watchdog is fair as a thread that looks every half a second, and time
passes.
The medium thread's fairness in `delta` is written as "infinitely often
idle or a step", which is weak fairness without an `ENABLED` that would be costly to evaluate.

## 4. Proofs

Every theorem holds for all values of the constants that satisfy the named `ASSUME`s of the
module; some have a hypothesis that is named below. The `ASSUME`s say that threads
are naturals with at least one regular one and tasks have a class (`TaskController`), that
the tests are finite, pipes hold something and every test has an input (`TestPipes`), that the
threads of a session are finitely many (`GenerationCycle`), what a configuration looks like (`DeltaDebugging`, `SaveFiles`,
`ExecutionHandler`), and that inputs have sequences of strings (`ExclusionTree`). TLC
evaluates them in the runs. Every inductive invariant was checked by TLC on the
instances of the runs before it was proved. The facts about deques that most proofs need, and
what removing, appending and inserting do to a sequence without duplicates, are lemmas of
`SequenceFacts`.

### Task controller

For any number of threads of each kind, any set of tasks, either kind of `Start` and every
use of the pool by the session:

- `TypeCorrect`: `Safety => []TypeOK`. `TypeOK` is not inductive: what
  `FinishTask` adds to `done` is a task only because a worker that runs holds
  one. The inductive invariant is `TypeInv == TypeOK /\ HoldsWhenBusy`.
- `NoTaskLost`: `Safety => []NoTaskLostOrRepeated`, inductive together with
  `TypeInv`. The proof has one lemma per step that touches a deque
  (`AddEffect`, `TakeEffect`, `FinishEffect`, `DisposeEffect`). All other steps leave the
  four sets alone (`OtherSteps`).
- `PoolImplemented`: every step of the pool is a step of `TaskPool` or a stutter
  (`PoolStep`). `FreeHand` counts: a worker that takes a task held none, so
  fewer than `NumThreads` tasks were running.
- `FrontIsKept`, `QuiescenceLasts` and `StopDrainsAll` rest on who holds a mutex
  (`LocksHeld`): a worker between its test and the step after it does, and so does the session
  while it clears, unless the pool is frozen. `FrontIsKept` needs no hypothesis about the session:
  a step that takes away the front a light thread is about to take is one of `ClearTasks` on a
  frozen pool, which is what `StopSession` calls (section 6).
  `StopDrainsAll` has the hypothesis `Coarse`: with a mutex per class it is not true.

### Execution handler

For any set of tests, any that bypass the queue, any number of preparers and of
concurrent tests, and all courses:

- `HandlerTypes`, `StartedOnce` and `ClearedButHeld` need only `PlaceInv`: where a test can be
  (two queues, the starting deque, the hand of a preparer or of the starter, the running list,
  the stopping list), which places exclude each other, and what `proc` says of the process there. For `ClearedButHeld` it also says (`SeenAgrees`) that a thread
  which `Freeze` has found `Waiting` and without a task has none until the thaw (`SeenStays`), so
  that whoever holds a test in between was overlooked (`HeldOverlooked`).
- `NoDoubleAnswer`, `CountExact` and `SaveCompleteButHeld` add `AnswerInv`: a test in a place from which
  somebody will answer it has not been answered, `_currentTests` is the number of
  started tests plus what its threads are about to count, and nothing that is not answered is in no
  place. They have no hypothesis: `AnswerInv` speaks of behaviours until the session ends or the
  loop is replaced, and so do the properties, since afterwards they do not hold (section 6).
- `ResultsKept` adds `FreezeInv`, how `_freeze`, `_frozen` and the place of the loop go together,
  and the hypothesis `OneSave`: with a second save right after the first `FrozenKeepsResults` does
  not hold (section 6).

### Tests and pipes

For any number of tests and writers, inputs of any length and pipes of any size, `PipesInvariant`
proves `PipesInv`, which is `TypeOK` and

- `NumberInv`: the number of a pipe is used by one test, from when it is prepared to when it is
  stopped. `PrepareForExecution` finds a free one because there are more numbers than tests
  (`FreeNumber`);
- `ThreadInv`, `WriterInv`: where the starter and the loop are; that there is one detached thread and that it
  holds the semaphore; that a task of the pool is taken once; and that nobody writes for a
  test that is not started;
- `UnitInv`: what a pipe and its process were given is in order (`OrderInv`); what is
  queued or waits in the pool has not been written unless a writer is at it
  (`FreshInv`); how much a writer at work has written is what its pipe got; and fragments are
  counted as they are written.

`TypesHold` and `InputComesInOrder` follow. The units of a test are counted at their places
in a stream (`AppendPlaces`), and the steps are grouped by what they do to them: none
(`UnitsKept`, `QuietStep`), one unit more (`OneMoreUnit`), a writer that returns (`ReturnInv`).
`InputInOrder` says of a test that is valid that nobody else gets its input: for one that was stopped
it is not true (section 6), and the invariant shows that this is the only way it fails.

### Save files

For every regime, any values, and any number of forms and saves, `StoreInvariant` proves
`StoreInv`: numbers and ids grow along a chain (`FreshInv`); every form that is alive has a
record in a file of the chain, or is marked changed, or is yet to be written (`KeptInv`); a full
file shows exactly what is alive (`ExactInv`); and only a process that may die over a save leaves a file
without a picture (`WholeInv`). `FreshNames` follows, and `StoreImplementsSnapshots`, with a lemma for
each kind of step: a save that is completed is `Take` of `Snapshots`, and a load gives back what
its picture shows, exactly with full files and at least that with incremental ones.

`RecordsOfAnySize` is about the data in those files and needs no behaviour. For every class, any numbers
of elements, any lengths of strings, each callback a task can have and each goal, `ReadData` finds
every member where `WriteData` put it (`MembersInPlace`), and the size that was announced is enough
(`SizeSuffices`). `IsLayout` is what a sequence of fields is; `TotalJoin` says what two of them
after each other take, `RepeatedFields` what a container of records takes, and `FitsJoin` and `FitsString`
what of it a buffer of a given size accepts, a string being refused when there are not eight bytes left
after it. From these each class has a lemma of its own (`InputComesBack` to `DeltaComesBack`). Some
announce more than they write: an input counts a flag that `WriteData` may clear, a delta controller
eleven bytes or more. The bytes that a string in an input or a test needs beyond its own are those of the members
after it. `RecordsRead` is `RecordsComeBack`, with the shortest records of old versions
(`InputLongEnough`, `TestLongEnough`).

### Exclusion tree

All six properties, for any set of inputs with any sequences over any strings, and any length
limit. The inductive invariant is `TreeInv == Shape /\ Counted /\ Flags`:

- `Shape` strengthens `TreeIsPruned`, which only says that the parent of a node is
  a node: a walk starts at the root, so *every* prefix of a node has to be one.
  It also says that the root never gets a verdict. `AddEffect` and `PathsAfter` say
  what `AddInput` leaves; `NotDecided`, that an insertion that does not end early
  has no fixed result on its way, is what keeps leaves at the ends
  (`AddKeepsShape`).
- `Counted` adds to `CountsAreExact` that the tree is finite (`AddKeepsCounts`, from
  the sizes of unions and differences).
- `ChangesStayFlagged` is inductive together with `TreeInv`. The case that matters is
  a child that appears or goes: its parent is flagged, or deleted with it.
- `TreeImplementsSet`: `AddInput` is `Record` of the set (`AddRecords`), a save a stutter.
- `AnswersStayRight`: a walk finds a leaf exactly where the set has a deciding
  verdict, and never a second one (`LeafDecides`, `WalkDecides`); otherwise its end
  was tried exactly if it has a verdict (`WalkTries`); and the search stops at
  the set's extensions (`SearchEnds`).

All rest on facts about prefixes (`PrefixFacts`, `PrefixIsCut`, `PrefixOrder`).

### Delta debugging

For every length of the input, mode, goal, loss and set of scores, any batch and budget, and any
number of light threads and listeners, `DeltaInvariant` proves `DeltaInv`: where candidates and
tests may be (`PlaceInv`), what a level consists of (`LevelInv`), that each candidate is a part of the
original input (`PartInv`), that between the close of a batch and the next level every candidate
is of a closed batch (`BatchInv`), and that the end comes once (`EndInv`).

- `CutAgain` is what `GetNewRangesWithout` returns for any length, any list and any cut. `Describes(list, set, gap)`
  says that the list has no empty range, is sorted, each range ending `gap` or more before the next
  (1: they never touch), and covers exactly the set; `OneDescription` shows that a set of positions has one such list with gap 1, and
  `RunsDescribe` that it is `RunsOf` of the set. It remains to follow the code: `Placed` goes from the last
  new run to the first, so that the old ranges before the place are untouched (`Untouched`) and
  `Place` finds its place in the old list and uses it in the new one (`PlaceDescribes`); a range may
  touch the next one until `Merge` joins them (`MergeDescribes`); and `Coord` counts what is left
  before a position (`CoordIs`).
- `RangesExact` strengthens `RangesAreExact`, which looks at the tests and at the input of the
  controller, to every place an input of score progress can be in (`RangesInv`: also candidates in queues and
  in the hands of threads, and results), since it gets its ranges when the candidate is
  made (`ComplementExact`) and is tested and adopted long after.

- `QuietOnceFinished` and `ReductionImplemented` follow step by step: which
  steps can adopt, deepen or finish at all, and what they find then.
- `LossesBounded` adds `ScoreInv`: what is kept for the next level met the goal when it was compared
  with the best score, and the best score has not fallen since.
- `NoPhantoms` adds `TestBatchInv` and `CountInv`: the count of the batch is at most the number of marks
  (batch and number) of the candidates in the queue, in the hands of threads, and in
  tests that are of that batch. `SameCount`, `LessCount` and `MoreCount` say what a
  step may do to both.

### Generations and the end of a session

For any number of threads, controllers and savers, every target and every kind of end.

- `GenerationTypes` needs no hypothesis. `TypeOK` bounds the counts; what makes that inductive is
  `CountInv`: `callbacks` is the number of `MasterGenerationCallback`s in the queue and in the hands
  of threads, exactly, and what is reserved and not yet made (`PromisedIn`) is covered by
  `generated` and the mishaps. `PoolTypes` and `DetachedEffect` go through the threads of
  the pool and the detached ones.
- `NothingIsCutShort` is `ReplacedWhenDone`. It rests on `ChainInv`: the end of a generation is in
  *one* hand at a time, a thread of the pool (`Renews`), a task in the queue (`RenewQueued`) or a
  save that is to call back (`CallsBack`), and once everything was waited for (`Settled`)
  nothing of the generation is left and nothing can begin (`Quiet`). For sessions that end with
  a generation that is saved, `PromptInv` adds that at most one detached thread runs and
  that the pool waits for it. `ThreadInv` says what such a thread may do at all.
- `EndIsFinal` is `StoppedForGood`. `EndInv` says who holds `_savelock`, that the pool stays
  frozen from `Stop` to the last step, and that from `ClearTests` on nobody can take a step:
  `NothingMoves` is the lemma that there is nobody left who could put work back.

The last two have hypotheses, because without them the code does what the properties exclude
(section 6). `Regular`: saves take less time than the watchdog waits; and if generations are saved,
either the session has no end that is looked for after a save (`never`, `memory`), or it ends with a
generation, does not save by itself, and the look after a save is `prompt`. `EndsAlone`: a
session that has an end does not save by itself, and one that ends for want of
memory does not save generations either. All endings of the run `generation` satisfy both,
but for the one with a late look (`ChecksLate`).

Without the hypotheses TLC finds counterexamples on instances of one or two threads:
`ReplacedWhenDone` fails when slow saves meet a session that ends with a generation, and for a
timeout with saved generations when the look is late; `StoppedForGood` fails for ends by generations and timeouts with
autosaves, and for want of memory with saved generations. In some sessions that the hypotheses leave
out `ReplacedWhenDone` still holds on such instances, and the theorem does not say so: slow saves
without an end, autosaves, a late look for an end by generations, and a timeout with a prompt look.

### What TLC alone checks

- Not proved: `ReplacedWhenDone` and `StoppedForGood` where `Regular` or `EndsAlone` does not
  hold.
- Out of the prover's reach: everything under fairness (`CallsReturn`, `UnfrozenTasksEnd`, the
  liveness half of `PoolSpec`, `EveryTestAnswered`, `EveryTestEnds`, `SessionGoesOnOrEnds`, `LevelsEnd`,
  `AcceptedCallbacksRun`), and what recursive operators compute for data of any size
  (`GrammarIsUsable`, `TreesAreWords`).

Some definitions are written for the proofs' sake: sets of tests, of threads and of light threads are
assumed finite, records are built whole instead of by nested `EXCEPT`, and what the
code does to lists in loops is a sequence given by its elements or a recursive function rather than a
fold, so that the provers can look at one element or one pass. That such a function has a value for
every length is proved where it is used (`MergedExists`, `PlacedExists`, `SumExists`, `FreeExists`): by a list of its own for each
number of passes, chosen so that the next follows from the one before.

## 5. Assumptions of the models

- Reads and writes of plain `bool` members that threads share without a mutex
  (`_freeze`, `_terminate`, `_frozen`, `_stopHandler`, ...) are atomic and in
  program order. In C++ they are data races; the interleavings show what goes
  wrong even then. The same holds for `_completedTests` of a delta controller, to which two
  callbacks may insert at a time (`DeltaDebugging.cpp:681`).
- Callbacks and `Run()` return.
- `SaveFiles` takes a save as undisturbed, which is what `SaveIsQuiescent` is
  about, and which `bug_save` shows not to be guaranteed.
- The exclusion tree is enabled, and the tasks that add inputs are frozen while
  it is saved.
- Steps are merged where no other thread can tell: `InValidate`, `StopTest` and a
  look of the watchdog are each one step.
- *Generation, end of a session*: a thread counts as working from taking its task on, so the freezes
  of `SessionEnd` overlook none, as those of `ExecutionHandler` and `TaskController` do. The endings that are
  checked leave out combinations in which generations do stop (section 6): score optimization
  with hanging controllers, saves that take longer than the watchdog waits, and
  autosaves with two threads, which `bug_autosave` shows.
- *End of a session*: an ending by generations is checked for liveness where the look after a
  save is prompt (`ChecksLate`), and a session that ends does not save by itself (section 6).
- *Delta debugging*: `AddTest` for a repetition succeeds, the last resort in
  `CallbackExplicitEvaluate` that calls `Finish` itself is not taken, and liveness is
  claimed for `MaxBatches` batches.
- *Grammar*: weights are 0, what a terminal contains is abstracted, every
  occurrence of a terminal is a node of its own, and objects are pruned in any order.

## 6. What the code does beyond the properties

The models follow the code also where it differs from what one would expect.
Besides the findings these came up; the properties are stated so that they do
not claim more, and the hazards name the place:

*Task controller*
- `Stop` never notifies `_condition_medium` (`TaskController.cpp:170`), so a
  pool with medium threads of their own hangs in `join`. With a mutex per class it can hang
  for light ones as well: `_terminate` is set under `_lock`, and the light thread tests its
  predicate under `_lockLight` (166).
- `Thaw` writes `_freeze` without the mutexes: threads that wait without timeout
  may miss it (707-713).
- `Stop(true)` with one mutex per class ends a thread when its own deque is
  empty; tasks that others then add to it are dropped.
- `ClearTasks` of a frozen pool works without mutexes, and `AddTask` does not
  look at `_freeze` (720). `StopSession` clears a frozen pool (`Session.cpp:306-318`): with a mutex per
  class a light thread whose predicate was true before the freeze, and which `Freeze` found `Waiting`, then
  takes `front()` of an emptied deque (240), which is undefined. `FrontLostOnlyToFrozenClear` says that
  this is the only way; run `pool_fine` reaches that state. The other loops look once more.
- `Busy()` may say no while tasks run (214-220); `IsActive` compares with a count of its
  last call and reads the deques without a mutex (763).
- `Start(session, light, medium, heavy)` with no medium threads still queues
  medium tasks (128).

*Save files*
- A form that was deleted after it was saved comes back when an incremental chain
  is loaded (`Data.cpp:890`).
- Tasks waiting in the controller are lost when a save without prior saves is
  loaded: `finalsave` is only set for prior ones (600).
- When a file cannot be opened, its number still enters the next file's chain (112).
- A file that a crash left unfinished counts as the newest save.
- Two threads may both create the same singleton (1546), and a new session with the name of
  an old one overwrites its files (516).

*Execution handler*
- `ClearTests` takes `_lockqueue` before `_startingLock`, `TestStarter` the
  other way round (1028-1032, 611-630): both may wait for ever.
- `Freeze` does not wait for `TestStarter` (987), and `WriteData` (1096-1117) omits
  `_startingTests`: a test that is about to start is missing from the save, although the
  comment at 1094 says that all tests are saved.
- `TaskController::Freeze` takes a thread that has popped a task and not yet set its `_status` for
  one that waits (`TaskController.cpp:361-375`, 691). If the task is one of `InitTests`, it goes on while a
  save is written: the test it holds is missing from the save, and it changes queues that `WriteData`
  goes through without a lock. It goes on over `StopSession` as well: the test it holds
  survives `ClearTests`, is pushed to `_waitingTestsExec`, and is started after the end.
  `SaveMissesOnlyHeld` and `ClearLeavesOnlyHeld` say that nothing else is missed or left.
- `StopHandler` does not stop `TestStarter`, which keeps starting tests nobody
  watches (`Session.cpp:290` says otherwise).
- `ClearTests` and the loop may both stop one test; `_currentTests` then becomes
  negative.
- A thaw and a new freeze within one round of the loop: the second `Freeze`
  returns at once, and the loop answers tests while the save is written.
- A replaced loop may answer a test twice: `_handleTests` is a member, and a first loop that comes
  back while it collects overwrites it while the second one handles it. A test is then stopped twice
  and `_currentTests` is wrong, so `HandledOnce`, `CurrentTestsExact`, `FrozenKeepsResults` and
  `SaveMissesOnlyHeld` end with the replacement; that every test is answered does not.
- A test that ended while frozen may be listed twice in a save (927).
- `StopHandlerAfterTestsFinishAndWait` returns with tests still waiting.

*Tests and processes*
- The pipes are blocking: the flag test `O_NONBLOCK == -1` compares a constant. A writer whose
  input does not fit stays in `write` with `_availFlag` held (`Test.cpp:369`), the loop
  spins on that lock, the test never times out, and the semaphore of the queue of
  writes stays taken, so that `TestStarter` stands still. The timeout of
  `include/Settings.h:673` is not applied.
- `ReadOutput` reads and polls as long as there is output (`Test.cpp:496-515`). A process that writes
  without a pause keeps the loop there with `_availFlag` held: no timeout is looked at, this test
  does not end, and no other is watched. A loop that replaces this one gets no further, as it spins on the
  lock. `EveryTestEnds` has the premise `OutputPauses` for this reason.
- `InValidate` does not take the lock (633): the number of a closed pipe may be in use again, and
  the rest of the input of a killed test goes to the process of another one.
- A writer that notices the end of a process sets `_exitreason` to natural, also for one that
  was killed for its time or memory; output is then not read any more.
- `InternalLoop` reads the output of a test once and then asks whether its process runs
  (`ExecutionHandler.cpp:852-855`): what is written in between stays in the pipe, although the
  comment at 850 says that leftovers are read.
- `waitpid(0)` takes any child, and the exit code of one that `IsRunning` has not
  asked for is lost. Pipes are inherited by every process started later, so that the end of one process
  need not close its pipe.
- `Write` that returns 0 makes `WriteTestInputCallback` drop the rest of the input. Processes are
  asked to end (`SIGTERM`), never killed.

*Exclusion tree*
- The counts change without the tree's change flag when no node is created, so
  that an incremental save keeps old ones (`ExclusionTree.cpp:298`).
- `include/Settings.h:371` says that inputs with a length *less than* the limit
  are inserted; those of equal length are as well (256).
- `Session.cpp:93` sets `enableExclusionTree` to `skipExclusionTree`, the
  opposite of its name.

*Generation*
- Score optimization with a controller that hangs: the last input of a generation may be
  counted on a controller before `AddCallback` has accepted the callback
  (`SessionFunctions.cpp:1212`). If it is refused, nobody ends the generation.
- A save that takes more than a second between thaw and its last task: the watchdog
  queues a second `GenerationFinishedCallback` (`Session.cpp:708`), and two tasks wait for each
  other in `WaitForGen`.
- With one thread, a controller that hangs makes `GenerationFinishedCallback` requeue itself for ever.
- `CheckSourceValidity` never returns false: `result` starts as true and is only
  or-ed to, although the comment says that it becomes false when all sources are
  invalid (`Generation.cpp:368`, 378-380).
- `GetRandomSource` counts one source as used when it only begins anew (303).
- An input whose test fails or is repeated gives its place back twice; the generation then
  holds more inputs than its target.
- The timeout of the second loop of `WaitForGen` is inverted (1096).
- `Data::Save` that finds another save at work returns without running its callback.
- No source left: `GenerateTests` returns without `FailGeneration`; a refused test
  is tried again without counting the failure.
- The last branch of `MasterGenerationCallback` cannot be reached.
- Loading puts waiting tests into `_completedTests`.

*End of a session*
- `EndSession_Async` saves first; if an autosave holds `_savelock` its save is skipped, and
  `StopSession` freezes and thaws the pool while the autosave is being written. What that save then
  queues makes generations again after the end.
- `SaveSession_Async` calls `EndCheck` after the callback of its save, which may already have
  replaced the generation (`SessionFunctions.cpp:234`): the session then ends in
  the middle of the next one (`ChecksLate`).
- An autosave, or the save of an end by timeout, waits for a thread in `WaitForGen`, which waits
  for tests that the save has frozen (finding). With a single thread, a callback in `WaitForGen`
  can wait for heavy tasks that are queued behind it.
- `Session::Wait` tests `Finished()` under `_waitSessionLock`, which whoever sets it does not take:
  the notification may be lost (`Session.cpp:245-251`). Two calls of `StopSession` may both
  pass its check of `_abort`, and `EndSession_Async` returns with its lock taken when
  `_abort` is set (`SessionFunctions.cpp:326`).

*Delta debugging*
- A result that comes after its batch was closed is kept and may be adopted in a
  later level: the input may grow. The comments at `DeltaDebugging.cpp:1539` and 2340
  exclude that, and the check at 2596 only logs it.
- The last test of a level that was run completely is never evaluated when the level was ended
  by another one; a good result after the last evaluation is lost.
- The whole input is tested again when the last split is reached by the `continue` at
  852-853, which does not advance the positions: it is good, is adopted, and with
  some sizes the reduction never ends.
- `DeepCopy` of a test callback loses its batch (96), so the repetition does not
  count for its level; the watchdog has to wake the controller.
- `GetComplement` takes the kept ranges of a parent that is a split for removed ones.
- The range of equal scores that reaches the end of an input is never entered
  (`Input.cpp`, `ExtractRanges`).
- `Start` in standard mode with an input of length 1 never finishes.
- With two medium threads the check that only one evaluates is a race.
- The budget is looked at only when a batch or level ends, and with "less than" where
  the documentation says "longer than".
- A callback of an old batch between filling and launching a level is overwritten by `tasks = 0`.

*Grammar, parser, derivation*
- A node that is met again within a cycle counts as not producing, and so do alternatives
  judged meanwhile: with `sum -> sum + term`, `term -> ( sum )` all recursion is pruned,
  although the comment at `Grammar.cpp:749` says that an expansion is producing if and
  only if all its nodes are. `GrammarIsUsable` claims it for grammars without mutual
  recursion.
- A root without words is removed from the map, but stays `_root`, and the grammar is valid.
- `_ruleorder` keeps the names of pruned rules: for every grammar with sequence nodes
  and a useless rule `_hashmap.at` throws in the simplification (1210).
- Simplification takes `N -> A | B B` for a repetition of `A`, gives `*` a minimum of 1, and reads
  `_nodes[1]` of a vector of one element for repetition on the right (1363, 1388).
- Derivation: the second and third loop do not look at alternatives that are a regex. The choice by
  turns ends `A -> s A | s s` after three sequences and does not end `B -> s | ( A )` in
  a cycle; the length that was asked for need not be reached. A grammar without sequence nodes logs an
  error and gives a valid tree.
- The parser knows no empty alternatives, its completer adds states twice, terminals beside
  sequence nodes never match, and `expandNode` needs alternatives whose nodes, but
  the first, are sequence nodes; otherwise it uses a null state.
- `Extend` for grammars that are not simple starts from `int32_t c = 60` (2576) and appends the
  children of a second expansion to those of the first. `_seqnonterminals` is counted on
  and never reset, and `Extract` copies nested sequence nodes twice.

Some of these are not in the list of hazards of `PROJECT.json`, which keeps to what
properties are about or could be.

## 7. Not modelled

- *Execution handler*: `Freeze(true)`, which nobody calls, `StartHandler` (the tests use
  `StartHandlerAsIs`), `Clear`.
- *Tests and processes*: Windows, memory figures, the splitting of arguments.
- *Save files*: compression, names of sessions, what is initialised after loading.
- *Exclusion tree*: `CheckForAlternatives`, an estimate for the log.
- *Generation*: lists of inputs by score, the choice of sources, statistics, memory sweeps.
- *Delta debugging*: a controller that refuses to start, and inputs that cannot be
  generated again.
- *Grammar*: reading rules from text, weights, sequence nodes beneath sequence nodes, extension
  of grammars that are not simple, seeds of the random generators.
- *Locks and containers, function registry*: small and sequential in how they are used; the
  reader/writer locks of forms are taken to be correct.
- *Lua, settings, logging, allocation, evaluation, user interface, crash handlers*: I/O,
  configuration and external or vendored code. They make up most lines of the repository that
  no module stands for: `main.cpp` and the user interface, `SimpleIni.h`, the evaluation of
  results, and the accessors of settings and results.

## 8. Plan

Done: the task controller, the execution handler, tests and processes, save files and the
exclusion tree with proofs of all their safety properties; the cycle of generations and the end of
a session with proofs for the sessions in which they are safe; delta debugging with proofs of all its
safety properties; records with a proof for any size; grammars, checked by TLC.

What would come next:

1. `NothingIsCutShort` and `EndIsFinal` for a timeout with saved generations and a prompt look.
2. The choice of sources and the lists of inputs by score (`SessionData.cpp`, `Generation.cpp`).
3. The locks of forms (`ThreadSafe.h`, `Utility.h`).
