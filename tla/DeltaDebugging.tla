--------------------------- MODULE DeltaDebugging ---------------------------
(***************************************************************************)
(* A DeltaController of src/src/DeltaDebugging.cpp while it reduces one    *)
(* input.  A level divides the input into candidates.  Tasks of the medium *)
(* thread check candidates and hand them to the execution handler; the     *)
(* callbacks of their tests run as light tasks; the callback or the task   *)
(* that finds the count of the level at zero has the medium thread         *)
(* evaluate it (CallbackExplicitEvaluate), which adopts a candidate,       *)
(* divides more finely or finishes.  The watchdog of Session.cpp does the  *)
(* same when the program idles, and others add callbacks that wait for the *)
(* end.                                                                    *)
(*                                                                         *)
(* There is one medium thread, the default of the settings.  What a thread *)
(* does between two accesses to the shared state of the controller is one  *)
(* step.                                                                   *)
(***************************************************************************)
EXTENDS DeltaRanges, DeltaGoals, FiniteSetsExt

CONSTANTS
  Configurations,   \* values of params
  Changes,          \* sets of positions where the score may change
  LightThreads,
  Listeners,        \* callers of AddCallback
  MaxBatches,       \* bound on batchident
  FollowUp          \* runReproduceResultsAfterScoreApproxOnPositive

ASSUME DeltaAssumption ==
  /\ Configurations \subseteq
       [length : Nat \ {0, 1}, mode : Modes, goal : Goals, loss : Losses,
        scores : SUBSET (Nat \X Nat), skip : SkipOptions, skipRanges : Nat, batchprocessing : Nat, budget : Nat,
        minLength : Nat \ {0}, retries : Nat]
  /\ Changes \subseteq SUBSET (Nat \ {0})
  /\ IsFiniteSet(LightThreads)
  /\ MaxBatches \in Nat
  /\ FollowUp \in BOOLEAN

VARIABLES
  params,           \* the configuration of this controller, the length of its
                    \* input, the scores that tests may have, and how often
                    \* the oracle may ask for a repetition
  input,            \* _input
  score,            \* its scores
  best,             \* _bestScore
  inputRanges,      \* _inputRanges
  level,            \* _level
  finished,         \* _finished
  batchident,       \* genCompData.batchident
  active,           \* genCompData.active
  tasks,            \* genCompData.tasks: the count of the batch and its flags
  testqueue,        \* genCompData.testqueue: candidates not yet generated
  stopbatch,        \* _stopbatch
  totaltests,       \* _totaltests, counted up to the budget
  completed,        \* the results of _completedTests that meet the goal
  medium,           \* tasks for the medium thread, in order
  worker,           \* where the medium thread is, and with what
  testing,          \* tests given to the execution handler
  light,            \* where each light thread is, and with what
  callbacks         \* per listener: none, listed, refused, queued or handed on

batchVars  == <<batchident, active, tasks, testqueue, stopbatch>>
levelVars  == <<params, input, score, best, inputRanges, level, finished>>
resultVars == <<totaltests, completed>>
vars == <<batchVars, levelVars, resultVars, medium, worker, testing, light,
          callbacks>>

OrigLength == params.length
Whole      == 0 .. OrigLength - 1

\* An input: which positions of the original are kept, and what
\* SetParentSplitInformation was told about it.
OrigInput == [kept |-> Whole, ranges |-> <<>>, complement |-> FALSE]

Standard == params.mode = "Standard"

Ranges(inp, changes) ==
  IF Standard THEN <<>> ELSE ExtractRanges(changes, Cardinality(inp.kept))

\* The level at which there is nothing left to divide.
Limit ==
  IF Standard THEN Cardinality(input.kept)
              ELSE UsableLength(inputRanges, params.skip, params.skipRanges)

BudgetSpent == params.budget # 0 /\ params.budget <= totaltests

Minimum(a, b) == IF a < b THEN a ELSE b
Maximum(a, b) == IF a > b THEN a ELSE b

\* Start, up to the generation of the first level.
Init ==
  /\ params \in Configurations
  /\ input = OrigInput
  /\ score \in params.scores
  /\ best = FirstBest(params.goal, score)
  /\ \E changes \in Changes :
       inputRanges = Ranges(OrigInput, changes)
  /\ level = 2
  /\ finished = FALSE
  /\ batchident = 0
  /\ active = FALSE
  /\ tasks = [batch |-> 0, count |-> 0, sent |-> FALSE, processed |-> FALSE]
  /\ testqueue = <<>>
  /\ stopbatch = FALSE
  /\ totaltests = 0
  /\ completed = {}
  /\ medium = <<>>
  /\ worker = [at |-> "nextLevel", with |-> <<>>, job |-> <<>>]
  /\ testing = {}
  /\ light = [l \in LightThreads |-> [at |-> "idle", with |-> <<>>, job |-> <<>>]]
  /\ callbacks = [c \in Listeners |-> "none"]

-----------------------------------------------------------------------------
(* The candidates of a level.                                              *)

\* The positions of the original at count places of an input from begin on.
Cut(inp, begin, count) ==
  {p \in inp.kept : Cardinality({q \in inp.kept : q < p}) \in begin .. begin + count - 1}

Split(begin, count) ==
  [kept |-> Cut(input, begin, count), ranges |-> <<<<begin, count>>>>,
   complement |-> FALSE]

\* The ranges of the parent are taken for ranges that were cut, even if the
\* parent is a split and they are what was kept.
Complement(begin, count) ==
  [kept |-> input.kept \ Cut(input, begin, count),
   ranges |-> GetNewRangesWithout(IF input = OrigInput THEN <<>> ELSE input.ranges,
                                  OrigLength, begin, count),
   complement |-> TRUE]

\* dinfo of GenerateSplits_Async: the number of splits is calculated anew
\* from the rounded size, and the last one takes the rest.  The position only
\* advances past splits that are not too short.
SplitCount == Cardinality(input.kept) \div Maximum(Cardinality(input.kept) \div level, 1)
SplitSize  == Cardinality(input.kept) \div SplitCount

SplitRanges ==
  LET begin(i) == IF SplitSize >= params.minLength THEN (i - 1) * SplitSize ELSE 0
  IN  [i \in 1 .. SplitCount |->
         <<begin(i), IF i = SplitCount THEN Cardinality(input.kept) - begin(i)
                                       ELSE SplitSize>>]

\* The splits that are not too short.
LongSplits ==
  CASE SplitSize >= params.minLength                -> SplitRanges
    [] Cardinality(input.kept) < params.minLength   -> <<>>
    [] OTHER                                        -> <<SplitRanges[SplitCount]>>

Candidates ==
  IF Standard
    THEN [i \in DOMAIN LongSplits |-> Split(Begin(LongSplits[i]), Length(LongSplits[i]))]
         \o [i \in DOMAIN SplitRanges |->
               Complement(Begin(SplitRanges[i]), Length(SplitRanges[i]))]
    ELSE LET cuts == GetRangesAbove(inputRanges, params.skip, params.skipRanges, Limit \div level)
         IN  [i \in DOMAIN cuts |-> Complement(Begin(cuts[i]), Length(cuts[i]))]

Evaluate == [kind |-> "evaluate"]
Generate(ident, i, inp) ==
  [kind |-> "generate", batch |-> ident, number |-> i, input |-> inp]

-----------------------------------------------------------------------------
(* Counting.  A task or test decrements the Tasks object it was made with; *)
(* only that of the current batch is ever read.                            *)

Counted(t, n) == [t EXCEPT !.count = @ + n]

Uncount(batch) == tasks' = IF tasks.batch = batch THEN Counted(tasks, -1) ELSE tasks

\* A thread that is done with its candidate takes the next one, if any.
NextCandidate == SubSeq(testqueue, 1, Minimum(1, Len(testqueue)))

\* Mutant of TakeNext: the count goes up even if the queue is empty.
TakeNextAnyway ==
  /\ testqueue' = SubSeq(testqueue, 2, Len(testqueue))
  /\ tasks' = Counted(tasks, 1)

TakeNext ==
  /\ testqueue' = SubSeq(testqueue, 2, Len(testqueue))
  /\ tasks' = Counted(tasks, Len(NextCandidate))

CallEvaluate == medium' = Append(medium, Evaluate)

-----------------------------------------------------------------------------
(* The medium thread: DDGenerateCheckSplit and DDGenerateComplementCallback *)
(* check a candidate of the current batch and have it tested.              *)

WorkerIdle == [at |-> "idle", with |-> <<>>, job |-> <<>>]

TakeCandidate ==
  /\ worker.at = "idle"
  /\ medium # <<>> /\ Head(medium).kind = "generate"
  /\ medium' = Tail(medium)
  /\ worker' = IF Head(medium).batch = batchident
                 THEN [at |-> "checking", with |-> <<Head(medium)>>, job |-> <<>>]
                 ELSE worker
  /\ UNCHANGED <<batchVars, levelVars, resultVars, testing, light, callbacks>>

\* CheckInput and AddTest of the execution handler succeed.
DoTest ==
  /\ worker.at = "checking"
  /\ LET job == worker.with[1]
     IN  /\ Cardinality(job.input.kept) >= params.minLength
         /\ testing' = testing \cup {[ident |-> job.batch, batch |-> job.batch,
                                      number |-> job.number, retries |-> 0,
                                      input |-> job.input]}
  /\ worker' = WorkerIdle
  /\ UNCHANGED <<batchVars, levelVars, resultVars, medium, light, callbacks>>

\* The candidate is too short, known, not derivable or refused.
RejectCandidate ==
  /\ worker.at = "checking"
  /\ TakeNext
  /\ worker' = [worker EXCEPT !.at = "releasing", !.job = NextCandidate]
  /\ UNCHANGED <<batchident, active, stopbatch, levelVars, resultVars, medium,
                 testing, light, callbacks>>

ReleaseCandidate ==
  /\ worker.at = "releasing"
  /\ Uncount(worker.with[1].batch)
  /\ medium' = medium \o worker.job
  /\ worker' = IF worker.job # <<>> THEN WorkerIdle
                                    ELSE [worker EXCEPT !.at = "counting"]
  /\ UNCHANGED <<batchident, active, testqueue, stopbatch, levelVars, resultVars,
                 testing, light, callbacks>>

CheckLevelEmpty ==
  /\ worker.at = "counting"
  /\ IF tasks.count <= 0
       THEN active' = FALSE /\ CallEvaluate
       ELSE UNCHANGED <<active, medium>>
  /\ worker' = WorkerIdle
  /\ UNCHANGED <<batchident, tasks, testqueue, stopbatch, levelVars, resultVars,
                 testing, light, callbacks>>

-----------------------------------------------------------------------------
(* The medium thread: CallbackExplicitEvaluate.                            *)

\* Mutant of TakeEvaluate: processedEndEvent is not read.
TakeEvaluateTwice ==
  /\ worker.at = "idle"
  /\ medium # <<>> /\ Head(medium) = Evaluate
  /\ medium' = Tail(medium)
  /\ tasks' = [tasks EXCEPT !.processed = TRUE]
  /\ worker' = [WorkerIdle EXCEPT !.at = "closing"]
  /\ UNCHANGED <<batchident, active, testqueue, stopbatch, levelVars, resultVars,
                 testing, light, callbacks>>

TakeEvaluate ==
  /\ worker.at = "idle"
  /\ medium # <<>> /\ Head(medium) = Evaluate
  /\ medium' = Tail(medium)
  /\ IF tasks.processed
       THEN UNCHANGED <<tasks, worker>>
       ELSE /\ tasks' = [tasks EXCEPT !.processed = TRUE]
            /\ worker' = [WorkerIdle EXCEPT !.at = "closing"]
  /\ UNCHANGED <<batchident, active, testqueue, stopbatch, levelVars, resultVars,
                 testing, light, callbacks>>

CloseBatch ==
  /\ worker.at = "closing"
  /\ batchident < MaxBatches
  /\ batchident' = batchident + 1
  /\ worker' = [worker EXCEPT !.at = "evaluating"]
  /\ UNCHANGED <<active, tasks, testqueue, stopbatch, levelVars, resultVars,
                 medium, testing, light, callbacks>>

GoOnOrFinish(finishing) ==
  /\ finished' = finishing
  /\ worker' = [worker EXCEPT !.at = IF finishing THEN "finishing" ELSE "nextLevel"]

\* Mutant of Deepen: the last level is never tried.
DeepenLess(ending) ==
  /\ worker.at = "evaluating"
  /\ completed = {}
  /\ IF 2 * level >= Limit
       THEN GoOnOrFinish(TRUE) /\ UNCHANGED level
       ELSE level' = Minimum(2 * level, Limit) /\ GoOnOrFinish(ending)
  /\ UNCHANGED <<batchVars, params, input, score, best, inputRanges, resultVars,
                 medium, testing, light, callbacks>>

\* No candidate of the level meets the goal.
Deepen(ending) ==
  /\ worker.at = "evaluating"
  /\ completed = {}
  /\ IF level >= Limit
       THEN GoOnOrFinish(TRUE) /\ UNCHANGED level
       ELSE level' = Minimum(2 * level, Limit) /\ GoOnOrFinish(ending)
  /\ UNCHANGED <<batchVars, params, input, score, best, inputRanges, resultVars,
                 medium, testing, light, callbacks>>

\* Only here, to reproduce a result, the budget is not looked at.
StandardGoDeeper      == Standard /\ Deepen(BudgetSpent /\ params.goal.first # "reproduce")
ScoreProgressGoDeeper == ~Standard /\ Deepen(BudgetSpent)

\* One of the results becomes the input.
Adopt(result, newBest, newLevel) ==
  /\ worker.at = "evaluating"
  /\ input' = result.input
  /\ score' = result.scores
  /\ best' = newBest
  /\ \E changes \in Changes : inputRanges' = Ranges(result.input, changes)
  /\ level' = newLevel
  /\ completed' = {}
  /\ GoOnOrFinish(BudgetSpent)
  /\ UNCHANGED <<batchVars, params, totaltests, medium, testing, light, callbacks>>

StandardAdopt(result, newBest) ==
  /\ Standard
  /\ Adopt(result, newBest, IF result.input.complement THEN Maximum(level - 1, 2) ELSE 2)

\* One of those that reproduce the result: any, or one with the highest score.
AdoptReproducing(result) ==
  /\ params.goal.first = "reproduce"
  /\ \A other \in completed :
       CASE params.goal.second = "none"      -> TRUE
         [] params.goal.second = "secondary" -> other.scores[Secondary] <= result.scores[Secondary]
         [] OTHER                            -> other.scores[Primary] <= result.scores[Primary]
  /\ StandardAdopt(result, best)

AdoptByPrimary(result) ==
  /\ params.goal.first = "primary"
  /\ result \in FirstOf("primary", completed)
  /\ StandardAdopt(result, Raise(best, Primary, result.scores))

AdoptBySecondary(result) ==
  /\ params.goal.first = "secondary"
  /\ result \in FirstOf("secondary", completed)
  /\ StandardAdopt(result, Raise(best, Secondary, result.scores))

\* The secondary score is looked at, but neither raised nor kept.
AdoptByBoth(result) ==
  /\ params.goal.first = "both"
  /\ result \in FirstOf("primary", completed)
  /\ StandardAdopt(result, Raise(best, Primary, result.scores))

AdoptComplement(result) ==
  /\ ~Standard
  /\ result \in Passing(params.goal, completed)
  /\ Adopt(result, RaiseBoth(best, result.scores), 2)

\* Finish gives the callbacks to the pool, or to a second controller if it
\* starts.
Finish ==
  /\ worker.at = "finishing"
  /\ \E to \in {"queued", "handed on"} :
       /\ to = "handed on" => FollowUp /\ ~Standard /\ params.goal.first = "reproduce"
       /\ callbacks' = [c \in Listeners |->
                          IF callbacks[c] = "listed" THEN to ELSE callbacks[c]]
  /\ completed' = {}
  /\ worker' = WorkerIdle
  /\ UNCHANGED <<batchVars, levelVars, totaltests, medium, testing, light>>

\* Reset, under _completedTestsLock.  The input is there, or can be generated
\* again.
ResetLevel ==
  /\ worker.at = "nextLevel"
  /\ active' = TRUE
  /\ tasks' = [batch |-> batchident, count |-> 0, sent |-> FALSE, processed |-> FALSE]
  /\ testqueue' = <<>>
  /\ worker' = [worker EXCEPT !.at = "filling"]
  /\ UNCHANGED <<batchident, levelVars, resultVars, medium, testing, light,
                 callbacks>>

StandardNextLevel      == Standard /\ ResetLevel /\ UNCHANGED stopbatch
ScoreProgressNextLevel == ~Standard /\ ResetLevel /\ stopbatch' = FALSE

FillQueue ==
  /\ worker.at = "filling"
  /\ \E candidates \in {Candidates} :
       testqueue' = testqueue \o
         [i \in DOMAIN candidates |-> Generate(batchident, i, candidates[i])]
  /\ worker' = [worker EXCEPT !.at = "launching"]
  /\ UNCHANGED <<batchident, active, tasks, stopbatch, levelVars, resultVars,
                 medium, testing, light, callbacks>>

\* The first candidates, as many as a batch has, become tasks.
LaunchBatch ==
  /\ worker.at = "launching"
  /\ LET n == IF params.batchprocessing = 0 THEN Len(testqueue)
              ELSE Minimum(params.batchprocessing, Len(testqueue))
     IN  /\ testqueue' = SubSeq(testqueue, n + 1, Len(testqueue))
         /\ IF testqueue = <<>>
              THEN CallEvaluate /\ UNCHANGED tasks
              ELSE /\ medium' = medium \o SubSeq(testqueue, 1, n)
                   /\ tasks' = [tasks EXCEPT !.count = n]
  /\ worker' = WorkerIdle
  /\ UNCHANGED <<batchident, active, levelVars, resultVars, testing, light,
                 callbacks>>

StandardLaunch      == Standard /\ LaunchBatch /\ stopbatch' = FALSE
ScoreProgressLaunch == ~Standard /\ LaunchBatch /\ UNCHANGED stopbatch

-----------------------------------------------------------------------------
(* The light threads: DDTestCallback::Run and CallbackTest.                *)

LightIdle == [at |-> "idle", with |-> <<>>, job |-> <<>>]

LightGoes(l, at) == light' = [light EXCEPT ![l].at = at]

\* A test has ended.  If it is to be repeated, the copy of the callback has
\* the number of no batch.
Repeated(t) ==
  [ident |-> 0, batch |-> t.batch, number |-> t.number, retries |-> t.retries + 1,
   input |-> t.input]

RepeatTest(l, t) ==
  /\ light[l].at = "idle"
  /\ t \in testing
  /\ t.retries < params.retries
  /\ testing' = (testing \ {t}) \cup {Repeated(t)}
  /\ UNCHANGED <<batchVars, levelVars, resultVars, medium, worker, light, callbacks>>

\* Mutant of TakeResult: a test of no current batch is not counted off.
TakeResultOfOthers(l, t) ==
  /\ light[l].at = "idle"
  /\ t \in testing
  /\ testing' = testing \ {t}
  /\ totaltests' = Minimum(totaltests + 1, params.budget)
  /\ light' = IF t.ident = batchident
                THEN [light EXCEPT ![l] = [at |-> "next", with |-> <<t>>, job |-> <<>>]]
                ELSE light
  /\ UNCHANGED <<batchVars, levelVars, completed, medium, worker, callbacks>>

\* The first section of CallbackTest, under _completedTestsLock.
TakeResult(l, t) ==
  /\ light[l].at = "idle"
  /\ t \in testing
  /\ testing' = testing \ {t}
  /\ totaltests' = Minimum(totaltests + 1, params.budget)
  /\ IF t.ident = batchident
       THEN /\ light' = [light EXCEPT ![l] = [at |-> "next", with |-> <<t>>, job |-> <<>>]]
            /\ UNCHANGED tasks
       ELSE /\ Uncount(t.batch)
            /\ UNCHANGED light
  /\ UNCHANGED <<batchident, active, testqueue, stopbatch, levelVars, completed,
                 medium, worker, callbacks>>

\* The level has ended in the meantime.
DropResult(l) ==
  /\ light[l].at = "next"
  /\ ~active
  /\ Uncount(light[l].with[1].batch)
  /\ light' = [light EXCEPT ![l] = LightIdle]
  /\ UNCHANGED <<batchident, active, testqueue, stopbatch, levelVars, resultVars,
                 medium, worker, testing, callbacks>>

StartNext(l) ==
  /\ light[l].at = "next"
  /\ active
  /\ TakeNext
  /\ light' = [light EXCEPT ![l] =
                 [at |-> "releasing", with |-> @.with, job |-> NextCandidate]]
  /\ UNCHANGED <<batchident, active, stopbatch, levelVars, resultVars, medium,
                 worker, testing, callbacks>>

ReleaseTest(l) ==
  /\ light[l].at = "releasing"
  /\ Uncount(light[l].with[1].batch)
  /\ medium' = medium \o light[l].job
  /\ LightGoes(l, "counting")
  /\ UNCHANGED <<batchident, active, testqueue, stopbatch, levelVars, resultVars,
                 worker, testing, callbacks>>

\* The test that finds the level empty ends it and is not evaluated itself.
EndLevel(l) ==
  /\ light[l].at = "counting"
  /\ IF tasks.count <= 0
       THEN /\ active' = FALSE
            /\ tasks' = [tasks EXCEPT !.sent = TRUE]
            /\ CallEvaluate
            /\ light' = [light EXCEPT ![l] = LightIdle]
       ELSE /\ LightGoes(l, "storing")
            /\ UNCHANGED <<active, tasks, medium>>
  /\ UNCHANGED <<batchident, testqueue, stopbatch, levelVars, resultVars, worker,
                 testing, callbacks>>

\* StandardEvaluateInput or ScoreProgressEvaluateInput, and the insertion.  A
\* result that is not good now is not good when the level is evaluated: the best
\* score changes only when the results are cleared.
StoreResult(l, same, scores) ==
  /\ light[l].at = "storing"
  /\ LET good == IsGood(params.goal, params.loss, best, same, scores)
     IN  /\ completed' = completed \cup
              IF good THEN {[input |-> light[l].with[1].input, scores |-> scores]} ELSE {}
         /\ IF params.batchprocessing = 0
              THEN light' = [light EXCEPT ![l] = LightIdle] /\ UNCHANGED stopbatch
              ELSE LightGoes(l, "stopping") /\ stopbatch' = (stopbatch \/ good)
  /\ UNCHANGED <<batchident, active, tasks, testqueue, levelVars, totaltests, medium,
                 worker, testing, callbacks>>

StopBatch(l) ==
  /\ light[l].at = "stopping"
  /\ stopbatch' = (stopbatch \/ BudgetSpent)
  /\ IF stopbatch'
       THEN /\ active' = FALSE
            /\ testqueue' = <<>>
            /\ tasks' = IF tasks.batch = light[l].with[1].batch
                          THEN [tasks EXCEPT !.sent = TRUE] ELSE tasks
            /\ CallEvaluate
       ELSE UNCHANGED <<active, testqueue, tasks, medium>>
  /\ light' = [light EXCEPT ![l] = LightIdle]
  /\ UNCHANGED <<batchident, levelVars, resultVars, worker, testing, callbacks>>

-----------------------------------------------------------------------------
(* Others.                                                                 *)

\* The watchdog, when neither the pool nor the execution handler has work.
Rescue ==
  /\ medium = <<>> /\ testing = {}
  /\ ~finished
  /\ tasks.count <= 0
  /\ ~tasks.sent \/ ~tasks.processed
  /\ tasks' = [tasks EXCEPT !.sent = TRUE]
  /\ CallEvaluate
  /\ UNCHANGED <<batchident, active, testqueue, stopbatch, levelVars, resultVars,
                 worker, testing, light, callbacks>>

\* Mutant of AddCallback: _finished is not read.
AddCallbackAnyway(c) ==
  /\ callbacks[c] = "none"
  /\ callbacks' = [callbacks EXCEPT ![c] = "listed"]
  /\ UNCHANGED <<batchVars, levelVars, resultVars, medium, worker, testing, light>>

AddCallback(c) ==
  /\ callbacks[c] = "none"
  /\ callbacks' = [callbacks EXCEPT ![c] = IF finished THEN "refused" ELSE "listed"]
  /\ UNCHANGED <<batchVars, levelVars, resultVars, medium, worker, testing, light>>

-----------------------------------------------------------------------------

Worker ==
  \/ TakeCandidate \/ DoTest \/ RejectCandidate \/ ReleaseCandidate
  \/ CheckLevelEmpty \/ TakeEvaluate \/ CloseBatch
  \/ StandardGoDeeper \/ ScoreProgressGoDeeper
  \/ \E result \in completed :
       \/ AdoptReproducing(result)
       \/ AdoptByPrimary(result) \/ AdoptBySecondary(result) \/ AdoptByBoth(result)
       \/ AdoptComplement(result)
  \/ Finish
  \/ StandardNextLevel \/ ScoreProgressNextLevel
  \/ FillQueue
  \/ StandardLaunch \/ ScoreProgressLaunch

Light(l) ==
  \/ \E t \in testing : RepeatTest(l, t) \/ TakeResult(l, t)
  \/ DropResult(l) \/ StartNext(l) \/ ReleaseTest(l) \/ EndLevel(l)
  \/ (\E same \in BOOLEAN, scores \in params.scores : StoreResult(l, same, scores))
  \/ StopBatch(l)

Next ==
  \/ Worker
  \/ \E l \in LightThreads : Light(l)
  \/ Rescue
  \/ \E c \in Listeners : AddCallback(c)

\* When the medium thread has something to do.  Fairness for it is written out
\* with this, as WF_vars(Worker) has TLC calculate candidates for ENABLED.
WorkerBusy ==
  /\ worker.at = "idle" => medium # <<>>
  /\ worker.at = "closing" => batchident < MaxBatches

\* Threads run, tests end and the watchdog looks every half a second.
Fairness ==
  /\ []<>~WorkerBusy \/ []<><<Worker>>_vars
  /\ \A l \in LightThreads : WF_vars(Light(l))
  /\ WF_vars(Rescue)

Safety == Init /\ [][Next]_vars
Spec   == Safety /\ Fairness

-----------------------------------------------------------------------------
(* Properties.                                                             *)

\* Whatever the threads do to each other, the input is only ever replaced by a
\* part that was tested and met the goal, levels only get finer when no such
\* part is left, and the end comes only when there is nothing finer or the
\* budget is spent.
ReductionSpec ==
  INSTANCE Reduction WITH whole <- Whole, base <- input.kept, limit <- Limit,
                          good <- {c.input.kept : c \in completed},
                          budgetSpent <- BudgetSpent, done <- finished
Reduces == ReductionSpec!Spec

\* In score progress mode, an input is described to the derivation by exactly
\* the positions of the original that it lacks, as a sorted list of ranges
\* that do not touch, however often inputs that lack some were cut again.
RangesAreExact ==
  ~Standard =>
    \A inp \in {c.input : c \in completed} \cup {t.input : t \in testing} \cup {input} :
      inp.ranges = RunsOf(Whole \ inp.kept)

\* The scores a controller keeps from getting lost: for "both" not the secondary
\* one, nor for "secondary" in the other mode, as their best score falls when the
\* primary score rises.
KeptScores ==
  CASE params.goal.first \in {"primary", "both"}         -> {Primary}
    [] Standard /\ params.goal.first = "secondary"        -> {Secondary}
    [] OTHER                                             -> {}

\* However many inputs are adopted, each with a little loss, what later ones are
\* compared with never falls below the highest score an adopted input had: the
\* losses do not add up.
LossesDoNotAddUp ==
  [][\A s \in KeptScores :
       /\ best'[s] >= best[s] /\ best'[s] >= score'[s]
       /\ input' # input => WithinLoss(score'[s], best[s], params.loss)]_vars

\* The candidates of the current batch that are still to decrement its count:
\* they wait for the medium thread, are tested, or are held by a thread that has
\* not counted them off or has taken them from the queue.
Held(thread) ==
  IF thread.at \in {"checking", "next", "releasing"} THEN ToSet(thread.with) ELSE {}
Found(thread) == IF thread.at = "releasing" THEN ToSet(thread.job) ELSE {}

OfBatch(candidates) == {c.number : c \in {d \in candidates : d.batch = tasks.batch}}

Outstanding ==
  OfBatch({job \in ToSet(medium) : job.kind = "generate"})
  \cup OfBatch(testing)
  \cup UNION {OfBatch(Held(thread) \cup Found(thread)) :
               thread \in {worker} \cup {light[l] : l \in LightThreads}}

\* The count of a batch never exceeds what is still to come back: otherwise it
\* would never reach zero and the level would never end.
NoPhantomTasks == tasks.batch = batchident => tasks.count <= Cardinality(Outstanding)

\* Once finished, always finished: stale events, late results and the watchdog
\* start no test, and change neither the result nor the level.
QuietAfterFinish ==
  [][finished => /\ finished' /\ UNCHANGED <<input, level, batchident>>
                 /\ Cardinality(testing') <= Cardinality(testing)]_vars

\* A callback that was accepted is given to the pool, or to the controller
\* that goes on, even if it comes while the last level is evaluated.
AcceptedCallbacksRun ==
  \A c \in Listeners :
    callbacks[c] = "listed" ~>
      callbacks[c] \in {"queued", "handed on"} \/ batchident = MaxBatches

\* A level never hangs: its batch is closed, and the next one begun, or delta
\* debugging is finished, whatever tests are repeated and events are late.
LevelsEnd ==
  \A n \in 0 .. MaxBatches - 1 : batchident = n ~> finished \/ batchident > n
=============================================================================
