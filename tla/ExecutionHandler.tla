-------------------------- MODULE ExecutionHandler --------------------------
(***************************************************************************)
(* The execution of tests of src/src/ExecutionHandler.cpp: the queues a    *)
(* test passes from AddTest to its callback, the thread that starts tests  *)
(* (TestStarter), the thread that watches and ends them (InternalLoop),    *)
(* the tasks of the pool that prepare them (InitTests), the watchdog that  *)
(* replaces a stale InternalLoop, and the session, which freezes the       *)
(* handler for a save, stops it, or ends itself with Freeze, ClearTests    *)
(* and Thaw.                                                               *)
(*                                                                         *)
(* All waits on condition variables have a timeout of at most 200 ms, so a *)
(* notification decides nothing but when: a wait is a step that needs its  *)
(* mutex again.  Who holds a mutex follows from the program counters.      *)
(***************************************************************************)
EXTENDS Integers, Sequences, FiniteSets, SequencesExt

CONSTANTS
  Tests,          \* the tests ever given to AddTest
  Bypass,         \* those added with bypass = true
  Preparers,      \* pool threads that may run ExecInitTestsCallback
  MaxConcurrent,  \* _maxConcurrentTests
  Courses,        \* values of course
  None

ASSUME HandlerAssumption ==
  /\ Bypass \subseteq Tests
  /\ MaxConcurrent \in Nat \ {0}
  /\ Courses \subseteq [stops : SUBSET BOOLEAN, ends : BOOLEAN, reinits : BOOLEAN, saves : Nat]
  /\ None \notin Tests

PopulationSize == 2 * MaxConcurrent

\* The InternalLoop that was started first and the one that replaces it.
First  == 1
Second == 2
Loops  == {First, Second}

VARIABLES
  \* the tests
  proc,             \* "new", "queued", or the state of its process
  running,          \* the tests whose _running is set
  answers,          \* how often the callback of a test was given to the pool
  \* the queues and counters
  waitingTests, waitingTestsExec, startingTests, runningTests, stoppingTests,
  currentTests,
  handleTests,      \* _handleTests, a member that all loops share
  initJobs,         \* ExecInitTestsCallback tasks that wait in the pool
  \* the flags
  freeze, frozen, stopHandler, finishTests, active, stopRequested,
  \* the threads
  starter,          \* where TestStarter is
  newTests,         \* its newtests
  launched,         \* the test it has started and not yet listed
  loop,             \* where each InternalLoop is
  toHandle,         \* its tohandle
  index,            \* its position in _handleTests or _stoppingTests
  handled,          \* its ptr
  prep,             \* where each preparer is
  inHand,           \* the test it has taken from _waitingTests
  seen,             \* where the pool's Freeze has found it: "none" when it has
                    \* not looked, or not since it last found a thread Running
  control,          \* what the session does
  freezes,          \* how many saves it has begun
  course            \* what it may do: the values of _finishtests it stops the
                    \* handler with, whether it calls StopSession(_, false),
                    \* whether the watchdog may find the loop stale, once, and
                    \* a bound on the number of saves

testVars    == <<proc, running, answers>>
queueVars   == <<waitingTests, waitingTestsExec, startingTests, initJobs>>
listVars    == <<runningTests, stoppingTests, currentTests>>
flagVars    == <<freeze, frozen, stopHandler, finishTests, active,
                 stopRequested>>
starterVars == <<starter, newTests, launched>>
loopVars    == <<loop, toHandle, index, handled, handleTests>>
prepVars    == <<prep, inHand, seen>>
sessionVars == <<control, freezes, course>>
vars == <<testVars, queueVars, listVars, flagVars, starterVars, loopVars,
          prepVars, sessionVars>>

\* The state right after StartHandlerAsIs.
Init ==
  /\ proc = [t \in Tests |-> "new"]
  /\ running = {}
  /\ answers = [t \in Tests |-> 0]
  /\ waitingTests = <<>> /\ waitingTestsExec = <<>> /\ startingTests = <<>>
  /\ runningTests = <<>> /\ stoppingTests = <<>>
  /\ currentTests = 0
  /\ handleTests = [i \in 1 .. MaxConcurrent |-> None]
  /\ initJobs = 0
  /\ freeze = FALSE /\ frozen = FALSE
  /\ stopHandler = FALSE /\ finishTests = FALSE /\ active = TRUE
  /\ stopRequested = [l \in Loops |-> FALSE]
  /\ starter = "top" /\ newTests = 0 /\ launched = None
  /\ loop = [l \in Loops |-> IF l = First THEN "top" ELSE "none"]
  /\ toHandle = [l \in Loops |-> 0]
  /\ index = [l \in Loops |-> 1]
  /\ handled = [l \in Loops |-> None]
  /\ prep = [p \in Preparers |-> "idle"]
  /\ inHand = [p \in Preparers |-> None]
  /\ seen = [p \in Preparers |-> "none"]
  /\ control = "serving"
  /\ freezes = 0
  /\ course \in Courses

\* ClearTests takes _toplevelsync, _lockqueue and _startingLock in this order;
\* TestStarter takes _lockqueue while it holds _startingLock.
TopLevelFree     == control \notin {"wantsQueue", "wantsStarter"}
LockQueueFree    == starter # "filling" /\ control # "wantsStarter"
StartingLockFree == starter \in {"top", "napping"}

\* A thread of the pool takes no task from RequestFreeze or Freeze to Thaw.
PoolFreezes == control \notin {"serving", "ended", "stopped"}

Answer(t) == answers' = [answers EXCEPT ![t] = @ + 1]

-----------------------------------------------------------------------------
(* AddTest, called by tasks of the pool, those that its Freeze overlooks    *)
(* included.                                                               *)

AddTest(t) ==
  /\ proc[t] = "new"
  /\ LockQueueFree
  /\ proc' = [proc EXCEPT ![t] = "queued"]
  /\ waitingTests' = IF t \in Bypass THEN <<t>> \o waitingTests
                                     ELSE Append(waitingTests, t)
  /\ UNCHANGED <<running, answers, waitingTestsExec, startingTests, initJobs,
                 listVars, flagVars, starterVars, loopVars, prepVars,
                 sessionVars>>

-----------------------------------------------------------------------------
(* InitTests, run by a task of the pool.                                   *)

\* The thread leaves its wait, and takes the task; _status is still Waiting.
TakeInitJob(p) ==
  /\ prep[p] = "idle"
  /\ initJobs > 0
  /\ ~PoolFreezes
  /\ initJobs' = initJobs - 1
  /\ prep' = [prep EXCEPT ![p] = "taken"]
  /\ UNCHANGED <<testVars, waitingTests, waitingTestsExec, startingTests,
                 listVars, flagVars, starterVars, loopVars, inHand, seen,
                 sessionVars>>

\* Without the mutex _status becomes Running, and the task is run.
BeginInit(p) ==
  /\ prep[p] = "taken"
  /\ prep' = [prep EXCEPT ![p] = "check"]
  /\ UNCHANGED <<testVars, queueVars, listVars, flagVars, starterVars,
                 loopVars, inHand, seen, sessionVars>>

\* The condition of the loop is read without _lockqueue.
CheckPopulation(p) ==
  /\ prep[p] = "check"
  /\ prep' = [prep EXCEPT ![p] =
       IF Len(waitingTestsExec) < PopulationSize /\ waitingTests # <<>>
         THEN "pop" ELSE "idle"]
  /\ UNCHANGED <<testVars, queueVars, listVars, flagVars, starterVars,
                 loopVars, inHand, seen, sessionVars>>

PopWaiting(p) ==
  /\ prep[p] = "pop"
  /\ LockQueueFree
  /\ IF waitingTests = <<>>
       THEN /\ prep' = [prep EXCEPT ![p] = "idle"]
            /\ UNCHANGED <<waitingTests, inHand>>
       ELSE /\ prep' = [prep EXCEPT ![p] = "prepare"]
            /\ inHand' = [inHand EXCEPT ![p] = Head(waitingTests)]
            /\ waitingTests' = Tail(waitingTests)
  /\ UNCHANGED <<testVars, waitingTestsExec, startingTests, initJobs, listVars,
                 flagVars, starterVars, loopVars, seen, sessionVars>>

PushPrepared(p) ==
  /\ prep[p] = "prepare"
  /\ LockQueueFree
  /\ waitingTestsExec' = Append(waitingTestsExec, inHand[p])
  /\ prep' = [prep EXCEPT ![p] = "check"]
  /\ inHand' = [inHand EXCEPT ![p] = None]
  /\ UNCHANGED <<testVars, waitingTests, startingTests, initJobs, listVars,
                 flagVars, starterVars, loopVars, seen, sessionVars>>

\* The pipes cannot be created: the callback is called, the task ends.
PrepareFails(p) ==
  /\ prep[p] = "prepare"
  /\ Answer(inHand[p])
  /\ prep' = [prep EXCEPT ![p] = "idle"]
  /\ inHand' = [inHand EXCEPT ![p] = None]
  /\ UNCHANGED <<proc, running, queueVars, listVars, flagVars, starterVars,
                 loopVars, seen, sessionVars>>

-----------------------------------------------------------------------------
(* TestStarter.                                                            *)

StarterGoto(from, to) == starter = from /\ starter' = to

\* Mutant of AnyWaiting: tests that were not prepared yet do not count.
AnyPrepared == waitingTestsExec # <<>>

AnyWaiting == waitingTests # <<>> \/ waitingTestsExec # <<>>

HasSlot == currentTests + newTests < MaxConcurrent

\* A round begins with _startingLock.  A frozen starter naps, unless tests
\* wait that were not prepared.
BeginRound ==
  /\ StartingLockFree
  /\ StarterGoto("top", IF freeze /\ waitingTests = <<>>
                          THEN "napping" ELSE "check")
  /\ newTests' = 0
  /\ UNCHANGED <<testVars, queueVars, listVars, flagVars, launched, loopVars,
                 prepVars, sessionVars>>

EndNap ==
  /\ StartingLockFree
  /\ StarterGoto("napping", IF freeze THEN "top" ELSE "check")
  /\ UNCHANGED <<testVars, queueVars, listVars, flagVars, newTests, launched,
                 loopVars, prepVars, sessionVars>>

\* The condition is read without _lockqueue, and _frozen belongs to the loop.
\* When it fails there is nothing in _startingTests, and the round ends.
CheckSlots ==
  /\ StarterGoto("check", IF HasSlot /\ AnyWaiting /\ ~frozen
                            THEN "locking" ELSE "top")
  /\ UNCHANGED <<testVars, queueVars, listVars, flagVars, newTests, launched,
                 loopVars, prepVars, sessionVars>>

LockQueue ==
  /\ LockQueueFree
  /\ StarterGoto("locking", "filling")
  /\ UNCHANGED <<testVars, queueVars, listVars, flagVars, newTests, launched,
                 loopVars, prepVars, sessionVars>>

\* What InitTestsLockFree makes of an empty _waitingTestsExec when the test at
\* position k cannot be prepared, or none when k = 0.
Prepared(k) ==
  IF k = 0 THEN SubSeq(waitingTests, 1,
                       IF Len(waitingTests) < PopulationSize
                         THEN Len(waitingTests) ELSE PopulationSize)
           ELSE SubSeq(waitingTests, 1, k - 1)

PrepareInPlace(k) ==
  LET ready == Prepared(k)
      used  == IF k = 0 THEN Len(ready) ELSE k
  IN  /\ waitingTests' = SubSeq(waitingTests, used + 1, Len(waitingTests))
      /\ IF k = 0 THEN UNCHANGED answers ELSE Answer(waitingTests[k])
      /\ IF ready = <<>>
           THEN /\ startingTests' = Append(startingTests, None)
                /\ UNCHANGED waitingTestsExec
           ELSE /\ startingTests' = Append(startingTests, Head(ready))
                /\ waitingTestsExec' = Tail(ready)

\* One iteration of the loop that fills _startingTests; without a prepared
\* test it prepares some, and pushes none when that fails.
FillOne ==
  /\ starter = "filling"
  /\ HasSlot /\ AnyWaiting
  /\ newTests' = newTests + 1
  /\ IF waitingTestsExec # <<>>
       THEN /\ startingTests' = Append(startingTests, Head(waitingTestsExec))
            /\ waitingTestsExec' = Tail(waitingTestsExec)
            /\ UNCHANGED <<waitingTests, answers>>
       ELSE \E k \in 0 .. Len(waitingTests) :
              k <= PopulationSize /\ PrepareInPlace(k)
  /\ UNCHANGED <<proc, running, initJobs, listVars, flagVars, starter,
                 launched, loopVars, prepVars, sessionVars>>

FillEnds ==
  /\ StarterGoto("filling", "starting")
  /\ ~(HasSlot /\ AnyWaiting)
  /\ initJobs' = IF newTests > 0 THEN initJobs + 1 ELSE initJobs
  /\ newTests' = 0
  /\ UNCHANGED <<testVars, waitingTests, waitingTestsExec, startingTests,
                 listVars, flagVars, launched, loopVars, prepVars,
                 sessionVars>>

\* StartTest: the process runs.
StartSucceeds ==
  /\ starter = "starting"
  /\ startingTests # <<>> /\ Head(startingTests) # None
  /\ starter' = "listing"
  /\ launched' = Head(startingTests)
  /\ startingTests' = Tail(startingTests)
  /\ proc' = [proc EXCEPT ![launched'] = "alive"]
  /\ running' = running \cup {launched'}
  /\ currentTests' = currentTests + 1
  /\ UNCHANGED <<answers, waitingTests, waitingTestsExec, initJobs,
                 runningTests, stoppingTests, flagVars, newTests, loopVars,
                 prepVars, sessionVars>>

\* StartTest: the input is a duplicate, or the process cannot be started.  A
\* test that could not be prepared was answered before.
StartFails ==
  /\ starter = "starting"
  /\ startingTests # <<>>
  /\ startingTests' = Tail(startingTests)
  /\ IF Head(startingTests) = None THEN UNCHANGED answers
                                   ELSE Answer(Head(startingTests))
  /\ UNCHANGED <<proc, running, waitingTests, waitingTestsExec, initJobs,
                 listVars, flagVars, starterVars, loopVars, prepVars,
                 sessionVars>>

ListStarted ==
  /\ StarterGoto("listing", "starting")
  /\ runningTests' = Append(runningTests, launched)
  /\ launched' = None
  /\ UNCHANGED <<testVars, queueVars, stoppingTests, currentTests, flagVars,
                 newTests, loopVars, prepVars, sessionVars>>

\* _startingLockCond.wait_for gives up _startingLock.
EndRound ==
  /\ startingTests = <<>>
  /\ StarterGoto("starting", "top")
  /\ UNCHANGED <<testVars, queueVars, listVars, flagVars, newTests, launched,
                 loopVars, prepVars, sessionVars>>

StarterStep ==
  \/ BeginRound \/ EndNap \/ CheckSlots \/ LockQueue \/ FillOne \/ FillEnds
  \/ StartSucceeds \/ StartFails \/ ListStarted \/ EndRound

-----------------------------------------------------------------------------
(* InternalLoop.                                                           *)

LoopGoto(l, from, to) == loop[l] = from /\ loop' = [loop EXCEPT ![l] = to]

\* Mutant of StopTest: _currentTests is not decremented.
StopTestKeepsCount(t) ==
  /\ Answer(t)
  /\ UNCHANGED <<currentTests, running>>
  /\ proc' = [proc EXCEPT ![t] = "dead"]

\* The results are written to the input, the callback is given to the pool.
StopTest(t) ==
  /\ Answer(t)
  /\ currentTests' = currentTests - 1
  /\ proc' = [proc EXCEPT ![t] = "dead"]
  /\ UNCHANGED running

ReadFreeze(l) ==
  /\ LoopGoto(l, "top",
       IF stopHandler /\ ~finishTests /\ stopRequested[l] THEN "break"
       ELSE IF freeze THEN "freezing" ELSE "thawing")
  /\ UNCHANGED <<testVars, queueVars, listVars, flagVars, starterVars,
                 toHandle, index, handled, handleTests, prepVars, sessionVars>>

BecomeFrozen(l) ==
  /\ LoopGoto(l, "freezing", "collecting")
  /\ frozen' = TRUE
  /\ UNCHANGED <<testVars, queueVars, listVars, freeze, stopHandler,
                 finishTests, active, stopRequested, starterVars, toHandle,
                 index, handled, handleTests, prepVars, sessionVars>>

BecomeThawed(l) ==
  /\ LoopGoto(l, "thawing", IF frozen THEN "catchingUp" ELSE "collecting")
  /\ frozen' = FALSE
  /\ index' = [index EXCEPT ![l] = 1]
  /\ UNCHANGED <<testVars, queueVars, listVars, freeze, stopHandler,
                 finishTests, active, stopRequested, starterVars, toHandle,
                 handled, handleTests, prepVars, sessionVars>>

\* Tests that ended while the handler was frozen are stopped now.
CatchUp(l) ==
  /\ loop[l] = "catchingUp"
  /\ index[l] <= Len(stoppingTests)
  /\ StopTest(stoppingTests[index[l]])
  /\ index' = [index EXCEPT ![l] = @ + 1]
  /\ UNCHANGED <<queueVars, runningTests, stoppingTests, flagVars,
                 starterVars, loop, toHandle, handled, handleTests, prepVars,
                 sessionVars>>

CaughtUp(l) ==
  /\ LoopGoto(l, "catchingUp", "collecting")
  /\ index[l] > Len(stoppingTests)
  /\ stoppingTests' = <<>>
  /\ index' = [index EXCEPT ![l] = 1]
  /\ UNCHANGED <<testVars, queueVars, runningTests, currentTests, flagVars,
                 starterVars, toHandle, handled, handleTests, prepVars,
                 sessionVars>>

Finished == currentTests = 0 /\ stopHandler /\ finishTests

\* The positions of the tests that still run, and the k-th of them.
StillRunning == {i \in DOMAIN runningTests : runningTests[i] \in running}
Nth(k) == CHOOSE i \in StillRunning : Cardinality(StillRunning \cap 1 .. i) = k

\* The scan of _runningTests ends behind the test that fills _handleTests.
Found == IF Cardinality(StillRunning) < MaxConcurrent
           THEN Cardinality(StillRunning) ELSE MaxConcurrent
ScanEnd == IF Found < MaxConcurrent THEN Len(runningTests) ELSE Nth(Found)

\* Tests that no longer run are erased, the others are put into _handleTests;
\* without one the loop waits for work.
Collect(l) ==
  /\ ~Finished
  /\ LoopGoto(l, "collecting", IF currentTests = 0 /\ Found = 0
                                 THEN "idle" ELSE "handling")
  /\ runningTests' = [k \in 1 .. Found |-> runningTests[Nth(k)]] \o
                       SubSeq(runningTests, ScanEnd + 1, Len(runningTests))
  /\ handleTests' = [k \in DOMAIN handleTests |->
                       IF k <= Found THEN runningTests[Nth(k)]
                                     ELSE handleTests[k]]
  /\ toHandle' = [toHandle EXCEPT ![l] = Found]
  /\ index' = [index EXCEPT ![l] = 1]
  /\ UNCHANGED <<testVars, queueVars, stoppingTests, currentTests, flagVars,
                 starterVars, handled, prepVars, sessionVars>>

\* StopHandlerAfterTestsFinishAndWait: goto ExitHandler.
AllFinished(l) ==
  /\ Finished
  /\ LoopGoto(l, "collecting", "exit")
  /\ UNCHANGED <<testVars, queueVars, listVars, flagVars, starterVars,
                 toHandle, index, handled, handleTests, prepVars, sessionVars>>

WakeUp(l) ==
  /\ LockQueueFree
  /\ LoopGoto(l, "idle", IF stopHandler /\ ~finishTests THEN "break"
                                                        ELSE "top")
  /\ UNCHANGED <<testVars, queueVars, listVars, flagVars, starterVars,
                 toHandle, index, handled, handleTests, prepVars, sessionVars>>

\* The round is over, or this loop was replaced.
EndHandling(l) ==
  /\ index[l] > toHandle[l] \/ stopRequested[l]
  /\ LoopGoto(l, "handling", IF index[l] > toHandle[l] THEN "top" ELSE "gone")
  /\ index' = [index EXCEPT ![l] = 1]
  /\ toHandle' = [toHandle EXCEPT ![l] = 0]
  /\ UNCHANGED <<testVars, queueVars, listVars, flagVars, starterVars,
                 handled, handleTests, prepVars, sessionVars>>

Current(l) == handleTests[index[l]]

StillRuns(l) ==
  /\ loop[l] = "handling" /\ index[l] <= toHandle[l] /\ ~stopRequested[l]
  /\ proc[Current(l)] = "alive"
  /\ index' = [index EXCEPT ![l] = @ + 1]
  /\ UNCHANGED <<testVars, queueVars, listVars, flagVars, starterVars, loop,
                 toHandle, handled, handleTests, prepVars, sessionVars>>

\* The process has ended, or is killed for a broken pipe, its memory or its
\* time.
HasEnded(l) ==
  /\ index[l] <= toHandle[l] /\ ~stopRequested[l]
  /\ LoopGoto(l, "handling", "ended")
  /\ handled' = [handled EXCEPT ![l] = Current(l)]
  /\ proc' = [proc EXCEPT ![Current(l)] = "dead"]
  /\ UNCHANGED <<running, answers, queueVars, listVars, flagVars, starterVars,
                 toHandle, index, handleTests, prepVars, sessionVars>>

AfterTest == IF frozen THEN "deferring" ELSE "stopping"

\* Mutants of TestFinished: _running stays set, so that the test is handled
\* again; _frozen is not looked at.
FinishedMutant(l, next, left) ==
  /\ LoopGoto(l, "ended", IF stopRequested[l] THEN "gone" ELSE next)
  /\ running' = IF stopRequested[l] THEN running ELSE left
  /\ UNCHANGED <<proc, answers, queueVars, listVars, flagVars, starterVars,
                 toHandle, index, handled, handleTests, prepVars, sessionVars>>

FinishedStillRuns(l) == FinishedMutant(l, AfterTest, running)
FinishedFrozen(l)    == FinishedMutant(l, "stopping", running \ {handled[l]})

TestFinished(l) ==
  /\ LoopGoto(l, "ended", IF stopRequested[l] THEN "gone"
                          ELSE AfterTest)
  /\ running' = IF stopRequested[l] THEN running ELSE running \ {handled[l]}
  /\ UNCHANGED <<proc, answers, queueVars, listVars, flagVars, starterVars,
                 toHandle, index, handled, handleTests, prepVars, sessionVars>>

NextHandled(l) ==
  /\ index' = [index EXCEPT ![l] = @ + 1]
  /\ handled' = [handled EXCEPT ![l] = None]

StopHandled(l) ==
  /\ LoopGoto(l, "stopping", "handling")
  /\ StopTest(handled[l])
  /\ NextHandled(l)
  /\ UNCHANGED <<queueVars, runningTests, stoppingTests, flagVars,
                 starterVars, toHandle, handleTests, prepVars, sessionVars>>

DeferHandled(l) ==
  /\ LoopGoto(l, "deferring", "handling")
  /\ stoppingTests' = Append(stoppingTests, handled[l])
  /\ NextHandled(l)
  /\ UNCHANGED <<testVars, queueVars, runningTests, currentTests, flagVars,
                 starterVars, toHandle, handleTests, prepVars, sessionVars>>

\* The processes are killed; nobody calls the callbacks of these tests.
KillRunning(l) ==
  /\ LoopGoto(l, "break", "exit")
  /\ proc' = [t \in Tests |-> IF t \in ToSet(runningTests) THEN "dead"
                                                           ELSE proc[t]]
  /\ runningTests' = <<>>
  /\ UNCHANGED <<running, answers, queueVars, stoppingTests, currentTests,
                 flagVars, starterVars, toHandle, index, handled, handleTests,
                 prepVars, sessionVars>>

ExitHandler(l) ==
  /\ TopLevelFree
  /\ LoopGoto(l, "exit", "gone")
  /\ active' = FALSE
  /\ UNCHANGED <<testVars, queueVars, listVars, freeze, frozen, stopHandler,
                 finishTests, stopRequested, starterVars, toHandle, index,
                 handled, handleTests, prepVars, sessionVars>>

LoopStep(l) ==
  \/ ReadFreeze(l) \/ BecomeFrozen(l) \/ BecomeThawed(l) \/ CatchUp(l)
  \/ CaughtUp(l) \/ Collect(l) \/ AllFinished(l) \/ WakeUp(l)
  \/ EndHandling(l) \/ StillRuns(l) \/ HasEnded(l) \/ TestFinished(l)
  \/ StopHandled(l) \/ DeferHandled(l) \/ KillRunning(l) \/ ExitHandler(l)

\* ReinitHandler, called by the session's watchdog when the loop has been in
\* one call of the operating system for ten seconds: a write to a pipe before
\* it collects tests, a read or a kill before it sees that a test has ended,
\* or the wait for the process in StopTest.
ReinitHandler ==
  /\ course.reinits
  /\ loop[Second] = "none"
  /\ loop[First] \in {"catchingUp", "collecting", "ended", "stopping"}
  /\ stopRequested' = [stopRequested EXCEPT ![First] = TRUE]
  /\ loop' = [loop EXCEPT ![Second] = "top"]
  /\ UNCHANGED <<testVars, queueVars, listVars, freeze, frozen, stopHandler,
                 finishTests, active, starterVars, toHandle, index, handled,
                 handleTests, prepVars, sessionVars>>

-----------------------------------------------------------------------------
(* The session.                                                            *)

ControlGoto(from, to) == control = from /\ control' = to

\* Data::Save: RequestFreeze of the pool, Freeze(false) of the handler.
BeginSave ==
  /\ freezes < course.saves
  /\ ControlGoto("serving", "freezing")
  /\ freeze' = TRUE
  /\ freezes' = freezes + 1
  /\ UNCHANGED <<testVars, queueVars, listVars, frozen, stopHandler,
                 finishTests, active, stopRequested, starterVars, loopVars,
                 prepVars, course>>

\* Freeze spins until the loop has answered.
FreezeReturns ==
  /\ frozen \/ ~active
  /\ \/ ControlGoto("freezing", "settling")
     \/ ControlGoto("stilling", "clearing")
  /\ UNCHANGED <<testVars, queueVars, listVars, flagVars, starterVars,
                 loopVars, prepVars, freezes, course>>

\* Mutant of PoolFreezeReturns: the tasks that run are not waited for.
PoolFreezeReturnsAtOnce ==
  /\ ControlGoto("settling", "saving")
  /\ UNCHANGED <<testVars, queueVars, listVars, flagVars, starterVars,
                 loopVars, prepVars, freezes, course>>

\* TaskController::Freeze reads the _status of every thread, and all of them
\* again as long as one was Running.
NoneSeen  == [p \in Preparers |-> "none"]
Waiting   == {"idle", "taken"}
AllWaited == \A p \in Preparers : seen[p] \in Waiting

ReadStatus(p) ==
  /\ control \in {"settling", "draining"}
  /\ seen[p] = "none"
  /\ seen' = IF prep[p] \in Waiting THEN [seen EXCEPT ![p] = prep[p]]
                                    ELSE NoneSeen
  /\ UNCHANGED <<testVars, queueVars, listVars, flagVars, starterVars,
                 loopVars, prep, inHand, sessionVars>>

PoolFreezeReturns ==
  /\ ControlGoto("settling", "saving")
  /\ AllWaited
  /\ UNCHANGED <<testVars, queueVars, listVars, flagVars, starterVars,
                 loopVars, prepVars, freezes, course>>

\* The file is written; Thaw.
EndSave ==
  /\ ControlGoto("saving", "serving")
  /\ freeze' = FALSE
  /\ seen' = NoneSeen
  /\ UNCHANGED <<testVars, queueVars, listVars, frozen, stopHandler,
                 finishTests, active, stopRequested, starterVars, loopVars,
                 prep, inHand, freezes, course>>

\* StopSession(_, false): the pool is frozen first, then the handler.
EndSession ==
  /\ course.ends
  /\ ControlGoto("serving", "draining")
  /\ UNCHANGED <<testVars, queueVars, listVars, flagVars, starterVars,
                 loopVars, prepVars, freezes, course>>

FreezeForEnd ==
  /\ ControlGoto("draining", "stilling")
  /\ AllWaited
  /\ freeze' = TRUE
  /\ UNCHANGED <<testVars, queueVars, listVars, frozen, stopHandler,
                 finishTests, active, stopRequested, starterVars, loopVars,
                 prepVars, freezes, course>>

\* ClearTests takes _toplevelsync, then _lockqueue.
TakeTopLevel ==
  /\ ControlGoto("clearing", "wantsQueue")
  /\ UNCHANGED <<testVars, queueVars, listVars, flagVars, starterVars,
                 loopVars, prepVars, freezes, course>>

TakeLockQueue ==
  /\ starter # "filling"
  /\ ControlGoto("wantsQueue", "wantsStarter")
  /\ UNCHANGED <<testVars, queueVars, listVars, flagVars, starterVars,
                 loopVars, prepVars, freezes, course>>

\* The processes that run are killed and their tests stopped, and every queue
\* but _stoppingTests is emptied.
ClearBody ==
  LET kill == {t \in ToSet(runningTests) : proc[t] = "alive"} IN
  /\ answers' = [t \in Tests |-> IF t \in kill THEN answers[t] + 1
                                               ELSE answers[t]]
  /\ proc' = [t \in Tests |-> IF t \in kill THEN "dead" ELSE proc[t]]
  /\ waitingTests' = <<>> /\ waitingTestsExec' = <<>> /\ startingTests' = <<>>
  /\ runningTests' = <<>>
  /\ currentTests' = 0
  /\ UNCHANGED <<running, stoppingTests, initJobs>>

\* Mutant of ClearTests: _startingLock is not taken.
ClearTestsUnlocked ==
  /\ ControlGoto("wantsStarter", "emptying")
  /\ ClearBody
  /\ freeze' = FALSE
  /\ UNCHANGED <<frozen, stopHandler, finishTests, active, stopRequested,
                 starterVars, loopVars, prepVars, freezes, course>>

\* With _startingLock taken too, ClearTests does its work; Thaw.
ClearTests ==
  /\ StartingLockFree
  /\ ControlGoto("wantsStarter", "emptying")
  /\ ClearBody
  /\ freeze' = FALSE
  /\ UNCHANGED <<frozen, stopHandler, finishTests, active, stopRequested,
                 starterVars, loopVars, prepVars, freezes, course>>

\* ClearTasks and Thaw of the pool.
EmptyPool ==
  /\ ControlGoto("emptying", "ended")
  /\ initJobs' = 0
  /\ seen' = NoneSeen
  /\ UNCHANGED <<testVars, waitingTests, waitingTestsExec, startingTests,
                 listVars, flagVars, starterVars, loopVars, prep, inHand,
                 freezes, course>>

\* StopHandler, or StopHandlerAfterTestsFinishAndWait.
StopHandler(finish) ==
  /\ ControlGoto("serving", "stopped")
  /\ stopHandler' = TRUE
  /\ finishTests' = finish
  /\ UNCHANGED <<testVars, queueVars, listVars, freeze, frozen, active,
                 stopRequested, starterVars, loopVars, prepVars, freezes, course>>

SessionStep ==
  \/ FreezeReturns \/ PoolFreezeReturns \/ EndSave
  \/ FreezeForEnd \/ TakeTopLevel \/ TakeLockQueue \/ ClearTests \/ EmptyPool
  \/ \E p \in Preparers : ReadStatus(p)

-----------------------------------------------------------------------------
PrepareStep(p) ==
  \/ TakeInitJob(p) \/ BeginInit(p) \/ CheckPopulation(p) \/ PopWaiting(p)
  \/ PushPrepared(p) \/ PrepareFails(p)

\* The process of a test ends by itself.
ProcessEnds(t) ==
  /\ proc[t] = "alive"
  /\ proc' = [proc EXCEPT ![t] = "dead"]
  /\ UNCHANGED <<running, answers, queueVars, listVars, flagVars, starterVars,
                 loopVars, prepVars, sessionVars>>

Next ==
  \/ \E t \in Tests : AddTest(t) \/ ProcessEnds(t)
  \/ \E p \in Preparers : PrepareStep(p)
  \/ StarterStep
  \/ \E l \in Loops : LoopStep(l)
  \/ SessionStep
  \/ ReinitHandler \/ BeginSave \/ EndSession
  \/ \E finish \in course.stops : StopHandler(finish)

\* Every thread is scheduled, and a loop is not replaced twice; the session
\* finishes what it has begun; processes end, if only because the loop kills
\* them after their timeout, which it does unless one writes output for ever
\* (module TestPipes).  Nobody has to add, save, stop or end.
Fairness ==
  /\ WF_vars(StarterStep) /\ WF_vars(SessionStep)
  /\ \A l \in Loops : WF_vars(LoopStep(l))
  /\ \A p \in Preparers : WF_vars(PrepareStep(p))
  /\ WF_vars(\E t \in Tests : ProcessEnds(t))

Safety == Init /\ [][Next]_vars
Spec   == Safety /\ Fairness
-----------------------------------------------------------------------------
(* Properties.                                                             *)

\* The type invariant of the handler.
TypeOK ==
  /\ proc \in [Tests -> {"new", "queued", "alive", "dead"}]
  /\ running \subseteq Tests
  /\ answers \in [Tests -> Nat]
  /\ waitingTests \in Seq(Tests) /\ waitingTestsExec \in Seq(Tests)
  /\ startingTests \in Seq(Tests \cup {None})
  /\ runningTests \in Seq(Tests) /\ stoppingTests \in Seq(Tests)
  /\ currentTests \in Int
  /\ handleTests \in [1 .. MaxConcurrent -> Tests \cup {None}]
  /\ initJobs \in Nat
  /\ \A b \in {freeze, frozen, stopHandler, finishTests, active} : b \in BOOLEAN
  /\ stopRequested \in [Loops -> BOOLEAN]
  /\ starter \in {"top", "napping", "check", "locking", "filling", "starting",
                  "listing"}
  /\ newTests \in Nat
  /\ launched \in Tests \cup {None}
  /\ loop \in [Loops -> {"none", "top", "freezing", "thawing", "catchingUp",
                         "collecting", "idle", "handling", "ended",
                         "stopping", "deferring", "break", "exit", "gone"}]
  /\ toHandle \in [Loops -> 0 .. MaxConcurrent]
  /\ index \in [Loops -> Nat \ {0}]
  /\ handled \in [Loops -> Tests \cup {None}]
  /\ prep \in [Preparers -> {"idle", "taken", "check", "pop", "prepare"}]
  /\ inHand \in [Preparers -> Tests \cup {None}]
  /\ seen \in [Preparers -> {"none", "idle", "taken"}]
  /\ control \in {"serving", "freezing", "settling", "saving", "draining",
                  "stilling", "clearing", "wantsQueue", "wantsStarter",
                  "emptying", "ended", "stopped"}
  /\ course \in Courses /\ freezes \in 0 .. course.saves

\* A test waits, is prepared, is started or runs at one place only, whatever
\* threads pass it on: it can not be started twice.
Places == <<waitingTests, waitingTestsExec, startingTests, runningTests>>

StartedAtMostOnce ==
  /\ \A i \in DOMAIN Places :
       \A j, k \in DOMAIN Places[i] :
         Places[i][j] = Places[i][k] /\ Places[i][j] # None => j = k
  /\ \A i, j \in DOMAIN Places :
       i # j => ToSet(Places[i]) \cap ToSet(Places[j]) \subseteq {None}
  /\ \A p \in Preparers : inHand[p] # None =>
       \A i \in DOMAIN Places : inHand[p] \notin ToSet(Places[i])
  /\ launched # None => launched \notin ToSet(runningTests)

\* Until the session ends itself, and as long as the loop is not replaced: two
\* loops share _handleTests and may stop a test twice, and ClearTests and the
\* loop may both stop one.
Ordinary == control \notin {"emptying", "ended"} /\ loop[Second] = "none"

\* Then the callback of a test is called at most once, although the loop, the
\* starter and the tasks that prepare tests all call callbacks.
AnsweredAtMostOnce == Ordinary => \A t \in Tests : answers[t] <= 1

HandledOnce == StartedAtMostOnce /\ AnsweredAtMostOnce

\* And _currentTests is the number of tests that were started and not stopped,
\* and never exceeds the number that may run (TestStarter checks it without a
\* lock, InternalLoop decrements it).
Started == {t \in Tests : proc[t] \in {"alive", "dead"} /\ answers[t] = 0}

CurrentTestsExact ==
  Ordinary => /\ currentTests = Cardinality(Started)
              /\ currentTests <= MaxConcurrent

\* Between Freeze and Thaw no test that was started is stopped: the callbacks
\* of tests that end are kept back (ExecutionHandler.cpp:920-927).
FrozenKeepsResults ==
  [][active /\ Ordinary /\ control \in {"settling", "saving"}
       => \A t \in Started : answers'[t] = 0]_vars

\* What a save lists: WriteData.
Listed == ToSet(runningTests) \cup ToSet(stoppingTests) \cup
          ToSet(waitingTests) \cup ToSet(waitingTestsExec)
Unanswered == {t \in Tests : proc[t] # "new" /\ answers[t] = 0}

\* The tests that a preparer holds whose task Freeze took for none.
Overlooked == {inHand[p] : p \in {q \in Preparers : seen[q] = "taken"}}

\* A save misses no test but those that TestStarter is about to start, or a
\* task that Freeze overlooked is about to prepare: "save all tests running and
\* waiting as waiting tests", ExecutionHandler.cpp:1095.
SaveMissesOnlyHeld ==
  control = "saving" /\ active /\ Ordinary =>
    Unanswered \subseteq
      Listed \cup ToSet(startingTests) \cup {launched} \cup Overlooked

\* When ClearTests is done, no test waits, is about to start or has a process
\* (Session.cpp:302-305, any ongoing stuff is ended): none is left but in the
\* hands of a task that Freeze overlooked.
ClearLeavesOnlyHeld ==
  [][control = "wantsStarter" /\ control' = "emptying" =>
       /\ launched = None
       /\ \A p \in Preparers : inHand[p] # None => seen[p] = "taken"
       /\ \A t \in Tests : proc'[t] # "alive"]_vars

\* Unless the session stops or ends the handler, every test that is added is
\* answered: from some point on none waits for its answer, whatever failed, was
\* frozen or replaced meanwhile.
Serves == control \in {"serving", "freezing", "settling", "saving"}

EveryTestAnswered == <>[](Serves => Unanswered = {})
=============================================================================
