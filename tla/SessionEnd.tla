------------------------------ MODULE SessionEnd ----------------------------
(***************************************************************************)
(* How a session is saved while it runs and how it ends: SaveCheck,        *)
(* EndCheck, MasterControl and the threads they detach                     *)
(* (src/src/SessionFunctions.cpp), Data::Save as far as it stops and       *)
(* resumes the pool and the execution handler (src/src/Data.cpp), and      *)
(* StopSession and End (src/src/Session.cpp), over the generations of      *)
(* GenerationCycle.  A freeze of the pool returns when all of its threads  *)
(* wait for tasks; one that is in WaitForGen does not.                     *)
(***************************************************************************)
EXTENDS GenerationCycle

CONSTANTS
  Savers,           \* bound on the threads that run SaveSession_Async at once
  Ender,            \* the thread that runs EndSession_Async
  Goal,             \* conditions.generations
  Endings           \* values of terms

Detached == Savers \cup {Ender}

ASSUME SessionAssumption ==
  /\ Ender \notin Savers
  /\ Goal \in Nat \ {0}
  /\ Endings \subseteq
       [ends : {"never", "generations", "timeout", "memory"},
        session : Configurations,
        autosaves : BOOLEAN,     \* saves.autosave_every_tests
        prompt : BOOLEAN]        \* a detached thread goes on from its save before
                                 \* the pool takes another task

VARIABLES
  terms,            \* when the session ends and is saved
  number,           \* GetGenerationNumber, at most Goal + 1
  due,              \* the timeout is over, or the memory is above the limit
  tested,           \* a test has ended since the last autosave
  memory,           \* "fine", "out" (_memory_outofmemory) or "ending"
  blocked,          \* _blockInputGeneration
  skipping,         \* checkendconditionsskipsaving
  thread,           \* what each detached thread does, and whether the end of a
                    \* generation goes on after it
  savelock,         \* who holds _savelock
  frozen,           \* _freeze of the task controller
  handlerFrozen,    \* _freeze of the execution handler
  abort,            \* _abort
  finished          \* _hasFinished

checkVars  == <<tested, memory, blocked, skipping>>
freezeVars == <<frozen, handlerFrozen>>
stopVars   == <<abort, finished>>
sessionVars == <<terms, number, due, checkVars, thread, savelock, freezeVars, stopVars>>
allVars == <<vars, sessionVars>>

NoThread == [at |-> "none", ended |-> FALSE]
Nobody == "nobody"

SessionInit ==
  /\ terms \in Endings
  /\ Init /\ params = terms.session
  /\ number = 1 /\ due = FALSE
  /\ tested = FALSE /\ memory = "fine" /\ blocked = FALSE /\ skipping = FALSE
  /\ thread = [t \in Detached |-> NoThread] /\ savelock = Nobody
  /\ frozen = FALSE /\ handlerFrozen = FALSE
  /\ abort = FALSE /\ finished = FALSE

Detach(threads, t, at, ended) == [threads EXCEPT ![t] = [at |-> at, ended |-> ended]]

\* A second EndSession_Async finds _endMutex locked, or the session aborted.
DetachEnder(threads, ended) ==
  IF threads[Ender].at = "none" /\ ~abort THEN Detach(threads, Ender, "end", ended) ELSE threads

-----------------------------------------------------------------------------
(* EndCheck.                                                               *)

DeltaDebuggingActive == \E c \in Controllers : Active(c)

\* Conditions like the one on generations count only when one has ended.
GoalReached(ended) == terms.ends = "generations" /\ ended /\ number = Goal

ConditionMet(ended) ==
  \/ terms.ends = "timeout" /\ due
  \/ GoalReached(ended) /\ ~DeltaDebuggingActive

\* Without an end the next one is saved; while delta debugging is active the end
\* waits, and no more inputs are generated.
EndCheck(ended) ==
  /\ skipping' = (skipping /\ ConditionMet(ended))
  /\ blocked' = (blocked \/ (GoalReached(ended) /\ DeltaDebuggingActive))

-----------------------------------------------------------------------------
(* MasterControl, with the threads that have been detached before, and      *)
(* whether a test has ended since the last autosave.                        *)

\* Above the limit memory is reclaimed; if that has not helped in time, the
\* session ends.
MemoryCheck(threads) ==
  LET above == terms.ends = "memory" /\ due
      next == CASE memory = "fine"   -> IF above THEN "out" ELSE "fine"
                [] memory = "out"    -> IF above THEN "ending" ELSE "fine"
                [] memory = "ending" -> "ending"
  IN  /\ memory' = next
      /\ thread' = IF next # memory /\ next = "ending" THEN DetachEnder(threads, FALSE)
                                                      ELSE threads

MasterControl(threads, ran) ==
  /\ EndCheck(FALSE)
  /\ IF ConditionMet(FALSE)
       THEN /\ thread' = DetachEnder(threads, FALSE)
            /\ tested' = ran
            /\ UNCHANGED memory
       ELSE \/ MemoryCheck(threads) /\ tested' = ran
            \/ /\ terms.autosaves /\ ran
               /\ \E t \in Savers : /\ threads[t].at = "none"
                                    /\ MemoryCheck(Detach(threads, t, "save", FALSE))
               /\ tested' = FALSE
  /\ UNCHANGED <<terms, number, due, savelock, freezeVars, stopVars>>

-----------------------------------------------------------------------------
(* The threads of the pool.                                                *)

\* A thread that has saved, or is about to end the session.
GoesOn(t) == thread[t].at \in {"saved", "check", "end", "stop"}

\* The predicate of the condition variable.
TakeTaskUnfrozen(w) ==
  /\ ~frozen
  /\ terms.prompt => \A t \in Detached : ~GoesOn(t)
  /\ TakeTask(w)
  /\ UNCHANGED sessionVars

ReserveUnlessBlocked(w) == ~blocked /\ Reserve(w) /\ UNCHANGED sessionVars

\* MasterGenerationCallback when input generation is blocked.
Refuse(w) ==
  /\ worker[w].at = "generate"
  /\ blocked
  /\ callbacks' = callbacks - 1
  /\ Ends(w)
  /\ UNCHANGED <<params, countVars, flagVars, tests, light, heavy, controller, saving,
                 mishaps, sessionVars>>

\* TestCallback::Run ends with MasterControl.
RequestInputsAndCheck(w) == RequestInputs(w) /\ MasterControl(thread, TRUE)

\* A task that could make nothing looks whether the session ends.
ChecksEnd(w) == worker[w].at = "failed" /\ ~worker[w].made /\ ~ending

EndGeneratingAndCheck(w) ==
  \/ /\ ~ChecksEnd(w)
     /\ EndGenerating(w)
     /\ UNCHANGED sessionVars
  \/ /\ ChecksEnd(w) /\ ~ConditionMet(FALSE)
     /\ EndGenerating(w)
     /\ EndCheck(FALSE)
     /\ UNCHANGED <<terms, number, due, tested, memory, thread, savelock, freezeVars, stopVars>>
  \/ /\ ChecksEnd(w) /\ ConditionMet(FALSE)
     /\ generated' = generated - worker[w].left
     /\ active' = Larger(active - worker[w].left, 0)
     /\ callbacks' = callbacks - 1
     /\ Ends(w)
     /\ EndCheck(FALSE)
     /\ thread' = DetachEnder(thread, FALSE)
     /\ UNCHANGED <<params, flagVars, tests, light, heavy, controller, saving, mishaps,
                    terms, number, due, tested, memory, savelock, freezeVars, stopVars>>

\* The end of a generation: the session goes on with SaveCheck and
\* MasterControl, or ends.
SaveOrEnd(w) ==
  \/ /\ ~ConditionMet(TRUE)
     /\ SaveCheck(w)
     /\ IF params.saves
          THEN \E t \in Savers : /\ thread[t].at = "none"
                                 /\ MasterControl(Detach(thread, t, "save", TRUE), tested)
          ELSE MasterControl(thread, tested)
  \/ /\ ConditionMet(TRUE)
     /\ worker[w].at = "finishing" /\ Alone(w) /\ ~DeltaDebuggingActive
     /\ Ends(w)
     /\ EndCheck(TRUE)
     /\ thread' = DetachEnder(thread, TRUE)
     /\ UNCHANGED <<params, countVars, flagVars, tests, poolVars, controller, saving,
                    mishaps, terms, number, due, tested, memory, savelock, freezeVars, stopVars>>

SetNextGeneration(w) ==
  /\ SetNewGeneration(w)
  /\ number' = IF terms.ends = "generations" THEN Smaller(number + 1, Goal + 1) ELSE number
  /\ UNCHANGED <<terms, due, checkVars, thread, savelock, freezeVars, stopVars>>

PoolThread(w) ==
  \/ TakeTaskUnfrozen(w) \/ ReserveUnlessBlocked(w) \/ Refuse(w)
  \/ RequestInputsAndCheck(w) \/ EndGeneratingAndCheck(w)
  \/ SaveOrEnd(w) \/ SetNextGeneration(w)
  \/ Proceed(w) /\ UNCHANGED sessionVars

-----------------------------------------------------------------------------
(* Data::Save, in a thread of SaveSession_Async or EndSession_Async.       *)

AllWait == \A w \in Workers : worker[w].at = "waiting"

Continues(t, at) == thread' = [thread EXCEPT ![t].at = at]

\* What is done after the save.
After(t) == IF t = Ender THEN "stop" ELSE "saved"

\* The lock is taken and the pool is asked to freeze, unless the file cannot be
\* opened.
BeginSave(t) ==
  /\ thread[t].at = "save"
  /\ savelock = Nobody
  /\ savelock' = t
  /\ \/ frozen' = TRUE /\ Continues(t, "freeze")
     \/ UNCHANGED frozen /\ Continues(t, "call")
  /\ UNCHANGED <<vars, terms, number, due, checkVars, handlerFrozen, stopVars>>

\* The lock is held by another save: nothing is saved, and the callback is
\* dropped.
SkipSave(t) ==
  /\ thread[t].at = "save"
  /\ savelock # Nobody
  /\ IF thread[t].ended /\ t # Ender THEN SaveIsSkipped ELSE UNCHANGED vars
  /\ Continues(t, After(t))
  /\ UNCHANGED <<terms, number, due, checkVars, savelock, freezeVars, stopVars>>

FreezeHandler(t) ==
  /\ thread[t].at = "freeze"
  /\ handlerFrozen' = TRUE /\ frozen' = TRUE
  /\ Continues(t, "wait")
  /\ UNCHANGED <<vars, terms, number, due, checkVars, savelock, stopVars>>

\* TaskController::Freeze returns.
WaitFrozen(t) ==
  /\ thread[t].at = "wait"
  /\ AllWait
  /\ Continues(t, "write")
  /\ UNCHANGED <<vars, terms, number, due, checkVars, savelock, freezeVars, stopVars>>

Thaw(t) ==
  /\ thread[t].at = "write"
  /\ frozen' = FALSE /\ handlerFrozen' = FALSE
  /\ Continues(t, "call")
  /\ UNCHANGED <<vars, terms, number, due, checkVars, savelock, stopVars>>

\* The callback is queued and the lock released.
CallBack(t) ==
  /\ thread[t].at = "call"
  /\ savelock' = Nobody
  /\ Continues(t, After(t))
  /\ \/ thread[t].ended /\ t # Ender /\ SaveEnds
     \/ /\ thread[t].ended /\ t = Ender
        /\ AddTasks(<<"renew">>)
        /\ UNCHANGED <<params, countVars, flagVars, tests, light, callbacks, worker,
                       controller, saving, mishaps>>
     \/ ~thread[t].ended /\ UNCHANGED vars
  /\ UNCHANGED <<terms, number, due, checkVars, freezeVars, stopVars>>

-----------------------------------------------------------------------------
(* SaveSession_Async after the save: EndCheck, for a generation that may    *)
(* have been replaced since.                                               *)

Saved(t) ==
  /\ thread[t].at = "saved"
  /\ skipping' = TRUE
  /\ Continues(t, "check")
  /\ UNCHANGED <<vars, terms, number, due, tested, memory, blocked, savelock, freezeVars, stopVars>>

CheckAfterSave(t) ==
  /\ thread[t].at = "check"
  /\ EndCheck(thread[t].ended)
  /\ LET others == [thread EXCEPT ![t] = NoThread]
     IN  thread' = IF ConditionMet(thread[t].ended) THEN DetachEnder(others, thread[t].ended)
                                                    ELSE others
  /\ UNCHANGED <<vars, terms, number, due, tested, memory, savelock, freezeVars, stopVars>>

Saver(t) ==
  \/ BeginSave(t) \/ SkipSave(t) \/ FreezeHandler(t) \/ WaitFrozen(t) \/ Thaw(t) \/ CallBack(t)
  \/ Saved(t) \/ CheckAfterSave(t)

-----------------------------------------------------------------------------
(* EndSession_Async and StopSession(false, false).                         *)

\* The session is saved unless it has just been.
BeginEnd ==
  /\ thread[Ender].at = "end"
  /\ Continues(Ender, IF skipping THEN "stop" ELSE "save")
  /\ UNCHANGED <<vars, terms, number, due, checkVars, savelock, freezeVars, stopVars>>

Stop ==
  /\ thread[Ender].at = "stop"
  /\ skipping' = FALSE
  /\ abort' = TRUE
  /\ frozen' = TRUE
  /\ Continues(Ender, "stopping")
  /\ UNCHANGED <<vars, terms, number, due, tested, memory, blocked, savelock, handlerFrozen, finished>>

\* Mutant of ClearTests: the freeze is requested and not waited for.
ClearTestsAtOnce ==
  /\ thread[Ender].at = "stopping"
  /\ tests' = 0
  /\ controller' = [c \in Controllers |->
       IF Busy(c) THEN [controller[c] EXCEPT !.state = "hung"] ELSE controller[c]]
  /\ handlerFrozen' = FALSE
  /\ Continues(Ender, "clearing")
  /\ UNCHANGED <<params, countVars, flagVars, poolVars, worker, saving, mishaps, terms, number,
                 due, checkVars, savelock, frozen, stopVars>>

\* When the pool is frozen, the handler is, and its tests are cleared, those of
\* delta debugging with them; then it is thawed.
ClearTests ==
  /\ thread[Ender].at = "stopping"
  /\ AllWait
  /\ tests' = 0
  /\ controller' = [c \in Controllers |->
       IF Busy(c) THEN [controller[c] EXCEPT !.state = "hung"] ELSE controller[c]]
  /\ handlerFrozen' = FALSE
  /\ Continues(Ender, "clearing")
  /\ UNCHANGED <<params, countVars, flagVars, poolVars, worker, saving, mishaps, terms, number,
                 due, checkVars, savelock, frozen, stopVars>>

\* The tasks are cleared, the pool is thawed, and everybody who waits for the
\* session is told.
ClearTasks ==
  /\ thread[Ender].at = "clearing"
  /\ light' = 0 /\ heavy' = <<>>
  /\ callbacks' = callbacks - Cardinality({i \in 1 .. Len(heavy) : heavy[i] = "generate"})
  /\ frozen' = FALSE
  /\ finished' = TRUE
  /\ Continues(Ender, "none")
  /\ UNCHANGED <<params, countVars, flagVars, tests, worker, controller, saving, mishaps, terms,
                 number, due, checkVars, savelock, handlerFrozen, abort>>

EndSession ==
  \/ BeginEnd
  \/ BeginSave(Ender) \/ SkipSave(Ender) \/ FreezeHandler(Ender) \/ WaitFrozen(Ender)
  \/ Thaw(Ender) \/ CallBack(Ender)
  \/ Stop \/ ClearTests \/ ClearTasks

-----------------------------------------------------------------------------
(* The tests, the watchdog and time.                                       *)

HandlerStep == ~handlerFrozen /\ ExecuteTests /\ UNCHANGED sessionVars

DeltaStep(c) == ~handlerFrozen /\ ~frozen /\ DeltaDebugging(c) /\ UNCHANGED sessionVars

\* A save that takes less than a second is over before a late look.
SessionControl(late) ==
  /\ ~abort /\ ~frozen /\ ~handlerFrozen
  /\ late /\ ~params.slowSave => \A t \in Detached : thread[t].at = "none"
  /\ Look(late)
  /\ UNCHANGED sessionVars

\* The timeout is over, or the memory rises above the limit or sinks below it.
TimePasses ==
  /\ \/ terms.ends = "timeout" /\ due' = TRUE
     \/ terms.ends = "memory" /\ due' = ~due
  /\ UNCHANGED <<vars, terms, number, checkVars, thread, savelock, freezeVars, stopVars>>

SessionNext ==
  \/ \E w \in Workers : PoolThread(w)
  \/ \E t \in Savers : Saver(t)
  \/ EndSession
  \/ HandlerStep
  \/ \E c \in Controllers : DeltaStep(c)
  \/ \E late \in BOOLEAN : SessionControl(late)
  \/ TimePasses

\* Threads run, tests end, delta debugging ends or hangs, the watchdog looks
\* every half a second, and time passes.
SessionFairness ==
  /\ \A w \in Workers : WF_allVars(PoolThread(w))
  /\ \A t \in Savers : WF_allVars(Saver(t))
  /\ WF_allVars(EndSession) /\ WF_allVars(HandlerStep)
  /\ \A c \in Controllers : WF_allVars(DeltaStep(c))
  /\ WF_allVars(SessionControl(FALSE)) /\ WF_allVars(SessionControl(TRUE))
  /\ WF_allVars(TimePasses)

SessionSpec == SessionInit /\ [][SessionNext]_allVars /\ SessionFairness

-----------------------------------------------------------------------------
(* Properties.                                                             *)

\* SaveSession_Async looks for the end of a generation that the callback of its
\* save may have replaced, unless it is prompt: such a session may end in the
\* middle of its last generation, or hang, or go on after its end.
ChecksLate == terms.ends = "generations" /\ params.saves /\ ~terms.prompt

\* After the end of a session is announced nothing is done for it any more: no
\* test and no task is left, no thread has one, and nobody saves.
StoppedForGood ==
  finished /\ ~ChecksLate =>
    /\ tests = 0 /\ light = 0 /\ heavy = <<>>
    /\ AllWait
    /\ \A c \in Controllers : ~Busy(c)
    /\ savelock = Nobody

\* A session that has a number of generations or a time limit ends, and without
\* an end a session goes on, generation after generation.
SessionGoesOnOrEnds ==
  /\ terms.ends = "timeout" \/ (terms.ends = "generations" /\ terms.prompt) => <>finished
  /\ <>(finished \/ ChecksLate) \/ GenerationsGoOn

\* A save that waits for the threads of the pool is written.
SavesEnd == \A t \in Savers : thread[t].at = "wait" ~> thread[t].at = "write"
=============================================================================
