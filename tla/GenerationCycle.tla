--------------------------- MODULE GenerationCycle --------------------------
(***************************************************************************)
(* How one generation of inputs follows another (src/src/Generation.cpp,   *)
(* SessionData.cpp, SessionFunctions.cpp and the watchdog of Session.cpp). *)
(* Tasks of the pool fill a generation with inputs; their tests end, and   *)
(* some of them start delta debugging; whoever finds the generation used   *)
(* up sets _generationEnding and queues GenerationEndCallback, whose       *)
(* successors GenerationFinishedCallback wait for everything to stop and   *)
(* put a new generation in its place.                                      *)
(*                                                                         *)
(* Tests and delta controllers are modelled by what the cycle sees of them *)
(* (ExecutionHandler and DeltaDebugging have the details).  The pool has   *)
(* threads that serve all queues and count as working from the moment they *)
(* take a task.  SessionEnd composes these actions with the saves and the  *)
(* end of a session, and has the next-state relation.                      *)
(***************************************************************************)
EXTENDS Integers, Sequences, FiniteSets

CONSTANTS
  Workers,          \* threads of the pool
  Controllers,      \* the delta controllers of a generation
  Configurations,   \* values of params
  MaxActive,        \* _maxActiveInputs
  Step,             \* _maxSimultaneousGeneration
  MaxCallbacks      \* _max_generation_callbacks

ASSUME GenerationAssumption ==
  /\ Configurations \subseteq
       [workers : (SUBSET Workers) \ {{}},
        target : Nat \ {0},      \* _targetSize
        mishaps : Nat,           \* bound on tests that fail to start or are
                                 \* repeated and controllers that hang, per
                                 \* generation
        optimize : BOOLEAN,      \* dd.allowScoreOptimization
        hangs : BOOLEAN,         \* controllers may need the watchdog
        saves : BOOLEAN,         \* saves.saveAfterEachGeneration
        slowSave : BOOLEAN]      \* saving may take more than a second
  /\ IsFiniteSet(Workers)
  /\ {MaxActive, Step, MaxCallbacks} \subseteq Nat \ {0}

VARIABLES
  params,           \* the configuration
  generated,        \* _generatedSize of the current generation
  active,           \* _activeInputs of the current generation
  ending,           \* _generationEnding
  finishing,        \* _generationFinishing
  tests,            \* how many tests the execution handler has
  light,            \* how many TestCallbacks wait in the pool
  heavy,            \* the kinds of the heavy tasks that wait in the pool
  callbacks,        \* _active_generation_callbacks
  worker,           \* what each thread does
  controller,       \* each delta controller, and whether it has a
                    \* GenerationFinishedCallback
  saving,           \* how many threads run SaveSession_Async
  mishaps           \* counted up to params.mishaps

countVars == <<generated, active>>
flagVars  == <<ending, finishing>>
poolVars  == <<light, heavy, callbacks>>
vars == <<params, countVars, flagVars, tests, poolVars, worker, controller,
          saving, mishaps>>

Smaller(a, b) == IF a < b THEN a ELSE b
Larger(a, b)  == IF a > b THEN a ELSE b

\* A thread: how many inputs it is still to make and whether it made one;
\* which controllers it is still to look at, which it has looked at, and whether
\* one will call back.
Waiting ==
  [at |-> "waiting", left |-> 0, made |-> FALSE, todo |-> {}, with |-> {}, begun |-> FALSE]

NoController == [state |-> "none", listed |-> FALSE]

\* The session has been kicked off: one task is to generate inputs.
Init ==
  /\ params \in Configurations
  /\ generated = 0 /\ active = 0
  /\ ending = FALSE /\ finishing = FALSE
  /\ tests = 0 /\ light = 0
  /\ heavy = <<"generate">> /\ callbacks = 1
  /\ worker = [w \in Workers |-> Waiting]
  /\ controller = [c \in Controllers |-> NoController]
  /\ saving = 0 /\ mishaps = 0

Goes(w, at) == worker' = [worker EXCEPT ![w].at = at]
Ends(w)     == worker' = [worker EXCEPT ![w] = Waiting]

AddTasks(kinds) == heavy' = heavy \o kinds

Busy(c)   == controller[c].state = "busy"
Active(c) == controller[c].state \in {"busy", "hung"}

\* What the watchdog sees if nothing waits to be done.
Idle == tests = 0 /\ light = 0 /\ heavy = <<>> /\ \A c \in Controllers : ~Busy(c)

\* WaitForGen, and the condition of a single thread to queue itself again:
\* nobody else works.  The timeout of its second loop is compared the wrong
\* way round, so that it does not wait for active inputs.
Alone(w) == Idle /\ \A v \in Workers \ {w} : worker[v].at = "waiting"

-----------------------------------------------------------------------------
(* CheckGenerationEnd and GenerateTests.                                   *)

IsActive == ~(active = 0 /\ generated >= params.target)
NeedsGeneration == generated # params.target

\* CheckSourceValidity always finds a source, as its result is or-ed to TRUE.
UsedUp(toomanyfails) ==
  \/ ~IsActive
  \/ ~NeedsGeneration /\ tests = 0
  \/ toomanyfails

CheckGenerationEnd(toomanyfails) ==
  LET ends == UsedUp(toomanyfails) /\ ~ending
  IN  /\ ending' = (ending \/ ends)
      /\ AddTasks(IF ends THEN <<"end">> ELSE <<>>)

\* At most MaxCallbacks tasks that generate inputs are queued or run.
GenerateTests ==
  IF callbacks < MaxCallbacks
    THEN /\ callbacks' = callbacks + 1
         /\ AddTasks(<<"generate">>)
    ELSE UNCHANGED <<callbacks, heavy>>

-----------------------------------------------------------------------------
(* The pool: light tasks first, then the others in order.                  *)

TakeTask(w) ==
  /\ w \in params.workers
  /\ worker[w].at = "waiting"
  /\ \/ /\ light > 0
        /\ light' = light - 1
        /\ Goes(w, "test end")
        /\ UNCHANGED heavy
     \/ /\ light = 0 /\ heavy # <<>>
        /\ heavy' = Tail(heavy)
        /\ Goes(w, Head(heavy))
        /\ UNCHANGED light
  /\ UNCHANGED <<params, countVars, flagVars, tests, callbacks, controller, saving,
                 mishaps>>

-----------------------------------------------------------------------------
(* MasterGenerationCallback::Run.  From Reserve to the end of the task the *)
(* thread holds the readers lock.                                          *)

Replacing == \E w \in Workers : worker[w].at = "restarting"
Generating == \E w \in Workers : worker[w].at \in {"making", "failed"}

\* Mutant of Reservable: only the size of the generation limits it.
ReservableToTarget(size, running) ==
  IF size >= params.target THEN 0 ELSE Smaller(Step, params.target - size)

Reservable(size, running) ==
  IF size >= params.target \/ running >= MaxActive THEN 0
  ELSE Smaller(Smaller(MaxActive - running, Step), params.target - size)

\* CanGenerate.  With nothing to reserve and no test, the count of active
\* inputs must be wrong and is reset.
Reserve(w) ==
  /\ worker[w].at = "generate"
  /\ ~Replacing
  /\ LET running == IF Reservable(generated, active) = 0 /\ NeedsGeneration /\ tests = 0
                      THEN 0 ELSE active
         n == Reservable(generated, running)
     IN  /\ active' = running + n
         /\ generated' = generated + n
         /\ IF n = 0
              THEN Ends(w) /\ callbacks' = callbacks - 1
              ELSE /\ worker' = [worker EXCEPT ![w] = [Waiting EXCEPT !.at = "making", !.left = n]]
                   /\ UNCHANGED callbacks
  /\ UNCHANGED <<params, flagVars, tests, light, heavy, controller, saving, mishaps>>

\* An input is generated and its test is added.
MakeInput(w) ==
  /\ worker[w].at = "making"
  /\ worker[w].left > 0 /\ ~ending
  /\ tests' = tests + 1
  /\ worker' = [worker EXCEPT ![w].left = @ - 1, ![w].made = TRUE]
  /\ UNCHANGED <<params, countVars, flagVars, poolVars, controller, saving, mishaps>>

\* GENERATION_RETRIES inputs were of no use.
GiveUp(w) ==
  /\ worker[w].at = "making"
  /\ worker[w].left > 0 /\ ~ending
  /\ Goes(w, "failed")
  /\ UNCHANGED <<params, countVars, flagVars, tests, poolVars, controller, saving,
                 mishaps>>

\* No source is left, and what was reserved stays reserved.
NoRandomSource(w) ==
  /\ worker[w].at = "making"
  /\ worker[w].left > 0 /\ ~ending
  /\ CheckGenerationEnd(TRUE)
  /\ callbacks' = callbacks - 1
  /\ Ends(w)
  /\ UNCHANGED <<params, countVars, finishing, tests, light, controller, saving, mishaps>>

\* FailGeneration returns what was reserved and not made.  A task that could
\* make nothing ends the generation.
EndGenerating(w) ==
  /\ \/ worker[w].at = "failed"
     \/ worker[w].at = "making" /\ (worker[w].left = 0 \/ ending)
  /\ generated' = generated - worker[w].left
  /\ active' = Larger(active - worker[w].left, 0)
  /\ IF worker[w].at = "failed" /\ ~worker[w].made
       THEN CheckGenerationEnd(TRUE)
       ELSE UNCHANGED <<ending, heavy>>
  /\ callbacks' = callbacks - 1
  /\ Ends(w)
  /\ UNCHANGED <<params, finishing, tests, light, controller, saving, mishaps>>

-----------------------------------------------------------------------------
(* Tests and their callbacks.                                              *)

\* StopTest.
StopTest ==
  /\ tests > 0
  /\ tests' = tests - 1
  /\ active' = Larger(active - 1, 0)
  /\ light' = light + 1
  /\ UNCHANGED <<params, generated, flagVars, heavy, callbacks, worker, controller,
                 saving, mishaps>>

\* StartTest finds a duplicate or the process cannot be started.
FailTest ==
  /\ tests > 0 /\ mishaps < params.mishaps
  /\ mishaps' = mishaps + 1
  /\ tests' = tests - 1
  /\ generated' = generated - 1
  /\ active' = Larger(active - 1, 0)
  /\ light' = light + 1
  /\ UNCHANGED <<params, flagVars, heavy, callbacks, worker, controller, saving>>

\* TestEnd, up to CheckGenerationEnd.
TestEnd(w) ==
  /\ worker[w].at = "test end"
  /\ CheckGenerationEnd(FALSE)
  /\ Goes(w, "request")
  /\ UNCHANGED <<params, countVars, finishing, tests, light, callbacks, controller,
                 saving, mishaps>>

\* The oracle asks for a repetition: the input is active again and is not
\* counted again.
RepeatTest(w) ==
  /\ worker[w].at = "test end"
  /\ mishaps < params.mishaps
  /\ mishaps' = mishaps + 1
  /\ tests' = tests + 1
  /\ Ends(w)
  /\ UNCHANGED <<params, countVars, flagVars, poolVars, controller, saving>>

\* A good result is delta debugged; then inputs are generated in place of this
\* one.
RequestInputs(w) ==
  /\ worker[w].at = "request"
  /\ \/ UNCHANGED controller
     \/ \E c \in Controllers :
          /\ controller[c].state = "none"
          /\ controller' = [controller EXCEPT ![c].state = "busy"]
  /\ GenerateTests
  /\ Ends(w)
  /\ UNCHANGED <<params, countVars, flagVars, tests, light, saving, mishaps>>

\* Finish of a delta controller.
EndDeltaDebugging(c) ==
  /\ Busy(c)
  /\ controller' = [controller EXCEPT ![c].state = "finished"]
  /\ AddTasks(IF controller[c].listed THEN <<"finish">> ELSE <<>>)
  /\ UNCHANGED <<params, countVars, flagVars, tests, light, callbacks, worker, saving,
                 mishaps>>

\* The count of its level is off: nothing is left to be done for it.
HangDeltaDebugging(c) ==
  /\ params.hangs /\ mishaps < params.mishaps
  /\ Busy(c)
  /\ mishaps' = mishaps + 1
  /\ controller' = [controller EXCEPT ![c].state = "hung"]
  /\ UNCHANGED <<params, countVars, flagVars, tests, poolVars, worker, saving>>

-----------------------------------------------------------------------------
(* GenerationEndCallback::Run.                                             *)

QueuesItself(w) == params.workers = {w} /\ ~Alone(w)

EndGeneration(w) ==
  /\ worker[w].at = "end"
  /\ IF QueuesItself(w)
       THEN AddTasks(<<"end">>) /\ Ends(w)
       ELSE /\ Alone(w)
            /\ worker' = [worker EXCEPT
                 ![w].at = IF params.optimize THEN "optimizing" ELSE "selecting",
                 ![w].todo = {c \in Controllers : controller[c].state # "none"}]
            /\ UNCHANGED heavy
  /\ UNCHANGED <<params, countVars, flagVars, tests, light, callbacks, controller,
                 saving, mishaps>>

\* Delta debugging of a good input begins with a GenerationFinishedCallback.
StartScoreOptimization(w, c) ==
  /\ worker[w].at = "optimizing"
  /\ controller[c].state = "none"
  /\ controller' = [controller EXCEPT ![c] = [state |-> "busy", listed |-> TRUE]]
  /\ worker' = [worker EXCEPT ![w].begun = TRUE]
  /\ UNCHANGED <<params, countVars, flagVars, tests, poolVars, saving, mishaps>>

\* Is a controller that was there before Finished?  With score optimization,
\* one that is not is relied on from now on.
LookAtController(w, c) ==
  /\ worker[w].at \in {"optimizing", "selecting"}
  /\ c \in worker[w].todo
  /\ worker' = [worker EXCEPT
       ![w].at = IF Active(c) THEN "attaching" ELSE "selecting",
       ![w].todo = IF Active(c) THEN @ ELSE @ \ {c},
       ![w].with = IF Active(c) THEN {c} ELSE {},
       ![w].begun = @ \/ (params.optimize /\ Active(c))]
  /\ UNCHANGED <<params, countVars, flagVars, tests, poolVars, controller, saving,
                 mishaps>>

\* Mutant of AttachCallback: what AddCallback returns is not looked at.
AttachCallbackAnyway(w, c) ==
  /\ worker[w].at = "attaching"
  /\ worker[w].with = {c}
  /\ controller' = [controller EXCEPT ![c].listed = @ \/ Active(c)]
  /\ worker' = [worker EXCEPT ![w].at = "selecting", ![w].with = {}, ![w].todo = @ \ {c},
                              ![w].begun = TRUE]
  /\ UNCHANGED <<params, countVars, flagVars, tests, poolVars, saving, mishaps>>

\* AddCallback, which refuses if the controller has finished in the meantime.
AttachCallback(w, c) ==
  /\ worker[w].at = "attaching"
  /\ worker[w].with = {c}
  /\ controller' = [controller EXCEPT ![c].listed = @ \/ Active(c)]
  /\ worker' = [worker EXCEPT ![w].at = "selecting", ![w].with = {}, ![w].todo = @ \ {c},
                              ![w].begun = @ \/ Active(c)]
  /\ UNCHANGED <<params, countVars, flagVars, tests, poolVars, saving, mishaps>>

\* If no controller is to go on with the end of the generation, the pool is.
EndSelection(w) ==
  /\ worker[w].at \in {"optimizing", "selecting"}
  /\ worker[w].todo = {}
  /\ AddTasks(IF worker[w].begun THEN <<>> ELSE <<"finish">>)
  /\ Ends(w)
  /\ UNCHANGED <<params, countVars, flagVars, tests, light, callbacks, controller,
                 saving, mishaps>>

-----------------------------------------------------------------------------
(* GenerationFinishedCallback::Run before the save.                        *)

\* One callback at a time.  A single thread queues the callback again and
\* leaves the flag set, so that the next one does nothing.
FinishGeneration(w) ==
  /\ worker[w].at = "finish"
  /\ finishing' = TRUE
  /\ IF finishing
       THEN Ends(w) /\ UNCHANGED heavy
       ELSE IF QueuesItself(w)
              THEN AddTasks(<<"finish">>) /\ Ends(w)
              ELSE Goes(w, "finishing") /\ UNCHANGED heavy
  /\ UNCHANGED <<params, countVars, ending, tests, light, callbacks, controller,
                 saving, mishaps>>

\* A controller is still active: it is to call back, and _generationFinishing
\* stays set.
WaitForControllers(w) ==
  /\ worker[w].at = "finishing"
  /\ Alone(w)
  /\ \E c \in Controllers : Active(c)
  /\ controller' = [c \in Controllers |->
                      [controller[c] EXCEPT !.listed = @ \/ Active(c)]]
  /\ Ends(w)
  /\ UNCHANGED <<params, countVars, flagVars, tests, poolVars, saving, mishaps>>

\* Mutant of SaveCheck: the fastest controller is enough.
SaveCheckOfFastest(w) ==
  /\ worker[w].at = "finishing"
  /\ Alone(w)
  /\ IF params.saves
       THEN saving' = saving + 1 /\ UNCHANGED heavy
       ELSE AddTasks(<<"renew">>) /\ UNCHANGED saving
  /\ Ends(w)
  /\ UNCHANGED <<params, countVars, flagVars, tests, light, callbacks, controller,
                 mishaps>>

\* SaveCheck: the rest is for a task after the save, or now.
SaveCheck(w) ==
  /\ worker[w].at = "finishing"
  /\ Alone(w)
  /\ \A c \in Controllers : ~Active(c)
  /\ IF params.saves
       THEN saving' = saving + 1 /\ UNCHANGED heavy
       ELSE AddTasks(<<"renew">>) /\ UNCHANGED saving
  /\ Ends(w)
  /\ UNCHANGED <<params, countVars, flagVars, tests, light, callbacks, controller,
                 mishaps>>

\* Data::Save calls back.
SaveEnds ==
  /\ saving > 0
  /\ saving' = saving - 1
  /\ AddTasks(<<"renew">>)
  /\ UNCHANGED <<params, countVars, flagVars, tests, light, callbacks, worker,
                 controller, mishaps>>

\* Another save holds _savelock: this one returns, and drops its callback.
SaveIsSkipped ==
  /\ saving > 0
  /\ saving' = saving - 1
  /\ UNCHANGED <<params, countVars, flagVars, tests, poolVars, worker, controller, mishaps>>

-----------------------------------------------------------------------------
(* GenerationFinishedCallback::Run after the save.                         *)

\* WaitForGen.
WaitForRest(w) ==
  /\ worker[w].at = "renew"
  /\ Alone(w)
  /\ Goes(w, "replacing")
  /\ UNCHANGED <<params, countVars, flagVars, tests, poolVars, controller, saving,
                 mishaps>>

\* With the writers lock.
SetNewGeneration(w) ==
  /\ worker[w].at = "replacing"
  /\ ~Generating
  /\ generated' = 0 /\ active' = 0
  /\ ending' = FALSE
  /\ controller' = [c \in Controllers |-> NoController]
  /\ mishaps' = 0
  /\ Goes(w, "restarting")
  /\ UNCHANGED <<params, finishing, tests, poolVars, saving>>

\* The sources are chosen, and the tasks of the new generation are queued.
Restart(w) ==
  /\ worker[w].at = "restarting"
  /\ finishing' = FALSE
  /\ GenerateTests
  /\ Ends(w)
  /\ UNCHANGED <<params, countVars, ending, tests, light, controller, saving, mishaps>>

-----------------------------------------------------------------------------
(* The watchdog, Session::SessionControl, when nothing waits to be done.   *)

\* A generation that is not over is given a little push.
Push ==
  IF ending \/ UsedUp(FALSE)
    THEN [ending |-> TRUE, task |-> IF ending THEN <<>> ELSE <<"end">>]
    ELSE [ending |-> FALSE, task |-> IF callbacks < MaxCallbacks THEN <<"generate">> ELSE <<>>]

\* Controllers that hang have their level evaluated.
Awake(c) ==
  IF controller[c].state = "hung" THEN [controller[c] EXCEPT !.state = "busy"]
                                  ELSE controller[c]

\* A look.  late: the pool has been inactive for a second, with no thread at
\* work, although the generation is about to be replaced; the callback before
\* the save is queued again.
Look(late) ==
  /\ Idle
  /\ late => /\ finishing
             /\ \A w \in Workers : worker[w].at = "waiting"
  /\ ending' = Push.ending
  /\ callbacks' = callbacks + IF Push.ending THEN 0 ELSE Len(Push.task)
  /\ AddTasks(Push.task \o IF late THEN <<"finish">> ELSE <<>>)
  /\ finishing' = (finishing /\ ~late)
  /\ controller' = [c \in Controllers |-> Awake(c)]
  /\ UNCHANGED <<params, countVars, tests, light, worker, saving, mishaps>>

-----------------------------------------------------------------------------

\* What a thread does once it has a task, up to where a session may end instead.
Proceed(w) ==
  \/ MakeInput(w) \/ GiveUp(w) \/ NoRandomSource(w)
  \/ TestEnd(w) \/ RepeatTest(w)
  \/ EndGeneration(w) \/ EndSelection(w)
  \/ \E c \in Controllers :
       StartScoreOptimization(w, c) \/ LookAtController(w, c) \/ AttachCallback(w, c)
  \/ FinishGeneration(w) \/ WaitForControllers(w)
  \/ WaitForRest(w) \/ Restart(w)

ExecuteTests == StopTest \/ FailTest

DeltaDebugging(c) == EndDeltaDebugging(c) \/ HangDeltaDebugging(c)

-----------------------------------------------------------------------------
(* Properties.                                                             *)

Kinds == {"generate", "end", "finish", "renew"}

\* Every variable has its type; a generation never has more inputs than its
\* target or more that are active than allowed, whatever fails, is repeated or
\* is counted off twice (an input whose repetition fails as well makes room for
\* two); there are never more tasks that generate inputs than allowed.
TypeOK ==
  /\ params \in Configurations
  /\ generated \in -params.mishaps .. params.target
  /\ active \in 0 .. MaxActive
  /\ {ending, finishing} \subseteq BOOLEAN
  /\ {tests, light, saving} \subseteq Nat
  /\ heavy \in Seq(Kinds)
  /\ callbacks \in 0 .. MaxCallbacks
  /\ worker \in [Workers ->
       [at : Kinds \cup {"waiting", "making", "failed", "test end", "request", "optimizing",
                         "selecting", "attaching", "finishing", "replacing", "restarting"},
        left : 0 .. Step, made : BOOLEAN, todo : SUBSET Controllers,
        with : SUBSET Controllers, begun : BOOLEAN]]
  /\ controller \in [Controllers ->
       [state : {"none", "busy", "hung", "finished"}, listed : BOOLEAN]]
  /\ mishaps \in 0 .. params.mishaps

\* A generation is replaced only after it was ended, by one callback, when all
\* its tests and all its delta debugging are done and nobody still generates
\* inputs for it.
ReplacedWhenDone ==
  [][(\E w \in Workers : SetNewGeneration(w)) =>
       /\ ending /\ finishing
       /\ tests = 0 /\ light = 0
       /\ \A c \in Controllers : ~Active(c)
       /\ ~Generating]_vars

\* Generations go on: each one is ended, and replaced.
GenerationsGoOn == []<>ending /\ []<>~ending
=============================================================================
