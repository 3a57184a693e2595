--------------------------- MODULE TaskController ---------------------------
(***************************************************************************)
(* The thread pool of src/src/TaskController.cpp: three deques of tasks,   *)
(* one mutex and one condition variable each, worker threads that run one  *)
(* of four loops, and the session thread that freezes, thaws, clears and   *)
(* stops the pool.                                                         *)
(*                                                                         *)
(* A critical section of a worker is two steps, the test of the wait       *)
(* predicate and what follows it, because _freeze, _terminate and _wait    *)
(* are written by threads that do not hold the worker's mutex.  A worker   *)
(* with pc "asleep" is in the wait set of its condition variable.          *)
(***************************************************************************)
EXTENDS Integers, Sequences, FiniteSets, SequencesExt

CONSTANTS
  Tasks,          \* the tasks ever given to AddTask
  FunctionType,   \* GetFunctionType() of each task
  Bypass,         \* the tasks added with a_task, bypass = true
  NumLight, NumMedium, NumHeavy, NumAll,  \* the arguments of Start
  MediumEnabled,  \* _controlEnableMedium: FALSE after Start(session, n), n > 1
  StopModes,      \* values of completeall the session passes to Stop
  ClearsIn,       \* where the session calls ClearTasks: "idle", "frozen"
  MaxFreezes,     \* bound on the number of calls of Freeze
  None,           \* no task, no owner of a mutex
  Session         \* the session thread as owner of a mutex

Classes == {"Light", "Medium", "Heavy"}

ASSUME TaskAssumption ==
  /\ FunctionType \in [Tasks -> Classes]
  /\ Bypass \subseteq Tasks
  /\ None \notin Tasks

ASSUME ThreadAssumption ==
  /\ NumLight \in Nat /\ NumMedium \in Nat /\ NumAll \in Nat
  /\ NumHeavy \in Nat \ {0}   \* Start throws otherwise
  /\ MediumEnabled \in BOOLEAN

ASSUME SessionAssumption ==
  /\ StopModes \subseteq BOOLEAN
  /\ ClearsIn \subseteq {"idle", "frozen"}
  /\ MaxFreezes \in Nat

\* Start: one thread, or NumAll > 0, gives threads that serve every queue and
\* share _lock; otherwise every thread serves the queue of its own class.
Coarse == NumAll > 0 \/ NumLight + NumMedium + NumHeavy = 1

NumThreads ==
  IF NumAll > 0 THEN NumAll ELSE NumLight + NumMedium + NumHeavy

Workers == 1 .. NumThreads

\* The session thread is not one of the pool.
ASSUME OwnerAssumption == None # Session /\ {None, Session} \cap Workers = {}

Kind(w) ==
  CASE Coarse                    -> "All"
    [] ~Coarse /\ w <= NumLight  -> "Light"
    [] ~Coarse /\ w > NumLight /\ w <= NumLight + NumMedium -> "Medium"
    [] OTHER                     -> "Heavy"

\* The mutex and condition variable a worker waits on, named by their queue.
Home(w) == IF Kind(w) = "All" THEN "Heavy" ELSE Kind(w)

Serves(w) == IF Kind(w) = "All" THEN Classes ELSE {Kind(w)}

\* AddTask: the switch falls through a class whose control is disabled.
Route(t) ==
  IF FunctionType[t] = "Medium" /\ ~MediumEnabled
    THEN "Heavy" ELSE FunctionType[t]

\* The mutex and condition variable AddTask uses for queue q.
Guard(q) == IF Coarse THEN "Heavy" ELSE q

VARIABLES
  tasks,      \* _tasks_light, _tasks_medium, _tasks by class
  lock,       \* owner of _lockLight, _lockMedium, _lock
  freeze,     \* _freeze
  terminate,  \* _terminate
  wait,       \* _wait
  status,     \* _status
  pc,         \* where a worker is in its loop
  cur,        \* the worker's local del
  control,    \* what the session thread is doing
  scan,       \* how many of _status Freeze has read as Waiting in this round
  freezes,    \* calls of Freeze so far
  added,      \* history: tasks given to AddTask
  done,       \* history: tasks that ran and were disposed of by a worker
  disposed    \* history: tasks disposed of without having run

queueVars   == <<tasks, added, disposed>>
workerVars  == <<status, cur, done>>
flagVars    == <<freeze, terminate, wait>>
sessionVars == <<control, scan, freezes>>
vars == <<tasks, lock, freeze, terminate, wait, status, pc, cur, control,
          scan, freezes, added, done, disposed>>

Queued == UNION {ToSet(tasks[q]) : q \in Classes}
Held   == {cur[w] : w \in Workers} \ {None}

Init ==
  /\ tasks = [q \in Classes |-> <<>>]
  /\ lock = [q \in Classes |-> None]
  /\ freeze = FALSE
  /\ terminate = FALSE
  /\ wait = FALSE
  /\ status = [w \in Workers |-> "Initializing"]
  /\ pc = [w \in Workers |-> "init"]
  /\ cur = [w \in Workers |-> None]
  /\ control = "idle"
  /\ scan = 0
  /\ freezes = 0
  /\ added = {}
  /\ done = {}
  /\ disposed = {}

-----------------------------------------------------------------------------
(* Condition variables.                                                    *)

Asleep(q) == {w \in Workers : pc[w] = "asleep" /\ Home(w) = q}

\* Mutant of NotifyOne: notify_one is forgotten.
NotifyNobody(q) == UNCHANGED pc

NotifyOne(q) ==
  IF Asleep(q) = {}
    THEN UNCHANGED pc
    ELSE \E w \in Asleep(q) : pc' = [pc EXCEPT ![w] = "loop"]

NotifyAll(qs) ==
  pc' = [w \in Workers |->
           IF pc[w] = "asleep" /\ Home(w) \in qs THEN "loop" ELSE pc[w]]

Goto(w, from, to) == pc[w] = from /\ pc' = [pc EXCEPT ![w] = to]
Acquire(w) == lock[Home(w)] = None /\ lock' = [lock EXCEPT ![Home(w)] = w]
Release(w) == lock' = [lock EXCEPT ![Home(w)] = None]

-----------------------------------------------------------------------------
(* AddTask.                                                                *)

\* Mutant of AddTask: a missing break, the task is pushed to _tasks as well.
AddTaskFallsThrough(t) ==
  /\ t \notin added
  /\ lock[Guard(Route(t))] = None
  /\ tasks' = [q \in Classes |-> IF q \in {Route(t), "Heavy"}
                                 THEN Append(tasks[q], t) ELSE tasks[q]]
  /\ added' = added \cup {t}
  /\ NotifyOne(Guard(Route(t)))
  /\ UNCHANGED <<lock, disposed, workerVars, flagVars, sessionVars>>

AddTask(t) ==
  LET q == Route(t) IN
  /\ t \notin added
  /\ lock[Guard(q)] = None
  /\ tasks' = [tasks EXCEPT ![q] = IF t \in Bypass THEN <<t>> \o @
                                                   ELSE Append(@, t)]
  /\ added' = added \cup {t}
  /\ NotifyOne(Guard(q))
  /\ UNCHANGED <<lock, disposed, workerVars, flagVars, sessionVars>>

\* A thread outside the pool adds a task.  The session stops the threads that
\* do so before it calls Stop.
ClientAdds(t) == ~terminate /\ AddTask(t)

\* The Run() of the task a worker executes adds a task.
TaskAdds(w, t) == pc[w] = "running" /\ AddTask(t)

-----------------------------------------------------------------------------
(* The worker loops.                                                       *)

Empty(w)   == \A q \in Serves(w) : tasks[q] = <<>>

\* Mutant of Leaving: _wait is ignored.
LeavingAtOnce(w) == terminate

Leaving(w) == terminate /\ (~wait \/ Empty(w))

\* Mutant of Ready: the predicate without _freeze.
ReadyFrozen(w) == ~Empty(w) \/ Leaving(w)

Ready(w)   == ~freeze /\ (~Empty(w) \/ Leaving(w))

\* A thread that serves every queue prefers light, then medium tasks.
Source(w) ==
  IF Kind(w) # "All" THEN Kind(w)
  ELSE IF tasks["Light"] # <<>> THEN "Light"
  ELSE IF tasks["Medium"] # <<>> THEN "Medium"
  ELSE "Heavy"

EnterLoop(w) ==
  /\ Goto(w, "init", "loop")
  /\ status' = [status EXCEPT ![w] = "Waiting"]
  /\ UNCHANGED <<queueVars, lock, cur, done, flagVars, sessionVars>>

\* wait(guard, predicate): the test, under the mutex.
TestPredicate(w) ==
  /\ Goto(w, "loop", IF Ready(w) THEN "take" ELSE "block")
  /\ Acquire(w)
  /\ UNCHANGED <<queueVars, workerVars, flagVars, sessionVars>>

\* wait(guard, predicate): the mutex is released and the thread sleeps.
Block(w) ==
  /\ Goto(w, "block", "asleep")
  /\ Release(w)
  /\ UNCHANGED <<queueVars, workerVars, flagVars, sessionVars>>

\* A condition variable may wake a thread that nobody notified.
SpuriousWakeup(w) ==
  /\ Goto(w, "asleep", "loop")
  /\ UNCHANGED <<queueVars, lock, workerVars, flagVars, sessionVars>>

\* Mutant of Timeout: wait instead of wait_for.
NeverTimeout(w) == FALSE

\* wait_for returns after 100 ms whatever the predicate says.
Timeout(w) ==
  /\ Kind(w) = "All"
  /\ Goto(w, "asleep", "take")
  /\ Acquire(w)
  /\ UNCHANGED <<queueVars, workerVars, flagVars, sessionVars>>

Exit(w) ==
  /\ Leaving(w)
  /\ Goto(w, "take", "exited")
  /\ Release(w)
  /\ UNCHANGED <<queueVars, workerVars, flagVars, sessionVars>>

\* if (_freeze) continue: only in the loop that serves every queue.
HoldsBack(w) == Kind(w) = "All" /\ freeze

\* No task is taken: frozen, or del stays empty.  The light loop reads front()
\* without asking whether the deque is empty, which is undefined when it is.
TakeNothing(w) ==
  /\ ~Leaving(w)
  /\ HoldsBack(w) \/ Empty(w)
  /\ Goto(w, "take", IF Kind(w) = "Light" THEN "crashed" ELSE "loop")
  /\ Release(w)
  /\ UNCHANGED <<queueVars, workerVars, flagVars, sessionVars>>

\* Mutant of TakeTask: front() without pop_front().
PeekTask(w) ==
  /\ ~Leaving(w)
  /\ ~HoldsBack(w)
  /\ tasks[Source(w)] # <<>>
  /\ Goto(w, "take", "taken")
  /\ cur' = [cur EXCEPT ![w] = Head(tasks[Source(w)])]
  /\ Release(w)
  /\ UNCHANGED <<queueVars, status, done, flagVars, sessionVars>>

TakeTask(w) ==
  LET q == Source(w) IN
  /\ ~Leaving(w)
  /\ ~HoldsBack(w)
  /\ tasks[q] # <<>>
  /\ Goto(w, "take", "taken")
  /\ cur' = [cur EXCEPT ![w] = Head(tasks[q])]
  /\ tasks' = [tasks EXCEPT ![q] = Tail(@)]
  /\ Release(w)
  /\ UNCHANGED <<added, disposed, status, done, flagVars, sessionVars>>

StartTask(w) ==
  /\ Goto(w, "taken", "running")
  /\ status' = [status EXCEPT ![w] = "Running"]
  /\ UNCHANGED <<queueVars, lock, cur, done, flagVars, sessionVars>>

\* Run() has returned; Dispose() and _completedjobs++.
FinishTask(w) ==
  /\ Goto(w, "running", "finished")
  /\ done' = done \cup {cur[w]}
  /\ cur' = [cur EXCEPT ![w] = None]
  /\ UNCHANGED <<queueVars, lock, status, flagVars, sessionVars>>

\* Mutant of Park: the status stays Running.
ParkBusy(w) ==
  /\ Goto(w, "finished", "loop")
  /\ UNCHANGED <<queueVars, lock, workerVars, flagVars, sessionVars>>

Park(w) ==
  /\ Goto(w, "finished", "loop")
  /\ status' = [status EXCEPT ![w] = "Waiting"]
  /\ UNCHANGED <<queueVars, lock, cur, done, flagVars, sessionVars>>

WorkerStep(w) ==
  \/ EnterLoop(w) \/ TestPredicate(w) \/ Block(w) \/ Timeout(w)
  \/ Exit(w) \/ TakeNothing(w) \/ TakeTask(w)
  \/ StartTask(w) \/ FinishTask(w) \/ Park(w)

-----------------------------------------------------------------------------
(* The session thread: Data::Save, Session::StopSession, PauseSession.     *)

\* RequestFreeze and the first statement of Freeze.
RequestFreeze ==
  /\ control = "idle"
  /\ freezes < MaxFreezes
  /\ freeze' = TRUE
  /\ control' = "freezing"
  /\ scan' = 0
  /\ freezes' = freezes + 1
  /\ UNCHANGED <<queueVars, lock, workerVars, pc, terminate, wait>>

\* Mutant of ScanStatus: the index is not reset when Freeze returns.
ScanStatusKeepsIndex ==
  /\ control = "freezing"
  /\ IF status[scan + 1] # "Waiting"
       THEN scan' = 0 /\ UNCHANGED control
       ELSE /\ scan' = scan + 1
            /\ control' = IF scan + 1 < NumThreads THEN control ELSE "frozen"
  /\ UNCHANGED <<queueVars, lock, workerVars, pc, flagVars, freezes>>

\* Freeze spins over _status; a round that meets a busy thread is repeated.
ScanStatus ==
  /\ control = "freezing"
  /\ IF status[scan + 1] # "Waiting"
       THEN scan' = 0 /\ UNCHANGED control
       ELSE IF scan + 1 < NumThreads
         THEN scan' = scan + 1 /\ UNCHANGED control
         ELSE scan' = 0 /\ control' = "frozen"
  /\ UNCHANGED <<queueVars, lock, workerVars, pc, flagVars, freezes>>

Thaw ==
  /\ control = "frozen"
  /\ control' = "idle"
  /\ freeze' = FALSE
  /\ NotifyAll(Classes)
  /\ UNCHANGED <<queueVars, lock, workerVars, terminate, wait, scan, freezes>>

\* Mutant of BeginClear: no mutex is taken.
BeginClearUnlocked ==
  /\ control \in ClearsIn
  /\ control' = "clearing"
  /\ UNCHANGED <<queueVars, lock, workerVars, pc, flagVars, scan, freezes>>

\* ClearTasks takes the three mutexes unless the pool is frozen.
BeginClear ==
  /\ control \in ClearsIn
  /\ control' = "clearing"
  /\ IF freeze
       THEN UNCHANGED lock
       ELSE /\ \A q \in Classes : lock[q] = None
            /\ lock' = [q \in Classes |-> Session]
  /\ UNCHANGED <<queueVars, workerVars, pc, flagVars, scan, freezes>>

DisposeQueued ==
  /\ disposed' = disposed \cup Queued
  /\ tasks' = [q \in Classes |-> <<>>]
  /\ UNCHANGED added

EndClear ==
  /\ control = "clearing"
  /\ DisposeQueued
  /\ IF freeze
       THEN control' = "frozen" /\ UNCHANGED lock
       ELSE control' = "idle" /\ lock' = [q \in Classes |-> None]
  /\ UNCHANGED <<workerVars, pc, flagVars, scan, freezes>>

\* Stop writes _terminate and then _wait, both under _lock only.  A session
\* that is paused (frozen) is stopped without a Thaw.
BeginStop ==
  /\ StopModes # {}
  /\ control \in {"idle", "frozen"}
  /\ freeze => FALSE \in StopModes
  /\ lock["Heavy"] = None
  /\ lock' = [lock EXCEPT !["Heavy"] = Session]
  /\ terminate' = TRUE
  /\ control' = "stopping"
  /\ UNCHANGED <<queueVars, workerVars, pc, freeze, wait, scan, freezes>>

\* _condition and _condition_light are notified, _condition_medium is not.
NotifyStop(completeall) ==
  /\ control = "stopping"
  /\ freeze => ~completeall
  /\ wait' = completeall
  /\ control' = "joining"
  /\ lock' = [lock EXCEPT !["Heavy"] = None]
  /\ NotifyAll({"Heavy", "Light"})
  /\ UNCHANGED <<queueVars, workerVars, freeze, terminate, scan, freezes>>

JoinThreads ==
  /\ control = "joining"
  /\ \A w \in Workers : pc[w] = "exited"
  /\ control' = "stopped"
  /\ DisposeQueued
  /\ UNCHANGED <<lock, workerVars, pc, flagVars, scan, freezes>>

SessionStep ==
  \/ ScanStatus \/ Thaw \/ EndClear \/ JoinThreads
  \/ \E completeall \in StopModes : NotifyStop(completeall)

-----------------------------------------------------------------------------
Next ==
  \/ \E t \in Tasks : ClientAdds(t)
  \/ \E w \in Workers, t \in Tasks : TaskAdds(w, t)
  \/ \E w \in Workers : WorkerStep(w) \/ SpuriousWakeup(w)
  \/ SessionStep
  \/ RequestFreeze \/ BeginClear \/ BeginStop

Safety == Init /\ [][Next]_vars

\* The operating system schedules every thread; Run() returns; the session
\* finishes a call it has begun and thaws what it froze.  The deadline of
\* wait_for passes whatever wakes the thread before it.  Nobody is obliged to
\* add, freeze, clear or stop, and no wakeup may be counted on that was not
\* notified.
Fairness ==
  /\ \A w \in Workers : WF_vars(WorkerStep(w)) /\ SF_vars(Timeout(w))
  /\ WF_vars(SessionStep)

Spec == Safety /\ Fairness
-----------------------------------------------------------------------------
(* Properties.                                                             *)

\* The type invariant of the pool.
TypeOK ==
  /\ tasks \in [Classes -> Seq(Tasks)]
  /\ lock \in [Classes -> Workers \cup {None, Session}]
  /\ freeze \in BOOLEAN /\ terminate \in BOOLEAN /\ wait \in BOOLEAN
  /\ status \in [Workers -> {"Initializing", "Waiting", "Running"}]
  /\ pc \in [Workers -> {"init", "loop", "take", "block", "asleep", "taken",
                         "running", "finished", "exited", "crashed"}]
  /\ cur \in [Workers -> Tasks \cup {None}]
  /\ control \in {"idle", "freezing", "frozen", "clearing", "stopping",
                  "joining", "stopped"}
  /\ scan \in 0 .. NumThreads - 1
  /\ freezes \in 0 .. MaxFreezes
  /\ added \subseteq Tasks /\ done \subseteq Tasks /\ disposed \subseteq Tasks

\* Whatever the interleaving of workers, callers of AddTask, ClearTasks and
\* Stop: a task that was added is in one deque at one place, in the hands of
\* one worker, has run, or was disposed of unrun, and only one of these.
QueuesDistinct ==
  /\ \A q \in Classes : IsInjective(tasks[q])
  /\ \A q1, q2 \in Classes :
       q1 # q2 => ToSet(tasks[q1]) \cap ToSet(tasks[q2]) = {}

HeldByOne ==
  \A w1, w2 \in Workers : cur[w1] = cur[w2] /\ cur[w1] # None => w1 = w2

OnePlace ==
  /\ added = Queued \cup Held \cup done \cup disposed
  /\ Queued \cap (Held \cup done \cup disposed) = {}
  /\ Held \cap (done \cup disposed) = {}
  /\ done \cap disposed = {}

NoTaskLostOrRepeated == QueuesDistinct /\ HeldByOne /\ OnePlace

\* Once the pool is frozen and no worker holds or is about to take a task,
\* nothing but a Thaw ends that: this is what the writer of a save file needs
\* between Freeze and Thaw (src/Data.cpp:121-437).
Quiescent ==
  /\ freeze
  /\ Held = {}
  /\ \A w \in Workers : pc[w] = "take" => HoldsBack(w) \/ Leaving(w)

QuiescenceIsStable == [][Quiescent => Quiescent' \/ ~freeze']_vars

\* A light worker takes the front of its deque without asking whether there is
\* one (TaskController.cpp:240).  From the test of its predicate to that, no
\* other thread empties the deque, unless ClearTasks finds the pool frozen and
\* takes no mutex, as it does for StopSession (Session.cpp:306-318): then the
\* front that is taken is undefined.
FrontIsSure(w) ==
  /\ pc[w] # "crashed"
  /\ pc[w] = "take" => ~Empty(w) \/ Leaving(w)

FrontLostOnlyToFrozenClear ==
  [][\A w \in Workers : Kind(w) = "Light" /\ FrontIsSure(w) =>
       FrontIsSure(w)' \/ (control = "clearing" /\ freeze)]_vars

\* Stop(true) waits for the completion of all tasks: when the threads are
\* joined there is none left to dispose of (include/TaskController.h:315).
StopDrains ==
  [][control = "joining" /\ control' = "stopped" /\ wait => Queued = {}]_vars

\* src/Data.cpp:101: all active operations cease while a save file is written.
SaveIsQuiescent == control = "frozen" => Held = {}

\* A pool that is neither frozen nor stopped runs every task, or ClearTasks
\* disposes of it: threads that wait without a timeout are woken by the one
\* notification of AddTask and by nothing else.
UnfrozenTasksEnd ==
  [](~freeze /\ ~terminate) =>
    \A t \in Tasks : t \in added ~> t \in done \cup disposed

\* Freeze returns, although workers may be about to take a task when it is
\* called; and Stop returns: every worker notices it and can be joined.
CallsReturn ==
  /\ control = "freezing" ~> control = "frozen"
  /\ control = "stopping" ~> control = "stopped"

\* The pool implements what TaskPool promises.
Pool == INSTANCE TaskPool WITH
  Capacity <- NumThreads, pending <- Queued, running <- Held,
  finished <- done, dropped <- disposed

PoolSafety == Pool!PoolSafety
PoolSpec == Pool!PoolSpec
=============================================================================
