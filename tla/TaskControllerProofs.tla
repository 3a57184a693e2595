------------------------ MODULE TaskControllerProofs ------------------------
(***************************************************************************)
(* What is proved of the thread pool for every number of threads of each   *)
(* kind, every set of tasks and every way the session uses the pool.       *)
(***************************************************************************)
EXTENDS TaskController, SequenceFacts, FiniteSetTheorems

\* There is a thread, and it serves queues that exist.
LEMMA ThreadFacts ==
  /\ NumThreads \in Nat \ {0}
  /\ \A w \in Workers : Kind(w) \in Classes \cup {"All"}
  /\ \A w \in Workers : Home(w) \in Classes
  /\ \A w \in Workers : Source(w) \in Classes
  /\ \A t \in Tasks : Route(t) \in Classes
  /\ \A q \in Classes : Guard(q) \in Classes
<1>1. NumThreads \in Nat \ {0}
  BY ThreadAssumption DEF NumThreads
<1>2. \A w \in Workers : Kind(w) \in Classes \cup {"All"}
  BY DEF Kind, Classes
<1>3. \A w \in Workers : Home(w) \in Classes
  BY <1>2 DEF Home, Classes
<1>4. \A w \in Workers : Source(w) \in Classes
  BY <1>2 DEF Source, Classes
<1>5. \A t \in Tasks : Route(t) \in Classes
  BY TaskAssumption DEF Route, Classes
<1>6. \A q \in Classes : Guard(q) \in Classes
  BY DEF Guard, Classes
<1> QED BY <1>1, <1>2, <1>3, <1>4, <1>5, <1>6

\* The steps of a worker that touch no deque and no task in hand.
IdleStep(w) ==
  \/ EnterLoop(w) \/ TestPredicate(w) \/ Block(w) \/ Timeout(w)
  \/ Exit(w) \/ TakeNothing(w) \/ SpuriousWakeup(w)

\* The steps of the session that touch no deque.
CommandStep ==
  \/ ScanStatus \/ Thaw \/ RequestFreeze \/ BeginClear \/ BeginStop
  \/ \E completeall \in StopModes : NotifyStop(completeall)

\* The disjuncts of Next, as the proofs below split them.
LEMMA NextCases ==
  ASSUME Next
  PROVE  \/ \E t \in Tasks : AddTask(t)
         \/ \E w \in Workers : IdleStep(w)
         \/ \E w \in Workers : TakeTask(w) \/ StartTask(w) \/ FinishTask(w)
                               \/ Park(w)
         \/ CommandStep
         \/ EndClear
         \/ JoinThreads
BY DEF Next, ClientAdds, TaskAdds, WorkerStep, IdleStep, SessionStep,
       CommandStep

-----------------------------------------------------------------------------
(* Type correctness.  TypeOK is not inductive by itself: what FinishTask adds *)
(* to done is a task only because a worker that runs holds one.               *)

PCs == {"init", "loop", "take", "block", "asleep", "taken", "running",
        "finished", "exited", "crashed"}

\* A worker holds a task exactly between taking it and finishing it.
HoldsWhenBusy ==
  \A w \in Workers : cur[w] # None <=> pc[w] \in {"taken", "running"}

TypeInv == TypeOK /\ HoldsWhenBusy

\* notify_one and notify_all move sleeping workers to the head of their loop,
\* and no other worker.
LEMMA NotifyMoves ==
  ASSUME pc \in [Workers -> PCs],
         \/ \E q : NotifyOne(q)
         \/ \E qs : NotifyAll(qs)
  PROVE  /\ pc' \in [Workers -> PCs]
         /\ \A w \in Workers :
              pc'[w] = pc[w] \/ (pc[w] = "asleep" /\ pc'[w] = "loop")
<1>0. "loop" \in PCs
  BY DEF PCs
<1>1. ASSUME NEW q, NotifyOne(q), Asleep(q) # {}
      PROVE  \E v \in Workers : pc[v] = "asleep" /\ pc' = [pc EXCEPT ![v] = "loop"]
  BY <1>1 DEF NotifyOne, Asleep
<1>2. ASSUME NEW q, NotifyOne(q), Asleep(q) = {}
      PROVE  pc' = pc
  BY <1>2 DEF NotifyOne
<1>3. CASE \E q : NotifyOne(q)
  BY <1>0, <1>1, <1>2, <1>3
<1>4. CASE \E qs : NotifyAll(qs)
  BY <1>0, <1>4 DEF NotifyAll
<1> QED BY <1>3, <1>4

\* The steps of a worker and of the session that leave its tasks alone keep
\* the relation between a worker's place and what it holds.
LEMMA HoldsKept ==
  ASSUME HoldsWhenBusy, UNCHANGED cur,
         \A w \in Workers : \/ pc'[w] = pc[w]
                            \/ {pc[w], pc'[w]} \cap {"taken", "running"} = {}
  PROVE  HoldsWhenBusy'
BY DEF HoldsWhenBusy

\* The state keeps its types under every step.
LEMMA TypeStep == TypeInv /\ [Next]_vars => TypeInv'
<1> SUFFICES ASSUME TypeOK, HoldsWhenBusy, [Next]_vars PROVE TypeInv'
  BY DEF TypeInv
<1> USE ThreadFacts
<1>a. pc \in [Workers -> PCs]
  BY DEF TypeOK, PCs
<1>b. ASSUME pc' \in [Workers -> PCs], HoldsWhenBusy',
             tasks' \in [Classes -> Seq(Tasks)],
             lock' \in [Classes -> Workers \cup {None, Session}],
             status' \in [Workers -> {"Initializing", "Waiting", "Running"}],
             cur' \in [Workers -> Tasks \cup {None}],
             added' \subseteq Tasks, done' \subseteq Tasks,
             disposed' \subseteq Tasks,
             freeze' \in BOOLEAN, terminate' \in BOOLEAN, wait' \in BOOLEAN,
             control' \in {"idle", "freezing", "frozen", "clearing",
                           "stopping", "joining", "stopped"},
             scan' \in 0 .. NumThreads - 1, freezes' \in 0 .. MaxFreezes
      PROVE  TypeInv'
  BY <1>b DEF TypeInv, TypeOK, PCs
<1>1. ASSUME NEW t \in Tasks, AddTask(t) PROVE TypeInv'
  <2>1. tasks' \in [Classes -> Seq(Tasks)]
    <3>1. \A s \in Seq(Tasks) : <<t>> \o s \in Seq(Tasks)
                                /\ Append(s, t) \in Seq(Tasks)
      BY PushBack, PushFront
    <3> QED BY <1>1, <3>1 DEF AddTask, TypeOK
  <2>2. NotifyOne(Guard(Route(t))) /\ UNCHANGED cur
    BY <1>1 DEF AddTask, workerVars
  <2>3. /\ pc' \in [Workers -> PCs]
        /\ \A w \in Workers :
             pc'[w] = pc[w] \/ (pc[w] = "asleep" /\ pc'[w] = "loop")
    BY <1>a, <2>2, NotifyMoves
  <2>4. HoldsWhenBusy'
    BY <2>2, <2>3, HoldsKept
  <2>5. added' \subseteq Tasks
    BY <1>1 DEF AddTask, TypeOK
  <2> QED
    BY <1>b, <1>1, <2>1, <2>3, <2>4, <2>5
       DEF AddTask, TypeOK, workerVars, flagVars, sessionVars
<1>2. ASSUME NEW w \in Workers, IdleStep(w) PROVE TypeInv'
  <2>1. lock' \in [Classes -> Workers \cup {None, Session}]
    BY <1>2 DEF IdleStep, EnterLoop, TestPredicate, Block, Timeout, Exit,
                TakeNothing, SpuriousWakeup, Acquire, Release, TypeOK
  <2>2. /\ pc' \in [Workers -> PCs]
        /\ \A v \in Workers : \/ pc'[v] = pc[v]
                              \/ {pc[v], pc'[v]} \cap {"taken", "running"} = {}
    BY <1>2, <1>a DEF IdleStep, EnterLoop, TestPredicate, Block, Timeout, Exit,
                TakeNothing, SpuriousWakeup, Goto, PCs
  <2>3. status' \in [Workers -> {"Initializing", "Waiting", "Running"}]
    BY <1>2 DEF IdleStep, EnterLoop, TestPredicate, Block, Timeout, Exit,
                TakeNothing, SpuriousWakeup, workerVars, TypeOK
  <2>4. UNCHANGED <<queueVars, cur, done, flagVars, sessionVars>>
    BY <1>2 DEF IdleStep, EnterLoop, TestPredicate, Block, Timeout, Exit,
                TakeNothing, SpuriousWakeup, workerVars
  <2>5. HoldsWhenBusy'
    BY <2>2, <2>4, HoldsKept
  <2> QED
    BY <1>b, <2>1, <2>2, <2>3, <2>4, <2>5
       DEF TypeOK, queueVars, flagVars, sessionVars
<1>3. ASSUME NEW w \in Workers, TakeTask(w) PROVE TypeInv'
  <2>1. tasks[Source(w)] \in Seq(Tasks) /\ tasks[Source(w)] # <<>>
    BY <1>3 DEF TakeTask, TypeOK
  <2>2. /\ Head(tasks[Source(w)]) \in Tasks
        /\ Tail(tasks[Source(w)]) \in Seq(Tasks)
    BY <2>1, HeadTailProperties
  <2>3. tasks' \in [Classes -> Seq(Tasks)]
    BY <1>3, <2>2 DEF TakeTask, TypeOK
  <2>4. cur' \in [Workers -> Tasks \cup {None}]
    BY <1>3, <2>2 DEF TakeTask, TypeOK
  <2>5. lock' \in [Classes -> Workers \cup {None, Session}]
    BY <1>3 DEF TakeTask, Release, TypeOK
  <2>6. pc' \in [Workers -> PCs]
    BY <1>3, <1>a DEF TakeTask, Goto, PCs
  <2>7. HoldsWhenBusy'
    BY <1>3, <1>a, <2>2, TaskAssumption
       DEF TakeTask, Goto, HoldsWhenBusy, TypeOK
  <2> QED
    BY <1>b, <1>3, <2>3, <2>4, <2>5, <2>6, <2>7
       DEF TakeTask, TypeOK, flagVars, sessionVars
<1>4. ASSUME NEW w \in Workers, StartTask(w) \/ FinishTask(w) \/ Park(w)
      PROVE  TypeInv'
  <2>1. pc' \in [Workers -> PCs]
    BY <1>4, <1>a DEF StartTask, FinishTask, Park, Goto, PCs
  <2>2. status' \in [Workers -> {"Initializing", "Waiting", "Running"}]
    BY <1>4 DEF StartTask, FinishTask, Park, TypeOK
  <2>3. cur' \in [Workers -> Tasks \cup {None}]
    BY <1>4 DEF StartTask, FinishTask, Park, TypeOK
  <2>4. done' \subseteq Tasks
    BY <1>4 DEF StartTask, FinishTask, Park, TypeOK, HoldsWhenBusy, Goto
  <2>5. UNCHANGED <<queueVars, lock, flagVars, sessionVars>>
    BY <1>4 DEF StartTask, FinishTask, Park
  <2>6. HoldsWhenBusy'
    BY <1>4, <1>a DEF StartTask, FinishTask, Park, HoldsWhenBusy, Goto, TypeOK
  <2> QED
    BY <1>b, <2>1, <2>2, <2>3, <2>4, <2>5, <2>6
       DEF TypeOK, queueVars, flagVars, sessionVars
<1>5. ASSUME CommandStep PROVE TypeInv'
  <2>1. /\ pc' \in [Workers -> PCs]
        /\ \A v \in Workers :
             pc'[v] = pc[v] \/ (pc[v] = "asleep" /\ pc'[v] = "loop")
    BY <1>5, <1>a, NotifyMoves
       DEF CommandStep, ScanStatus, Thaw, RequestFreeze, BeginClear, BeginStop,
           NotifyStop
  <2>2. UNCHANGED <<queueVars, workerVars>>
    BY <1>5 DEF CommandStep, ScanStatus, Thaw, RequestFreeze, BeginClear,
                BeginStop, NotifyStop
  <2>3. HoldsWhenBusy'
    BY <2>1, <2>2, HoldsKept DEF workerVars
  <2>4. lock' \in [Classes -> Workers \cup {None, Session}]
    BY <1>5 DEF CommandStep, ScanStatus, Thaw, RequestFreeze, BeginClear,
                BeginStop, NotifyStop, TypeOK
  <2>5. /\ freeze' \in BOOLEAN /\ terminate' \in BOOLEAN /\ wait' \in BOOLEAN
        /\ control' \in {"idle", "freezing", "frozen", "clearing",
                         "stopping", "joining", "stopped"}
    BY <1>5, SessionAssumption
       DEF CommandStep, ScanStatus, Thaw, RequestFreeze, BeginClear, BeginStop,
           NotifyStop, TypeOK, flagVars
  <2>6. scan' \in 0 .. NumThreads - 1 /\ freezes' \in 0 .. MaxFreezes
    <3>1. scan \in 0 .. NumThreads - 1 /\ freezes \in 0 .. MaxFreezes
      BY DEF TypeOK
    <3>2. CASE ScanStatus
      <4>1. scan' \in {0, scan} \/ (scan' = scan + 1 /\ scan + 1 < NumThreads)
        BY <3>2 DEF ScanStatus
      <4> QED BY <3>1, <3>2, <4>1 DEF ScanStatus
    <3>3. CASE RequestFreeze
      BY <3>1, <3>3, SessionAssumption DEF RequestFreeze
    <3>4. CASE ~ScanStatus /\ ~RequestFreeze
      BY <1>5, <3>1, <3>4
         DEF CommandStep, Thaw, BeginClear, BeginStop, NotifyStop
    <3> QED BY <3>2, <3>3, <3>4
  <2> QED
    BY <1>b, <2>1, <2>2, <2>3, <2>4, <2>5, <2>6
       DEF TypeOK, queueVars, workerVars
<1>6. ASSUME EndClear \/ JoinThreads PROVE TypeInv'
  <2>1. UNCHANGED <<workerVars, pc, flagVars, scan, freezes, added>>
    BY <1>6 DEF EndClear, JoinThreads, DisposeQueued
  <2>2. HoldsWhenBusy'
    BY <2>1 DEF workerVars, HoldsWhenBusy
  <2>3. tasks' \in [Classes -> Seq(Tasks)]
    BY <1>6, EmptyDeque DEF EndClear, JoinThreads, DisposeQueued
  <2>4. Queued \subseteq Tasks
    BY LenProperties DEF TypeOK, Queued, ToSet
  <2>5. disposed' \subseteq Tasks
    BY <1>6, <2>4 DEF EndClear, JoinThreads, DisposeQueued, TypeOK
  <2>6. lock' \in [Classes -> Workers \cup {None, Session}]
    BY <1>6 DEF EndClear, JoinThreads, TypeOK
  <2>7. control' \in {"idle", "freezing", "frozen", "clearing",
                      "stopping", "joining", "stopped"}
    BY <1>6 DEF EndClear, JoinThreads
  <2> QED
    BY <1>a, <1>b, <2>1, <2>2, <2>3, <2>5, <2>6, <2>7
       DEF TypeOK, workerVars, flagVars
<1>7. CASE UNCHANGED vars
  BY <1>7 DEF vars, TypeInv, TypeOK, HoldsWhenBusy
<1> QED
  BY <1>1, <1>2, <1>3, <1>4, <1>5, <1>6, <1>7, NextCases

LEMMA TypeInit == Init => TypeInv
<1> SUFFICES ASSUME Init PROVE TypeInv
  OBVIOUS
<1>1. tasks \in [Classes -> Seq(Tasks)]
  BY EmptyDeque DEF Init
<1>2. scan \in 0 .. NumThreads - 1 /\ freezes \in 0 .. MaxFreezes
  BY ThreadFacts, SessionAssumption DEF Init
<1>3. HoldsWhenBusy
  BY DEF Init, HoldsWhenBusy
<1> QED BY <1>1, <1>2, <1>3 DEF Init, TypeInv, TypeOK

LEMMA TypeInvariant == Safety => []TypeInv
BY TypeInit, TypeStep, PTL DEF Safety

\* The state of the pool has its type in every reachable state, for every
\* number of threads.
THEOREM TypeCorrect == Safety => []TypeOK
<1>1. TypeInv => TypeOK
  BY DEF TypeInv
<1> QED BY <1>1, TypeInvariant, PTL

-----------------------------------------------------------------------------
(* No task is lost or repeated.  What each step does to the sets Queued and  *)
(* Held is stated once and used for the invariant and for the refinement.    *)

SafetyInv == TypeInv /\ NoTaskLostOrRepeated

\* AddTask puts a task that was nowhere before into the deques, once.
LEMMA AddEffect ==
  ASSUME SafetyInv, NEW t \in Tasks, AddTask(t)
  PROVE  /\ t \notin Queued \cup Held \cup done \cup disposed
         /\ Queued' = Queued \cup {t}
         /\ Held' = Held
         /\ QueuesDistinct'
<1> USE ThreadFacts
<1> DEFINE q == Route(t)
           s == tasks[q]
           r == IF t \in Bypass THEN <<t>> \o s ELSE Append(s, t)
<1>1. t \notin Queued \cup Held \cup done \cup disposed
  BY DEF AddTask, SafetyInv, NoTaskLostOrRepeated, OnePlace
<1>2. q \in Classes /\ s \in Seq(Tasks) /\ IsInjective(s) /\ t \notin ToSet(s)
  BY <1>1 DEF SafetyInv, TypeInv, TypeOK, NoTaskLostOrRepeated,
              QueuesDistinct, Queued
<1>3. tasks' = [tasks EXCEPT ![q] = r]
  BY DEF AddTask
<1>4. ToSet(r) = ToSet(s) \cup {t} /\ IsInjective(r)
  BY <1>2, PushBack, PushFront
<1> HIDE DEF q, s, r
<1>5. tasks \in [Classes -> Seq(Tasks)]
  BY DEF SafetyInv, TypeInv, TypeOK
<1>6. \A p \in Classes : tasks'[p] = IF p = q THEN r ELSE tasks[p]
  BY <1>3, <1>5
<1>7. s = tasks[q]
  BY DEF s
<1>8. Queued' = Queued \cup {t}
  BY <1>2, <1>4, <1>6, <1>7 DEF Queued
<1>9. QueuesDistinct'
  <2>1. \A p \in Classes : IsInjective(tasks'[p])
    BY <1>4, <1>6 DEF SafetyInv, NoTaskLostOrRepeated, QueuesDistinct
  <2>2. \A p \in Classes : t \notin ToSet(tasks[p])
    BY <1>1 DEF Queued
  <2>3. ASSUME NEW p1 \in Classes, NEW p2 \in Classes, p1 # p2
        PROVE  ToSet(tasks'[p1]) \cap ToSet(tasks'[p2]) = {}
    <3>1. ToSet(tasks[p1]) \cap ToSet(tasks[p2]) = {}
      BY <2>3 DEF SafetyInv, NoTaskLostOrRepeated, QueuesDistinct
    <3> QED BY <1>4, <1>6, <1>7, <2>2, <2>3, <3>1
  <2> QED BY <2>1, <2>3 DEF QueuesDistinct
<1>10. Held' = Held
  BY DEF AddTask, workerVars, Held
<1> QED BY <1>1, <1>8, <1>9, <1>10

\* A worker takes one task out of the deques; no other worker holds it.
LEMMA TakeEffect ==
  ASSUME SafetyInv, NEW w \in Workers, TakeTask(w)
  PROVE  \E t \in Queued :
           /\ Queued' = Queued \ {t}
           /\ Held' = Held \cup {t}
           /\ cur' = [cur EXCEPT ![w] = t]
           /\ cur[w] = None
           /\ QueuesDistinct'
           /\ HeldByOne'
<1> USE ThreadFacts
<1> DEFINE q == Source(w)
           s == tasks[q]
           t == Head(s)
<1>1. /\ q \in Classes /\ s \in Seq(Tasks) /\ s # <<>> /\ IsInjective(s)
      /\ tasks \in [Classes -> Seq(Tasks)]
  BY DEF TakeTask, SafetyInv, TypeInv, TypeOK, NoTaskLostOrRepeated,
         QueuesDistinct
<1>2. /\ t \in ToSet(s)
      /\ ToSet(Tail(s)) = ToSet(s) \ {t}
      /\ IsInjective(Tail(s))
  BY <1>1, PopFront
<1>3. /\ tasks' = [tasks EXCEPT ![q] = Tail(s)]
      /\ cur' = [cur EXCEPT ![w] = t]
  BY DEF TakeTask
<1>4. /\ cur \in [Workers -> Tasks \cup {None}]
      /\ cur[w] = None
  BY DEF TakeTask, Goto, SafetyInv, TypeInv, TypeOK, HoldsWhenBusy
<1>5. t \in Queued
  BY <1>1, <1>2 DEF Queued
<1> DEFINE r == Tail(s)
<1>6. s = tasks[q] /\ ToSet(r) = ToSet(s) \ {t} /\ IsInjective(r)
  BY <1>2
<1>7. \A p \in Classes : tasks'[p] = IF p = q THEN r ELSE tasks[p]
  BY <1>1, <1>3
<1>8. t \in Tasks
  BY <1>1, HeadTailProperties
<1> HIDE DEF q, s, t, r
<1>9. \A p \in Classes : p # q => t \notin ToSet(tasks[p])
  BY <1>1, <1>2, <1>6 DEF SafetyInv, NoTaskLostOrRepeated, QueuesDistinct
<1>10. Queued' = Queued \ {t}
  <2>1. ASSUME NEW p \in Classes
        PROVE  ToSet(tasks'[p]) = ToSet(tasks[p]) \ {t}
    <3>1. CASE p = q
      BY <1>6, <1>7, <3>1
    <3>2. CASE p # q
      BY <1>7, <1>9, <3>2
    <3> QED BY <3>1, <3>2
  <2>2. ASSUME NEW x \in Queued' PROVE x \in Queued \ {t}
    BY <2>1 DEF Queued
  <2>3. ASSUME NEW x \in Queued \ {t} PROVE x \in Queued'
    <3>1. PICK p \in Classes : x \in ToSet(tasks[p])
      BY DEF Queued
    <3>2. x \in ToSet(tasks'[p])
      BY <2>1, <3>1
    <3> QED BY <3>2 DEF Queued
  <2> QED BY <2>2, <2>3
<1>11. QueuesDistinct'
  <2>1. \A p \in Classes : IsInjective(tasks'[p])
    BY <1>6, <1>7 DEF SafetyInv, NoTaskLostOrRepeated, QueuesDistinct
  <2>2. ASSUME NEW p1 \in Classes, NEW p2 \in Classes, p1 # p2
        PROVE  ToSet(tasks'[p1]) \cap ToSet(tasks'[p2]) = {}
    <3>1. ToSet(tasks[p1]) \cap ToSet(tasks[p2]) = {}
      BY <2>2 DEF SafetyInv, NoTaskLostOrRepeated, QueuesDistinct
    <3> QED BY <1>6, <1>7, <2>2, <3>1
  <2> QED BY <2>1, <2>2 DEF QueuesDistinct
<1>12. t \notin Held /\ t # None
  BY <1>5, <1>8, TaskAssumption DEF SafetyInv, NoTaskLostOrRepeated, OnePlace
<1>13. \A v \in Workers : cur'[v] = IF v = w THEN t ELSE cur[v]
  BY <1>3, <1>4
<1>14. Held' = Held \cup {t}
  BY <1>4, <1>12, <1>13 DEF Held
<1>15. HeldByOne'
  BY <1>12, <1>13 DEF SafetyInv, NoTaskLostOrRepeated, HeldByOne, Held
<1> QED BY <1>3, <1>4, <1>5, <1>10, <1>11, <1>14, <1>15

\* A worker that finishes hands its task over to done.
LEMMA FinishEffect ==
  ASSUME SafetyInv, NEW w \in Workers, FinishTask(w)
  PROVE  /\ cur[w] \in Held
         /\ Held' = Held \ {cur[w]}
         /\ done' = done \cup {cur[w]}
         /\ HeldByOne'
<1>1. cur[w] # None /\ cur \in [Workers -> Tasks \cup {None}]
  BY DEF FinishTask, Goto, SafetyInv, TypeInv, TypeOK, HoldsWhenBusy
<1>2. \A v \in Workers : cur'[v] = IF v = w THEN None ELSE cur[v]
  BY <1>1 DEF FinishTask
<1>3. \A v \in Workers : v # w => cur[v] # cur[w]
  BY <1>1 DEF SafetyInv, NoTaskLostOrRepeated, HeldByOne
<1>4. Held' = Held \ {cur[w]}
  BY <1>1, <1>2, <1>3 DEF Held
<1>5. HeldByOne'
  BY <1>2 DEF SafetyInv, NoTaskLostOrRepeated, HeldByOne
<1> QED BY <1>1, <1>4, <1>5 DEF FinishTask, Held

\* ClearTasks and Stop dispose of what is queued and of nothing else.
LEMMA DisposeEffect ==
  ASSUME EndClear \/ JoinThreads
  PROVE  /\ Queued' = {}
         /\ Held' = Held
         /\ disposed' = disposed \cup Queued
         /\ UNCHANGED <<cur, done, added>>
         /\ QueuesDistinct'
<1>1. /\ \A q \in Classes : tasks'[q] = <<>>
      /\ disposed' = disposed \cup Queued
      /\ UNCHANGED <<cur, done, added>>
  BY DEF EndClear, JoinThreads, DisposeQueued, workerVars
<1>2. Queued' = {} /\ QueuesDistinct'
  BY <1>1, EmptyDeque DEF Queued, QueuesDistinct
<1> QED BY <1>1, <1>2 DEF Held

\* Every other step leaves the deques and the tasks in hand as they are.
LEMMA OtherSteps ==
  ASSUME \/ \E w \in Workers : IdleStep(w) \/ StartTask(w) \/ Park(w)
         \/ CommandStep
         \/ UNCHANGED vars
  PROVE  UNCHANGED <<tasks, cur, added, done, disposed>>
BY DEF IdleStep, EnterLoop, TestPredicate, Block, Timeout, Exit, TakeNothing,
       SpuriousWakeup, StartTask, Park, CommandStep, ScanStatus, Thaw,
       RequestFreeze, BeginClear, BeginStop, NotifyStop, vars, queueVars,
       workerVars

\* Every step keeps each task in one place.
LEMMA SafetyStep == SafetyInv /\ [Next]_vars => SafetyInv'
<1> SUFFICES ASSUME SafetyInv, [Next]_vars PROVE NoTaskLostOrRepeated'
  BY TypeStep DEF SafetyInv
<1>a. OnePlace /\ HeldByOne /\ QueuesDistinct
  BY DEF SafetyInv, NoTaskLostOrRepeated
<1>1. ASSUME NEW t \in Tasks, AddTask(t) PROVE NoTaskLostOrRepeated'
  <2>1. added' = added \cup {t} /\ UNCHANGED <<cur, done, disposed>>
    BY <1>1 DEF AddTask, workerVars
  <2>2. HeldByOne'
    BY <1>a, <2>1 DEF HeldByOne
  <2>3. OnePlace'
    BY <1>1, <1>a, <2>1, AddEffect DEF OnePlace
  <2> QED BY <1>1, <2>2, <2>3, AddEffect DEF NoTaskLostOrRepeated
<1>2. ASSUME NEW w \in Workers, TakeTask(w) PROVE NoTaskLostOrRepeated'
  <2>1. UNCHANGED <<added, done, disposed>>
    BY <1>2 DEF TakeTask
  <2>2. PICK t \in Queued : /\ Queued' = Queued \ {t}
                            /\ Held' = Held \cup {t}
                            /\ QueuesDistinct' /\ HeldByOne'
    BY <1>2, TakeEffect
  <2>3. OnePlace'
    BY <1>a, <2>1, <2>2 DEF OnePlace
  <2> QED BY <2>2, <2>3 DEF NoTaskLostOrRepeated
<1>3. ASSUME NEW w \in Workers, FinishTask(w) PROVE NoTaskLostOrRepeated'
  <2>1. UNCHANGED <<tasks, added, disposed>>
    BY <1>3 DEF FinishTask, queueVars
  <2>2. Queued' = Queued /\ QueuesDistinct'
    BY <1>a, <2>1 DEF Queued, QueuesDistinct
  <2>3. OnePlace'
    BY <1>3, <1>a, <2>1, <2>2, FinishEffect DEF OnePlace
  <2> QED BY <1>3, <2>2, <2>3, FinishEffect DEF NoTaskLostOrRepeated
<1>4. ASSUME EndClear \/ JoinThreads PROVE NoTaskLostOrRepeated'
  <2>1. HeldByOne'
    BY <1>4, <1>a, DisposeEffect DEF HeldByOne
  <2>2. OnePlace'
    BY <1>4, <1>a, DisposeEffect DEF OnePlace
  <2> QED BY <1>4, <2>1, <2>2, DisposeEffect DEF NoTaskLostOrRepeated
<1>5. ASSUME \/ \E w \in Workers : IdleStep(w) \/ StartTask(w) \/ Park(w)
             \/ CommandStep
             \/ UNCHANGED vars
      PROVE  NoTaskLostOrRepeated'
  <2>1. UNCHANGED <<tasks, cur, added, done, disposed>>
    BY <1>5, OtherSteps
  <2> QED
    BY <1>a, <2>1 DEF NoTaskLostOrRepeated, OnePlace, HeldByOne,
                      QueuesDistinct, Queued, Held
<1> QED BY <1>1, <1>2, <1>3, <1>4, <1>5, NextCases

LEMMA SafetyInit == Init => SafetyInv
<1> SUFFICES ASSUME Init PROVE NoTaskLostOrRepeated
  BY TypeInit DEF SafetyInv
<1>1. Queued = {} /\ QueuesDistinct
  BY EmptyDeque DEF Init, Queued, QueuesDistinct
<1>2. Held = {} /\ HeldByOne
  BY DEF Init, Held, HeldByOne
<1> QED BY <1>1, <1>2 DEF Init, NoTaskLostOrRepeated, OnePlace

LEMMA SafetyInvariant == Safety => []SafetyInv
BY SafetyInit, SafetyStep, PTL DEF Safety

\* A task given to AddTask is never lost and never run twice, and a task that
\* was disposed of by ClearTasks or Stop never runs.
THEOREM NoTaskLost == Safety => []NoTaskLostOrRepeated
<1>1. SafetyInv => NoTaskLostOrRepeated
  BY DEF SafetyInv
<1> QED BY <1>1, SafetyInvariant, PTL

-----------------------------------------------------------------------------
(* The pool implements TaskPool.                                           *)

\* While a worker is about to take a task, fewer tasks are in hand than there
\* are workers.
LEMMA FreeHand ==
  ASSUME SafetyInv, NEW w \in Workers, cur[w] = None
  PROVE  Cardinality(Held) < NumThreads
<1> DEFINE S == {v \in Workers : cur[v] # None}
           f == [v \in S |-> cur[v]]
<1>1. IsFiniteSet(Workers) /\ Cardinality(Workers) = NumThreads
  BY ThreadFacts, FS_Interval DEF Workers
<1>2. /\ IsFiniteSet(Workers \ {w})
      /\ Cardinality(Workers \ {w}) = NumThreads - 1
  BY <1>1, FS_RemoveElement
<1>3. S \subseteq Workers \ {w}
  OBVIOUS
<1>4. IsFiniteSet(S) /\ Cardinality(S) <= NumThreads - 1
  BY <1>2, <1>3, FS_Subset
<1>5. f \in Surjection(S, Held)
  BY DEF Surjection, Held
<1>6. IsFiniteSet(Held) /\ Cardinality(Held) <= Cardinality(S)
  BY <1>4, <1>5, FS_Surjection
<1>7. Cardinality(S) \in Nat /\ Cardinality(Held) \in Nat
  BY <1>4, <1>6, FS_CardinalityType
<1> QED BY <1>4, <1>6, <1>7, ThreadFacts

LEMMA PoolInitially == Init => Pool!PoolInit
<1> SUFFICES ASSUME Init PROVE Pool!PoolInit
  OBVIOUS
<1>1. Queued = {}
  BY EmptyDeque DEF Init, Queued
<1>2. Held = {}
  BY DEF Init, Held
<1> QED BY <1>1, <1>2 DEF Init, Pool!PoolInit

\* Every step of the pool is a step of TaskPool or leaves its state alone.
LEMMA PoolStep == SafetyInv /\ [Next]_vars => [Pool!PoolNext]_(Pool!poolVars)
<1> SUFFICES ASSUME SafetyInv, [Next]_vars
             PROVE  Pool!PoolNext \/ UNCHANGED Pool!poolVars
  OBVIOUS
<1>1. ASSUME NEW t \in Tasks, AddTask(t) PROVE Pool!PoolNext
  <2>1. UNCHANGED <<done, disposed>>
    BY <1>1 DEF AddTask, workerVars
  <2>2. Pool!Submit(t)
    BY <1>1, <2>1, AddEffect DEF Pool!Submit
  <2> QED BY <2>2 DEF Pool!PoolNext
<1>2. ASSUME NEW w \in Workers, TakeTask(w) PROVE Pool!PoolNext
  <2>1. UNCHANGED <<done, disposed>>
    BY <1>2 DEF TakeTask
  <2>2. PICK t \in Queued : /\ Queued' = Queued \ {t}
                            /\ Held' = Held \cup {t}
                            /\ cur[w] = None
    BY <1>2, TakeEffect
  <2>3. t \in Tasks
    BY <2>2, LenProperties DEF Queued, ToSet, SafetyInv, TypeInv, TypeOK
  <2>4. Cardinality(Held) < NumThreads
    BY <2>2, FreeHand
  <2>5. Pool!Cardinality(Held) = Cardinality(Held)
    BY DEF Cardinality, Pool!Cardinality
  <2>6. Pool!Begin(t)
    BY <2>1, <2>2, <2>4, <2>5 DEF Pool!Begin
  <2> QED BY <2>3, <2>6 DEF Pool!PoolNext
<1>3. ASSUME NEW w \in Workers, FinishTask(w) PROVE Pool!PoolNext
  <2>1. Queued' = Queued /\ UNCHANGED disposed
    BY <1>3 DEF FinishTask, queueVars, Queued
  <2>2. cur[w] \in Tasks
    BY <1>3 DEF FinishTask, Goto, SafetyInv, TypeInv, TypeOK, HoldsWhenBusy
  <2>3. Pool!Complete(cur[w])
    BY <1>3, <2>1, FinishEffect DEF Pool!Complete
  <2> QED BY <2>2, <2>3 DEF Pool!PoolNext
<1>4. ASSUME EndClear \/ JoinThreads
      PROVE  Pool!PoolNext \/ UNCHANGED Pool!poolVars
  <2>1. CASE Queued = {}
    BY <1>4, <2>1, DisposeEffect DEF Pool!poolVars
  <2>2. CASE Queued # {}
    <3>1. Pool!DropAll
      BY <1>4, <2>2, DisposeEffect DEF Pool!DropAll
    <3> QED BY <3>1 DEF Pool!PoolNext
  <2> QED BY <2>1, <2>2
<1>5. ASSUME \/ \E w \in Workers : IdleStep(w) \/ StartTask(w) \/ Park(w)
             \/ CommandStep
             \/ UNCHANGED vars
      PROVE  UNCHANGED Pool!poolVars
  <2>1. UNCHANGED <<tasks, cur, added, done, disposed>>
    BY <1>5, OtherSteps
  <2> QED BY <2>1 DEF Pool!poolVars, Queued, Held
<1> QED BY <1>1, <1>2, <1>3, <1>4, <1>5, NextCases

\* The worker loops, AddTask, ClearTasks, Freeze, Thaw and Stop implement the
\* abstract pool: a task is begun at most once and ends run or dropped, and at
\* most NumThreads tasks are in hand at a time.
THEOREM PoolImplemented == Safety => PoolSafety
BY PoolInitially, PoolStep, SafetyInvariant, PTL
   DEF Safety, PoolSafety, Pool!PoolSafety

-----------------------------------------------------------------------------
(* Who holds the mutexes, and which flags go with what the session does.    *)

\* A worker between the test of its predicate and what follows holds the mutex
\* of its queue; ClearTasks holds all three unless the pool is frozen, and Stop
\* holds _lock while it sets _terminate.
LocksHeld ==
  /\ \A w \in Workers : pc[w] \in {"take", "block"} => lock[Home(w)] = w
  /\ control = "clearing" /\ ~freeze => \A q \in Classes : lock[q] = Session
  /\ control = "stopping" => lock["Heavy"] = Session

FlagsAgree ==
  /\ control = "idle" => ~freeze
  /\ control = "clearing" /\ freeze => "frozen" \in ClearsIn
  /\ terminate <=> control \in {"stopping", "joining", "stopped"}
  /\ wait => control \in {"joining", "stopped"}

LockInv == TypeInv /\ LocksHeld /\ FlagsAgree

\* The steps of a worker that touch its mutex.
LEMMA AcquireKeeps ==
  ASSUME LockInv, NEW w \in Workers, Acquire(w),
         UNCHANGED <<control, freeze>>,
         \A v \in Workers : v # w => pc'[v] = pc[v]
  PROVE  LocksHeld'
<1> USE ThreadFacts, OwnerAssumption
<1>1. lock \in [Classes -> Workers \cup {None, Session}]
  BY DEF LockInv, TypeInv, TypeOK
<1>2. /\ lock[Home(w)] = None
      /\ lock' = [lock EXCEPT ![Home(w)] = w]
  BY DEF Acquire
<1>3. ASSUME NEW v \in Workers, pc'[v] \in {"take", "block"}
      PROVE  lock'[Home(v)] = v
  <2>1. CASE v = w
    BY <1>1, <1>2, <2>1
  <2>2. CASE v # w
    <3>1. lock[Home(v)] = v
      BY <1>3, <2>2 DEF LockInv, LocksHeld
    <3> QED BY <1>1, <1>2, <3>1
  <2> QED BY <2>1, <2>2
<1>4. ~(control = "clearing" /\ ~freeze)
  BY <1>2 DEF LockInv, LocksHeld
<1>5. control = "stopping" => lock'["Heavy"] = Session
  BY <1>1, <1>2 DEF LockInv, LocksHeld
<1> QED BY <1>3, <1>4, <1>5 DEF LocksHeld

LEMMA ReleaseKeeps ==
  ASSUME LockInv, NEW w \in Workers, Release(w), pc[w] \in {"take", "block"},
         UNCHANGED <<control, freeze>>,
         pc'[w] \notin {"take", "block"},
         \A v \in Workers : v # w => pc'[v] = pc[v]
  PROVE  LocksHeld'
<1> USE ThreadFacts, OwnerAssumption
<1>1. lock \in [Classes -> Workers \cup {None, Session}]
  BY DEF LockInv, TypeInv, TypeOK
<1>2. /\ lock[Home(w)] = w
      /\ lock' = [lock EXCEPT ![Home(w)] = None]
  BY DEF Release, LockInv, LocksHeld
<1>3. ASSUME NEW v \in Workers, pc'[v] \in {"take", "block"}
      PROVE  lock'[Home(v)] = v
  <2>1. v # w /\ lock[Home(v)] = v
    BY <1>3 DEF LockInv, LocksHeld
  <2> QED BY <1>1, <1>2, <2>1
<1>4. ~(control = "clearing" /\ ~freeze)
  BY <1>2 DEF LockInv, LocksHeld
<1>5. control = "stopping" => lock'["Heavy"] = Session
  BY <1>1, <1>2 DEF LockInv, LocksHeld
<1> QED BY <1>3, <1>4, <1>5 DEF LocksHeld

\* Steps that leave the mutexes alone and bring no worker to hold one.
LEMMA LocksKept ==
  ASSUME LocksHeld, UNCHANGED <<lock, control, freeze>>,
         \A w \in Workers : pc'[w] = pc[w] \/ pc'[w] \notin {"take", "block"}
  PROVE  LocksHeld'
BY DEF LocksHeld

LEMMA LockStep == LockInv /\ [Next]_vars => LockInv'
<1> SUFFICES ASSUME LockInv, [Next]_vars PROVE LocksHeld' /\ FlagsAgree'
  BY TypeStep DEF LockInv
<1> USE ThreadFacts, OwnerAssumption
<1>t. /\ lock \in [Classes -> Workers \cup {None, Session}]
      /\ pc \in [Workers -> PCs]
      /\ freeze \in BOOLEAN /\ terminate \in BOOLEAN /\ wait \in BOOLEAN
  BY DEF LockInv, TypeInv, TypeOK, PCs
<1>l. LocksHeld /\ FlagsAgree
  BY DEF LockInv
<1>f. UNCHANGED <<flagVars, control>> => FlagsAgree'
  BY <1>l DEF FlagsAgree, flagVars
<1>1. ASSUME NEW t \in Tasks, AddTask(t) PROVE LocksHeld' /\ FlagsAgree'
  <2>1. UNCHANGED <<lock, flagVars, control>> /\ NotifyOne(Guard(Route(t)))
    BY <1>1 DEF AddTask, sessionVars
  <2>2. \A w \in Workers : pc'[w] = pc[w] \/ pc'[w] \notin {"take", "block"}
    BY <1>t, <2>1, NotifyMoves
  <2> QED BY <1>f, <1>l, <2>1, <2>2, LocksKept DEF flagVars
<1>2. ASSUME NEW w \in Workers, IdleStep(w) PROVE LocksHeld' /\ FlagsAgree'
  <2>1. UNCHANGED <<flagVars, control>>
    BY <1>2 DEF IdleStep, EnterLoop, TestPredicate, Block, Timeout, Exit,
                TakeNothing, SpuriousWakeup, sessionVars
  <2>2. CASE TestPredicate(w) \/ Timeout(w)
    <3>1. Acquire(w) /\ \A v \in Workers : v # w => pc'[v] = pc[v]
      BY <1>t, <2>2 DEF TestPredicate, Timeout, Goto
    <3> QED BY <1>f, <2>1, <3>1, AcquireKeeps DEF flagVars
  <2>3. CASE Block(w) \/ Exit(w) \/ TakeNothing(w)
    <3>1. /\ Release(w) /\ pc[w] \in {"take", "block"}
          /\ pc'[w] \notin {"take", "block"}
          /\ \A v \in Workers : v # w => pc'[v] = pc[v]
      BY <1>t, <2>3 DEF Block, Exit, TakeNothing, Goto
    <3> QED BY <1>f, <2>1, <3>1, ReleaseKeeps DEF flagVars
  <2>4. CASE EnterLoop(w) \/ SpuriousWakeup(w)
    <3>1. UNCHANGED lock
      BY <2>4 DEF EnterLoop, SpuriousWakeup
    <3>2. \A v \in Workers : pc'[v] = pc[v] \/ pc'[v] \notin {"take", "block"}
      BY <1>t, <2>4 DEF EnterLoop, SpuriousWakeup, Goto
    <3> QED BY <1>f, <1>l, <2>1, <3>1, <3>2, LocksKept DEF flagVars
  <2> QED BY <1>2, <2>2, <2>3, <2>4 DEF IdleStep
<1>3. ASSUME NEW w \in Workers, TakeTask(w) PROVE LocksHeld' /\ FlagsAgree'
  <2>1. /\ Release(w) /\ pc[w] \in {"take", "block"}
        /\ pc'[w] \notin {"take", "block"}
        /\ \A v \in Workers : v # w => pc'[v] = pc[v]
        /\ UNCHANGED <<flagVars, control>>
    BY <1>t, <1>3 DEF TakeTask, Goto, sessionVars
  <2> QED BY <1>f, <2>1, ReleaseKeeps DEF flagVars
<1>4. ASSUME NEW w \in Workers, StartTask(w) \/ FinishTask(w) \/ Park(w)
      PROVE  LocksHeld' /\ FlagsAgree'
  <2>1. UNCHANGED <<lock, flagVars, control>>
    BY <1>4 DEF StartTask, FinishTask, Park, sessionVars
  <2>2. \A v \in Workers : pc'[v] = pc[v] \/ pc'[v] \notin {"take", "block"}
    BY <1>t, <1>4 DEF StartTask, FinishTask, Park, Goto
  <2> QED BY <1>f, <1>l, <2>1, <2>2, LocksKept DEF flagVars
<1>5. ASSUME CommandStep PROVE LocksHeld' /\ FlagsAgree'
  <2>1. \A w \in Workers : pc'[w] = pc[w] \/ pc'[w] \notin {"take", "block"}
    BY <1>t, <1>5, NotifyMoves
       DEF CommandStep, ScanStatus, Thaw, RequestFreeze, BeginClear, BeginStop,
           NotifyStop
  <2>2. CASE BeginClear \/ BeginStop
    <3>1. FlagsAgree'
      <4>1. ~wait /\ UNCHANGED <<freeze, wait>>
        BY <1>l, <2>2, SessionAssumption
           DEF BeginClear, BeginStop, FlagsAgree, flagVars
      <4>2. CASE BeginStop
        BY <4>1, <4>2 DEF BeginStop, FlagsAgree
      <4>3. CASE BeginClear
        <5>1. /\ control \in ClearsIn /\ control \in {"idle", "frozen"}
              /\ control' = "clearing" /\ UNCHANGED terminate
          BY <4>3, SessionAssumption DEF BeginClear, flagVars
        <5> QED BY <1>l, <4>1, <5>1 DEF FlagsAgree
      <4> QED BY <2>2, <4>2, <4>3
    <3>2. UNCHANGED pc
      BY <2>2 DEF BeginClear, BeginStop
    <3>3. CASE BeginStop
      <4>1. /\ lock["Heavy"] = None /\ lock' = [lock EXCEPT !["Heavy"] = Session]
            /\ control' = "stopping"
        BY <3>3 DEF BeginStop
      <4>2. \A w \in Workers : pc[w] \in {"take", "block"} => lock'[Home(w)] = w
        BY <1>l, <1>t, <4>1 DEF LocksHeld
      <4> QED BY <1>t, <3>1, <3>2, <4>1, <4>2 DEF LocksHeld, Classes
    <3>4. CASE BeginClear /\ freeze
      <4>1. UNCHANGED <<lock, freeze>> /\ control' = "clearing"
        BY <3>4 DEF BeginClear, flagVars
      <4> QED BY <1>l, <3>1, <3>2, <3>4, <4>1 DEF LocksHeld
    <3>5. CASE BeginClear /\ ~freeze
      <4>1. /\ \A q \in Classes : lock[q] = None /\ lock'[q] = Session
            /\ control' = "clearing"
        BY <3>5 DEF BeginClear
      <4>2. \A w \in Workers : pc[w] \notin {"take", "block"}
        BY <1>l, <4>1 DEF LocksHeld
      <4> QED BY <3>1, <3>2, <4>1, <4>2 DEF LocksHeld
    <3> QED BY <2>2, <3>1, <3>3, <3>4, <3>5
  <2>3. CASE \E completeall \in StopModes : NotifyStop(completeall)
    <3>1. FlagsAgree'
      BY <1>l, <2>3 DEF NotifyStop, FlagsAgree
    <3>2. /\ lock' = [lock EXCEPT !["Heavy"] = None]
          /\ lock["Heavy"] = Session /\ control' = "joining"
      BY <1>l, <2>3 DEF NotifyStop, LocksHeld
    <3> QED BY <1>l, <1>t, <2>1, <3>1, <3>2 DEF LocksHeld
  <2>4. CASE ScanStatus \/ Thaw \/ RequestFreeze
    <3>1. FlagsAgree'
      BY <1>l, <2>4 DEF ScanStatus, Thaw, RequestFreeze, FlagsAgree, flagVars
    <3>2. UNCHANGED lock /\ control' \notin {"clearing", "stopping"}
      BY <2>4 DEF ScanStatus, Thaw, RequestFreeze
    <3> QED BY <1>l, <2>1, <3>1, <3>2 DEF LocksHeld
  <2> QED BY <1>5, <2>2, <2>3, <2>4 DEF CommandStep
<1>6. ASSUME EndClear \/ JoinThreads PROVE LocksHeld' /\ FlagsAgree'
  <2>1. UNCHANGED <<pc, flagVars>>
    BY <1>6 DEF EndClear, JoinThreads
  <2>2. FlagsAgree'
    BY <1>l, <1>6 DEF EndClear, JoinThreads, FlagsAgree, flagVars
  <2>3. CASE JoinThreads
    <3>1. UNCHANGED <<lock, freeze>> /\ control' = "stopped"
      BY <2>3 DEF JoinThreads, flagVars
    <3> QED BY <1>l, <2>1, <2>2, <3>1 DEF LocksHeld
  <2>4. CASE EndClear
    <3>1. CASE freeze
      <4>1. UNCHANGED lock /\ control' = "frozen"
        BY <2>4, <3>1 DEF EndClear
      <4> QED BY <1>l, <2>1, <2>2, <4>1 DEF LocksHeld
    <3>2. CASE ~freeze
      <4>1. control' = "idle" /\ \A q \in Classes : lock[q] = Session
        BY <1>l, <2>4, <3>2 DEF EndClear, LocksHeld
      <4>2. \A w \in Workers : pc[w] \notin {"take", "block"}
        BY <1>l, <4>1 DEF LocksHeld
      <4> QED BY <2>1, <2>2, <4>1, <4>2 DEF LocksHeld
    <3> QED BY <3>1, <3>2
  <2> QED BY <1>6, <2>2, <2>3, <2>4
<1>7. CASE UNCHANGED vars
  BY <1>l, <1>7 DEF vars, LocksHeld, FlagsAgree
<1> QED
  BY <1>1, <1>2, <1>3, <1>4, <1>5, <1>6, <1>7, NextCases

LEMMA LockInitially == Init => LockInv
BY TypeInit DEF Init, LockInv, LocksHeld, FlagsAgree

LEMMA LockInvariant == Safety => []LockInv
BY LockInitially, LockStep, PTL DEF Safety

-----------------------------------------------------------------------------
(* The light loop takes front() of its deque without looking whether it is   *)
(* empty.  Who may empty the deque between the test of the predicate and that *)
(* follows from who holds the mutexes.                                        *)

\* FrontIsSure, where the deque of the worker is the light one.
HasFront(w) ==
  /\ pc[w] # "crashed"
  /\ pc[w] = "take" => terminate \/ tasks["Light"] # <<>>

\* Where there are light workers, they serve the light deque alone and share
\* its mutex.
LEMMA LightFacts ==
  ASSUME NEW w \in Workers, Kind(w) = "Light"
  PROVE  /\ ~Coarse
         /\ Home(w) = "Light"
         /\ Empty(w) <=> tasks["Light"] = <<>>
         /\ FrontIsSure(w) <=> HasFront(w)
         /\ FrontIsSure(w)' <=> HasFront(w)'
BY DEF Kind, Home, Empty, Serves, FrontIsSure, HasFront, Leaving

LEMMA FrontStep ==
  ASSUME LockInv, [Next]_vars, NEW u \in Workers, Kind(u) = "Light", HasFront(u),
         ~(control = "clearing" /\ freeze)
  PROVE  HasFront(u)'
<1> USE ThreadFacts
<1>t. /\ tasks \in [Classes -> Seq(Tasks)]
      /\ pc \in [Workers -> PCs]
      /\ LocksHeld /\ FlagsAgree
  BY DEF LockInv, TypeInv, TypeOK, PCs
<1>a. ASSUME UNCHANGED <<tasks, terminate>>,
             pc'[u] = pc[u] \/ pc'[u] \notin {"take", "crashed"}
      PROVE  HasFront(u)'
  BY <1>t, <1>a DEF HasFront
<1>1. ASSUME NEW t \in Tasks, AddTask(t) PROVE HasFront(u)'
  <2>1. UNCHANGED terminate /\ NotifyOne(Guard(Route(t)))
    BY <1>1 DEF AddTask, flagVars
  <2>2. pc'[u] = pc[u] \/ pc'[u] = "loop"
    BY <1>t, <2>1, NotifyMoves
  <2>3. tasks["Light"] # <<>> => tasks'["Light"] # <<>>
    <3>1. \A s \in Seq(Tasks) : <<t>> \o s # <<>> /\ Append(s, t) # <<>>
      OBVIOUS
    <3> QED BY <1>t, <1>1, <3>1 DEF AddTask
  <2> QED BY <1>t, <2>1, <2>2, <2>3 DEF HasFront
<1>2. ASSUME NEW w \in Workers, IdleStep(w) PROVE HasFront(u)'
  <2>1. /\ UNCHANGED <<tasks, terminate>>
        /\ u # w => pc'[u] = pc[u]
    BY <1>t, <1>2 DEF IdleStep, EnterLoop, TestPredicate, Block, Timeout, Exit,
                TakeNothing, SpuriousWakeup, Goto, queueVars, flagVars
  <2>2. CASE u # w
    BY <1>a, <2>1, <2>2
  <2>3. CASE EnterLoop(w) \/ Block(w) \/ Exit(w) \/ SpuriousWakeup(w)
    BY <1>t, <1>a, <2>1, <2>3 DEF EnterLoop, Block, Exit, SpuriousWakeup, Goto
  <2>4. CASE TestPredicate(w) /\ u = w
    <3>1. pc'[w] = IF Ready(w) THEN "take" ELSE "block"
      BY <1>t, <2>4 DEF TestPredicate, Goto
    <3>2. Ready(w) => terminate \/ tasks["Light"] # <<>>
      BY <2>4, LightFacts DEF Ready, Leaving
    <3> QED BY <1>t, <2>1, <2>4, <3>1, <3>2 DEF HasFront
  <2>5. CASE Timeout(w) /\ u = w
    BY <2>5 DEF Timeout
  <2>6. CASE TakeNothing(w) /\ u = w
    <3>1. pc[w] = "take" /\ ~Leaving(w) /\ Empty(w)
      BY <2>6 DEF TakeNothing, HoldsBack, Goto
    <3> QED BY <2>6, <3>1, LightFacts DEF HasFront, Leaving
  <2> QED BY <1>2, <2>2, <2>3, <2>4, <2>5, <2>6 DEF IdleStep
<1>3. ASSUME NEW w \in Workers, TakeTask(w) PROVE HasFront(u)'
  <2>1. /\ pc[w] = "take" /\ pc'[w] = "taken"
        /\ u # w => pc'[u] = pc[u]
        /\ UNCHANGED terminate
        /\ tasks' = [tasks EXCEPT ![Source(w)] = Tail(@)]
    BY <1>t, <1>3 DEF TakeTask, Goto, flagVars
  <2>2. ASSUME pc'[u] = "take" PROVE terminate' \/ tasks'["Light"] # <<>>
    <3>1. u # w /\ pc[u] = "take"
      BY <2>1, <2>2
    <3>2. Home(u) # Home(w)
      BY <1>t, <2>1, <3>1 DEF LocksHeld
    <3>3. Source(w) # "Light"
      BY <3>2, LightFacts DEF Source, Home, Kind
    <3> QED BY <1>t, <2>1, <3>1, <3>3 DEF HasFront
  <2> QED BY <1>t, <2>1, <2>2 DEF HasFront
<1>4. ASSUME NEW w \in Workers, StartTask(w) \/ FinishTask(w) \/ Park(w)
      PROVE  HasFront(u)'
  BY <1>t, <1>a, <1>4
     DEF StartTask, FinishTask, Park, Goto, queueVars, flagVars
<1>5. ASSUME CommandStep PROVE HasFront(u)'
  <2>1. pc'[u] = pc[u] \/ pc'[u] = "loop"
    BY <1>t, <1>5, NotifyMoves
       DEF CommandStep, ScanStatus, Thaw, RequestFreeze, BeginClear, BeginStop,
           NotifyStop
  <2>2. UNCHANGED tasks
    BY <1>5 DEF CommandStep, ScanStatus, Thaw, RequestFreeze, BeginClear,
                BeginStop, NotifyStop, queueVars
  <2>3. terminate' = terminate \/ terminate' = TRUE
    BY <1>5 DEF CommandStep, ScanStatus, Thaw, RequestFreeze, BeginClear,
                BeginStop, NotifyStop, flagVars
  <2> QED BY <1>t, <2>1, <2>2, <2>3 DEF HasFront
<1>6. ASSUME EndClear \/ JoinThreads PROVE HasFront(u)'
  <2>1. UNCHANGED <<pc, terminate>>
    BY <1>6 DEF EndClear, JoinThreads, flagVars
  <2>2. ASSUME pc[u] = "take" PROVE FALSE
    <3>1. CASE JoinThreads
      BY <2>2, <3>1 DEF JoinThreads
    <3>2. CASE EndClear
      <4>1. lock[Home(u)] = Session
        BY <1>t, <3>2 DEF EndClear, LocksHeld
      <4> QED BY <1>t, <2>2, <4>1, OwnerAssumption DEF LocksHeld
    <3> QED BY <1>6, <3>1, <3>2
  <2> QED BY <2>1, <2>2 DEF HasFront
<1>7. CASE UNCHANGED vars
  BY <1>a, <1>7 DEF vars
<1> QED
  BY <1>1, <1>2, <1>3, <1>4, <1>5, <1>6, <1>7, NextCases

\* From the test of its predicate to the front() that it does not guard, no
\* light thread loses its deque to a caller of AddTask, to another thread, to
\* Stop or to ClearTasks, but to a ClearTasks that finds the pool frozen.
THEOREM FrontIsKept == Safety => FrontLostOnlyToFrozenClear
<1> DEFINE Kept == \A w \in Workers : Kind(w) = "Light" /\ FrontIsSure(w) =>
                     FrontIsSure(w)' \/ (control = "clearing" /\ freeze)
<1>1. LockInv /\ [Next]_vars => [Kept]_vars
  <2> SUFFICES ASSUME LockInv, [Next]_vars, NEW w \in Workers, Kind(w) = "Light",
                      FrontIsSure(w), ~(control = "clearing" /\ freeze)
               PROVE  FrontIsSure(w)'
    OBVIOUS
  <2> QED BY LightFacts, FrontStep
<1>2. Safety => [][Kept]_vars
  BY <1>1, LockInvariant, PTL DEF Safety
<1> QED BY <1>2 DEF FrontLostOnlyToFrozenClear

-----------------------------------------------------------------------------
(* A pool that is frozen and at rest stays so until it is thawed.           *)

\* A worker that is about to take a task, and exits or is held back, does so in
\* the next state too; and no other worker gets there.
LEMMA QuietStep ==
  ASSUME TypeInv, Quiescent, [Next]_vars, freeze'
  PROVE  Quiescent'
<1> USE ThreadFacts
<1>t. /\ pc \in [Workers -> PCs]
      /\ cur \in [Workers -> Tasks \cup {None}]
      /\ tasks \in [Classes -> Seq(Tasks)]
  BY DEF TypeInv, TypeOK, PCs
<1>q. /\ freeze /\ Held = {}
      /\ \A w \in Workers : pc[w] = "take" => HoldsBack(w) \/ Leaving(w)
  BY DEF Quiescent
<1>h. \A w \in Workers : pc[w] \notin {"taken", "running"}
  BY <1>q DEF Held, TypeInv, HoldsWhenBusy
<1>a. ASSUME UNCHANGED <<freeze, cur>>,
             \A w \in Workers : pc'[w] = "take" => HoldsBack(w) \/ Leaving(w)',
             \A w \in Workers : HoldsBack(w)' = HoldsBack(w)
      PROVE  Quiescent'
  BY <1>q, <1>a DEF Quiescent, Held
<1>b. ASSUME UNCHANGED freeze PROVE \A w \in Workers : HoldsBack(w)' = HoldsBack(w)
  BY <1>b DEF HoldsBack
<1>c. ASSUME UNCHANGED <<tasks, freeze, terminate, wait, cur>>,
             \A w \in Workers :
               pc'[w] = "take" => pc[w] = "take" \/ HoldsBack(w)
      PROVE  Quiescent'
  <2>1. \A w \in Workers : Leaving(w)' = Leaving(w)
    BY <1>c DEF Leaving, Empty
  <2> QED BY <1>a, <1>b, <1>c, <1>q, <2>1
<1>1. ASSUME NEW t \in Tasks, AddTask(t), ~terminate PROVE Quiescent'
  <2>1. UNCHANGED <<cur, freeze, terminate>>
    BY <1>1 DEF AddTask, workerVars, flagVars
  <2>2. \A w \in Workers : pc'[w] = pc[w] \/ pc'[w] = "loop"
    BY <1>t, <1>1, NotifyMoves DEF AddTask
  <2>3. \A w \in Workers : pc[w] = "take" => HoldsBack(w)
    BY <1>1, <1>q DEF Leaving
  <2> QED BY <1>a, <1>b, <2>1, <2>2, <2>3
<1>2. ASSUME NEW w \in Workers, IdleStep(w) PROVE Quiescent'
  <2>1. UNCHANGED <<tasks, freeze, terminate, wait, cur>>
    BY <1>2 DEF IdleStep, EnterLoop, TestPredicate, Block, Timeout, Exit,
                TakeNothing, SpuriousWakeup, queueVars, workerVars, flagVars
  <2>2. \A v \in Workers : v # w => pc'[v] = pc[v]
    BY <1>t, <1>2 DEF IdleStep, EnterLoop, TestPredicate, Block, Timeout, Exit,
                TakeNothing, SpuriousWakeup, Goto
  <2>3. pc'[w] = "take" => HoldsBack(w)
    BY <1>t, <1>q, <1>2 DEF IdleStep, EnterLoop, TestPredicate, Block, Timeout, Exit,
                TakeNothing, SpuriousWakeup, Goto, Ready, HoldsBack
  <2> QED BY <1>c, <2>1, <2>2, <2>3
<1>3. ASSUME NEW w \in Workers, TakeTask(w) \/ StartTask(w) \/ FinishTask(w) PROVE FALSE
  BY <1>q, <1>h, <1>3 DEF TakeTask, StartTask, FinishTask, Goto
<1>4. ASSUME NEW w \in Workers, Park(w) PROVE Quiescent'
  <2>1. UNCHANGED <<tasks, freeze, terminate, wait, cur>>
    BY <1>4 DEF Park, queueVars, flagVars
  <2>2. \A v \in Workers : pc'[v] = pc[v] \/ pc'[v] = "loop"
    BY <1>t, <1>4 DEF Park, Goto
  <2> QED BY <1>c, <2>1, <2>2
<1>5. ASSUME CommandStep PROVE Quiescent'
  <2>1. \A v \in Workers : pc'[v] = pc[v] \/ pc'[v] = "loop"
    BY <1>t, <1>5, NotifyMoves
       DEF CommandStep, ScanStatus, Thaw, RequestFreeze, BeginClear, BeginStop,
           NotifyStop
  <2>2. UNCHANGED <<tasks, cur>>
    BY <1>5 DEF CommandStep, ScanStatus, Thaw, RequestFreeze, BeginClear,
                BeginStop, NotifyStop, queueVars, workerVars
  <2>3. CASE ScanStatus \/ BeginClear
    <3>1. UNCHANGED <<freeze, terminate, wait>>
      BY <2>3 DEF ScanStatus, BeginClear, flagVars
    <3> QED BY <1>c, <2>1, <2>2, <3>1
  <2>4. CASE RequestFreeze
    <3>1. UNCHANGED <<terminate, wait>> /\ freeze' = TRUE
      BY <2>4 DEF RequestFreeze
    <3>2. \A w \in Workers : Leaving(w)' = Leaving(w) /\ (HoldsBack(w) => HoldsBack(w)')
      BY <2>2, <3>1 DEF Leaving, Empty, HoldsBack
    <3> QED BY <1>q, <2>1, <2>2, <3>1, <3>2 DEF Quiescent, Held
  <2>5. CASE BeginStop \/ \E completeall \in StopModes : NotifyStop(completeall)
    <3>1. UNCHANGED freeze /\ (terminate = TRUE => terminate' = TRUE) /\ (wait = FALSE => wait' = FALSE)
      <4>1. UNCHANGED freeze
        BY <2>5 DEF BeginStop, NotifyStop
      <4>2. terminate' = terminate \/ terminate' = TRUE
        BY <2>5 DEF BeginStop, NotifyStop
      <4>3. wait' = wait \/ wait' = FALSE
        <5>1. ASSUME NEW completeall \in StopModes, NotifyStop(completeall)
              PROVE  wait' = FALSE
          BY <1>q, <5>1, SessionAssumption DEF NotifyStop
        <5> QED BY <2>5, <5>1 DEF BeginStop
      <4> QED BY <4>1, <4>2, <4>3
    <3>2. \A w \in Workers : Leaving(w) => Leaving(w)'
      <4>1. terminate \in BOOLEAN /\ wait \in BOOLEAN
        BY DEF TypeInv, TypeOK
      <4> QED BY <2>2, <3>1, <4>1 DEF Leaving, Empty
    <3> QED BY <1>a, <1>b, <1>q, <2>1, <2>2, <3>1, <3>2
  <2>6. CASE Thaw
    BY <2>6 DEF Thaw
  <2> QED BY <1>5, <2>3, <2>4, <2>5, <2>6 DEF CommandStep
<1>6. ASSUME EndClear \/ JoinThreads PROVE Quiescent'
  <2>1. /\ UNCHANGED <<pc, cur, freeze, terminate, wait>>
        /\ \A q \in Classes : tasks'[q] = <<>>
    BY <1>6 DEF EndClear, JoinThreads, DisposeQueued, workerVars, flagVars
  <2>2. \A w \in Workers : Empty(w)'
    BY <2>1 DEF Empty, Serves
  <2>3. \A w \in Workers : Leaving(w) => Leaving(w)'
    BY <2>1, <2>2 DEF Leaving
  <2> QED BY <1>a, <1>b, <1>q, <2>1, <2>3
<1>7. CASE UNCHANGED vars
  BY <1>7, <1>c DEF vars
<1>8. ASSUME Next
      PROVE  \/ \E t \in Tasks : AddTask(t) /\ ~terminate
             \/ \E w \in Workers : IdleStep(w)
             \/ \E w \in Workers : TakeTask(w) \/ StartTask(w) \/ FinishTask(w)
             \/ \E w \in Workers : Park(w)
             \/ CommandStep
             \/ EndClear \/ JoinThreads
  BY <1>8, <1>h DEF Next, ClientAdds, TaskAdds, WorkerStep, IdleStep, SessionStep,
       CommandStep
<1> QED BY <1>1, <1>2, <1>3, <1>4, <1>5, <1>6, <1>7, <1>8

\* Between Freeze and Thaw nothing disturbs a pool that has come to rest: no
\* task is taken, whatever is added, cleared or stopped.
THEOREM QuiescenceLasts == Safety => QuiescenceIsStable
<1>1. TypeInv /\ [Next]_vars => [Quiescent => Quiescent' \/ ~freeze']_vars
  BY QuietStep
<1> QED BY <1>1, TypeInvariant, PTL DEF Safety, QuiescenceIsStable

-----------------------------------------------------------------------------
(* Stop(true).  Where every thread serves every deque, a thread that exits    *)
(* has seen all of them empty, and only a thread that runs a task adds one    *)
(* after that.                                                                *)

SomebodyDrains ==
  /\ \A w \in Workers : pc[w] = "exited" => control \in {"joining", "stopped"}
  /\ terminate /\ wait /\ Queued # {} => \E w \in Workers : pc[w] # "exited"

DrainInv == LockInv /\ SomebodyDrains

LEMMA CoarseFacts ==
  ASSUME Coarse, TypeInv
  PROVE  \A w \in Workers : /\ Home(w) = "Heavy"
                            /\ Empty(w) <=> Queued = {}
<1> SUFFICES ASSUME NEW w \in Workers
             PROVE  Home(w) = "Heavy" /\ (Empty(w) <=> Queued = {})
  OBVIOUS
<1>1. Home(w) = "Heavy" /\ (Empty(w) <=> \A q \in Classes : tasks[q] = <<>>)
  BY DEF Kind, Home, Empty, Serves
<1>2. \A q \in Classes : tasks[q] = <<>> <=> ToSet(tasks[q]) = {}
  BY NoElements DEF TypeInv, TypeOK
<1> QED BY <1>1, <1>2 DEF Queued

LEMMA DrainStep == Coarse /\ DrainInv /\ [Next]_vars => DrainInv'
<1> SUFFICES ASSUME Coarse, DrainInv, [Next]_vars PROVE SomebodyDrains'
  BY LockStep DEF DrainInv
<1> USE ThreadFacts
<1>t. /\ pc \in [Workers -> PCs]
      /\ lock \in [Classes -> Workers \cup {None, Session}]
      /\ TypeInv /\ LocksHeld /\ FlagsAgree /\ SomebodyDrains
  BY DEF DrainInv, LockInv, TypeInv, TypeOK, PCs
<1>a. ASSUME UNCHANGED <<control, terminate, wait>>, Queued' \subseteq Queued,
             \A w \in Workers : (pc'[w] = "exited") <=> (pc[w] = "exited")
      PROVE  SomebodyDrains'
  BY <1>t, <1>a DEF SomebodyDrains
<1>q. ASSUME UNCHANGED tasks PROVE Queued' = Queued
  BY <1>q DEF Queued
<1>1. ASSUME NEW t \in Tasks, AddTask(t),
             terminate => \E w \in Workers : pc[w] = "running"
      PROVE  SomebodyDrains'
  <2>1. UNCHANGED <<control, terminate, wait>> /\ NotifyOne(Guard(Route(t)))
    BY <1>1 DEF AddTask, flagVars, sessionVars
  <2>2. \A w \in Workers : pc'[w] = pc[w] \/ (pc[w] = "asleep" /\ pc'[w] = "loop")
    BY <1>t, <2>1, NotifyMoves
  <2> QED BY <1>t, <1>1, <2>1, <2>2 DEF SomebodyDrains
<1>2. ASSUME NEW w \in Workers, IdleStep(w) PROVE SomebodyDrains'
  <2>1. /\ UNCHANGED <<control, terminate, wait, tasks>>
        /\ \A v \in Workers : v # w => pc'[v] = pc[v]
    BY <1>t, <1>2 DEF IdleStep, EnterLoop, TestPredicate, Block, Timeout, Exit,
                TakeNothing, SpuriousWakeup, Goto, queueVars, flagVars, sessionVars
  <2>2. CASE ~Exit(w)
    <3>1. pc[w] # "exited" /\ pc'[w] # "exited"
      BY <1>t, <1>2, <2>2 DEF IdleStep, EnterLoop, TestPredicate, Block, Timeout,
                  TakeNothing, SpuriousWakeup, Goto
    <3> QED BY <1>a, <1>q, <2>1, <3>1
  <2>3. CASE Exit(w)
    <3>1. pc[w] = "take" /\ Leaving(w)
      BY <2>3 DEF Exit, Goto
    <3>2. control \in {"joining", "stopped"}
      <4>1. lock["Heavy"] = w
        BY <1>t, <3>1, CoarseFacts DEF LocksHeld
      <4>2. control # "stopping"
        BY <1>t, <4>1, OwnerAssumption DEF LocksHeld
      <4> QED BY <1>t, <3>1, <4>2 DEF Leaving, FlagsAgree
    <3>3. wait => Queued = {}
      BY <1>t, <3>1, CoarseFacts DEF Leaving
    <3> QED BY <1>q, <2>1, <3>2, <3>3 DEF SomebodyDrains
  <2> QED BY <2>2, <2>3
<1>3. ASSUME NEW w \in Workers, TakeTask(w) PROVE SomebodyDrains'
  <2>1. /\ UNCHANGED <<control, terminate, wait>>
        /\ \A v \in Workers : v # w => pc'[v] = pc[v]
        /\ pc[w] = "take" /\ pc'[w] = "taken"
    BY <1>t, <1>3 DEF TakeTask, Goto, flagVars, sessionVars
  <2> QED BY <1>t, <2>1 DEF SomebodyDrains
<1>4. ASSUME NEW w \in Workers, StartTask(w) \/ FinishTask(w) \/ Park(w)
      PROVE  SomebodyDrains'
  <2>1. UNCHANGED <<control, terminate, wait, tasks>>
    BY <1>4 DEF StartTask, FinishTask, Park, queueVars, flagVars, sessionVars
  <2>2. \A v \in Workers : (pc'[v] = "exited") <=> (pc[v] = "exited")
    BY <1>t, <1>4 DEF StartTask, FinishTask, Park, Goto
  <2> QED BY <1>a, <1>q, <2>1, <2>2
<1>5. ASSUME CommandStep PROVE SomebodyDrains'
  <2>1. \A v \in Workers : (pc'[v] = "exited") <=> (pc[v] = "exited")
    BY <1>t, <1>5, NotifyMoves
       DEF CommandStep, ScanStatus, Thaw, RequestFreeze, BeginClear, BeginStop,
           NotifyStop
  <2>2. Queued' = Queued
    BY <1>5, <1>q DEF CommandStep, ScanStatus, Thaw, RequestFreeze, BeginClear,
                BeginStop, NotifyStop, queueVars
  <2>3. CASE \E completeall \in StopModes : NotifyStop(completeall)
    <3>1. control = "stopping" /\ control' = "joining"
      BY <2>3 DEF NotifyStop
    <3>2. 1 \in Workers
      BY DEF Workers
    <3>3. \A v \in Workers : pc[v] # "exited"
      BY <1>t, <3>1 DEF SomebodyDrains
    <3> QED BY <2>1, <3>1, <3>2, <3>3 DEF SomebodyDrains
  <2>4. CASE ~\E completeall \in StopModes : NotifyStop(completeall)
    <3>1. control \notin {"joining", "stopped"} /\ UNCHANGED wait
      BY <1>5, <2>4, SessionAssumption DEF CommandStep, ScanStatus, Thaw, RequestFreeze,
         BeginClear, BeginStop, flagVars
    <3>2. ~wait /\ ~wait'
      BY <1>t, <3>1 DEF FlagsAgree
    <3> QED BY <1>t, <2>1, <3>1, <3>2 DEF SomebodyDrains
  <2> QED BY <2>3, <2>4
<1>6. ASSUME EndClear \/ JoinThreads PROVE SomebodyDrains'
  <2>1. UNCHANGED pc /\ Queued' = {}
    BY <1>6, DisposeEffect DEF EndClear, JoinThreads
  <2>2. control \in {"joining", "stopped"} => control' \in {"joining", "stopped"}
    BY <1>6 DEF EndClear, JoinThreads
  <2> QED BY <1>t, <2>1, <2>2 DEF SomebodyDrains
<1>7. CASE UNCHANGED vars
  BY <1>t, <1>q, <1>7 DEF vars, SomebodyDrains
<1>8. ASSUME Next
      PROVE  \/ \E t \in Tasks : /\ AddTask(t)
                                 /\ terminate => \E w \in Workers : pc[w] = "running"
             \/ \E w \in Workers : IdleStep(w)
             \/ \E w \in Workers : TakeTask(w)
             \/ \E w \in Workers : StartTask(w) \/ FinishTask(w) \/ Park(w)
             \/ CommandStep
             \/ EndClear \/ JoinThreads
  BY <1>8 DEF Next, ClientAdds, TaskAdds, WorkerStep, IdleStep, SessionStep,
       CommandStep
<1> QED BY <1>1, <1>2, <1>3, <1>4, <1>5, <1>6, <1>7, <1>8

\* When the threads of a pool that serve every deque are joined after
\* Stop(true), no task is left that would have to be thrown away.
THEOREM StopDrainsAll ==
  ASSUME Coarse
  PROVE  Safety => StopDrains
<1>1. Init => DrainInv
  <2> SUFFICES ASSUME Init PROVE SomebodyDrains
    BY LockInitially DEF DrainInv
  <2> QED BY DEF Init, SomebodyDrains
<1>2. DrainInv /\ [Next]_vars => DrainInv'
  BY DrainStep
<1>3. DrainInv /\ [Next]_vars =>
        [control = "joining" /\ control' = "stopped" /\ wait => Queued = {}]_vars
  <2> SUFFICES ASSUME DrainInv, Next, control = "joining", control' = "stopped", wait
               PROVE  Queued = {}
    OBVIOUS
  <2>1. \A w \in Workers : pc[w] = "exited"
    <3>1. JoinThreads
      <4>1. \A w \in Workers : ~(IdleStep(w) \/ TakeTask(w) \/ StartTask(w) \/ FinishTask(w)
                               \/ Park(w))
        BY DEF IdleStep, EnterLoop, TestPredicate, Block, Timeout, Exit, TakeNothing,
               SpuriousWakeup, TakeTask, StartTask, FinishTask, Park, sessionVars
      <4>2. \A t \in Tasks : ~AddTask(t)
        BY DEF AddTask, sessionVars
      <4>3. ~CommandStep /\ ~EndClear
        BY DEF CommandStep, ScanStatus, Thaw, RequestFreeze, BeginClear, BeginStop,
               NotifyStop, EndClear
      <4> QED BY <4>1, <4>2, <4>3, NextCases
    <3> QED BY <3>1 DEF JoinThreads
  <2>2. terminate
    BY DEF DrainInv, LockInv, FlagsAgree
  <2> QED BY <2>1, <2>2 DEF DrainInv, SomebodyDrains
<1> QED BY <1>1, <1>2, <1>3, PTL DEF Safety, StopDrains
=============================================================================
