----------------------- MODULE ExecutionHandlerProofs -----------------------
(***************************************************************************)
(* Proofs about ExecutionHandler, for every set of tests, every pool and   *)
(* every number of concurrent tests.                                       *)
(***************************************************************************)
EXTENDS ExecutionHandler, SequenceFacts

-----------------------------------------------------------------------------
(* Where a test is.                                                        *)

\* A deque in which no test occurs twice; nullptr may.
OnceEach(s) == \A j, k \in DOMAIN s : s[j] = s[k] /\ s[j] # None => j = k

\* The tests whose process was not started: _waitingTests, _waitingTestsExec,
\* _startingTests and what a preparer holds.
Held      == {inHand[p] : p \in Preparers} \ {None}
AtStart   == ToSet(startingTests) \ {None}
NotYetRun == ToSet(waitingTests) \cup ToSet(waitingTestsExec) \cup AtStart \cup Held

QueuesApart ==
  /\ IsInjective(waitingTests) /\ IsInjective(waitingTestsExec)
  /\ OnceEach(startingTests)
  /\ ToSet(waitingTests) \cap ToSet(waitingTestsExec) = {}
  /\ ToSet(waitingTests) \cap AtStart = {}
  /\ ToSet(waitingTestsExec) \cap AtStart = {}
  /\ Held \cap (ToSet(waitingTests) \cup ToSet(waitingTestsExec) \cup AtStart) = {}
  /\ \A p, q \in Preparers : inHand[p] = inHand[q] /\ inHand[p] # None => p = q

RunningApart == IsInjective(runningTests) /\ launched \notin ToSet(runningTests)

StartedTest(t) == t \in Tests /\ proc[t] \in {"alive", "dead"}

\* The process of a test says in which places it may be.
ProcsAgree ==
  /\ \A t \in NotYetRun : proc[t] = "queued"
  /\ \A t \in ToSet(runningTests) \cup ToSet(stoppingTests) : StartedTest(t)
  /\ launched # None => StartedTest(launched)
  /\ \A t \in running : StartedTest(t)
  /\ \A l \in Loops : \A i \in 1 .. toHandle[l] : StartedTest(handleTests[i])

\* What the program counters of the starter and of the preparers say.
PhasesAgree ==
  /\ starter = "listing" <=> launched # None
  /\ \A p \in Preparers : prep[p] = "prepare" <=> inHand[p] # None

\* What the pool's Freeze has read of the status of a preparer stays true of
\* one that waited for a task: it does not take one before the Thaw.
SeenAgrees ==
  /\ ~PoolFreezes \/ control = "freezing" => \A p \in Preparers : seen[p] = "none"
  /\ \A p \in Preparers : seen[p] = "idle" => prep[p] = "idle"
  /\ control \in {"saving", "stilling", "clearing", "wantsQueue", "wantsStarter"} =>
       AllWaited

\* A process that is alive has its test in _runningTests, or is the one that
\* was just started, and the loop handles no other as ended.
AliveListed ==
  /\ \A t \in Tests : proc[t] = "alive" =>
       t \in running /\ (t \in ToSet(runningTests) \/ t = launched)
  /\ \A l \in Loops : loop[l] \in {"ended", "stopping", "deferring"} =>
       handled[l] \in Tests /\ proc[handled[l]] = "dead"

PlaceInv == /\ TypeOK /\ QueuesApart /\ RunningApart /\ ProcsAgree
            /\ PhasesAgree /\ SeenAgrees /\ AliveListed

-----------------------------------------------------------------------------
(* A single loop.                                                          *)

\* The watchdog has not replaced the loop.
Alone == loop[Second] = "none"

SingleLoop ==
  /\ loop[Second] = "none"
  /\ \A l \in Loops : ~stopRequested[l]

\* The callback of a test was not called while it is in a place from which
\* somebody will call it.
NotAnswered(t) == answers[t] = 0

\* The positions of _handleTests that the loop has yet to look at.
Ahead == CASE loop[First] \in {"handling", "ended"}      -> index[First] .. toHandle[First]
           [] loop[First] \in {"stopping", "deferring"} -> index[First] + 1 .. toHandle[First]
           [] OTHER -> {}

\* The positions of _stoppingTests whose tests are not stopped yet.
Deferred == IF loop[First] = "catchingUp" THEN index[First] .. Len(stoppingTests)
                                          ELSE 1 .. Len(stoppingTests)

AnswersAgree ==
  /\ \A t \in Tests : answers[t] <= 1 /\ (proc[t] = "new" => NotAnswered(t))
  /\ \A t \in NotYetRun \cup running : NotAnswered(t)
  /\ IsInjective(stoppingTests)
  /\ \A t \in ToSet(stoppingTests) : t \notin running /\ proc[t] = "dead"
  /\ \A i \in DOMAIN stoppingTests : NotAnswered(stoppingTests[i]) <=> i \in Deferred
  /\ \A i, j \in 1 .. toHandle[First] : handleTests[i] = handleTests[j] => i = j
  /\ \A i \in Ahead : handleTests[i] \in running
  /\ loop[First] \in {"ended", "stopping", "deferring"} =>
       /\ index[First] <= toHandle[First]
       /\ handled[First] = handleTests[index[First]]
  /\ loop[First] \in {"stopping", "deferring"} =>
       /\ handled[First] \notin running \cup ToSet(stoppingTests)
       /\ NotAnswered(handled[First])

\* _currentTests and what _startingTests will add to it.
CountsAgree ==
  /\ IsFiniteSet(Started) /\ currentTests = Cardinality(Started)
  /\ currentTests + Len(startingTests) <= MaxConcurrent
  /\ newTests = IF starter = "filling" THEN Len(startingTests) ELSE 0
  /\ starter \notin {"filling", "starting", "listing"} => startingTests = <<>>

\* Where the tests are whose callback was not called.
Ended == {t \in Tests : loop[First] \in {"stopping", "deferring"} /\ t = handled[First]}

NothingLost ==
  /\ \A t \in Tests : proc[t] = "queued" /\ NotAnswered(t) => t \in NotYetRun
  /\ \A t \in Started : t \in running \cup ToSet(stoppingTests) \cup Ended
  /\ stopHandler => control = "stopped"
  /\ loop[First] \in {"break", "exit"} => stopHandler
  /\ ~stopHandler =>
       /\ \A t \in running : t \in ToSet(runningTests) \/ t = launched
       /\ loop[First] \in {"handling", "ended", "stopping", "deferring"} =>
            \A i \in 1 .. toHandle[First] : handleTests[i] \in ToSet(runningTests)

Ends == {"emptying", "ended"}

AnswerInv ==
  Alone => SingleLoop /\ (control \notin Ends => AnswersAgree /\ CountsAgree /\ NothingLost)

\* The freeze of the only save.
OneSave == \A c \in Courses : c.saves <= 1

FreezeInv ==
  /\ control \in {"freezing", "settling", "saving"} => freeze /\ freezes > 0
  /\ control \in {"freezing", "settling", "saving"} /\ frozen =>
       loop[First] \notin {"thawing", "catchingUp", "stopping"}
  /\ control \in {"settling", "saving"} => frozen \/ ~active
  /\ control = "serving" /\ freezes = 0 =>
       ~freeze /\ ~frozen /\ loop[First] # "freezing"
-----------------------------------------------------------------------------
(* Types.                                                                  *)

\* What the scan of _runningTests finds, and where it ends.
LEMMA ScanFacts ==
  ASSUME TypeOK
  PROVE  /\ Found \in 0 .. MaxConcurrent
         /\ Found <= Cardinality(StillRunning)
         /\ Found < MaxConcurrent => Found = Cardinality(StillRunning)
         /\ \A k \in 1 .. Found : /\ Nth(k) \in StillRunning
                                  /\ Cardinality(StillRunning \cap 1 .. Nth(k)) = k
         /\ \A i \in StillRunning :
              /\ Cardinality(StillRunning \cap 1 .. i) \in 1 .. Cardinality(StillRunning)
              /\ Nth(Cardinality(StillRunning \cap 1 .. i)) = i
         /\ ScanEnd \in 0 .. Len(runningTests)
         /\ StillRunning \in SUBSET (1 .. Len(runningTests))
         /\ Found = 0 => StillRunning = {}
<1> DEFINE n == Len(runningTests)
<1>1. n \in Nat /\ DOMAIN runningTests = 1 .. n /\ MaxConcurrent \in Nat \ {0}
  BY HandlerAssumption DEF TypeOK
<1>2. StillRunning \in SUBSET (1 .. n)
  BY <1>1 DEF StillRunning
<1>3. IsFiniteSet(StillRunning) /\ Cardinality(StillRunning) \in 0 .. n
  BY <1>1, <1>2, CountStep
<1>4. \A k : Nth(k) = PlaceOf(StillRunning, k)
  BY DEF Nth, PlaceOf, UpTo
<1>5. \A i : UpTo(StillRunning, i) = StillRunning \cap 1 .. i
  BY DEF UpTo
<1>6. Found \in 0 .. MaxConcurrent /\ Found <= Cardinality(StillRunning)
  BY <1>1, <1>3 DEF Found
<1>7. \A k \in 1 .. Cardinality(StillRunning) :
        PlaceOf(StillRunning, k) \in StillRunning /\ Cardinality(UpTo(StillRunning, PlaceOf(StillRunning, k))) = k
  BY <1>1, <1>2, PlaceFound
<1>8. \A i \in StillRunning :
        /\ Cardinality(UpTo(StillRunning, i)) \in 1 .. Cardinality(StillRunning)
        /\ PlaceOf(StillRunning, Cardinality(UpTo(StillRunning, i))) = i
  BY <1>1, <1>2, PlaceFound
<1>9. ASSUME NEW k \in 1 .. Found
      PROVE  Nth(k) \in StillRunning /\ Cardinality(StillRunning \cap 1 .. Nth(k)) = k
  <2>1. k \in 1 .. Cardinality(StillRunning)
    BY <1>3, <1>6
  <2> QED BY <2>1, <1>4, <1>5, <1>7
<1>10. ScanEnd \in 0 .. n
  <2>1. CASE Found < MaxConcurrent
    BY <1>1, <2>1 DEF ScanEnd
  <2>2. CASE ~(Found < MaxConcurrent)
    <3>1. Found \in 1 .. Found
      BY <1>1, <1>6, <2>2
    <3>2. ScanEnd = Nth(Found)
      BY <2>2 DEF ScanEnd
    <3>3. Nth(Found) \in StillRunning
      BY <1>9, <3>1
    <3>4. Nth(Found) \in 1 .. n
      BY <1>2, <3>3
    <3> HIDE DEF n
    <3> QED BY <1>1, <3>2, <3>4
  <2> QED BY <2>1, <2>2
<1>11. Found < MaxConcurrent => Found = Cardinality(StillRunning)
  BY <1>1, <1>3 DEF Found
<1>12. Found = 0 => StillRunning = {}
  BY <1>1, <1>3, <1>11, FS_EmptySet
<1> QED BY <1>2, <1>4, <1>5, <1>6, <1>8, <1>9, <1>10, <1>11, <1>12

\* The type invariant, by the groups of variables an action leaves alone.
TestTypes ==
  /\ proc \in [Tests -> {"new", "queued", "alive", "dead"}]
  /\ running \subseteq Tests
  /\ answers \in [Tests -> Nat]
QueueTypes ==
  /\ waitingTests \in Seq(Tests) /\ waitingTestsExec \in Seq(Tests)
  /\ startingTests \in Seq(Tests \cup {None})
  /\ initJobs \in Nat
ListTypes ==
  /\ runningTests \in Seq(Tests) /\ stoppingTests \in Seq(Tests)
  /\ currentTests \in Int
FlagTypes ==
  /\ freeze \in BOOLEAN /\ frozen \in BOOLEAN /\ stopHandler \in BOOLEAN
  /\ finishTests \in BOOLEAN /\ active \in BOOLEAN
  /\ stopRequested \in [Loops -> BOOLEAN]
StarterTypes ==
  /\ starter \in {"top", "napping", "check", "locking", "filling", "starting",
                  "listing"}
  /\ newTests \in Nat
  /\ launched \in Tests \cup {None}
LoopTypes ==
  /\ loop \in [Loops -> {"none", "top", "freezing", "thawing", "catchingUp",
                         "collecting", "idle", "handling", "ended",
                         "stopping", "deferring", "break", "exit", "gone"}]
  /\ toHandle \in [Loops -> 0 .. MaxConcurrent]
  /\ index \in [Loops -> Nat \ {0}]
  /\ handled \in [Loops -> Tests \cup {None}]
  /\ handleTests \in [1 .. MaxConcurrent -> Tests \cup {None}]
PrepTypes ==
  /\ prep \in [Preparers -> {"idle", "taken", "check", "pop", "prepare"}]
  /\ inHand \in [Preparers -> Tests \cup {None}]
  /\ seen \in [Preparers -> {"none", "idle", "taken"}]
SessionTypes ==
  /\ control \in {"serving", "freezing", "settling", "saving", "draining",
                  "stilling", "clearing", "wantsQueue", "wantsStarter",
                  "emptying", "ended", "stopped"}
  /\ course \in Courses /\ freezes \in 0 .. course.saves

LEMMA TypeGroups ==
  TypeOK <=> /\ TestTypes /\ QueueTypes /\ ListTypes /\ FlagTypes
             /\ StarterTypes /\ LoopTypes /\ PrepTypes /\ SessionTypes
BY DEF TypeOK, TestTypes, QueueTypes, ListTypes, FlagTypes, StarterTypes,
       LoopTypes, PrepTypes, SessionTypes

LEMMA TypeGroupsNext ==
  /\ TestTypes' /\ QueueTypes' /\ ListTypes' /\ FlagTypes'
  /\ StarterTypes' /\ LoopTypes' /\ PrepTypes' /\ SessionTypes'
  => TypeOK'
BY DEF TypeOK, TestTypes, QueueTypes, ListTypes, FlagTypes, StarterTypes,
       LoopTypes, PrepTypes, SessionTypes

\* What a step leaves alone keeps its types.
LEMMA GroupsKept ==
  /\ TestTypes /\ UNCHANGED testVars => TestTypes'
  /\ QueueTypes /\ UNCHANGED queueVars => QueueTypes'
  /\ ListTypes /\ UNCHANGED listVars => ListTypes'
  /\ FlagTypes /\ UNCHANGED flagVars => FlagTypes'
  /\ StarterTypes /\ UNCHANGED starterVars => StarterTypes'
  /\ LoopTypes /\ UNCHANGED loopVars => LoopTypes'
  /\ PrepTypes /\ UNCHANGED prepVars => PrepTypes'
  /\ SessionTypes /\ UNCHANGED sessionVars => SessionTypes'
BY DEF TestTypes, QueueTypes, ListTypes, FlagTypes, StarterTypes, LoopTypes,
       PrepTypes, SessionTypes, testVars, queueVars, listVars, flagVars,
       starterVars, loopVars, prepVars, sessionVars

LEMMA TypesInitially == Init => TypeOK
<1> SUFFICES ASSUME Init PROVE TypeOK
  OBVIOUS
<1>1. TestTypes /\ FlagTypes /\ StarterTypes /\ PrepTypes
  BY DEF Init, TestTypes, FlagTypes, StarterTypes, PrepTypes
<1>4. LoopTypes
  BY HandlerAssumption DEF Init, LoopTypes
<1>2. QueueTypes /\ ListTypes
  BY EmptyDeque DEF Init, QueueTypes, ListTypes
<1>3. SessionTypes
  <2>1. \A c \in Courses : c.saves \in Nat
    BY HandlerAssumption
  <2> QED BY <2>1 DEF Init, SessionTypes
<1> QED BY <1>1, <1>2, <1>3, <1>4, TypeGroups

LEMMA PrepareTypes ==
  ASSUME TypeOK, PhasesAgree, NEW p \in Preparers, PrepareStep(p)
  PROVE  TypeOK'
<1>1. /\ TestTypes /\ QueueTypes /\ ListTypes /\ FlagTypes
      /\ StarterTypes /\ LoopTypes /\ PrepTypes /\ SessionTypes
  BY TypeGroups
<1>2. /\ UNCHANGED listVars /\ UNCHANGED flagVars /\ UNCHANGED starterVars
      /\ UNCHANGED loopVars /\ UNCHANGED sessionVars
  BY DEF PrepareStep, TakeInitJob, BeginInit, CheckPopulation, PopWaiting, PushPrepared, PrepareFails
<1>3. prep[p] = "prepare" => inHand[p] \in Tests
  BY <1>1 DEF PhasesAgree, PrepTypes
<1>4. TestTypes' /\ QueueTypes' /\ PrepTypes'
  <2> USE DEF TestTypes, QueueTypes, PrepTypes, testVars, queueVars, prepVars
  <2>1. CASE TakeInitJob(p)
    <3>1. initJobs \in Nat /\ initJobs > 0 /\ initJobs' = initJobs - 1
      BY <1>1, <2>1 DEF TakeInitJob
    <3>2. initJobs' \in Nat
      BY <3>1
    <3> QED BY <1>1, <2>1, <3>2 DEF TakeInitJob
  <2>2. CASE BeginInit(p) \/ CheckPopulation(p)
    BY <1>1, <2>2 DEF BeginInit, CheckPopulation
  <2>3. CASE PopWaiting(p)
    <3>1. CASE waitingTests = <<>>
      BY <1>1, <2>3, <3>1 DEF PopWaiting
    <3>2. CASE waitingTests # <<>>
      <4>1. Head(waitingTests) \in Tests /\ Tail(waitingTests) \in Seq(Tests)
        BY <1>1, <3>2, HeadTailProperties
      <4>2. /\ UNCHANGED <<proc, running, answers, waitingTestsExec, startingTests, initJobs>>
            /\ waitingTests' = Tail(waitingTests)
            /\ prep' = [prep EXCEPT ![p] = "prepare"]
            /\ inHand' = [inHand EXCEPT ![p] = Head(waitingTests)]
            /\ UNCHANGED seen
        BY <2>3, <3>2 DEF PopWaiting
      <4> QED BY <1>1, <4>1, <4>2
    <3> QED BY <3>1, <3>2
  <2>4. CASE PushPrepared(p)
    BY <1>1, <1>3, <2>4 DEF PushPrepared
  <2>5. CASE PrepareFails(p)
    BY <1>1, <1>3, <2>5 DEF PrepareFails, Answer
  <2> QED BY <2>1, <2>2, <2>3, <2>4, <2>5 DEF PrepareStep
<1> QED BY <1>1, <1>2, <1>4, GroupsKept, TypeGroupsNext

\* What FillOne does with a prepared test, or without one: the tests up to n
\* leave _waitingTests, those up to m are prepared, the n-th was answered when
\* it could not be.
TakePrepared ==
  /\ waitingTestsExec # <<>>
  /\ startingTests' = Append(startingTests, Head(waitingTestsExec))
  /\ waitingTestsExec' = Tail(waitingTestsExec)
  /\ UNCHANGED <<waitingTests, answers>>

PrepareSome(m, n) ==
  /\ waitingTestsExec = <<>>
  /\ waitingTests' = SubSeq(waitingTests, n + 1, Len(waitingTests))
  /\ \/ n = m /\ UNCHANGED answers
     \/ n = m + 1 /\ Answer(waitingTests[n])
  /\ LET ready == SubSeq(waitingTests, 1, m)
     IN  \/ /\ m = 0
            /\ startingTests' = Append(startingTests, None)
            /\ waitingTestsExec' = <<>>
         \/ /\ m > 0 /\ ready # <<>>
            /\ startingTests' = Append(startingTests, Head(ready))
            /\ waitingTestsExec' = Tail(ready)

LEMMA FillCases ==
  ASSUME TypeOK, FillOne
  PROVE  \/ TakePrepared
         \/ \E m \in 0 .. Len(waitingTests) : \E n \in m .. Len(waitingTests) :
              PrepareSome(m, n)
<1>1. waitingTests \in Seq(Tests) /\ waitingTestsExec \in Seq(Tests) /\ Len(waitingTests) \in Nat
  BY DEF TypeOK
<1>2. CASE waitingTestsExec # <<>>
  BY <1>2 DEF FillOne, TakePrepared
<1>3. CASE waitingTestsExec = <<>>
  <2>1. PICK k \in 0 .. Len(waitingTests) : k <= PopulationSize /\ PrepareInPlace(k)
    BY <1>3 DEF FillOne
  <2> DEFINE ready == Prepared(k)
             least == IF Len(waitingTests) < PopulationSize THEN Len(waitingTests)
                                                            ELSE PopulationSize
             m == IF k = 0 THEN least ELSE k - 1
             n == IF k = 0 THEN least ELSE k
  <2>2. PopulationSize \in Nat /\ least \in 0 .. Len(waitingTests)
    BY <1>1, HandlerAssumption DEF PopulationSize
  <2>3. m \in 0 .. Len(waitingTests) /\ n \in m .. Len(waitingTests)
    <3> HIDE DEF least
    <3> QED BY <1>1, <2>2
  <2>4. ready = SubSeq(waitingTests, 1, m)
    BY DEF Prepared
  <2>5. ready \in Seq(Tests) /\ Len(ready) = m /\ (ready = <<>> <=> m = 0)
    <3> HIDE DEF ready, m, n
    <3>1. SubSeq(waitingTests, 1, m) \in Seq(Tests) /\ Len(SubSeq(waitingTests, 1, m)) = m
      BY <1>1, <2>3, CutOff
    <3> QED BY <2>3, <2>4, <3>1, EmptySeq
  <2>6. (IF k = 0 THEN Len(ready) ELSE k) = n
    <3> HIDE DEF ready, least
    <3> QED BY <2>5
  <2>7. waitingTests' = SubSeq(waitingTests, n + 1, Len(waitingTests))
    <3>1. waitingTests' = SubSeq(waitingTests, (IF k = 0 THEN Len(ready) ELSE k) + 1, Len(waitingTests))
      BY <2>1 DEF PrepareInPlace
    <3> HIDE DEF ready, n
    <3> QED BY <2>6, <3>1
  <2>8. \/ n = m /\ UNCHANGED answers
        \/ n = m + 1 /\ Answer(waitingTests[n])
    <3>1. IF k = 0 THEN UNCHANGED answers ELSE Answer(waitingTests[k])
      BY <2>1 DEF PrepareInPlace
    <3> HIDE DEF least
    <3> QED BY <3>1
  <2>9. IF ready = <<>>
          THEN /\ startingTests' = Append(startingTests, None)
               /\ UNCHANGED waitingTestsExec
          ELSE /\ startingTests' = Append(startingTests, Head(ready))
               /\ waitingTestsExec' = Tail(ready)
    BY <2>1 DEF PrepareInPlace
  <2> HIDE DEF ready, m, n
  <2>10. PrepareSome(m, n)
    <3>1. \/ /\ m = 0
             /\ startingTests' = Append(startingTests, None)
             /\ waitingTestsExec' = <<>>
          \/ /\ m > 0 /\ ready # <<>>
             /\ startingTests' = Append(startingTests, Head(ready))
             /\ waitingTestsExec' = Tail(ready)
      <4>1. CASE m = 0
        BY <1>3, <2>5, <2>9, <4>1
      <4>2. CASE m # 0
        BY <2>3, <2>5, <2>9, <4>2
      <4> QED BY <4>1, <4>2
    <3> QED BY <1>3, <2>4, <2>7, <2>8, <3>1 DEF PrepareSome
  <2> QED BY <2>3, <2>10
<1> QED BY <1>2, <1>3

LEMMA StarterTypesKept ==
  ASSUME TypeOK, PhasesAgree, StarterStep
  PROVE  TypeOK'
<1>1. /\ TestTypes /\ QueueTypes /\ ListTypes /\ FlagTypes
      /\ StarterTypes /\ LoopTypes /\ PrepTypes /\ SessionTypes
  BY TypeGroups
<1>2. /\ UNCHANGED flagVars /\ UNCHANGED loopVars /\ UNCHANGED prepVars
      /\ UNCHANGED sessionVars
  BY DEF StarterStep, BeginRound, EndNap, CheckSlots, LockQueue, FillOne,
         FillEnds, StartSucceeds, StartFails, ListStarted, EndRound
<1>3. TestTypes' /\ QueueTypes' /\ ListTypes' /\ StarterTypes'
  <2> USE DEF TestTypes, QueueTypes, ListTypes, StarterTypes, testVars,
              queueVars, listVars, starterVars, StarterGoto
  <2>1. CASE BeginRound
    BY <1>1, <2>1 DEF BeginRound
  <2>2. CASE EndNap
    BY <1>1, <2>2 DEF EndNap
  <2>3. CASE CheckSlots
    BY <1>1, <2>3 DEF CheckSlots
  <2>4. CASE LockQueue
    BY <1>1, <2>4 DEF LockQueue
  <2>5. CASE FillOne
    <3>1. /\ UNCHANGED <<proc, running, initJobs, listVars, starter, launched>>
          /\ newTests' = newTests + 1
      BY <2>5 DEF FillOne
    <3>2. CASE TakePrepared
      <4>1. Head(waitingTestsExec) \in Tests /\ Tail(waitingTestsExec) \in Seq(Tests)
        BY <1>1, <3>2, HeadTailProperties DEF TakePrepared
      <4> QED BY <1>1, <3>1, <3>2, <4>1 DEF TakePrepared
    <3>3. ASSUME NEW m \in 0 .. Len(waitingTests), NEW n \in m .. Len(waitingTests),
                 PrepareSome(m, n)
          PROVE  TestTypes' /\ QueueTypes'
      <4>1. /\ SubSeq(waitingTests, 1, m) \in Seq(Tests)
            /\ SubSeq(waitingTests, n + 1, Len(waitingTests)) \in Seq(Tests)
        BY <1>1, CutOff
      <4>2. waitingTests' \in Seq(Tests)
        BY <3>3, <4>1 DEF PrepareSome
      <4>3. startingTests' \in Seq(Tests \cup {None}) /\ waitingTestsExec' \in Seq(Tests)
        <5> DEFINE ready == SubSeq(waitingTests, 1, m)
        <5>1. ready \in Seq(Tests)
          BY <4>1
        <5>2. ready # <<>> => Head(ready) \in Tests /\ Tail(ready) \in Seq(Tests)
          <6> HIDE DEF ready
          <6> QED BY <5>1, HeadTailProperties
        <5>3. \/ /\ startingTests' = Append(startingTests, None)
                 /\ waitingTestsExec' = <<>>
              \/ /\ ready # <<>>
                 /\ startingTests' = Append(startingTests, Head(ready))
                 /\ waitingTestsExec' = Tail(ready)
          BY <3>3 DEF PrepareSome
        <5>4. /\ startingTests \in Seq(Tests \cup {None})
              /\ <<>> \in Seq(Tests)
              /\ \A x \in Tests \cup {None} :
                   Append(startingTests, x) \in Seq(Tests \cup {None})
          BY <1>1
        <5> HIDE DEF ready
        <5>5. CASE startingTests' = Append(startingTests, None) /\ waitingTestsExec' = <<>>
          BY <5>4, <5>5
        <5>6. CASE /\ ready # <<>>
                   /\ startingTests' = Append(startingTests, Head(ready))
                   /\ waitingTestsExec' = Tail(ready)
          BY <5>2, <5>4, <5>6
        <5> QED BY <5>3, <5>5, <5>6
      <4>4. answers' \in [Tests -> Nat]
        BY <1>1, <3>3 DEF PrepareSome, Answer
      <4> QED BY <1>1, <3>1, <4>2, <4>3, <4>4
    <3>4. ListTypes' /\ StarterTypes'
      BY <1>1, <3>1
    <3>5. TestTypes' /\ QueueTypes'
      BY <2>5, <3>2, <3>3, FillCases
    <3> QED BY <3>4, <3>5
  <2>6. CASE FillEnds
    BY <1>1, <2>6 DEF FillEnds
  <2>7. CASE StartSucceeds
    <3>1. Head(startingTests) \in Tests /\ Tail(startingTests) \in Seq(Tests \cup {None})
      BY <1>1, <2>7, HeadTailProperties DEF StartSucceeds
    <3>2. launched' = Head(startingTests)
      BY <2>7 DEF StartSucceeds
    <3> QED BY <1>1, <2>7, <3>1, <3>2 DEF StartSucceeds
  <2>8. CASE StartFails
    <3>1. Tail(startingTests) \in Seq(Tests \cup {None})
      BY <1>1, <2>8, HeadTailProperties DEF StartFails
    <3> QED BY <1>1, <2>8, <3>1 DEF StartFails, Answer
  <2>9. CASE ListStarted
    <3>1. launched \in Tests
      BY <1>1, <2>9 DEF ListStarted, PhasesAgree
    <3> QED BY <1>1, <2>9, <3>1 DEF ListStarted
  <2>10. CASE EndRound
    BY <1>1, <2>10 DEF EndRound
  <2> QED BY <2>1, <2>2, <2>3, <2>4, <2>5, <2>6, <2>7, <2>8, <2>9, <2>10 DEF StarterStep
<1> QED BY <1>1, <1>2, <1>3, GroupsKept, TypeGroupsNext

\* What Collect makes of _runningTests and _handleTests: no test that runs is
\* lost or doubled.
LEMMA CollectFacts ==
  ASSUME TypeOK, IsInjective(runningTests), NEW l \in Loops, Collect(l)
  PROVE  /\ runningTests' \in Seq(Tests) /\ IsInjective(runningTests')
         /\ ToSet(runningTests') \subseteq ToSet(runningTests)
         /\ ToSet(runningTests) \cap running \subseteq ToSet(runningTests')
         /\ handleTests' \in [1 .. MaxConcurrent -> Tests \cup {None}]
         /\ toHandle' = [toHandle EXCEPT ![l] = Found] /\ Found \in 0 .. MaxConcurrent
         /\ \A k \in 1 .. Found : /\ handleTests'[k] \in ToSet(runningTests) \cap running
                                  /\ handleTests'[k] \in Tests
         /\ \A j, k \in 1 .. Found : handleTests'[j] = handleTests'[k] => j = k
         /\ \A k \in 1 .. MaxConcurrent : k > Found => handleTests'[k] = handleTests[k]
<1> DEFINE s     == runningTests
           n     == Len(runningTests)
           found == [k \in 1 .. Found |-> s[Nth(k)]]
           rest  == SubSeq(s, ScanEnd + 1, n)
           N(i)  == Cardinality(StillRunning \cap 1 .. i)
<1>1. /\ s \in Seq(Tests) /\ n \in Nat /\ DOMAIN s = 1 .. n /\ MaxConcurrent \in Nat \ {0}
      /\ \A i \in 1 .. n : s[i] \in Tests
      /\ \A i, j \in 1 .. n : s[i] = s[j] => i = j
      /\ handleTests \in [1 .. MaxConcurrent -> Tests \cup {None}]
  <2>1. /\ s \in Seq(Tests) /\ handleTests \in [1 .. MaxConcurrent -> Tests \cup {None}]
    BY DEF TypeOK
  <2>2. n \in Nat /\ DOMAIN s = 1 .. n /\ \A i \in 1 .. n : s[i] \in Tests
    BY <2>1
  <2>3. \A i, j \in 1 .. n : s[i] = s[j] => i = j
    BY <2>2 DEF IsInjective
  <2> QED BY <2>1, <2>2, <2>3, HandlerAssumption
<1>2. /\ Found \in 0 .. MaxConcurrent /\ ScanEnd \in 0 .. n
      /\ Found < MaxConcurrent => Found = Cardinality(StillRunning)
      /\ StillRunning \in SUBSET (1 .. n)
      /\ Found <= Cardinality(StillRunning)
  BY ScanFacts
<1>3. \A k \in 1 .. Found : Nth(k) \in StillRunning /\ N(Nth(k)) = k
  BY ScanFacts
<1>4. \A i \in StillRunning : N(i) \in 1 .. Cardinality(StillRunning) /\ Nth(N(i)) = i
  BY ScanFacts
<1>5. \A i, j \in 0 .. n : i <= j => N(i) <= N(j)
  <2>1. \A i : N(i) = Cardinality(UpTo(StillRunning, i))
    BY DEF UpTo
  <2> HIDE DEF N
  <2> QED BY <1>1, <1>2, <2>1, CountStep
<1>6. \A i \in 1 .. n : i \in StillRunning <=> s[i] \in running
  BY <1>1 DEF StillRunning
<1> HIDE DEF N
<1>7. \A k \in 1 .. Found : Nth(k) \in 1 .. n /\ s[Nth(k)] \in running
  BY <1>2, <1>3, <1>6
<1>8. \A j, k \in 1 .. Found : Nth(j) = Nth(k) => j = k
  BY <1>3
<1>9. \A k \in 1 .. Found : Nth(k) <= ScanEnd
  <2> TAKE k \in 1 .. Found
  <2>1. CASE Found < MaxConcurrent
    BY <1>1, <1>7, <2>1 DEF ScanEnd
  <2>2. CASE ~(Found < MaxConcurrent)
    <3>1. ScanEnd = Nth(Found)
      BY <2>2 DEF ScanEnd
    <3>2. Found \in 1 .. Found
      BY <1>1, <1>2, <2>2
    <3>3. Nth(Found) \in 1 .. n /\ N(Nth(Found)) = Found /\ Nth(k) \in 1 .. n /\ N(Nth(k)) = k
      BY <1>3, <1>7, <3>2
    <3>4. ASSUME Nth(Found) < Nth(k) PROVE FALSE
      <4>1. N(Nth(Found)) <= N(Nth(k))
        BY <1>5, <3>3, <3>4
      <4>2. k = Found
        BY <1>2, <3>3, <4>1
      <4> QED BY <3>3, <3>4, <4>2
    <3> QED BY <3>1, <3>3, <3>4
  <2> QED BY <2>1, <2>2
<1>10. \A i \in StillRunning : i <= ScanEnd => N(i) \in 1 .. Found
  <2> SUFFICES ASSUME NEW i \in StillRunning, i <= ScanEnd
               PROVE  N(i) \in 1 .. Found
    OBVIOUS
  <2>1. i \in 1 .. n /\ N(i) \in 1 .. Cardinality(StillRunning)
    BY <1>2, <1>4
  <2>2. CASE Found < MaxConcurrent
    BY <1>2, <2>1, <2>2
  <2>3. CASE ~(Found < MaxConcurrent)
    <3>1. ScanEnd = Nth(Found) /\ Found \in 1 .. Found
      BY <1>1, <1>2, <2>3 DEF ScanEnd
    <3>2. N(ScanEnd) = Found
      BY <1>3, <3>1
    <3>3. N(i) <= N(ScanEnd)
      BY <1>2, <1>5, <2>1
    <3> QED BY <1>2, <2>1, <3>2, <3>3
  <2> QED BY <2>2, <2>3
<1>11. /\ found \in Seq(Tests) /\ DOMAIN found = 1 .. Found
       /\ \A k \in 1 .. Found : found[k] = s[Nth(k)]
  BY <1>1, <1>2, <1>7
<1>12. /\ rest \in Seq(Tests) /\ IsInjective(rest)
       /\ ToSet(rest) = {s[i] : i \in ScanEnd + 1 .. n}
  BY <1>1, <1>2, CutOff
<1>13. runningTests' = found \o rest
  BY DEF Collect
<1>14. /\ handleTests' = [k \in DOMAIN handleTests |->
                            IF k <= Found THEN s[Nth(k)] ELSE handleTests[k]]
       /\ toHandle' = [toHandle EXCEPT ![l] = Found]
  BY DEF Collect
<1> HIDE DEF found, rest
<1>15. IsInjective(found)
  <2> SUFFICES ASSUME NEW j \in 1 .. Found, NEW k \in 1 .. Found, found[j] = found[k]
               PROVE  j = k
    BY <1>11 DEF IsInjective
  <2>1. Nth(j) = Nth(k)
    BY <1>1, <1>7, <1>11
  <2> QED BY <1>8, <2>1
<1>16. \A x : x \in ToSet(found) <=> \E k \in 1 .. Found : x = s[Nth(k)]
  BY <1>11 DEF ToSet
<1>17. ToSet(found) \cap ToSet(rest) = {}
  <2> SUFFICES ASSUME NEW k \in 1 .. Found, NEW i \in ScanEnd + 1 .. n, s[Nth(k)] = s[i]
               PROVE  FALSE
    BY <1>12, <1>16
  <2>1. i \in 1 .. n /\ Nth(k) \in 1 .. n /\ Nth(k) <= ScanEnd
    BY <1>2, <1>7, <1>9
  <2>2. Nth(k) = i
    BY <1>1, <2>1
  <2> QED BY <1>2, <2>1, <2>2
<1>18. /\ found \o rest \in Seq(Tests) /\ IsInjective(found \o rest)
       /\ ToSet(found \o rest) = ToSet(found) \cup ToSet(rest)
  BY <1>11, <1>12, <1>15, <1>17, Join
<1>19. ToSet(s) = {s[i] : i \in 1 .. n}
  BY <1>1 DEF ToSet
<1>20. ToSet(runningTests') \subseteq ToSet(s)
  <2>1. \A i \in ScanEnd + 1 .. n : i \in 1 .. n
    BY <1>1, <1>2
  <2> QED BY <1>7, <1>12, <1>13, <1>16, <1>18, <1>19, <2>1
<1>21. ToSet(s) \cap running \subseteq ToSet(runningTests')
  <2> SUFFICES ASSUME NEW i \in 1 .. n, s[i] \in running
               PROVE  s[i] \in ToSet(found) \cup ToSet(rest)
    BY <1>13, <1>18, <1>19
  <2>1. i \in StillRunning
    BY <1>6
  <2>2. CASE i <= ScanEnd
    <3>1. N(i) \in 1 .. Found /\ Nth(N(i)) = i
      BY <1>4, <1>10, <2>1, <2>2
    <3> QED BY <1>16, <3>1
  <2>3. CASE ~(i <= ScanEnd)
    <3>1. i \in ScanEnd + 1 .. n
      BY <1>1, <1>2, <2>3
    <3> QED BY <1>12, <3>1
  <2> QED BY <2>2, <2>3
<1>22. \A k \in 1 .. Found : k \in 1 .. MaxConcurrent /\ handleTests'[k] = s[Nth(k)]
  BY <1>1, <1>2, <1>14
<1>23. handleTests' \in [1 .. MaxConcurrent -> Tests \cup {None}]
  <2>1. \A k \in 1 .. MaxConcurrent : k <= Found => s[Nth(k)] \in Tests
    <3> TAKE k \in 1 .. MaxConcurrent
    <3>1. k <= Found => k \in 1 .. Found
      BY <1>2
    <3> QED BY <1>1, <1>7, <3>1
  <2> QED BY <1>1, <1>14, <2>1
<1>24. \A k \in 1 .. MaxConcurrent : k > Found => handleTests'[k] = handleTests[k]
  BY <1>1, <1>2, <1>14
<1>25. \A k \in 1 .. Found : handleTests'[k] \in ToSet(s) \cap running /\ handleTests'[k] \in Tests
  BY <1>1, <1>7, <1>19, <1>22
<1>26. \A j, k \in 1 .. Found : handleTests'[j] = handleTests'[k] => j = k
  BY <1>1, <1>7, <1>8, <1>22
<1> QED BY <1>2, <1>13, <1>14, <1>18, <1>20, <1>21, <1>23, <1>24, <1>25, <1>26

LEMMA StopTestTypes ==
  ASSUME TestTypes, NEW t, StopTest(t)
  PROVE  TestTypes'
<1>1. answers' \in [Tests -> Nat]
  <2>1. answers \in [Tests -> Nat] /\ answers' = [answers EXCEPT ![t] = answers[t] + 1]
    BY DEF StopTest, Answer, TestTypes
  <2>2. CASE t \in Tests
    BY <2>1, <2>2
  <2>3. CASE t \notin Tests
    BY <2>1, <2>3
  <2> QED BY <2>2, <2>3
<1>2. running' \subseteq Tests /\ proc' \in [Tests -> {"new", "queued", "alive", "dead"}]
  BY DEF StopTest, TestTypes
<1> QED BY <1>1, <1>2 DEF TestTypes

LEMMA LoopTypesKept ==
  ASSUME PlaceInv, NEW l \in Loops, LoopStep(l)
  PROVE  TypeOK'
<1>1. /\ TestTypes /\ QueueTypes /\ ListTypes /\ FlagTypes
      /\ StarterTypes /\ LoopTypes /\ PrepTypes /\ SessionTypes
  BY TypeGroups DEF PlaceInv
<1>2. /\ UNCHANGED queueVars /\ UNCHANGED starterVars /\ UNCHANGED prepVars
      /\ UNCHANGED sessionVars
  BY DEF LoopStep, ReadFreeze, BecomeFrozen, BecomeThawed, CatchUp, CaughtUp,
         Collect, AllFinished, WakeUp, EndHandling, StillRuns, HasEnded,
         TestFinished, StopHandled, DeferHandled, KillRunning, ExitHandler
<1>3. loop[l] \in {"ended", "stopping", "deferring"} => handled[l] \in Tests
  BY DEF PlaceInv, AliveListed
<1>4. <<>> \in Seq(Tests) /\ MaxConcurrent \in Nat \ {0}
  BY EmptyDeque, HandlerAssumption
<1>5. TestTypes' /\ ListTypes' /\ FlagTypes' /\ LoopTypes'
  <2> USE DEF testVars, listVars, flagVars, loopVars, LoopGoto
  <2>1. CASE ReadFreeze(l)
    BY <1>1, <2>1 DEF ReadFreeze, TestTypes, ListTypes, FlagTypes, LoopTypes
  <2>2. CASE BecomeFrozen(l)
    BY <1>1, <2>2 DEF BecomeFrozen, TestTypes, ListTypes, FlagTypes, LoopTypes
  <2>3. CASE BecomeThawed(l)
    <3>1. TestTypes' /\ ListTypes' /\ FlagTypes'
      BY <1>1, <2>3 DEF BecomeThawed, TestTypes, ListTypes, FlagTypes
    <3>2. LoopTypes'
      BY <1>1, <2>3 DEF BecomeThawed, LoopTypes
    <3> QED BY <3>1, <3>2
  <2>4. CASE CatchUp(l)
    <3>1. TestTypes'
      BY <1>1, <2>4, StopTestTypes DEF CatchUp
    <3>2. ListTypes' /\ FlagTypes'
      BY <1>1, <2>4 DEF CatchUp, StopTest, ListTypes, FlagTypes
    <3>3. LoopTypes'
      BY <1>1, <2>4 DEF CatchUp, LoopTypes
    <3> QED BY <3>1, <3>2, <3>3
  <2>5. CASE CaughtUp(l)
    BY <1>1, <1>4, <2>5 DEF CaughtUp, TestTypes, ListTypes, FlagTypes, LoopTypes
  <2>6. CASE Collect(l)
    <3>1. UNCHANGED <<proc, running, answers, stoppingTests, currentTests, flagVars, handled>>
      BY <2>6 DEF Collect
    <3>2. /\ index' = [index EXCEPT ![l] = 1]
          /\ \E to \in {"idle", "handling"} : loop' = [loop EXCEPT ![l] = to]
      BY <2>6 DEF Collect
    <3>3. /\ runningTests' \in Seq(Tests)
          /\ handleTests' \in [1 .. MaxConcurrent -> Tests \cup {None}]
          /\ toHandle' = [toHandle EXCEPT ![l] = Found] /\ Found \in 0 .. MaxConcurrent
      BY <2>6, CollectFacts DEF PlaceInv, RunningApart
    <3>4. TestTypes' /\ ListTypes' /\ FlagTypes'
      BY <1>1, <3>1, <3>3 DEF TestTypes, ListTypes, FlagTypes
    <3>5. LoopTypes'
      BY <1>1, <3>1, <3>2, <3>3 DEF LoopTypes
    <3> QED BY <3>4, <3>5
  <2>7. CASE AllFinished(l)
    BY <1>1, <2>7 DEF AllFinished, TestTypes, ListTypes, FlagTypes, LoopTypes
  <2>8. CASE WakeUp(l)
    BY <1>1, <2>8 DEF WakeUp, TestTypes, ListTypes, FlagTypes, LoopTypes
  <2>9. CASE EndHandling(l)
    BY <1>1, <1>4, <2>9 DEF EndHandling, TestTypes, ListTypes, FlagTypes, LoopTypes
  <2>10. CASE StillRuns(l)
    BY <1>1, <2>10 DEF StillRuns, TestTypes, ListTypes, FlagTypes, LoopTypes
  <2>11. CASE HasEnded(l)
    <3>1. StartedTest(Current(l))
      <4>1. index[l] \in 1 .. toHandle[l]
        BY <1>1, <1>4, <2>11 DEF HasEnded, LoopTypes
      <4> QED BY <4>1 DEF PlaceInv, ProcsAgree, Current
    <3> QED BY <1>1, <2>11, <3>1 DEF HasEnded, StartedTest, TestTypes, ListTypes, FlagTypes, LoopTypes
  <2>12. CASE TestFinished(l)
    BY <1>1, <2>12 DEF TestFinished, AfterTest, TestTypes, ListTypes, FlagTypes, LoopTypes
  <2>13. CASE StopHandled(l)
    <3>1. TestTypes'
      BY <1>1, <2>13, StopTestTypes DEF StopHandled
    <3>2. ListTypes' /\ FlagTypes'
      BY <1>1, <2>13 DEF StopHandled, StopTest, ListTypes, FlagTypes
    <3>3. LoopTypes'
      BY <1>1, <2>13 DEF StopHandled, NextHandled, LoopTypes
    <3> QED BY <3>1, <3>2, <3>3
  <2>14. CASE DeferHandled(l)
    BY <1>1, <1>3, <2>14 DEF DeferHandled, NextHandled, TestTypes, ListTypes, FlagTypes, LoopTypes
  <2>15. CASE KillRunning(l)
    BY <1>1, <1>4, <2>15 DEF KillRunning, TestTypes, ListTypes, FlagTypes, LoopTypes
  <2>16. CASE ExitHandler(l)
    BY <1>1, <2>16 DEF ExitHandler, TestTypes, ListTypes, FlagTypes, LoopTypes
  <2> QED BY <2>1, <2>2, <2>3, <2>4, <2>5, <2>6, <2>7, <2>8, <2>9, <2>10,
             <2>11, <2>12, <2>13, <2>14, <2>15, <2>16 DEF LoopStep
<1> QED BY <1>1, <1>2, <1>5, GroupsKept, TypeGroupsNext

LEMMA SessionTypesKept ==
  ASSUME TypeOK,
         \/ SessionStep \/ ReinitHandler \/ BeginSave \/ EndSession
         \/ \E finish \in course.stops : StopHandler(finish)
  PROVE  TypeOK'
<1>1. /\ TestTypes /\ QueueTypes /\ ListTypes /\ FlagTypes
      /\ StarterTypes /\ LoopTypes /\ PrepTypes /\ SessionTypes
  BY TypeGroups
<1>2. course.saves \in Nat /\ course.stops \subseteq BOOLEAN
  BY <1>1, HandlerAssumption DEF SessionTypes
<1> USE DEF testVars, queueVars, listVars, flagVars, sessionVars, ControlGoto
<1>3. CASE FreezeReturns \/ PoolFreezeReturns \/ TakeTopLevel \/ TakeLockQueue \/ EndSession
  <2>1. SessionTypes'
    BY <1>1, <1>3 DEF FreezeReturns, PoolFreezeReturns, TakeTopLevel,
                      TakeLockQueue, EndSession, SessionTypes
  <2>2. /\ UNCHANGED testVars /\ UNCHANGED queueVars /\ UNCHANGED listVars
        /\ UNCHANGED flagVars /\ UNCHANGED starterVars /\ UNCHANGED loopVars
        /\ UNCHANGED prepVars
    BY <1>3 DEF FreezeReturns, PoolFreezeReturns, TakeTopLevel, TakeLockQueue, EndSession
  <2> QED BY <1>1, <2>1, <2>2, GroupsKept, TypeGroupsNext
<1>4. CASE \/ EndSave \/ FreezeForEnd \/ BeginSave
           \/ \E finish \in course.stops : StopHandler(finish)
  <2>1. SessionTypes'
    BY <1>1, <1>2, <1>4 DEF EndSave, FreezeForEnd, BeginSave, StopHandler, SessionTypes
  <2>2. FlagTypes'
    BY <1>1, <1>2, <1>4 DEF EndSave, FreezeForEnd, BeginSave, StopHandler, FlagTypes
  <2>3. /\ UNCHANGED testVars /\ UNCHANGED queueVars /\ UNCHANGED listVars
        /\ UNCHANGED starterVars /\ UNCHANGED loopVars
    BY <1>4 DEF EndSave, FreezeForEnd, BeginSave, StopHandler
  <2>4. PrepTypes'
    BY <1>1, <1>4 DEF EndSave, FreezeForEnd, BeginSave, StopHandler, PrepTypes, NoneSeen, prepVars
  <2> QED BY <1>1, <2>1, <2>2, <2>3, <2>4, GroupsKept, TypeGroupsNext
<1>7. CASE EmptyPool \/ \E p \in Preparers : ReadStatus(p)
  <2>1. SessionTypes' /\ QueueTypes'
    BY <1>1, <1>7 DEF EmptyPool, ReadStatus, SessionTypes, QueueTypes
  <2>2. PrepTypes'
    BY <1>1, <1>7 DEF EmptyPool, ReadStatus, PrepTypes, NoneSeen, Waiting
  <2>3. /\ UNCHANGED testVars /\ UNCHANGED listVars /\ UNCHANGED flagVars
        /\ UNCHANGED starterVars /\ UNCHANGED loopVars
    BY <1>7 DEF EmptyPool, ReadStatus
  <2> QED BY <1>1, <2>1, <2>2, <2>3, GroupsKept, TypeGroupsNext
<1>5. CASE ClearTests
  <2>1. SessionTypes' /\ FlagTypes'
    BY <1>1, <1>5 DEF ClearTests, SessionTypes, FlagTypes
  <2>2. QueueTypes' /\ ListTypes'
    BY <1>1, <1>5, EmptyDeque DEF ClearTests, ClearBody, QueueTypes, ListTypes
  <2>3. TestTypes'
    BY <1>1, <1>5 DEF ClearTests, ClearBody, TestTypes
  <2>4. UNCHANGED starterVars /\ UNCHANGED loopVars /\ UNCHANGED prepVars
    BY <1>5 DEF ClearTests
  <2> QED BY <1>1, <2>1, <2>2, <2>3, <2>4, GroupsKept, TypeGroupsNext
<1>6. CASE ReinitHandler
  <2>1. FlagTypes' /\ LoopTypes'
    BY <1>1, <1>6 DEF ReinitHandler, FlagTypes, LoopTypes, Loops, First, Second
  <2>2. /\ UNCHANGED testVars /\ UNCHANGED queueVars /\ UNCHANGED listVars
        /\ UNCHANGED starterVars /\ UNCHANGED prepVars /\ UNCHANGED sessionVars
    BY <1>6 DEF ReinitHandler
  <2> QED BY <1>1, <2>1, <2>2, GroupsKept, TypeGroupsNext
<1> QED BY <1>3, <1>4, <1>5, <1>6, <1>7 DEF SessionStep

\* Every action keeps the types.
LEMMA TypesKept ==
  ASSUME PlaceInv, [Next]_vars
  PROVE  TypeOK'
<1>1. TypeOK /\ PhasesAgree
  BY DEF PlaceInv
<1>2. /\ TestTypes /\ QueueTypes /\ ListTypes /\ FlagTypes
      /\ StarterTypes /\ LoopTypes /\ PrepTypes /\ SessionTypes
  BY <1>1, TypeGroups
<1>3. ASSUME NEW t \in Tests, AddTest(t)
      PROVE  TypeOK'
  <2>1. <<t>> \o waitingTests \in Seq(Tests) /\ Append(waitingTests, t) \in Seq(Tests)
    BY <1>2, PushFront, PushBack DEF QueueTypes
  <2>2. TestTypes' /\ QueueTypes'
    BY <1>2, <1>3, <2>1 DEF AddTest, TestTypes, QueueTypes
  <2>3. /\ UNCHANGED listVars /\ UNCHANGED flagVars /\ UNCHANGED starterVars
        /\ UNCHANGED loopVars /\ UNCHANGED prepVars /\ UNCHANGED sessionVars
    BY <1>3 DEF AddTest
  <2> QED BY <1>2, <2>2, <2>3, GroupsKept, TypeGroupsNext
<1>4. ASSUME NEW t \in Tests, ProcessEnds(t)
      PROVE  TypeOK'
  <2>1. TestTypes'
    BY <1>2, <1>4 DEF ProcessEnds, TestTypes
  <2>2. /\ UNCHANGED queueVars /\ UNCHANGED listVars /\ UNCHANGED flagVars
        /\ UNCHANGED starterVars /\ UNCHANGED loopVars /\ UNCHANGED prepVars
        /\ UNCHANGED sessionVars
    BY <1>4 DEF ProcessEnds
  <2> QED BY <1>2, <2>1, <2>2, GroupsKept, TypeGroupsNext
<1>5. CASE UNCHANGED vars
  <2>1. /\ UNCHANGED testVars /\ UNCHANGED queueVars /\ UNCHANGED listVars
        /\ UNCHANGED flagVars /\ UNCHANGED starterVars /\ UNCHANGED loopVars
        /\ UNCHANGED prepVars /\ UNCHANGED sessionVars
    BY <1>5 DEF vars
  <2> QED BY <1>2, <2>1, GroupsKept, TypeGroupsNext
<1> QED BY <1>1, <1>3, <1>4, <1>5, PrepareTypes, StarterTypesKept, LoopTypesKept,
           SessionTypesKept DEF Next

-----------------------------------------------------------------------------
(* The queues.                                                             *)

\* push_back and pop_front on _startingTests.
LEMMA PushOnce ==
  ASSUME NEW s \in Seq(Tests \cup {None}), NEW e \in Tests \cup {None},
         OnceEach(s), e \notin ToSet(s) \ {None}
  PROVE  /\ OnceEach(Append(s, e))
         /\ ToSet(Append(s, e)) \ {None} = (ToSet(s) \ {None}) \cup ({e} \ {None})
<1>1. /\ Len(Append(s, e)) = Len(s) + 1
      /\ \A i \in 1 .. Len(s) : Append(s, e)[i] = s[i]
      /\ Append(s, e)[Len(s) + 1] = e
  OBVIOUS
<1>2. DOMAIN s = 1 .. Len(s) /\ DOMAIN Append(s, e) = 1 .. Len(s) + 1
  BY <1>1
<1>3. ToSet(Append(s, e)) = ToSet(s) \cup {e}
  BY PushBack
<1>4. OnceEach(Append(s, e))
  BY <1>1, <1>2 DEF OnceEach, ToSet
<1> QED BY <1>3, <1>4

LEMMA PopOnce ==
  ASSUME NEW s \in Seq(Tests \cup {None}), OnceEach(s), s # <<>>
  PROVE  /\ Tail(s) \in Seq(Tests \cup {None}) /\ Head(s) \in ToSet(s)
         /\ Len(Tail(s)) = Len(s) - 1
         /\ OnceEach(Tail(s))
         /\ ToSet(Tail(s)) \ {None} = (ToSet(s) \ {None}) \ {Head(s)}
<1> DEFINE r == Tail(s)
<1>1. /\ r \in Seq(Tests \cup {None})
      /\ Len(s) \in Nat \ {0} /\ Len(r) = Len(s) - 1
      /\ \A i \in 1 .. Len(r) : r[i] = s[i + 1]
      /\ Head(s) = s[1]
  BY HeadTailProperties, EmptySeq
<1>2. DOMAIN s = 1 .. Len(s) /\ DOMAIN r = 1 .. Len(s) - 1
  BY <1>1
<1> HIDE DEF r
<1>3. Head(s) \in ToSet(s)
  BY <1>1, <1>2 DEF ToSet
<1>4. \A i \in 1 .. Len(s) - 1 : i + 1 \in 1 .. Len(s) /\ i + 1 # 1 /\ r[i] = s[i + 1]
  BY <1>1
<1>5. OnceEach(r)
  <2> SUFFICES ASSUME NEW i \in 1 .. Len(s) - 1, NEW j \in 1 .. Len(s) - 1,
                      r[i] = r[j], r[i] # None
               PROVE  i = j
    BY <1>2 DEF OnceEach
  <2>1. i + 1 = j + 1
    BY <1>2, <1>4 DEF OnceEach
  <2> QED BY <2>1
<1>6. ASSUME NEW x \in ToSet(r) \ {None} PROVE x \in (ToSet(s) \ {None}) \ {Head(s)}
  <2>1. PICK i \in 1 .. Len(s) - 1 : x = r[i]
    BY <1>2, <1>6 DEF ToSet
  <2>2. i + 1 \in DOMAIN s /\ 1 \in DOMAIN s /\ i + 1 # 1 /\ x = s[i + 1] /\ x # None
    BY <1>1, <1>2, <1>4, <1>6, <2>1
  <2> QED BY <1>1, <2>2 DEF OnceEach, ToSet
<1>7. ASSUME NEW x \in (ToSet(s) \ {None}) \ {Head(s)} PROVE x \in ToSet(r) \ {None}
  <2>1. PICK i \in 1 .. Len(s) : x = s[i]
    BY <1>2, <1>7 DEF ToSet
  <2>2. i # 1
    BY <1>1, <1>7, <2>1
  <2>3. i - 1 \in 1 .. Len(s) - 1 /\ (i - 1) + 1 = i
    BY <1>1, <2>2
  <2>4. i - 1 \in DOMAIN r /\ r[i - 1] = x
    BY <1>2, <1>4, <2>1, <2>3
  <2> QED BY <1>7, <2>4 DEF ToSet
<1> QED BY <1>1, <1>3, <1>5, <1>6, <1>7 DEF r

\* A preparer takes a test, or gives its test away.
LEMMA HandTakes ==
  ASSUME PrepTypes, NEW p \in Preparers, inHand[p] = None, NEW t \in Tests,
         inHand' = [inHand EXCEPT ![p] = t], t \notin Held,
         \A q, r \in Preparers : inHand[q] = inHand[r] /\ inHand[q] # None => q = r
  PROVE  /\ Held' = Held \cup {t}
         /\ (\A q, r \in Preparers : inHand[q] = inHand[r] /\ inHand[q] # None => q = r)'
<1>1. \A q \in Preparers : inHand'[q] = IF q = p THEN t ELSE inHand[q]
  BY DEF PrepTypes
<1>2. t # None
  BY HandlerAssumption
<1>3. Held' = Held \cup {t}
  <2>1. ASSUME NEW x \in Held' PROVE x \in Held \cup {t}
    BY <1>1, <2>1 DEF Held
  <2>2. ASSUME NEW x \in Held PROVE x \in Held'
    BY <1>1, <2>2 DEF Held
  <2>3. t \in Held'
    BY <1>1, <1>2 DEF Held
  <2> QED BY <2>1, <2>2, <2>3
<1>4. \A q \in Preparers : inHand[q] # None => inHand[q] # t
  BY <1>2 DEF Held
<1> QED BY <1>1, <1>3, <1>4

LEMMA HandGives ==
  ASSUME PrepTypes, NEW p \in Preparers, inHand[p] # None,
         inHand' = [inHand EXCEPT ![p] = None],
         \A q, r \in Preparers : inHand[q] = inHand[r] /\ inHand[q] # None => q = r
  PROVE  /\ Held' = Held \ {inHand[p]} /\ inHand[p] \in Held /\ inHand[p] \in Tests
         /\ (\A q, r \in Preparers : inHand[q] = inHand[r] /\ inHand[q] # None => q = r)'
<1>1. \A q \in Preparers : inHand'[q] = IF q = p THEN None ELSE inHand[q]
  BY DEF PrepTypes
<1>2. Held' = Held \ {inHand[p]}
  <2>1. ASSUME NEW x \in Held' PROVE x \in Held \ {inHand[p]}
    BY <1>1, <2>1 DEF Held
  <2>2. ASSUME NEW x \in Held \ {inHand[p]} PROVE x \in Held'
    BY <1>1, <2>2 DEF Held
  <2> QED BY <2>1, <2>2
<1> QED BY <1>1, <1>2 DEF Held, PrepTypes

\* What each action does to the tests that have not run: none of them is ever
\* in two places.
LEMMA AddFlow ==
  ASSUME TypeOK, QueuesApart, ProcsAgree, NEW t \in Tests, AddTest(t)
  PROVE  QueuesApart' /\ NotYetRun' = NotYetRun \cup {t} /\ t \notin NotYetRun
<1>1. /\ waitingTests \in Seq(Tests) /\ IsInjective(waitingTests)
      /\ t \notin NotYetRun
      /\ UNCHANGED <<waitingTestsExec, startingTests, inHand>>
      /\ waitingTests' = <<t>> \o waitingTests \/ waitingTests' = Append(waitingTests, t)
  BY DEF AddTest, TypeOK, QueuesApart, ProcsAgree, prepVars
<1>2. t \notin ToSet(waitingTests)
  BY <1>1 DEF NotYetRun
<1>3. IsInjective(waitingTests') /\ ToSet(waitingTests') = ToSet(waitingTests) \cup {t}
  <2>1. CASE waitingTests' = <<t>> \o waitingTests
    BY <1>1, <1>2, <2>1, PushFront
  <2>2. CASE waitingTests' = Append(waitingTests, t)
    BY <1>1, <1>2, <2>2, PushBack
  <2> QED BY <1>1, <2>1, <2>2
<1>4. Held' = Held /\ AtStart' = AtStart
  BY <1>1 DEF Held, AtStart
<1> QED BY <1>1, <1>3, <1>4 DEF QueuesApart, NotYetRun

LEMMA PopFlow ==
  ASSUME TypeOK, QueuesApart, PhasesAgree, NEW p \in Preparers, PopWaiting(p)
  PROVE  QueuesApart' /\ NotYetRun' = NotYetRun
<1>1. CASE waitingTests = <<>>
  <2>1. UNCHANGED <<waitingTests, waitingTestsExec, startingTests, inHand>>
    BY <1>1 DEF PopWaiting
  <2>2. Held' = Held /\ AtStart' = AtStart
    BY <2>1 DEF Held, AtStart
  <2> QED BY <2>1, <2>2 DEF QueuesApart, NotYetRun
<1>2. CASE waitingTests # <<>>
  <2> DEFINE t == Head(waitingTests)
  <2>1. /\ UNCHANGED <<waitingTestsExec, startingTests>>
        /\ inHand' = [inHand EXCEPT ![p] = t]
        /\ waitingTests' = Tail(waitingTests)
    BY <1>2 DEF PopWaiting
  <2>2. /\ waitingTests' \in Seq(Tests) /\ t \in Tests
        /\ ToSet(waitingTests') = ToSet(waitingTests) \ {t}
        /\ t \in ToSet(waitingTests) /\ IsInjective(waitingTests')
    BY <1>2, <2>1, PopFront, HeadTailProperties DEF TypeOK, QueuesApart
  <2>3. PrepTypes
    BY TypeGroups
  <2>4. inHand[p] = None
    BY DEF PopWaiting, PhasesAgree
  <2>5. t \notin Held /\ t \notin ToSet(waitingTestsExec) /\ t \notin AtStart
    BY <2>2 DEF QueuesApart
  <2> HIDE DEF t
  <2>6. /\ Held' = Held \cup {t}
        /\ (\A q, r \in Preparers : inHand[q] = inHand[r] /\ inHand[q] # None => q = r)'
    BY <2>1, <2>2, <2>3, <2>4, <2>5, HandTakes DEF QueuesApart
  <2>7. AtStart' = AtStart
    BY <2>1 DEF AtStart
  <2> QED BY <2>1, <2>2, <2>5, <2>6, <2>7 DEF QueuesApart, NotYetRun
<1> QED BY <1>1, <1>2

LEMMA PushFlow ==
  ASSUME TypeOK, QueuesApart, PhasesAgree, NEW p \in Preparers, PushPrepared(p)
  PROVE  QueuesApart' /\ NotYetRun' = NotYetRun
<1> DEFINE t == inHand[p]
<1>1. /\ UNCHANGED <<waitingTests, startingTests>>
      /\ waitingTestsExec' = Append(waitingTestsExec, t)
      /\ inHand' = [inHand EXCEPT ![p] = None]
      /\ t # None
  BY DEF PushPrepared, PhasesAgree
<1>2. PrepTypes
  BY TypeGroups
<1>3. /\ Held' = Held \ {t} /\ t \in Held /\ t \in Tests
      /\ (\A q, r \in Preparers : inHand[q] = inHand[r] /\ inHand[q] # None => q = r)'
  BY <1>1, <1>2, HandGives DEF QueuesApart
<1>4. t \notin ToSet(waitingTests) /\ t \notin ToSet(waitingTestsExec) /\ t \notin AtStart
  BY <1>3 DEF QueuesApart
<1> HIDE DEF t
<1>5. IsInjective(waitingTestsExec') /\ ToSet(waitingTestsExec') = ToSet(waitingTestsExec) \cup {t}
  BY <1>1, <1>3, <1>4, PushBack DEF TypeOK, QueuesApart
<1>6. AtStart' = AtStart
  BY <1>1 DEF AtStart
<1> QED BY <1>1, <1>3, <1>4, <1>5, <1>6 DEF QueuesApart, NotYetRun

LEMMA FailFlow ==
  ASSUME TypeOK, QueuesApart, PhasesAgree, NEW p \in Preparers, PrepareFails(p)
  PROVE  /\ QueuesApart' /\ NotYetRun' = NotYetRun \ {inHand[p]}
         /\ inHand[p] \in NotYetRun /\ inHand[p] \in Tests
<1>1. /\ UNCHANGED <<waitingTests, waitingTestsExec, startingTests>>
      /\ inHand' = [inHand EXCEPT ![p] = None]
      /\ inHand[p] # None
  BY DEF PrepareFails, PhasesAgree, queueVars
<1>2. PrepTypes
  BY TypeGroups
<1>3. /\ Held' = Held \ {inHand[p]} /\ inHand[p] \in Held /\ inHand[p] \in Tests
      /\ (\A q, r \in Preparers : inHand[q] = inHand[r] /\ inHand[q] # None => q = r)'
  BY <1>1, <1>2, HandGives DEF QueuesApart
<1>4. AtStart' = AtStart
  BY <1>1 DEF AtStart
<1> QED BY <1>1, <1>3, <1>4 DEF QueuesApart, NotYetRun

\* The test that FillOne answers, if any.
Spoilt(t) ==
  /\ t \in NotYetRun /\ t \in Tests /\ Answer(t)
  /\ NotYetRun' = NotYetRun \ {t}

LEMMA FillFlow ==
  ASSUME TypeOK, QueuesApart, FillOne
  PROVE  /\ QueuesApart'
         /\ \/ UNCHANGED answers /\ NotYetRun' = NotYetRun
            \/ \E t \in Tests : Spoilt(t)
         /\ Len(startingTests') = Len(startingTests) + 1
<1>1. /\ waitingTests \in Seq(Tests) /\ waitingTestsExec \in Seq(Tests)
      /\ startingTests \in Seq(Tests \cup {None}) /\ Len(waitingTests) \in Nat
      /\ IsInjective(waitingTests) /\ IsInjective(waitingTestsExec) /\ OnceEach(startingTests)
      /\ None \notin Tests
  BY HandlerAssumption DEF TypeOK, QueuesApart
<1>2. UNCHANGED inHand /\ Held' = Held
  BY DEF FillOne, prepVars, Held
<1>3. CASE TakePrepared
  <2> DEFINE t == Head(waitingTestsExec)
  <2>1. /\ UNCHANGED <<waitingTests, answers>>
        /\ startingTests' = Append(startingTests, t)
        /\ waitingTestsExec' = Tail(waitingTestsExec) /\ waitingTestsExec # <<>>
    BY <1>3 DEF TakePrepared
  <2>2. /\ ToSet(waitingTestsExec') = ToSet(waitingTestsExec) \ {t} /\ t \in Tests
        /\ t \in ToSet(waitingTestsExec) /\ IsInjective(waitingTestsExec')
    BY <1>1, <2>1, PopFront, HeadTailProperties
  <2>3. t \notin ToSet(waitingTests) /\ t \notin AtStart /\ t \notin Held
    BY <2>2 DEF QueuesApart
  <2> HIDE DEF t
  <2>4. OnceEach(startingTests') /\ AtStart' = AtStart \cup {t}
    BY <1>1, <2>1, <2>2, <2>3, PushOnce DEF AtStart
  <2>5. Len(startingTests') = Len(startingTests) + 1
    BY <1>1, <2>1, <2>2
  <2> QED BY <1>2, <2>1, <2>2, <2>3, <2>4, <2>5 DEF QueuesApart, NotYetRun
<1>4. ASSUME NEW m \in 0 .. Len(waitingTests), NEW n \in m .. Len(waitingTests),
             PrepareSome(m, n)
      PROVE  /\ QueuesApart'
             /\ \/ UNCHANGED answers /\ NotYetRun' = NotYetRun
                \/ \E t \in Tests : Spoilt(t)
             /\ Len(startingTests') = Len(startingTests) + 1
  <2> DEFINE ready == SubSeq(waitingTests, 1, m)
             rest  == SubSeq(waitingTests, n + 1, Len(waitingTests))
  <2>1. /\ ready \in Seq(Tests) /\ rest \in Seq(Tests)
        /\ ToSet(ready) = {waitingTests[i] : i \in 1 .. m}
        /\ ToSet(rest) = {waitingTests[i] : i \in n + 1 .. Len(waitingTests)}
        /\ IsInjective(ready) /\ IsInjective(rest)
        /\ ToSet(ready) \cap ToSet(rest) = {}
    <3>1. waitingTests \in Seq(Tests) /\ IsInjective(waitingTests)
      BY <1>1
    <3>2. /\ ready \in Seq(Tests) /\ rest \in Seq(Tests)
          /\ ToSet(ready) = {waitingTests[i] : i \in 1 .. m}
          /\ ToSet(rest) = {waitingTests[i] : i \in n + 1 .. Len(waitingTests)}
      BY <3>1, CutOff
    <3>3. /\ IsInjective(ready) /\ IsInjective(rest)
          /\ ToSet(ready) \cap ToSet(rest) = {}
      BY <3>1, CutOff, Zenon
    <3> QED BY <3>2, <3>3
  <2>2. ToSet(waitingTests) = {waitingTests[i] : i \in 1 .. Len(waitingTests)}
    BY <1>1 DEF ToSet
  <2>3. ToSet(ready) \subseteq ToSet(waitingTests) /\ ToSet(rest) \subseteq ToSet(waitingTests)
    <3>1. \A i : i \in 1 .. m => i \in 1 .. Len(waitingTests)
      BY <1>1
    <3>2. \A i : i \in n + 1 .. Len(waitingTests) => i \in 1 .. Len(waitingTests)
      BY <1>1
    <3> QED BY <2>1, <2>2, <3>1, <3>2
  <2>4. /\ waitingTestsExec = <<>> /\ waitingTests' = rest
        /\ \/ n = m /\ UNCHANGED answers
           \/ n = m + 1 /\ Answer(waitingTests[n])
        /\ \/ /\ m = 0
              /\ startingTests' = Append(startingTests, None)
              /\ waitingTestsExec' = <<>>
           \/ /\ ready # <<>>
              /\ startingTests' = Append(startingTests, Head(ready))
              /\ waitingTestsExec' = Tail(ready)
    <3>0. waitingTestsExec = <<>> /\ waitingTests' = rest
      BY <1>4 DEF PrepareSome
    <3>1. \/ n = m /\ UNCHANGED answers
          \/ n = m + 1 /\ Answer(waitingTests[n])
      BY <1>4 DEF PrepareSome
    <3>2. \/ /\ m = 0
             /\ startingTests' = Append(startingTests, None)
             /\ waitingTestsExec' = <<>>
          \/ /\ ready # <<>>
             /\ startingTests' = Append(startingTests, Head(ready))
             /\ waitingTestsExec' = Tail(ready)
      BY <1>4 DEF PrepareSome
    <3> HIDE DEF ready, rest
    <3> QED BY <3>0, <3>1, <3>2
  <2>5. ToSet(waitingTestsExec) = {}
    BY <2>4, EmptyDeque
  <2>6. ToSet(waitingTests) = ToSet(ready) \cup ToSet(rest)
          \cup (IF n = m THEN {} ELSE {waitingTests[n]})
    <3>1. CASE n = m
      <4>1. \A i : i \in 1 .. Len(waitingTests) <=> i \in 1 .. m \/ i \in n + 1 .. Len(waitingTests)
        BY <1>1, <3>1
      <4> QED BY <2>1, <2>2, <3>1, <4>1
    <3>2. CASE n = m + 1
      <4>1. \A i : i \in 1 .. Len(waitingTests) <=>
                 i \in 1 .. m \/ i \in n + 1 .. Len(waitingTests) \/ i = n
        BY <1>1, <3>2
      <4> QED BY <2>1, <2>2, <3>2, <4>1
    <3> QED BY <2>4, <3>1, <3>2
  <2>7. n = m + 1 => /\ waitingTests[n] \in ToSet(waitingTests) /\ waitingTests[n] \in Tests
                     /\ waitingTests[n] \notin ToSet(ready)
                     /\ waitingTests[n] \notin ToSet(rest)
    <3> SUFFICES ASSUME n = m + 1
                 PROVE  /\ waitingTests[n] \in ToSet(waitingTests) /\ waitingTests[n] \in Tests
                        /\ waitingTests[n] \notin ToSet(ready)
                        /\ waitingTests[n] \notin ToSet(rest)
      OBVIOUS
    <3>1. n \in 1 .. Len(waitingTests) /\ n \notin 1 .. m /\ n \notin n + 1 .. Len(waitingTests)
      BY <1>1
    <3>2. \A i, j \in 1 .. Len(waitingTests) : waitingTests[i] = waitingTests[j] => i = j
      BY <1>1 DEF IsInjective
    <3>3. \A i : i \in 1 .. m \/ i \in n + 1 .. Len(waitingTests) => i \in 1 .. Len(waitingTests)
      BY <1>1
    <3>4. waitingTests[n] \in ToSet(waitingTests) /\ waitingTests[n] \in Tests
      BY <1>1, <2>2, <3>1
    <3> QED BY <2>1, <3>1, <3>2, <3>3, <3>4
  <2>8. ready # <<>> => /\ ToSet(Tail(ready)) = ToSet(ready) \ {Head(ready)}
                        /\ Head(ready) \in ToSet(ready) /\ Head(ready) \in Tests
                        /\ IsInjective(Tail(ready))
    <3> HIDE DEF ready
    <3> QED BY <2>1, PopFront, HeadTailProperties
  <2>9. m = 0 => ToSet(ready) = {}
    <3>1. m = 0 => 1 .. m = {}
      OBVIOUS
    <3> QED BY <2>1, <3>1
  <2> HIDE DEF ready, rest
  <2>10. /\ OnceEach(startingTests') /\ IsInjective(waitingTestsExec')
         /\ Len(startingTests') = Len(startingTests) + 1
         /\ \/ AtStart' = AtStart /\ ToSet(waitingTestsExec') = {} /\ ToSet(ready) = {}
            \/ \E h \in ToSet(ready) : /\ AtStart' = AtStart \cup {h}
                                       /\ ToSet(waitingTestsExec') = ToSet(ready) \ {h}
    <3>1. CASE /\ m = 0
               /\ startingTests' = Append(startingTests, None)
               /\ waitingTestsExec' = <<>>
      <4>1. OnceEach(startingTests') /\ AtStart' = AtStart
        BY <1>1, <3>1, PushOnce DEF AtStart
      <4>2. Len(startingTests') = Len(startingTests) + 1
        BY <1>1, <3>1
      <4> QED BY <2>9, <3>1, <4>1, <4>2, EmptyDeque
    <3>2. CASE /\ ready # <<>>
               /\ startingTests' = Append(startingTests, Head(ready))
               /\ waitingTestsExec' = Tail(ready)
      <4>1. Head(ready) \in ToSet(ready) /\ Head(ready) \in Tests /\ Head(ready) \notin AtStart
        BY <2>3, <2>8, <3>2 DEF QueuesApart
      <4>2. OnceEach(startingTests') /\ AtStart' = AtStart \cup {Head(ready)}
        <5> DEFINE h == Head(ready)
        <5>1. h \in Tests /\ h \in Tests \cup {None} /\ h # None
              /\ h \notin ToSet(startingTests) \ {None}
          BY <1>1, <4>1 DEF AtStart
        <5>2. startingTests' = Append(startingTests, h)
          BY <3>2
        <5> HIDE DEF h
        <5>3. /\ OnceEach(Append(startingTests, h))
              /\ ToSet(Append(startingTests, h)) \ {None}
                   = (ToSet(startingTests) \ {None}) \cup ({h} \ {None})
          BY <1>1, <5>1, PushOnce
        <5>4. OnceEach(startingTests') /\ AtStart' = AtStart \cup {h}
          BY <5>1, <5>2, <5>3 DEF AtStart
        <5> QED BY <5>4 DEF h
      <4>3. Len(startingTests') = Len(startingTests) + 1
        BY <1>1, <3>2, <4>1
      <4> QED BY <2>8, <3>2, <4>1, <4>2, <4>3
    <3> QED BY <2>4, <3>1, <3>2
  <2>11. QueuesApart'
    <3>1. \A t \in ToSet(waitingTests) : t \notin AtStart /\ t \notin Held
      BY DEF QueuesApart
    <3>2. /\ ToSet(waitingTests') = ToSet(rest) /\ IsInjective(waitingTests')
      BY <2>1, <2>4
    <3>3. /\ ToSet(rest) \cap ToSet(waitingTestsExec') = {}
          /\ ToSet(rest) \cap AtStart' = {}
          /\ ToSet(waitingTestsExec') \cap AtStart' = {}
      BY <2>1, <2>3, <2>10, <3>1
    <3>4. Held \cap (ToSet(rest) \cup ToSet(waitingTestsExec') \cup AtStart') = {}
      <4>1. Held \cap AtStart = {}
        BY DEF QueuesApart
      <4> QED BY <2>3, <2>10, <3>1, <4>1
    <3>5. (\A p, q \in Preparers : inHand[p] = inHand[q] /\ inHand[p] # None => p = q)'
      BY <1>2 DEF QueuesApart
    <3> QED BY <1>2, <2>10, <3>2, <3>3, <3>4, <3>5 DEF QueuesApart
  <2>12. \/ UNCHANGED answers /\ NotYetRun' = NotYetRun
         \/ \E t \in Tests : Spoilt(t)
    <3>1. NotYetRun' = ToSet(ready) \cup ToSet(rest) \cup AtStart \cup Held
      BY <1>2, <2>4, <2>10 DEF NotYetRun
    <3>2. NotYetRun = ToSet(waitingTests) \cup AtStart \cup Held
      BY <2>5 DEF NotYetRun
    <3>3. CASE n = m /\ UNCHANGED answers
      BY <2>6, <3>1, <3>2, <3>3
    <3>4. CASE n = m + 1 /\ Answer(waitingTests[n])
      <4> DEFINE t == waitingTests[n]
      <4>1. t \in Tests /\ t \in NotYetRun /\ t \notin AtStart /\ t \notin Held
        BY <2>7, <3>2, <3>4 DEF QueuesApart
      <4>2. NotYetRun' = NotYetRun \ {t}
        BY <2>6, <2>7, <3>1, <3>2, <3>4, <4>1
      <4> QED BY <3>4, <4>1, <4>2 DEF Spoilt
    <3> QED BY <2>4, <3>3, <3>4
  <2> QED BY <2>10, <2>11, <2>12
<1> QED BY <1>3, <1>4, FillCases

LEMMA StartFlow ==
  ASSUME TypeOK, QueuesApart, StartSucceeds \/ StartFails
  PROVE  /\ QueuesApart' /\ NotYetRun' = NotYetRun \ {Head(startingTests)}
         /\ Head(startingTests) # None =>
              Head(startingTests) \in NotYetRun /\ Head(startingTests) \in Tests
         /\ Len(startingTests') = Len(startingTests) - 1
<1> DEFINE h == Head(startingTests)
<1>1. /\ UNCHANGED <<waitingTests, waitingTestsExec, inHand>>
      /\ startingTests' = Tail(startingTests) /\ startingTests # <<>>
  BY DEF StartSucceeds, StartFails, prepVars
<1>2. startingTests \in Seq(Tests \cup {None}) /\ OnceEach(startingTests)
  BY DEF TypeOK, QueuesApart
<1>3. /\ OnceEach(startingTests') /\ AtStart' = AtStart \ {h} /\ h \in ToSet(startingTests)
      /\ h \in Tests \cup {None} /\ Len(startingTests') = Len(startingTests) - 1
  BY <1>1, <1>2, PopOnce, HeadTailProperties DEF AtStart
<1> HIDE DEF h
<1>4. h # None => h \in AtStart
  BY <1>3 DEF AtStart
<1>5. Held' = Held
  BY <1>1 DEF Held
<1>6. \A t \in ToSet(waitingTests) \cup ToSet(waitingTestsExec) \cup Held : t # h
  <2>1. None \notin ToSet(waitingTests) /\ None \notin ToSet(waitingTestsExec) /\ None \notin Held
    BY HandlerAssumption DEF TypeOK, ToSet, Held
  <2>2. CASE h = None
    BY <2>1, <2>2
  <2>3. CASE h # None
    BY <1>4, <2>3 DEF QueuesApart
  <2> QED BY <2>2, <2>3
<1> QED BY <1>1, <1>3, <1>4, <1>5, <1>6 DEF QueuesApart, NotYetRun, h

-----------------------------------------------------------------------------
(* Every action keeps PlaceInv.                                            *)

flowVars == <<waitingTests, waitingTestsExec, startingTests, inHand>>

LEMMA QueuesStay ==
  ASSUME QueuesApart, UNCHANGED flowVars
  PROVE  QueuesApart' /\ NotYetRun' = NotYetRun
<1>1. Held' = Held /\ AtStart' = AtStart
  BY DEF flowVars, Held, AtStart
<1> QED BY <1>1 DEF flowVars, QueuesApart, NotYetRun

\* A step that moves no test on but may drop some that have not run.
LEMMA ProcsStay ==
  ASSUME ProcsAgree, RunningApart, AliveListed, NotYetRun' \subseteq NotYetRun,
         UNCHANGED <<proc, running, runningTests, stoppingTests, launched>>,
         UNCHANGED <<loop, toHandle, handled, handleTests>>
  PROVE  ProcsAgree' /\ RunningApart' /\ AliveListed'
BY DEF ProcsAgree, RunningApart, AliveListed, StartedTest

LEMMA PrepareKeeps ==
  ASSUME PlaceInv, NEW p \in Preparers, PrepareStep(p)
  PROVE  QueuesApart' /\ RunningApart' /\ ProcsAgree' /\ PhasesAgree' /\ SeenAgrees' /\ AliveListed'
<1>1. TypeOK /\ QueuesApart /\ RunningApart /\ ProcsAgree /\ PhasesAgree /\ SeenAgrees /\ AliveListed
  BY DEF PlaceInv
<1>2. /\ UNCHANGED <<proc, running, runningTests, stoppingTests, launched>>
      /\ UNCHANGED <<loop, toHandle, handled, handleTests>>
      /\ UNCHANGED <<starter, control, seen>>
  BY DEF PrepareStep, TakeInitJob, BeginInit, CheckPopulation, PopWaiting, PushPrepared,
         PrepareFails, testVars, listVars, starterVars, loopVars, sessionVars
<1>3. QueuesApart' /\ NotYetRun' \subseteq NotYetRun
  <2>1. CASE TakeInitJob(p) \/ BeginInit(p) \/ CheckPopulation(p)
    <3>1. UNCHANGED flowVars
      BY <2>1 DEF TakeInitJob, BeginInit, CheckPopulation, queueVars, flowVars
    <3> QED BY <1>1, <3>1, QueuesStay
  <2>2. CASE PopWaiting(p)
    BY <1>1, <2>2, PopFlow
  <2>3. CASE PushPrepared(p)
    BY <1>1, <2>3, PushFlow
  <2>4. CASE PrepareFails(p)
    BY <1>1, <2>4, FailFlow
  <2> QED BY <2>1, <2>2, <2>3, <2>4 DEF PrepareStep
<1>4. RunningApart' /\ ProcsAgree' /\ AliveListed'
  BY <1>1, <1>2, <1>3, ProcsStay
<1>5. PhasesAgree'
  <2>1. PrepTypes /\ None \notin Tests
    BY <1>1, TypeGroups, HandlerAssumption
  <2>2. CASE TakeInitJob(p) \/ BeginInit(p)
    BY <1>1, <1>2, <2>1, <2>2 DEF TakeInitJob, BeginInit, PhasesAgree, PrepTypes
  <2>3. CASE CheckPopulation(p)
    BY <1>1, <1>2, <2>1, <2>3 DEF CheckPopulation, PhasesAgree, PrepTypes
  <2>4. CASE PopWaiting(p)
    <3>1. CASE waitingTests = <<>>
      BY <1>1, <1>2, <2>1, <2>4, <3>1 DEF PopWaiting, PhasesAgree, PrepTypes
    <3>2. CASE waitingTests # <<>>
      <4>1. Head(waitingTests) \in Tests
        BY <1>1, <3>2, HeadTailProperties DEF TypeOK
      <4>2. /\ prep' = [prep EXCEPT ![p] = "prepare"]
            /\ inHand' = [inHand EXCEPT ![p] = Head(waitingTests)]
            /\ prep[p] = "pop"
        BY <2>4, <3>2 DEF PopWaiting
      <4> QED BY <1>1, <1>2, <2>1, <4>1, <4>2 DEF PhasesAgree, PrepTypes
    <3> QED BY <3>1, <3>2
  <2>5. CASE PushPrepared(p)
    BY <1>1, <1>2, <2>1, <2>5 DEF PushPrepared, PhasesAgree, PrepTypes
  <2>6. CASE PrepareFails(p)
    BY <1>1, <1>2, <2>1, <2>6 DEF PrepareFails, PhasesAgree, PrepTypes
  <2> QED BY <2>2, <2>3, <2>4, <2>5, <2>6 DEF PrepareStep
<1>6. SeenAgrees'
  <2>1. prep[p] = "idle" => ~PoolFreezes
    BY DEF PrepareStep, TakeInitJob, BeginInit, CheckPopulation, PopWaiting, PushPrepared,
           PrepareFails
  <2>2. \A q \in Preparers : q # p => prep'[q] = prep[q]
    <3>1. PrepTypes
      BY <1>1, TypeGroups
    <3> QED BY <3>1 DEF PrepareStep, TakeInitJob, BeginInit, CheckPopulation, PopWaiting,
               PushPrepared, PrepareFails, PrepTypes
  <2>3. seen[p] # "idle"
    BY <1>1, <2>1 DEF SeenAgrees
  <2> QED BY <1>1, <1>2, <2>2, <2>3 DEF SeenAgrees, PoolFreezes, AllWaited
<1> QED BY <1>3, <1>4, <1>5, <1>6

\* Who leaves the preparers, what Freeze has seen and the session alone.
LEMMA SeenStays ==
  ASSUME SeenAgrees, UNCHANGED <<prep, seen, control>>
  PROVE  SeenAgrees'
BY DEF SeenAgrees, AllWaited, PoolFreezes

LEMMA StarterKeeps ==
  ASSUME PlaceInv, StarterStep
  PROVE  QueuesApart' /\ RunningApart' /\ ProcsAgree' /\ PhasesAgree' /\ SeenAgrees' /\ AliveListed'
<1>1. /\ TypeOK /\ QueuesApart /\ RunningApart /\ ProcsAgree /\ PhasesAgree /\ SeenAgrees /\ AliveListed
      /\ None \notin Tests
  BY HandlerAssumption DEF PlaceInv
<1>0. SeenAgrees'
  <2>1. UNCHANGED <<prep, seen, control>>
    BY DEF StarterStep, BeginRound, EndNap, CheckSlots, LockQueue, FillOne, FillEnds,
           StartSucceeds, StartFails, ListStarted, EndRound, prepVars, sessionVars
  <2> QED BY <1>1, <2>1, SeenStays
<1> SUFFICES QueuesApart' /\ RunningApart' /\ ProcsAgree' /\ PhasesAgree' /\ AliveListed'
  BY <1>0
<1>2. CASE BeginRound \/ EndNap \/ CheckSlots \/ LockQueue \/ FillEnds \/ EndRound
  <2> USE DEF BeginRound, EndNap, CheckSlots, LockQueue, FillEnds, EndRound, StarterGoto
  <2>1. /\ UNCHANGED <<proc, running, runningTests, stoppingTests, launched>>
        /\ UNCHANGED <<loop, toHandle, handled, handleTests>>
        /\ UNCHANGED flowVars
    BY <1>2 DEF testVars, queueVars, listVars, loopVars, prepVars, flowVars, starterVars
  <2>2. UNCHANGED <<prep, inHand, control>>
    BY <1>2 DEF prepVars, sessionVars
  <2>3. starter # "listing" /\ starter' # "listing"
    BY <1>2
  <2>4. PhasesAgree'
    BY <1>1, <2>1, <2>2, <2>3 DEF PhasesAgree
  <2>5. QueuesApart' /\ NotYetRun' = NotYetRun
    BY <1>1, <2>1, QueuesStay
  <2> QED BY <1>1, <2>1, <2>4, <2>5, ProcsStay
<1>3. CASE FillOne
  <2>1. /\ UNCHANGED <<proc, running, runningTests, stoppingTests, launched>>
        /\ UNCHANGED <<loop, toHandle, handled, handleTests>>
        /\ UNCHANGED <<starter, prep, inHand, control>>
    BY <1>3 DEF FillOne, listVars, loopVars, prepVars, sessionVars
  <2>2. QueuesApart' /\ NotYetRun' \subseteq NotYetRun
    BY <1>1, <1>3, FillFlow DEF Spoilt
  <2>3. PhasesAgree'
    BY <1>1, <2>1 DEF PhasesAgree
  <2> QED BY <1>1, <2>1, <2>2, <2>3, ProcsStay
<1>4. CASE StartFails
  <2>1. /\ UNCHANGED <<proc, running, runningTests, stoppingTests, launched>>
        /\ UNCHANGED <<loop, toHandle, handled, handleTests>>
        /\ UNCHANGED <<starter, prep, inHand, control>>
    BY <1>4 DEF StartFails, listVars, starterVars, loopVars, prepVars, sessionVars
  <2>2. QueuesApart' /\ NotYetRun' \subseteq NotYetRun
    BY <1>1, <1>4, StartFlow
  <2>3. PhasesAgree'
    BY <1>1, <2>1 DEF PhasesAgree
  <2> QED BY <1>1, <2>1, <2>2, <2>3, ProcsStay
<1>5. CASE StartSucceeds
  <2>0. PICK h : h = Head(startingTests)
    OBVIOUS
  <2>1. /\ h # None /\ launched' = h /\ starter = "starting" /\ starter' = "listing"
        /\ running' = running \cup {h}
        /\ UNCHANGED <<runningTests, stoppingTests>>
        /\ UNCHANGED <<loop, toHandle, handled, handleTests>>
        /\ UNCHANGED <<prep, inHand, control>>
    BY <1>5, <2>0 DEF StartSucceeds, loopVars, prepVars, sessionVars
  <2>2. QueuesApart' /\ NotYetRun' = NotYetRun \ {h} /\ h \in NotYetRun /\ h \in Tests
    BY <1>1, <1>5, <2>0, <2>1, StartFlow
  <2>3. proc' = [proc EXCEPT ![h] = "alive"] /\ proc \in [Tests -> {"new", "queued", "alive", "dead"}]
    BY <1>1, <1>5, <2>1 DEF StartSucceeds, TypeOK
  <2>4. \A t \in Tests : proc'[t] = IF t = h THEN "alive" ELSE proc[t]
    BY <2>2, <2>3
  <2>5. proc[h] = "queued" /\ ~StartedTest(h)
    BY <1>1, <2>2 DEF ProcsAgree, StartedTest
  <2>6. h \notin ToSet(runningTests)
    BY <1>1, <2>5 DEF ProcsAgree
  <2>7. \A t : StartedTest(t) => StartedTest(t)'
    BY <2>4 DEF StartedTest
  <2>8. RunningApart'
    BY <1>1, <2>1, <2>6 DEF RunningApart
  <2>9. ProcsAgree'
    <3>1. StartedTest(h)'
      BY <2>2, <2>4 DEF StartedTest
    <3>2. \A t \in NotYetRun' : proc'[t] = "queued"
      <4>1. \A t \in NotYetRun : proc[t] = "queued" /\ t \in Tests
        <5>1. NotYetRun \subseteq Tests
          BY <1>1 DEF NotYetRun, AtStart, Held, TypeOK, ToSet
        <5> QED BY <1>1, <5>1 DEF ProcsAgree
      <4> QED BY <2>2, <2>4, <4>1
    <3>3. (\A t \in ToSet(runningTests) \cup ToSet(stoppingTests) : StartedTest(t))'
      BY <1>1, <2>1, <2>7 DEF ProcsAgree
    <3>4. (\A l \in Loops : \A i \in 1 .. toHandle[l] : StartedTest(handleTests[i]))'
      BY <1>1, <2>1, <2>7 DEF ProcsAgree
    <3>5. (\A t \in running : StartedTest(t))'
      BY <1>1, <2>1, <2>7, <3>1 DEF ProcsAgree
    <3> QED BY <2>1, <3>1, <3>2, <3>3, <3>4, <3>5 DEF ProcsAgree
  <2>10. PhasesAgree'
    BY <1>1, <2>1 DEF PhasesAgree
  <2>11. AliveListed'
    <3>1. launched = None
      BY <1>1, <2>1 DEF PhasesAgree
    <3>2. \A l \in Loops : handled[l] \in Tests /\ proc[handled[l]] = "dead" => proc'[handled[l]] = "dead"
      BY <2>4, <2>5
    <3> QED BY <1>1, <2>1, <2>2, <2>4, <3>1, <3>2 DEF AliveListed
  <2> QED BY <2>2, <2>8, <2>9, <2>10, <2>11
<1>6. CASE ListStarted
  <2>1. /\ starter = "listing" /\ starter' = "starting" /\ launched' = None
        /\ runningTests' = Append(runningTests, launched)
        /\ UNCHANGED <<proc, running, stoppingTests>>
        /\ UNCHANGED <<loop, toHandle, handled, handleTests>>
        /\ UNCHANGED <<prep, inHand, control>> /\ UNCHANGED flowVars
    BY <1>6 DEF ListStarted, StarterGoto, testVars, queueVars, loopVars, prepVars, sessionVars, flowVars
  <2>2. launched # None /\ launched \in Tests /\ StartedTest(launched)
    BY <1>1, <2>1 DEF PhasesAgree, TypeOK, ProcsAgree
  <2>3. /\ IsInjective(runningTests') /\ runningTests' \in Seq(Tests)
        /\ ToSet(runningTests') = ToSet(runningTests) \cup {launched}
    BY <1>1, <2>1, <2>2, PushBack DEF RunningApart, TypeOK
  <2>4. QueuesApart' /\ NotYetRun' = NotYetRun
    BY <1>1, <2>1, QueuesStay
  <2>5. RunningApart'
    <3>1. None \notin ToSet(runningTests')
      BY <1>1, <2>3 DEF ToSet
    <3> QED BY <2>1, <2>3, <3>1 DEF RunningApart
  <2>6. ProcsAgree'
    BY <1>1, <2>1, <2>2, <2>3, <2>4 DEF ProcsAgree, StartedTest
  <2>7. PhasesAgree'
    BY <1>1, <2>1 DEF PhasesAgree
  <2>8. AliveListed'
    BY <1>1, <2>1, <2>3 DEF AliveListed
  <2> QED BY <2>4, <2>5, <2>6, <2>7, <2>8
<1> QED BY <1>2, <1>3, <1>4, <1>5, <1>6 DEF StarterStep

\* A process only ends, and only when it was started.
ProcsGoOn ==
  \A t \in Tests :
    /\ proc[t] = "dead" => proc'[t] = "dead"
    /\ proc[t] = "alive" => proc'[t] \in {"alive", "dead"}
    /\ proc'[t] = "alive" => proc[t] = "alive"
    /\ proc[t] = "queued" => proc'[t] = "queued"

LEMMA ProcDies ==
  ASSUME TypeOK, NEW t, StartedTest(t), proc' = [proc EXCEPT ![t] = "dead"]
  PROVE  ProcsGoOn /\ proc'[t] = "dead"
BY DEF TypeOK, StartedTest, ProcsGoOn

LEMMA ProcSame ==
  ASSUME UNCHANGED proc
  PROVE  ProcsGoOn
BY DEF ProcsGoOn, StartedTest

LEMMA ProcsMove ==
  ASSUME TypeOK, ProcsAgree, ProcsGoOn,
         NotYetRun' \subseteq NotYetRun, UNCHANGED launched, running' \subseteq running,
         \A t \in ToSet(runningTests)' \cup ToSet(stoppingTests)' : StartedTest(t),
         \A l \in Loops : \A i \in 1 .. toHandle'[l] : StartedTest(handleTests'[i])
  PROVE  ProcsAgree'
<1>1. ASSUME NEW t, StartedTest(t) PROVE StartedTest(t)'
  <2>1. t \in Tests /\ (proc[t] = "alive" \/ proc[t] = "dead")
    BY <1>1 DEF StartedTest
  <2>2. proc'[t] \in {"alive", "dead"}
    BY <2>1 DEF ProcsGoOn
  <2> QED BY <2>1, <2>2 DEF StartedTest
<1>2. NotYetRun \subseteq Tests
  BY DEF NotYetRun, AtStart, Held, TypeOK, ToSet
<1>3. ASSUME NEW t \in NotYetRun' PROVE proc'[t] = "queued"
  <2>1. t \in NotYetRun /\ t \in Tests
    BY <1>2
  <2>2. proc[t] = "queued"
    BY <2>1 DEF ProcsAgree
  <2> QED BY <2>1, <2>2 DEF ProcsGoOn
<1>4. (launched # None => StartedTest(launched))'
  BY <1>1 DEF ProcsAgree
<1>5. (\A t \in running : StartedTest(t))'
  BY <1>1 DEF ProcsAgree
<1>6. (\A t \in ToSet(runningTests) \cup ToSet(stoppingTests) : StartedTest(t))'
  BY <1>1
<1>7. (\A l \in Loops : \A i \in 1 .. toHandle[l] : StartedTest(handleTests[i]))'
  BY <1>1
<1> QED BY <1>3, <1>4, <1>5, <1>6, <1>7 DEF ProcsAgree

LEMMA LoopKeeps ==
  ASSUME PlaceInv, NEW l \in Loops, LoopStep(l)
  PROVE  QueuesApart' /\ RunningApart' /\ ProcsAgree' /\ PhasesAgree' /\ SeenAgrees' /\ AliveListed'
<1>1. /\ TypeOK /\ QueuesApart /\ RunningApart /\ ProcsAgree /\ PhasesAgree /\ SeenAgrees /\ AliveListed
      /\ None \notin Tests /\ MaxConcurrent \in Nat \ {0}
  BY HandlerAssumption DEF PlaceInv
<1>2. /\ UNCHANGED flowVars /\ UNCHANGED <<starter, launched, prep, inHand, seen, control>>
  BY DEF LoopStep, ReadFreeze, BecomeFrozen, BecomeThawed, CatchUp, CaughtUp,
         Collect, AllFinished, WakeUp, EndHandling, StillRuns, HasEnded,
         TestFinished, StopHandled, DeferHandled, KillRunning, ExitHandler,
         queueVars, starterVars, prepVars, sessionVars, flowVars
<1>0. SeenAgrees'
  BY <1>1, <1>2, SeenStays
<1> SUFFICES QueuesApart' /\ RunningApart' /\ ProcsAgree' /\ PhasesAgree' /\ AliveListed'
  BY <1>0
<1>3. QueuesApart' /\ NotYetRun' = NotYetRun
  BY <1>1, <1>2, QueuesStay
<1>4. PhasesAgree'
  BY <1>1, <1>2 DEF PhasesAgree
<1>5. LoopTypes /\ TestTypes /\ ListTypes
  BY <1>1, TypeGroups
<1>6. CASE ReadFreeze(l) \/ BecomeFrozen(l) \/ BecomeThawed(l) \/ AllFinished(l)
           \/ WakeUp(l) \/ StillRuns(l) \/ ExitHandler(l)
  <2> USE DEF ReadFreeze, BecomeFrozen, BecomeThawed, AllFinished, WakeUp, StillRuns, ExitHandler
  <2>1. UNCHANGED <<proc, running, runningTests, stoppingTests, toHandle, handled, handleTests>>
    BY <1>6 DEF testVars, listVars
  <2>2. \/ UNCHANGED loop
        \/ \E to \in {"break", "freezing", "thawing", "collecting", "catchingUp", "exit", "top", "gone"} :
             loop' = [loop EXCEPT ![l] = to]
    BY <1>6 DEF LoopGoto
  <2>3. \A k \in Loops : loop'[k] \in {"ended", "stopping", "deferring"} => loop'[k] = loop[k]
    BY <1>5, <2>2 DEF LoopTypes
  <2>4. ProcsAgree' /\ RunningApart'
    BY <1>1, <1>2, <1>3, <2>1 DEF ProcsAgree, RunningApart, StartedTest
  <2>5. AliveListed'
    BY <1>1, <1>2, <2>1, <2>3 DEF AliveListed
  <2> QED BY <1>3, <1>4, <2>4, <2>5
<1>7. CASE CatchUp(l)
  <2>0. PICK t : t = stoppingTests[index[l]]
    OBVIOUS
  <2>1. /\ proc' = [proc EXCEPT ![t] = "dead"]
        /\ UNCHANGED <<running, runningTests, stoppingTests, loop, toHandle, handled, handleTests>>
        /\ index[l] \in 1 .. Len(stoppingTests)
    BY <1>5, <1>7, <2>0 DEF CatchUp, StopTest, LoopTypes
  <2>2. StartedTest(t)
    BY <1>1, <1>5, <2>0, <2>1 DEF ProcsAgree, ToSet, ListTypes
  <2>3. ProcsGoOn /\ proc'[t] = "dead"
    BY <1>1, <2>1, <2>2, ProcDies
  <2>4. ProcsAgree'
    BY <1>1, <1>2, <1>3, <2>1, <2>3, ProcsMove DEF ProcsAgree
  <2>5. RunningApart' /\ AliveListed'
    BY <1>1, <1>2, <2>1, <2>3 DEF RunningApart, AliveListed, ProcsGoOn
  <2> QED BY <1>3, <1>4, <2>4, <2>5
<1>8. CASE CaughtUp(l) \/ EndHandling(l)
  <2>1. /\ UNCHANGED <<proc, running, runningTests, handled, handleTests>>
        /\ stoppingTests' = stoppingTests \/ stoppingTests' = <<>>
        /\ toHandle' = toHandle \/ toHandle' = [toHandle EXCEPT ![l] = 0]
        /\ \E to \in {"collecting", "top", "gone"} : loop' = [loop EXCEPT ![l] = to]
    BY <1>8 DEF CaughtUp, EndHandling, LoopGoto, testVars, listVars
  <2>2. ToSet(stoppingTests') \subseteq ToSet(stoppingTests)
    BY <2>1, EmptyDeque
  <2>3. \A k \in Loops :
          /\ loop'[k] \in {"ended", "stopping", "deferring"} => loop'[k] = loop[k]
          /\ \A i \in 1 .. toHandle'[k] : i \in 1 .. toHandle[k]
    BY <1>5, <2>1 DEF LoopTypes
  <2>4. ProcsAgree'
    BY <1>1, <1>2, <1>3, <2>1, <2>2, <2>3, ProcSame, ProcsMove DEF ProcsAgree
  <2>5. RunningApart' /\ AliveListed'
    BY <1>1, <1>2, <2>1, <2>3 DEF RunningApart, AliveListed
  <2> QED BY <1>3, <1>4, <2>4, <2>5
<1>9. CASE Collect(l)
  <2>1. /\ UNCHANGED <<proc, running, stoppingTests, handled>>
        /\ \E to \in {"idle", "handling"} : loop' = [loop EXCEPT ![l] = to]
    BY <1>9 DEF Collect, LoopGoto, testVars
  <2>2. /\ IsInjective(runningTests')
        /\ ToSet(runningTests') \subseteq ToSet(runningTests)
        /\ ToSet(runningTests) \cap running \subseteq ToSet(runningTests')
        /\ toHandle' = [toHandle EXCEPT ![l] = Found] /\ Found \in 0 .. MaxConcurrent
        /\ \A k \in 1 .. Found : handleTests'[k] \in ToSet(runningTests)
        /\ \A k \in 1 .. MaxConcurrent : k > Found => handleTests'[k] = handleTests[k]
    BY <1>1, <1>9, CollectFacts DEF RunningApart
  <2>3. \A k \in Loops : \A i \in 1 .. toHandle'[k] : StartedTest(handleTests'[i])
    <3> TAKE k \in Loops
    <3> TAKE i \in 1 .. toHandle'[k]
    <3>1. toHandle'[k] = IF k = l THEN Found ELSE toHandle[k]
      BY <1>5, <2>2 DEF LoopTypes
    <3>2. toHandle[k] \in 0 .. MaxConcurrent
      BY <1>5 DEF LoopTypes
    <3>3. i \in 1 .. MaxConcurrent
      BY <1>1, <2>2, <3>1, <3>2
    <3>4. CASE i <= Found
      <4>1. i \in 1 .. Found
        BY <2>2, <3>3, <3>4
      <4> QED BY <1>1, <2>2, <4>1 DEF ProcsAgree
    <3>5. CASE ~(i <= Found)
      <4>1. k # l
        BY <2>2, <3>1, <3>3, <3>5
      <4>2. i \in 1 .. toHandle[k]
        BY <3>1, <4>1
      <4>3. handleTests'[i] = handleTests[i]
        BY <2>2, <3>3, <3>5
      <4> QED BY <1>1, <4>2, <4>3 DEF ProcsAgree
    <3> QED BY <3>4, <3>5
  <2>4. \A k \in Loops : loop'[k] \in {"ended", "stopping", "deferring"} => loop'[k] = loop[k]
    BY <1>5, <2>1 DEF LoopTypes
  <2>5. ProcsAgree'
    BY <1>1, <1>2, <1>3, <2>1, <2>2, <2>3, ProcSame, ProcsMove DEF ProcsAgree
  <2>6. RunningApart' /\ AliveListed'
    BY <1>1, <1>2, <2>1, <2>2, <2>4 DEF RunningApart, AliveListed
  <2> QED BY <1>3, <1>4, <2>5, <2>6
<1>10. CASE HasEnded(l)
  <2>0. PICK t : t = Current(l)
    OBVIOUS
  <2>1. /\ proc' = [proc EXCEPT ![t] = "dead"]
        /\ handled' = [handled EXCEPT ![l] = t]
        /\ loop' = [loop EXCEPT ![l] = "ended"]
        /\ index[l] \in 1 .. toHandle[l]
        /\ UNCHANGED <<running, runningTests, stoppingTests, toHandle, handleTests>>
    BY <1>5, <1>10, <2>0 DEF HasEnded, LoopGoto, LoopTypes, listVars
  <2>2. StartedTest(t)
    BY <1>1, <2>0, <2>1 DEF ProcsAgree, Current
  <2>3. ProcsGoOn /\ proc'[t] = "dead"
    BY <1>1, <2>1, <2>2, ProcDies
  <2>4. ProcsAgree'
    BY <1>1, <1>2, <1>3, <2>1, <2>3, ProcsMove DEF ProcsAgree
  <2>5. RunningApart'
    BY <1>1, <1>2, <2>1 DEF RunningApart
  <2>6. AliveListed'
    <3>1. \A k \in Loops : k # l => loop'[k] = loop[k] /\ handled'[k] = handled[k]
      BY <1>5, <2>1 DEF LoopTypes
    <3>2. handled'[l] = t /\ t \in Tests
      BY <1>5, <2>1, <2>2 DEF LoopTypes, StartedTest
    <3>3. ASSUME NEW k \in Loops, loop'[k] \in {"ended", "stopping", "deferring"}
          PROVE  handled'[k] \in Tests /\ proc'[handled'[k]] = "dead"
      <4>1. CASE k = l
        BY <2>3, <3>2, <4>1
      <4>2. CASE k # l
        <5>1. handled'[k] = handled[k] /\ handled[k] \in Tests /\ proc[handled[k]] = "dead"
          BY <1>1, <3>1, <3>3, <4>2 DEF AliveListed
        <5> QED BY <2>3, <5>1 DEF ProcsGoOn
      <4> QED BY <4>1, <4>2
    <3>4. \A x \in Tests : proc'[x] = "alive" => proc[x] = "alive"
      BY <2>3 DEF ProcsGoOn
    <3> QED BY <1>1, <1>2, <2>1, <3>3, <3>4 DEF AliveListed
  <2> QED BY <1>3, <1>4, <2>4, <2>5, <2>6
<1>11. CASE TestFinished(l)
  <2>1. /\ loop[l] = "ended"
        /\ \E to \in {"gone", "deferring", "stopping"} : loop' = [loop EXCEPT ![l] = to]
        /\ running' = running \/ running' = running \ {handled[l]}
        /\ UNCHANGED <<proc, runningTests, stoppingTests, toHandle, handled, handleTests>>
    BY <1>11 DEF TestFinished, AfterTest, LoopGoto, listVars
  <2>2. handled[l] \in Tests /\ proc[handled[l]] = "dead"
    BY <1>1, <2>1 DEF AliveListed
  <2>3. \A k \in Loops : loop'[k] \in {"ended", "stopping", "deferring"} =>
                          loop[k] \in {"ended", "stopping", "deferring"}
    BY <1>5, <2>1 DEF LoopTypes
  <2>4. ProcsAgree'
    BY <1>1, <1>2, <1>3, <2>1, ProcSame, ProcsMove DEF ProcsAgree
  <2>5. RunningApart' /\ AliveListed'
    BY <1>1, <1>2, <2>1, <2>2, <2>3 DEF RunningApart, AliveListed
  <2> QED BY <1>3, <1>4, <2>4, <2>5
<1>12. CASE StopHandled(l)
  <2>0. PICK t : t = handled[l]
    OBVIOUS
  <2>1. /\ loop[l] = "stopping" /\ loop' = [loop EXCEPT ![l] = "handling"]
        /\ proc' = [proc EXCEPT ![t] = "dead"]
        /\ handled' = [handled EXCEPT ![l] = None]
        /\ UNCHANGED <<running, runningTests, stoppingTests, toHandle, handleTests>>
    BY <1>12, <2>0 DEF StopHandled, StopTest, NextHandled, LoopGoto
  <2>2. StartedTest(t)
    BY <1>1, <2>0, <2>1 DEF AliveListed, StartedTest
  <2>3. ProcsGoOn
    BY <1>1, <2>1, <2>2, ProcDies
  <2>4. ProcsAgree'
    BY <1>1, <1>2, <1>3, <2>1, <2>3, ProcsMove DEF ProcsAgree
  <2>5. \A k \in Loops : loop'[k] \in {"ended", "stopping", "deferring"} =>
                          loop[k] = loop'[k] /\ handled'[k] = handled[k]
    BY <1>5, <2>1 DEF LoopTypes
  <2>6. RunningApart' /\ AliveListed'
    BY <1>1, <1>2, <2>1, <2>3, <2>5 DEF RunningApart, AliveListed, ProcsGoOn
  <2> QED BY <1>3, <1>4, <2>4, <2>6
<1>13. CASE DeferHandled(l)
  <2>1. /\ loop[l] = "deferring" /\ loop' = [loop EXCEPT ![l] = "handling"]
        /\ stoppingTests' = Append(stoppingTests, handled[l])
        /\ handled' = [handled EXCEPT ![l] = None]
        /\ UNCHANGED <<proc, running, runningTests, toHandle, handleTests>>
    BY <1>13 DEF DeferHandled, NextHandled, LoopGoto, testVars
  <2>2. handled[l] \in Tests /\ StartedTest(handled[l])
    BY <1>1, <2>1 DEF AliveListed, StartedTest
  <2>3. ToSet(stoppingTests') = ToSet(stoppingTests) \cup {handled[l]}
    BY <1>5, <2>1, <2>2, PushBack DEF ListTypes
  <2>4. ProcsAgree'
    BY <1>1, <1>2, <1>3, <2>1, <2>2, <2>3, ProcSame, ProcsMove DEF ProcsAgree
  <2>5. \A k \in Loops : loop'[k] \in {"ended", "stopping", "deferring"} =>
                          loop[k] = loop'[k] /\ handled'[k] = handled[k]
    BY <1>5, <2>1 DEF LoopTypes
  <2>6. RunningApart' /\ AliveListed'
    BY <1>1, <1>2, <2>1, <2>5 DEF RunningApart, AliveListed
  <2> QED BY <1>3, <1>4, <2>4, <2>6
<1>14. CASE KillRunning(l)
  <2>1. /\ loop' = [loop EXCEPT ![l] = "exit"] /\ runningTests' = <<>>
        /\ proc' = [t \in Tests |-> IF t \in ToSet(runningTests) THEN "dead" ELSE proc[t]]
        /\ UNCHANGED <<running, stoppingTests, toHandle, handled, handleTests>>
    BY <1>14 DEF KillRunning, LoopGoto
  <2>2. ProcsGoOn
    <3>1. \A t \in Tests : t \in ToSet(runningTests) => StartedTest(t)
      BY <1>1 DEF ProcsAgree
    <3> QED BY <2>1, <3>1 DEF ProcsGoOn, StartedTest
  <2>3. ToSet(runningTests') = {} /\ IsInjective(runningTests')
    BY <2>1, EmptyDeque
  <2>4. ProcsAgree'
    BY <1>1, <1>2, <1>3, <2>1, <2>2, <2>3, ProcsMove DEF ProcsAgree
  <2>5. \A k \in Loops : loop'[k] \in {"ended", "stopping", "deferring"} => loop[k] = loop'[k]
    BY <1>5, <2>1 DEF LoopTypes
  <2>6. RunningApart'
    BY <2>3 DEF RunningApart
  <2>7. AliveListed'
    <3>1. \A t \in Tests : proc'[t] = "alive" => proc[t] = "alive" /\ t \notin ToSet(runningTests)
      BY <2>1
    <3>2. \A k \in Loops : loop'[k] \in {"ended", "stopping", "deferring"} =>
             handled'[k] \in Tests /\ proc'[handled'[k]] = "dead"
      BY <1>1, <2>1, <2>2, <2>5 DEF AliveListed, ProcsGoOn
    <3> QED BY <1>1, <1>2, <2>1, <3>1, <3>2 DEF AliveListed
  <2> QED BY <1>3, <1>4, <2>4, <2>6, <2>7
<1> QED BY <1>6, <1>7, <1>8, <1>9, <1>10, <1>11, <1>12, <1>13, <1>14 DEF LoopStep

\* What the session and the watchdog do leaves every test in its place, but
\* for ClearTests.
LEMMA SessionKeeps ==
  ASSUME PlaceInv,
         \/ SessionStep \/ ReinitHandler \/ BeginSave \/ EndSession
         \/ \E finish \in course.stops : StopHandler(finish)
  PROVE  QueuesApart' /\ RunningApart' /\ ProcsAgree' /\ PhasesAgree' /\ SeenAgrees' /\ AliveListed'
<1>1. /\ TypeOK /\ QueuesApart /\ RunningApart /\ ProcsAgree /\ PhasesAgree /\ SeenAgrees /\ AliveListed
      /\ None \notin Tests
  BY HandlerAssumption DEF PlaceInv
<1>2. PrepTypes /\ LoopTypes /\ TestTypes
  BY <1>1, TypeGroups
<1>3. CASE ClearTests
  <2>1. /\ control = "wantsStarter" /\ control' = "emptying"
        /\ waitingTests' = <<>> /\ waitingTestsExec' = <<>> /\ startingTests' = <<>>
        /\ runningTests' = <<>>
        /\ UNCHANGED <<running, stoppingTests, starter, launched>>
        /\ UNCHANGED <<loop, toHandle, handled, handleTests, prep, inHand, seen>>
    BY <1>3 DEF ClearTests, ClearBody, ControlGoto, starterVars, loopVars, prepVars
  <2>2. starter # "listing" /\ launched = None
    BY <1>1, <1>3 DEF ClearTests, StartingLockFree, PhasesAgree
  <2>3. Held' = Held
    BY <2>1 DEF Held
  <2>4. proc' = [t \in Tests |-> IF t \in ToSet(runningTests) /\ proc[t] = "alive"
                                  THEN "dead" ELSE proc[t]]
    BY <1>2, <1>3 DEF ClearTests, ClearBody, TestTypes
  <2>5. /\ ToSet(waitingTests') = {} /\ ToSet(waitingTestsExec') = {} /\ AtStart' = {}
        /\ ToSet(runningTests') = {} /\ NotYetRun' = Held
        /\ IsInjective(waitingTests') /\ IsInjective(waitingTestsExec')
        /\ IsInjective(runningTests') /\ OnceEach(startingTests')
    <3>1. ToSet(<<>>) = {} /\ IsInjective(<<>>) /\ OnceEach(<<>>)
      BY EmptyDeque DEF OnceEach
    <3> QED BY <2>1, <2>3, <3>1 DEF AtStart, NotYetRun
  <2>6. QueuesApart' /\ RunningApart'
    <3>1. RunningApart'
      BY <2>1, <2>5 DEF RunningApart
    <3>2. \A p, q \in Preparers : inHand'[p] = inHand'[q] /\ inHand'[p] # None => p = q
      BY <1>1, <2>1 DEF QueuesApart
    <3> QED BY <2>5, <3>1, <3>2 DEF QueuesApart
  <2>7. ProcsGoOn
    BY <2>4 DEF ProcsGoOn
  <2>8. ProcsAgree'
    <3>1. NotYetRun' \subseteq NotYetRun
      BY <2>5 DEF NotYetRun
    <3> QED BY <1>1, <2>1, <2>5, <2>7, <3>1, ProcsMove DEF ProcsAgree
  <2>9. PhasesAgree' /\ SeenAgrees'
    BY <1>1, <2>1 DEF PhasesAgree, SeenAgrees, AllWaited, PoolFreezes
  <2>10. AliveListed'
    <3>1. \A t \in Tests : proc'[t] # "alive"
      BY <1>1, <2>2, <2>4 DEF AliveListed
    <3>2. \A l \in Loops : loop'[l] \in {"ended", "stopping", "deferring"} =>
             handled'[l] \in Tests /\ proc'[handled'[l]] = "dead"
      BY <1>1, <2>1, <2>7 DEF AliveListed, ProcsGoOn
    <3> QED BY <3>1, <3>2 DEF AliveListed
  <2> QED BY <2>6, <2>8, <2>9, <2>10
<1>4. CASE ~ClearTests
  <2>1. /\ UNCHANGED <<proc, running, runningTests, stoppingTests, launched, starter>>
        /\ UNCHANGED <<toHandle, handled, handleTests, prep, inHand>> /\ UNCHANGED flowVars
        /\ loop' = loop \/ loop' = [loop EXCEPT ![Second] = "top"]
    BY <1>4 DEF SessionStep, FreezeReturns, PoolFreezeReturns, ReadStatus, EmptyPool, EndSave, FreezeForEnd,
                TakeTopLevel, TakeLockQueue, ReinitHandler, BeginSave, EndSession,
                StopHandler, testVars, queueVars, listVars, starterVars, loopVars,
                prepVars, flowVars
  <2>2. QueuesApart' /\ NotYetRun' = NotYetRun
    BY <1>1, <2>1, QueuesStay
  <2>3. \A k \in Loops : loop'[k] \in {"ended", "stopping", "deferring"} => loop'[k] = loop[k]
    BY <1>2, <2>1 DEF LoopTypes
  <2>4. RunningApart' /\ ProcsAgree'
    BY <1>1, <2>1, <2>2 DEF RunningApart, ProcsAgree, StartedTest
  <2>5. AliveListed'
    BY <1>1, <2>1, <2>3 DEF AliveListed
  <2>6. PhasesAgree'
    BY <1>1, <2>1 DEF PhasesAgree
  <2>7. SeenAgrees'
    <3>1. CASE \E p \in Preparers : ReadStatus(p)
      <4>1. PICK p \in Preparers : ReadStatus(p)
        BY <3>1
      <4>2. /\ control \in {"settling", "draining"} /\ UNCHANGED <<control, prep>>
            /\ \/ seen' = NoneSeen
               \/ prep[p] \in Waiting /\ seen' = [seen EXCEPT ![p] = prep[p]]
        BY <4>1 DEF ReadStatus, sessionVars
      <4> QED BY <1>1, <1>2, <4>2 DEF SeenAgrees, NoneSeen, Waiting, PrepTypes, PoolFreezes
    <3>2. CASE EndSave \/ EmptyPool
      BY <1>1, <3>2 DEF EndSave, EmptyPool, SeenAgrees, NoneSeen, PoolFreezes, ControlGoto
    <3>3. CASE PoolFreezeReturns \/ FreezeForEnd
      BY <1>1, <3>3 DEF PoolFreezeReturns, FreezeForEnd, SeenAgrees, AllWaited, PoolFreezes,
                        ControlGoto, prepVars
    <3>4. CASE ~(\/ \E p \in Preparers : ReadStatus(p)
                 \/ EndSave \/ EmptyPool \/ PoolFreezeReturns \/ FreezeForEnd)
      <4>1. UNCHANGED <<prep, seen>>
        BY <1>4, <3>4 DEF SessionStep, FreezeReturns, TakeTopLevel, TakeLockQueue,
             ReinitHandler, BeginSave, EndSession, StopHandler, prepVars
      <4>2. \/ UNCHANGED control
            \/ control \in {"stilling", "clearing", "wantsQueue"}
                 /\ control' \in {"clearing", "wantsQueue", "wantsStarter"}
            \/ control \in {"serving", "freezing"}
                 /\ control' \in {"freezing", "settling", "draining", "stopped"}
        BY <1>4, <3>4 DEF SessionStep, FreezeReturns, TakeTopLevel, TakeLockQueue,
             ReinitHandler, BeginSave, EndSession, StopHandler, ControlGoto, sessionVars
      <4> QED BY <1>1, <4>1, <4>2 DEF SeenAgrees, AllWaited, PoolFreezes
    <3> QED BY <3>1, <3>2, <3>3, <3>4
  <2> QED BY <2>2, <2>4, <2>5, <2>6, <2>7
<1> QED BY <1>3, <1>4

LEMMA TestKeeps ==
  ASSUME PlaceInv, NEW t \in Tests, AddTest(t) \/ ProcessEnds(t)
  PROVE  QueuesApart' /\ RunningApart' /\ ProcsAgree' /\ PhasesAgree' /\ SeenAgrees' /\ AliveListed'
<1>1. /\ TypeOK /\ QueuesApart /\ RunningApart /\ ProcsAgree /\ PhasesAgree /\ SeenAgrees /\ AliveListed
      /\ TestTypes
  BY TypeGroups DEF PlaceInv
<1>2. /\ UNCHANGED <<running, runningTests, stoppingTests, launched, starter>>
      /\ UNCHANGED <<loop, toHandle, handled, handleTests, prep, inHand, seen, control>>
  BY DEF AddTest, ProcessEnds, listVars, starterVars, loopVars, prepVars, sessionVars
<1>3. RunningApart' /\ PhasesAgree' /\ SeenAgrees'
  BY <1>1, <1>2, SeenStays DEF RunningApart, PhasesAgree
<1>4. CASE AddTest(t)
  <2>1. proc[t] = "new" /\ proc' = [proc EXCEPT ![t] = "queued"]
    BY <1>4 DEF AddTest
  <2>2. t \notin NotYetRun /\ ~StartedTest(t)
    BY <2>1, <1>1 DEF ProcsAgree, StartedTest
  <2>3. QueuesApart' /\ NotYetRun' = NotYetRun \cup {t}
    BY <1>1, <1>4, <2>2, AddFlow
  <2>4. \A u \in Tests : proc'[u] = IF u = t THEN "queued" ELSE proc[u]
    BY <1>1, <2>1 DEF TestTypes
  <2>5. \A u : StartedTest(u) => StartedTest(u)'
    BY <2>2, <2>4 DEF StartedTest
  <2>6. NotYetRun \subseteq Tests
    BY <1>1 DEF NotYetRun, AtStart, Held, TypeOK, ToSet
  <2>7. \A u \in NotYetRun' : proc'[u] = "queued"
    BY <1>1, <2>3, <2>4, <2>6 DEF ProcsAgree
  <2>8. ProcsAgree'
    <3>1. (\A u \in ToSet(runningTests) \cup ToSet(stoppingTests) : StartedTest(u))'
      BY <1>1, <1>2, <2>5 DEF ProcsAgree
    <3>2. (\A l \in Loops : \A i \in 1 .. toHandle[l] : StartedTest(handleTests[i]))'
      BY <1>1, <1>2, <2>5 DEF ProcsAgree
    <3>3. (\A u \in running : StartedTest(u))' /\ (launched # None => StartedTest(launched))'
      BY <1>1, <1>2, <2>5 DEF ProcsAgree
    <3> QED BY <2>7, <3>1, <3>2, <3>3 DEF ProcsAgree
  <2>9. AliveListed'
    BY <1>1, <1>2, <2>1, <2>4 DEF AliveListed
  <2> QED BY <1>3, <2>3, <2>8, <2>9
<1>5. CASE ProcessEnds(t)
  <2>1. proc[t] = "alive" /\ proc' = [proc EXCEPT ![t] = "dead"] /\ UNCHANGED flowVars
    BY <1>5 DEF ProcessEnds, queueVars, prepVars, flowVars
  <2>2. ProcsGoOn
    BY <1>1, <2>1, ProcDies DEF StartedTest
  <2>3. QueuesApart' /\ NotYetRun' = NotYetRun
    BY <1>1, <2>1, QueuesStay
  <2>4. ProcsAgree'
    BY <1>1, <1>2, <2>2, <2>3, ProcsMove DEF ProcsAgree
  <2>5. AliveListed'
    BY <1>1, <1>2, <2>2 DEF AliveListed, ProcsGoOn
  <2> QED BY <1>3, <2>3, <2>4, <2>5
<1> QED BY <1>4, <1>5

LEMMA PlaceStutters ==
  ASSUME PlaceInv, UNCHANGED vars
  PROVE  QueuesApart' /\ RunningApart' /\ ProcsAgree' /\ PhasesAgree' /\ SeenAgrees' /\ AliveListed'
<1>1. /\ UNCHANGED flowVars /\ UNCHANGED starterVars /\ UNCHANGED prepVars
      /\ UNCHANGED testVars /\ UNCHANGED listVars /\ UNCHANGED loopVars /\ UNCHANGED control
  BY DEF vars, queueVars, prepVars, sessionVars, flowVars
<1>2. QueuesApart' /\ NotYetRun' = NotYetRun
  BY <1>1, QueuesStay DEF PlaceInv
<1>3. ProcsAgree' /\ RunningApart' /\ AliveListed'
  BY <1>1, <1>2, ProcsStay DEF PlaceInv, testVars, listVars, starterVars, loopVars
<1>4. PhasesAgree' /\ SeenAgrees'
  BY <1>1, SeenStays DEF PlaceInv, PhasesAgree, starterVars, prepVars
<1> QED BY <1>2, <1>3, <1>4

LEMMA PlaceInitially == Init => PlaceInv
<1> SUFFICES ASSUME Init PROVE PlaceInv
  OBVIOUS
<1>1. ToSet(<<>>) = {} /\ IsInjective(<<>>) /\ OnceEach(<<>>)
  BY EmptyDeque DEF OnceEach
<1>2. Held = {}
  BY DEF Init, Held
<1>3. QueuesApart /\ RunningApart
  BY <1>1, <1>2 DEF Init, QueuesApart, RunningApart, AtStart
<1>4. ProcsAgree
  BY <1>1, <1>2 DEF Init, ProcsAgree, NotYetRun, AtStart
<1>5. PhasesAgree /\ SeenAgrees /\ AliveListed
  BY DEF Init, PhasesAgree, SeenAgrees, PoolFreezes, AliveListed
<1> QED BY <1>3, <1>4, <1>5, TypesInitially DEF PlaceInv

LEMMA PlaceKept == PlaceInv /\ [Next]_vars => PlaceInv'
<1> SUFFICES ASSUME PlaceInv, [Next]_vars PROVE PlaceInv'
  OBVIOUS
<1>1. TypeOK'
  BY TypesKept
<1>2. QueuesApart' /\ RunningApart' /\ ProcsAgree' /\ PhasesAgree' /\ SeenAgrees' /\ AliveListed'
  <2>1. ASSUME NEW t \in Tests, AddTest(t) \/ ProcessEnds(t)
        PROVE  QueuesApart' /\ RunningApart' /\ ProcsAgree' /\ PhasesAgree' /\ SeenAgrees' /\ AliveListed'
    BY <2>1, TestKeeps
  <2>2. ASSUME NEW p \in Preparers, PrepareStep(p)
        PROVE  QueuesApart' /\ RunningApart' /\ ProcsAgree' /\ PhasesAgree' /\ SeenAgrees' /\ AliveListed'
    BY <2>2, PrepareKeeps
  <2>3. ASSUME NEW l \in Loops, LoopStep(l)
        PROVE  QueuesApart' /\ RunningApart' /\ ProcsAgree' /\ PhasesAgree' /\ SeenAgrees' /\ AliveListed'
    BY <2>3, LoopKeeps
  <2>4. CASE StarterStep
    BY <2>4, StarterKeeps
  <2>5. CASE \/ SessionStep \/ ReinitHandler \/ BeginSave \/ EndSession
             \/ \E finish \in course.stops : StopHandler(finish)
    BY <2>5, SessionKeeps
  <2>6. CASE UNCHANGED vars
    BY <2>6, PlaceStutters
  <2> QED BY <2>1, <2>2, <2>3, <2>4, <2>5, <2>6 DEF Next
<1> QED BY <1>1, <1>2 DEF PlaceInv

LEMMA PlaceAlways == Safety => []PlaceInv
BY PlaceInitially, PlaceKept, PTL DEF Safety

-----------------------------------------------------------------------------
(* What every save, stop, end and replacement of the loop leaves true.     *)

\* The variables of ExecutionHandler keep their types, whatever its threads do.
THEOREM HandlerTypes == Safety => []TypeOK
BY PlaceAlways, PTL DEF PlaceInv

LEMMA PlacesApart == PlaceInv => StartedAtMostOnce
<1> SUFFICES ASSUME PlaceInv PROVE StartedAtMostOnce
  OBVIOUS
<1>1. /\ TypeOK /\ QueuesApart /\ RunningApart /\ ProcsAgree
      /\ None \notin Tests
  BY HandlerAssumption DEF PlaceInv
<1>2. DOMAIN Places = 1 .. 4
  BY DEF Places
<1>3. /\ Places[1] = waitingTests /\ Places[2] = waitingTestsExec
      /\ Places[3] = startingTests /\ Places[4] = runningTests
  BY DEF Places
<1>4. \A i \in 1 .. 4 : i = 1 \/ i = 2 \/ i = 3 \/ i = 4
  OBVIOUS
<1>5. \A s : IsInjective(s) => OnceEach(s)
  BY DEF IsInjective, OnceEach
<1>6. \A i \in 1 .. 4 : OnceEach(Places[i])
  BY <1>1, <1>3, <1>4, <1>5 DEF QueuesApart, RunningApart
<1>7. /\ \A t \in NotYetRun : proc[t] = "queued"
      /\ \A t \in ToSet(runningTests) : proc[t] # "queued"
  BY <1>1 DEF ProcsAgree, StartedTest
<1>8. \A t \in ToSet(runningTests) : /\ t \notin ToSet(waitingTests)
                                     /\ t \notin ToSet(waitingTestsExec)
                                     /\ t \notin AtStart /\ t \notin Held
  BY <1>7 DEF NotYetRun
<1>9. \A i, j \in 1 .. 4 : i # j => ToSet(Places[i]) \cap ToSet(Places[j]) \subseteq {None}
  <2>1. \A t \in ToSet(startingTests) : t # None => t \in AtStart
    BY DEF AtStart
  <2>2. /\ ToSet(waitingTests) \cap ToSet(waitingTestsExec) = {}
        /\ ToSet(waitingTests) \cap ToSet(startingTests) \subseteq {None}
        /\ ToSet(waitingTestsExec) \cap ToSet(startingTests) \subseteq {None}
        /\ ToSet(waitingTests) \cap ToSet(runningTests) = {}
        /\ ToSet(waitingTestsExec) \cap ToSet(runningTests) = {}
        /\ ToSet(startingTests) \cap ToSet(runningTests) \subseteq {None}
    BY <1>1, <1>8, <2>1 DEF QueuesApart
  <2> QED BY <1>3, <1>4, <2>2
<1>10. ASSUME NEW p \in Preparers, inHand[p] # None
       PROVE  \A i \in 1 .. 4 : inHand[p] \notin ToSet(Places[i])
  <2>1. inHand[p] \in Held
    BY <1>10 DEF Held
  <2>2. \A t \in ToSet(startingTests) : t # None => t \in AtStart
    BY DEF AtStart
  <2> QED BY <1>1, <1>3, <1>4, <1>8, <1>10, <2>1, <2>2 DEF QueuesApart
<1> QED BY <1>1, <1>2, <1>6, <1>9, <1>10 DEF StartedAtMostOnce, OnceEach, RunningApart

\* Whatever the threads do and whoever replaces the loop, no test is in two
\* queues or twice in one, nor held by a preparer as well: TestStarter cannot
\* start its process a second time.
THEOREM StartedOnce == Safety => []StartedAtMostOnce
BY PlaceAlways, PlacesApart, PTL

\* Who holds a test while a save writes or ClearTests works was overlooked.
LEMMA HeldOverlooked ==
  ASSUME PlaceInv, control \in {"saving", "wantsStarter"}
  PROVE  \A p \in Preparers : inHand[p] # None => seen[p] = "taken"
<1>1. AllWaited
  BY DEF PlaceInv, SeenAgrees
<1>2. \A p \in Preparers : inHand[p] # None => seen[p] # "idle"
  BY DEF PlaceInv, PhasesAgree, SeenAgrees
<1> QED BY <1>1, <1>2 DEF AllWaited, Waiting

\* When ClearTests has returned, no process is alive, and nobody holds a test
\* but a task of the pool that had left its wait and was not yet Running when
\* TaskController::Freeze looked at it.
THEOREM ClearedButHeld == Safety => ClearLeavesOnlyHeld
<1> DEFINE Cleared ==
      control = "wantsStarter" /\ control' = "emptying" =>
        /\ launched = None
        /\ \A p \in Preparers : inHand[p] # None => seen[p] = "taken"
        /\ \A t \in Tests : proc'[t] # "alive"
<1>1. ASSUME PlaceInv, [Next]_vars PROVE Cleared
  <2> SUFFICES ASSUME control = "wantsStarter", control' = "emptying"
               PROVE  /\ launched = None
                      /\ \A p \in Preparers : inHand[p] # None => seen[p] = "taken"
                      /\ \A t \in Tests : proc'[t] # "alive"
    OBVIOUS
  <2>1. ClearTests
    BY <1>1 DEF Next, AddTest, ProcessEnds, PrepareStep, TakeInitJob, BeginInit, CheckPopulation,
         PopWaiting, PushPrepared, PrepareFails, StarterStep, BeginRound, EndNap,
         CheckSlots, LockQueue, FillOne, FillEnds, StartSucceeds, StartFails,
         ListStarted, EndRound, LoopStep, ReadFreeze, BecomeFrozen, BecomeThawed,
         CatchUp, CaughtUp, Collect, AllFinished, WakeUp, EndHandling, StillRuns,
         HasEnded, TestFinished, StopHandled, DeferHandled, KillRunning, ExitHandler,
         SessionStep, FreezeReturns, PoolFreezeReturns, ReadStatus, EmptyPool, EndSave, FreezeForEnd,
         TakeTopLevel, TakeLockQueue, ReinitHandler, BeginSave, EndSession,
         StopHandler, ControlGoto, sessionVars, vars
  <2>2. /\ TypeOK /\ AliveListed /\ PhasesAgree /\ TestTypes
    BY <1>1, TypeGroups DEF PlaceInv
  <2>3. launched = None
    BY <2>1, <2>2 DEF ClearTests, StartingLockFree, PhasesAgree
  <2>4. \A p \in Preparers : inHand[p] # None => seen[p] = "taken"
    BY <1>1, HeldOverlooked
  <2>5. proc' = [t \in Tests |-> IF t \in ToSet(runningTests) /\ proc[t] = "alive"
                                  THEN "dead" ELSE proc[t]]
    BY <2>1, <2>2 DEF ClearTests, ClearBody, TestTypes
  <2>6. None \notin Tests
    BY HandlerAssumption
  <2>7. \A t \in Tests : proc'[t] # "alive"
    BY <2>2, <2>3, <2>5, <2>6 DEF AliveListed
  <2> QED BY <2>3, <2>4, <2>7
<1>2. PlaceInv /\ [Next]_vars => [Cleared]_vars
  BY <1>1
<1>3. Safety => [][Cleared]_vars
  BY <1>2, PlaceAlways, PTL DEF Safety
<1> QED BY <1>3 DEF ClearLeavesOnlyHeld

-----------------------------------------------------------------------------
(* Answers and counts, as long as the watchdog has not replaced the loop.  *)

LEMMA OneLoop ==
  ASSUME SingleLoop, NEW l \in Loops, LoopStep(l)
  PROVE  l = First
BY DEF SingleLoop, Loops, First, Second, LoopStep, LoopGoto, ReadFreeze, BecomeFrozen,
       BecomeThawed, CatchUp, CaughtUp, Collect, AllFinished, WakeUp, EndHandling,
       StillRuns, HasEnded, TestFinished, StopHandled, DeferHandled, KillRunning,
       ExitHandler

\* A test that has not run is in no place of those that have.
LEMMA Unrun ==
  ASSUME PlaceInv
  PROVE  /\ NotYetRun \subseteq Tests
         /\ \A t \in NotYetRun : /\ proc[t] = "queued" /\ t \notin running
                                 /\ t \notin ToSet(stoppingTests) /\ t \notin Started
<1>1. NotYetRun \subseteq Tests
  BY DEF PlaceInv, NotYetRun, AtStart, Held, TypeOK, ToSet
<1>2. \A t \in NotYetRun : proc[t] = "queued"
  BY DEF PlaceInv, ProcsAgree
<1>3. \A t : t \in running \/ t \in ToSet(stoppingTests) => proc[t] # "queued"
  BY DEF PlaceInv, ProcsAgree, StartedTest
<1> QED BY <1>1, <1>2, <1>3 DEF Started

LEMMA AnswerCounts ==
  ASSUME TypeOK, NEW t \in Tests, Answer(t)
  PROVE  \A u \in Tests : answers'[u] = IF u = t THEN answers[u] + 1 ELSE answers[u]
BY DEF TypeOK, Answer

\* What becomes of a test in a step of another thread than the loop.
Remains(t) ==
  /\ proc'[t] = proc[t] \/ (proc[t] = "alive" /\ proc'[t] = "dead")
  /\ answers'[t] = answers[t]
  /\ t \in running' <=> t \in running
  /\ t \in NotYetRun' <=> t \in NotYetRun
Joins(t) ==
  /\ proc[t] = "new" /\ proc'[t] = "queued"
  /\ answers'[t] = answers[t]
  /\ t \in running' <=> t \in running
  /\ t \in NotYetRun'
Spoils(t) ==
  /\ t \in NotYetRun /\ t \notin NotYetRun'
  /\ proc'[t] = proc[t] /\ answers'[t] = answers[t] + 1
  /\ t \in running' <=> t \in running
Starts(t) ==
  /\ t \in NotYetRun /\ t \notin NotYetRun'
  /\ proc'[t] = "alive" /\ answers'[t] = answers[t]
  /\ t \in running' /\ launched' = t

LEMMA OthersAnswer ==
  ASSUME PlaceInv, AnswersAgree, UNCHANGED loopVars, UNCHANGED stoppingTests,
         running' \subseteq Tests, NotYetRun' \subseteq Tests,
         \A t \in Tests : Remains(t) \/ Joins(t) \/ Spoils(t) \/ Starts(t)
  PROVE  AnswersAgree'
<1>1. /\ TypeOK /\ ProcsAgree /\ AliveListed /\ LoopTypes /\ TestTypes /\ ListTypes
  BY TypeGroups DEF PlaceInv
<1>2. /\ Ahead' = Ahead /\ Deferred' = Deferred
      /\ UNCHANGED <<loop, toHandle, index, handled, handleTests, stoppingTests>>
  BY DEF Ahead, Deferred, loopVars
<1>3. \A t \in NotYetRun : proc[t] = "queued" /\ t \notin running /\ t \notin ToSet(stoppingTests)
  BY Unrun
<1>4. \A t \in ToSet(stoppingTests) : t \in Tests /\ proc[t] = "dead" /\ t \notin running
  BY <1>1 DEF AnswersAgree, ToSet, ListTypes
<1>5. \A t \in running : t \in Tests /\ t \notin NotYetRun /\ proc[t] \in {"alive", "dead"}
  BY <1>1, <1>3 DEF ProcsAgree, StartedTest
<1>6. \A t \in Tests : answers'[t] <= 1 /\ (proc'[t] = "new" => answers'[t] = 0)
  <2> TAKE t \in Tests
  <2>1. answers[t] \in Nat /\ answers[t] <= 1 /\ (proc[t] = "new" => answers[t] = 0)
    BY <1>1 DEF AnswersAgree, NotAnswered, TestTypes
  <2>2. t \in NotYetRun => answers[t] = 0 /\ proc[t] = "queued"
    BY <1>3 DEF AnswersAgree, NotAnswered
  <2> QED BY <2>1, <2>2 DEF Remains, Joins, Spoils, Starts
<1>7. \A t \in NotYetRun' \cup running' : answers'[t] = 0
  <2> TAKE t \in NotYetRun' \cup running'
  <2>1. t \in Tests
    OBVIOUS
  <2>2. /\ t \in NotYetRun \cup running => answers[t] = 0
        /\ proc[t] = "new" => answers[t] = 0
    BY <2>1 DEF AnswersAgree, NotAnswered
  <2> QED BY <1>5, <2>1, <2>2 DEF Remains, Joins, Spoils, Starts
<1>8. \A t \in ToSet(stoppingTests) : t \notin running' /\ proc'[t] = "dead" /\ answers'[t] = answers[t]
  BY <1>3, <1>4 DEF Remains, Joins, Spoils, Starts
<1>9. \A i \in DOMAIN stoppingTests : answers'[stoppingTests[i]] = 0 <=> i \in Deferred
  <2> TAKE i \in DOMAIN stoppingTests
  <2>1. stoppingTests[i] \in ToSet(stoppingTests)
    BY DEF ToSet
  <2> QED BY <1>8, <2>1 DEF AnswersAgree, NotAnswered
<1>10. \A t \in running : t \in running'
  BY <1>5 DEF Remains, Joins, Spoils, Starts
<1>11. ASSUME loop[First] \in {"stopping", "deferring"}
       PROVE  /\ handled[First] \notin running' \cup ToSet(stoppingTests)
              /\ answers'[handled[First]] = 0
  <2>1. /\ handled[First] \in Tests /\ proc[handled[First]] = "dead"
        /\ handled[First] \notin running \cup ToSet(stoppingTests)
        /\ answers[handled[First]] = 0
    BY <1>1, <1>11 DEF AliveListed, AnswersAgree, NotAnswered, Loops
  <2>2. handled[First] \notin NotYetRun
    BY <1>3, <2>1
  <2> QED BY <2>1, <2>2 DEF Remains, Joins, Spoils, Starts
<1>12. \A i \in Ahead : handleTests[i] \in running'
  BY <1>10 DEF AnswersAgree
<1> QED BY <1>2, <1>6, <1>7, <1>8, <1>9, <1>11, <1>12 DEF AnswersAgree, NotAnswered

LEMMA OthersLose ==
  ASSUME PlaceInv, AnswersAgree, NothingLost, UNCHANGED loopVars, UNCHANGED stoppingTests,
         running' \subseteq Tests,
         \A t \in Tests : Remains(t) \/ Joins(t) \/ Spoils(t) \/ Starts(t),
         stopHandler => stopHandler', stopHandler' => control' = "stopped",
         \A t \in Tests : t \in ToSet(runningTests) \/ t = launched =>
                            t \in ToSet(runningTests') \/ t = launched',
         \A t \in ToSet(runningTests) : t \in ToSet(runningTests')
  PROVE  NothingLost' /\ (\A t \in Tests : t \in Started' <=> t \in Started \/ Starts(t))
<1>1. /\ TypeOK /\ ProcsAgree /\ LoopTypes /\ TestTypes /\ ListTypes
  BY TypeGroups DEF PlaceInv
<1>2. /\ UNCHANGED <<loop, toHandle, index, handled, handleTests, stoppingTests>>
      /\ Ended' = Ended
  BY DEF loopVars, Ended
<1>3. \A t \in NotYetRun : /\ proc[t] = "queued" /\ answers[t] = 0 /\ t \in Tests
                           /\ t \notin running
  BY Unrun DEF AnswersAgree, NotAnswered
<1>4. \A t \in running : t \in Tests
  BY <1>1 DEF ProcsAgree, StartedTest
<1>5. \A t \in Tests : proc'[t] = "queued" /\ answers'[t] = 0 => t \in NotYetRun'
  BY <1>3 DEF NothingLost, NotAnswered, Remains, Joins, Spoils, Starts
<1>6. \A t \in Tests : t \in Started' <=> t \in Started \/ Starts(t)
  BY <1>3 DEF Started, Remains, Joins, Spoils, Starts
<1>7. \A t \in Started' : t \in running' \cup ToSet(stoppingTests) \cup Ended
  <2> TAKE t \in Started'
  <2>1. t \in Tests
    BY DEF Started
  <2>2. CASE Starts(t)
    BY <2>2 DEF Starts
  <2>3. CASE ~Starts(t)
    <3>1. t \in Started /\ t \in running \cup ToSet(stoppingTests) \cup Ended
      BY <1>6, <2>1, <2>3 DEF NothingLost
    <3>2. t \in running => t \in running'
      BY <1>3, <2>1 DEF Remains, Joins, Spoils, Starts
    <3> QED BY <3>1, <3>2
  <2> QED BY <2>2, <2>3
<1>8. ~stopHandler' =>
        /\ \A t \in running' : t \in ToSet(runningTests') \/ t = launched'
        /\ loop[First] \in {"handling", "ended", "stopping", "deferring"} =>
             \A i \in 1 .. toHandle[First] : handleTests[i] \in ToSet(runningTests')
  <2> SUFFICES ASSUME ~stopHandler'
               PROVE  /\ \A t \in running' : t \in ToSet(runningTests') \/ t = launched'
                      /\ loop[First] \in {"handling", "ended", "stopping", "deferring"} =>
                           \A i \in 1 .. toHandle[First] : handleTests[i] \in ToSet(runningTests')
    OBVIOUS
  <2>1. ~stopHandler
    OBVIOUS
  <2>2. ASSUME NEW t \in running' PROVE t \in ToSet(runningTests') \/ t = launched'
    <3>1. t \in running \/ Starts(t)
      BY <2>2 DEF Remains, Joins, Spoils, Starts
    <3>2. t \in running => t \in ToSet(runningTests) \/ t = launched
      BY <2>1 DEF NothingLost
    <3> QED BY <2>2, <3>1, <3>2 DEF Starts
  <2>3. ASSUME loop[First] \in {"handling", "ended", "stopping", "deferring"},
               NEW i \in 1 .. toHandle[First]
        PROVE  handleTests[i] \in ToSet(runningTests')
    BY <2>1, <2>3 DEF NothingLost
  <2> QED BY <2>2, <2>3
<1>9. loop[First] \in {"break", "exit"} => stopHandler'
  BY DEF NothingLost
<1> QED BY <1>2, <1>5, <1>6, <1>7, <1>8, <1>9 DEF NothingLost, NotAnswered

\* The answers, the counts and the whereabouts of the tests.
TestsInv == AnswersAgree /\ CountsAgree /\ NothingLost

\* A step after which as many tests are started as before.
LEMMA OthersKeep ==
  ASSUME PlaceInv, TestsInv, PlaceInv', UNCHANGED loopVars, UNCHANGED stoppingTests,
         \A t \in Tests : Remains(t) \/ Joins(t) \/ Spoils(t),
         stopHandler => stopHandler', stopHandler' => control' = "stopped",
         \A t \in Tests : t \in ToSet(runningTests) \/ t = launched =>
                            t \in ToSet(runningTests') \/ t = launched',
         \A t \in ToSet(runningTests) : t \in ToSet(runningTests')
  PROVE  AnswersAgree' /\ NothingLost' /\ Started' = Started
<1>1. AnswersAgree /\ NothingLost
  BY DEF TestsInv
<1>2. NotYetRun' \subseteq Tests /\ running' \subseteq Tests
  <2>1. TypeOK'
    BY DEF PlaceInv
  <2> QED BY <2>1 DEF TypeOK, NotYetRun, AtStart, Held, ToSet
<1>3. AnswersAgree'
  BY <1>1, <1>2, OthersAnswer
<1>4. NothingLost' /\ (\A t \in Tests : t \in Started' <=> t \in Started \/ Starts(t))
  BY <1>1, <1>2, OthersLose
<1>5. \A t \in Tests : Starts(t) => t \in Started
  BY Unrun DEF Remains, Joins, Spoils, Starts
<1>6. Started' = Started
  BY <1>4, <1>5 DEF Started
<1> QED BY <1>3, <1>4, <1>6

LEMMA PrepareAnswers ==
  ASSUME PlaceInv, TestsInv, PlaceInv', NEW p \in Preparers, PrepareStep(p)
  PROVE  TestsInv'
<1>1. TypeOK /\ QueuesApart /\ PhasesAgree
  BY DEF PlaceInv
<1>2. /\ UNCHANGED <<proc, running, runningTests, stoppingTests, launched>>
      /\ UNCHANGED loopVars /\ UNCHANGED <<stopHandler, control>>
      /\ UNCHANGED <<startingTests, currentTests, newTests, starter>>
  BY DEF PrepareStep, TakeInitJob, BeginInit, CheckPopulation, PopWaiting, PushPrepared, PrepareFails,
         testVars, queueVars, listVars, flagVars, starterVars, sessionVars
<1>3. \A t \in Tests : Remains(t) \/ Spoils(t)
  <2>1. CASE TakeInitJob(p) \/ BeginInit(p) \/ CheckPopulation(p)
    <3>1. UNCHANGED flowVars /\ UNCHANGED answers
      BY <2>1 DEF TakeInitJob, BeginInit, CheckPopulation, queueVars, testVars, flowVars
    <3>2. NotYetRun' = NotYetRun
      BY <1>1, <3>1, QueuesStay
    <3> QED BY <1>2, <3>1, <3>2 DEF Remains
  <2>2. CASE PopWaiting(p) \/ PushPrepared(p)
    <3>1. NotYetRun' = NotYetRun
      BY <1>1, <2>2, PopFlow, PushFlow
    <3>2. UNCHANGED answers
      BY <2>2 DEF PopWaiting, PushPrepared, testVars
    <3> QED BY <1>2, <3>1, <3>2 DEF Remains
  <2>3. CASE PrepareFails(p)
    <3>1. /\ NotYetRun' = NotYetRun \ {inHand[p]}
          /\ inHand[p] \in NotYetRun /\ inHand[p] \in Tests
      BY <1>1, <2>3, FailFlow
    <3>2. \A u \in Tests : answers'[u] = IF u = inHand[p] THEN answers[u] + 1 ELSE answers[u]
      BY <1>1, <2>3, <3>1, AnswerCounts DEF PrepareFails
    <3> QED BY <1>2, <3>1, <3>2 DEF Remains, Spoils
  <2> QED BY <2>1, <2>2, <2>3 DEF PrepareStep
<1>4. stopHandler => control = "stopped"
  BY DEF TestsInv, NothingLost
<1>5. AnswersAgree' /\ NothingLost' /\ Started' = Started
  BY <1>2, <1>3, <1>4, OthersKeep
<1>6. CountsAgree'
  BY <1>2, <1>5 DEF TestsInv, CountsAgree
<1> QED BY <1>5, <1>6 DEF TestsInv

LEMMA TestAnswers ==
  ASSUME PlaceInv, TestsInv, PlaceInv', NEW u \in Tests, AddTest(u) \/ ProcessEnds(u)
  PROVE  TestsInv'
<1>1. TypeOK /\ QueuesApart /\ ProcsAgree /\ TestTypes
  BY TypeGroups DEF PlaceInv
<1>2. /\ UNCHANGED <<answers, running, runningTests, stoppingTests, launched>>
      /\ UNCHANGED loopVars /\ UNCHANGED <<stopHandler, control>>
      /\ UNCHANGED <<startingTests, currentTests, newTests, starter>>
  BY DEF AddTest, ProcessEnds, queueVars, listVars, flagVars, starterVars, sessionVars
<1>3. \A t \in Tests : Remains(t) \/ Joins(t)
  <2>1. CASE AddTest(u)
    <3>1. NotYetRun' = NotYetRun \cup {u}
      BY <1>1, <2>1, AddFlow
    <3>2. proc[u] = "new" /\ \A t \in Tests : proc'[t] = IF t = u THEN "queued" ELSE proc[t]
      BY <1>1, <2>1 DEF AddTest, TestTypes
    <3> QED BY <1>2, <3>1, <3>2 DEF Remains, Joins
  <2>2. CASE ProcessEnds(u)
    <3>1. UNCHANGED flowVars
      BY <2>2 DEF ProcessEnds, queueVars, prepVars, flowVars
    <3>2. NotYetRun' = NotYetRun
      BY <1>1, <3>1, QueuesStay
    <3>3. proc[u] = "alive" /\ \A t \in Tests : proc'[t] = IF t = u THEN "dead" ELSE proc[t]
      BY <1>1, <2>2 DEF ProcessEnds, TestTypes
    <3> QED BY <1>2, <3>2, <3>3 DEF Remains
  <2> QED BY <2>1, <2>2
<1>4. stopHandler => control = "stopped"
  BY DEF TestsInv, NothingLost
<1>5. AnswersAgree' /\ NothingLost' /\ Started' = Started
  BY <1>2, <1>3, <1>4, OthersKeep
<1>6. CountsAgree'
  BY <1>2, <1>5 DEF TestsInv, CountsAgree
<1> QED BY <1>5, <1>6 DEF TestsInv

LEMMA SessionAnswers ==
  ASSUME PlaceInv, TestsInv, PlaceInv', control' \notin Ends,
         \/ SessionStep \/ BeginSave \/ EndSession
         \/ \E finish \in course.stops : StopHandler(finish)
         \/ UNCHANGED vars
  PROVE  TestsInv'
<1>1. TypeOK /\ QueuesApart
  BY DEF PlaceInv
<1>2. ~ClearTests /\ ~EmptyPool
  BY DEF ClearTests, EmptyPool, ControlGoto, Ends
<1>3. /\ UNCHANGED <<proc, answers, running, runningTests, stoppingTests, launched>>
      /\ UNCHANGED loopVars /\ UNCHANGED flowVars
      /\ UNCHANGED <<startingTests, currentTests, newTests, starter>>
  BY <1>2 DEF SessionStep, FreezeReturns, PoolFreezeReturns, ReadStatus, EmptyPool, EndSave, FreezeForEnd,
              TakeTopLevel, TakeLockQueue, BeginSave, EndSession, StopHandler, testVars,
              queueVars, listVars, starterVars, prepVars, flowVars, vars
<1>4. stopHandler => control = "stopped"
  BY DEF TestsInv, NothingLost
<1>5. (stopHandler => stopHandler') /\ (stopHandler' => control' = "stopped")
  BY <1>2, <1>4 DEF SessionStep, FreezeReturns, PoolFreezeReturns, ReadStatus, EmptyPool, EndSave, FreezeForEnd,
              TakeTopLevel, TakeLockQueue, BeginSave, EndSession, StopHandler, ControlGoto,
              flagVars, sessionVars, vars
<1>6. \A t \in Tests : Remains(t)
  <2>1. NotYetRun' = NotYetRun
    BY <1>1, <1>3, QueuesStay
  <2> QED BY <1>3, <2>1 DEF Remains
<1>7. AnswersAgree' /\ NothingLost' /\ Started' = Started
  BY <1>3, <1>5, <1>6, OthersKeep
<1>8. CountsAgree'
  BY <1>3, <1>7 DEF TestsInv, CountsAgree
<1> QED BY <1>7, <1>8 DEF TestsInv

LEMMA StarterAnswers ==
  ASSUME PlaceInv, TestsInv, PlaceInv', StarterStep
  PROVE  TestsInv'
<1>1. /\ TypeOK /\ QueuesApart /\ ProcsAgree /\ PhasesAgree /\ TestTypes
      /\ CountsAgree /\ NothingLost /\ AnswersAgree
      /\ None \notin Tests /\ MaxConcurrent \in Nat
  BY TypeGroups, HandlerAssumption DEF PlaceInv, TestsInv
<1>2. /\ currentTests \in Int /\ Len(startingTests) \in Nat /\ newTests \in Nat
      /\ startingTests = <<>> => Len(startingTests) = 0
  BY <1>1 DEF TypeOK
<1>3. /\ UNCHANGED loopVars /\ UNCHANGED stoppingTests /\ UNCHANGED <<stopHandler, control>>
  BY DEF StarterStep, BeginRound, EndNap, CheckSlots, LockQueue, FillOne, FillEnds,
         StartSucceeds, StartFails, ListStarted, EndRound, listVars, flagVars, sessionVars
<1>4. stopHandler => control = "stopped"
  BY <1>1 DEF NothingLost
<1>5. CASE BeginRound \/ EndNap \/ CheckSlots \/ LockQueue \/ FillEnds \/ EndRound
  <2>1. /\ UNCHANGED <<proc, answers, running, runningTests, launched>> /\ UNCHANGED flowVars
        /\ UNCHANGED <<startingTests, currentTests>>
    BY <1>5 DEF BeginRound, EndNap, CheckSlots, LockQueue, FillEnds, EndRound,
                testVars, queueVars, listVars, prepVars, flowVars
  <2>2. NotYetRun' = NotYetRun
    BY <1>1, <2>1, QueuesStay
  <2>3. \A t \in Tests : Remains(t)
    BY <2>1, <2>2 DEF Remains
  <2>4. AnswersAgree' /\ NothingLost' /\ Started' = Started
    BY <1>3, <1>4, <2>1, <2>3, OthersKeep
  <2>5. /\ newTests' = IF starter' = "filling" THEN Len(startingTests) ELSE 0
        /\ starter' \notin {"filling", "starting", "listing"} => startingTests = <<>>
    BY <1>1, <1>2, <1>5 DEF BeginRound, EndNap, CheckSlots, LockQueue, FillEnds, EndRound,
                StarterGoto, CountsAgree
  <2>6. CountsAgree'
    BY <1>1, <2>1, <2>4, <2>5 DEF CountsAgree
  <2> QED BY <2>4, <2>6 DEF TestsInv
<1>6. CASE FillOne
  <2>1. /\ UNCHANGED <<proc, running, runningTests, launched, currentTests, starter>>
        /\ starter = "filling" /\ newTests' = newTests + 1 /\ HasSlot
    BY <1>6 DEF FillOne, listVars
  <2>2. /\ \/ UNCHANGED answers /\ NotYetRun' = NotYetRun
           \/ \E t \in Tests : Spoilt(t)
        /\ Len(startingTests') = Len(startingTests) + 1
    BY <1>1, <1>6, FillFlow
  <2>3. \A t \in Tests : Remains(t) \/ Spoils(t)
    <3>1. CASE UNCHANGED answers /\ NotYetRun' = NotYetRun
      BY <2>1, <3>1 DEF Remains
    <3>2. ASSUME NEW u \in Tests, Spoilt(u) PROVE \A t \in Tests : Remains(t) \/ Spoils(t)
      <4>1. \A t \in Tests : answers'[t] = IF t = u THEN answers[t] + 1 ELSE answers[t]
        BY <1>1, <3>2, AnswerCounts DEF Spoilt
      <4> QED BY <2>1, <3>2, <4>1 DEF Spoilt, Remains, Spoils
    <3> QED BY <2>2, <3>1, <3>2
  <2>4. AnswersAgree' /\ NothingLost' /\ Started' = Started
    BY <1>3, <1>4, <2>1, <2>3, OthersKeep
  <2>5. CountsAgree'
    BY <1>1, <1>2, <2>1, <2>2, <2>4 DEF CountsAgree, HasSlot
  <2> QED BY <2>4, <2>5 DEF TestsInv
<1>7. CASE StartFails
  <2>1. /\ UNCHANGED <<proc, running, runningTests, launched, currentTests, newTests, starter>>
        /\ starter = "starting"
        /\ IF Head(startingTests) = None THEN UNCHANGED answers
                                         ELSE Answer(Head(startingTests))
    BY <1>7 DEF StartFails, listVars, starterVars
  <2>2. /\ NotYetRun' = NotYetRun \ {Head(startingTests)}
        /\ Head(startingTests) # None =>
              Head(startingTests) \in NotYetRun /\ Head(startingTests) \in Tests
        /\ Len(startingTests') = Len(startingTests) - 1
    BY <1>1, <1>7, StartFlow
  <2>3. \A t \in Tests : Remains(t) \/ Spoils(t)
    <3>1. CASE Head(startingTests) = None
      BY <1>1, <2>1, <2>2, <3>1 DEF Remains
    <3>2. CASE Head(startingTests) # None
      <4> DEFINE u == Head(startingTests)
      <4>1. u \in NotYetRun /\ u \in Tests /\ NotYetRun' = NotYetRun \ {u} /\ Answer(u)
        BY <2>1, <2>2, <3>2
      <4> HIDE DEF u
      <4>2. \A t \in Tests : answers'[t] = IF t = u THEN answers[t] + 1 ELSE answers[t]
        BY <1>1, <4>1, AnswerCounts
      <4> QED BY <2>1, <4>1, <4>2 DEF Remains, Spoils
    <3> QED BY <3>1, <3>2
  <2>4. AnswersAgree' /\ NothingLost' /\ Started' = Started
    BY <1>3, <1>4, <2>1, <2>3, OthersKeep
  <2>5. CountsAgree'
    BY <1>1, <1>2, <2>1, <2>2, <2>4 DEF CountsAgree
  <2> QED BY <2>4, <2>5 DEF TestsInv
<1>8. CASE StartSucceeds
  <2>0. PICK u : u = Head(startingTests)
    OBVIOUS
  <2>1. /\ UNCHANGED <<answers, runningTests, newTests>>
        /\ starter = "starting" /\ starter' = "listing" /\ launched' = u /\ u # None
        /\ proc' = [proc EXCEPT ![u] = "alive"] /\ running' = running \cup {u}
        /\ currentTests' = currentTests + 1
    BY <1>8, <2>0 DEF StartSucceeds
  <2>2. /\ NotYetRun' = NotYetRun \ {u} /\ u \in NotYetRun /\ u \in Tests
        /\ Len(startingTests') = Len(startingTests) - 1
    BY <1>1, <1>8, <2>0, <2>1, StartFlow
  <2>3. /\ Starts(u) /\ \A t \in Tests : t # u => Remains(t) /\ ~Starts(t)
    BY <1>1, <2>1, <2>2 DEF TestTypes, Starts, Remains
  <2>4. launched = None
    BY <1>1, <2>1 DEF PhasesAgree
  <2>5. NotYetRun' \subseteq Tests /\ running' \subseteq Tests
    BY <1>1, <2>1, <2>2, Unrun DEF TypeOK
  <2>6. AnswersAgree'
    BY <1>1, <1>3, <2>3, <2>5, OthersAnswer
  <2>7. NothingLost' /\ \A t \in Tests : t \in Started' <=> t \in Started \/ Starts(t)
    <3>1. \A t \in Tests : t \in ToSet(runningTests) \/ t = launched =>
                             t \in ToSet(runningTests') \/ t = launched'
      BY <1>1, <2>1, <2>4
    <3>2. \A t \in Tests : Remains(t) \/ Joins(t) \/ Spoils(t) \/ Starts(t)
      BY <2>3
    <3>3. \A t \in ToSet(runningTests) : t \in ToSet(runningTests')
      BY <2>1
    <3> QED BY <1>1, <1>3, <1>4, <2>5, <3>1, <3>2, <3>3, OthersLose
  <2>8. Started' = Started \cup {u} /\ u \notin Started
    BY <2>2, <2>3, <2>7, Unrun DEF Started
  <2>9. IsFiniteSet(Started') /\ Cardinality(Started') = Cardinality(Started) + 1
    BY <1>1, <2>8, FS_AddElement DEF CountsAgree
  <2>10. CountsAgree'
    BY <1>1, <1>2, <2>1, <2>2, <2>9 DEF CountsAgree
  <2> QED BY <2>6, <2>7, <2>10 DEF TestsInv
<1>9. CASE ListStarted
  <2>1. /\ UNCHANGED <<proc, answers, running>> /\ UNCHANGED flowVars
        /\ UNCHANGED <<startingTests, currentTests, newTests>>
        /\ starter = "listing" /\ starter' = "starting"
        /\ runningTests' = Append(runningTests, launched)
    BY <1>9 DEF ListStarted, StarterGoto, testVars, queueVars, prepVars, flowVars
  <2>2. NotYetRun' = NotYetRun
    BY <1>1, <2>1, QueuesStay
  <2>3. \A t \in Tests : Remains(t)
    BY <2>1, <2>2 DEF Remains
  <2>4. ToSet(runningTests') = ToSet(runningTests) \cup {launched}
    <3>1. launched \in Tests /\ runningTests \in Seq(Tests)
      BY <1>1, <2>1 DEF PhasesAgree, TypeOK
    <3> QED BY <2>1, <3>1, PushBack
  <2>5. AnswersAgree' /\ NothingLost' /\ Started' = Started
    BY <1>3, <1>4, <2>3, <2>4, OthersKeep
  <2>6. CountsAgree'
    BY <1>1, <2>1, <2>5 DEF CountsAgree
  <2> QED BY <2>5, <2>6 DEF TestsInv
<1> QED BY <1>5, <1>6, <1>7, <1>8, <1>9 DEF StarterStep

\* The steps of the loop that pass no test on.
LEMMA LoopTurns ==
  ASSUME PlaceInv, TestsInv, SingleLoop, LoopStep(First),
         \/ ReadFreeze(First) \/ BecomeFrozen(First) \/ BecomeThawed(First)
         \/ WakeUp(First) \/ AllFinished(First) \/ ExitHandler(First)
         \/ EndHandling(First) \/ StillRuns(First)
  PROVE  TestsInv'
<1>1. /\ TypeOK /\ QueuesApart /\ LoopTypes /\ ListTypes /\ FlagTypes /\ First \in Loops
      /\ AnswersAgree /\ CountsAgree /\ NothingLost /\ ~stopRequested[First]
  BY TypeGroups DEF PlaceInv, TestsInv, SingleLoop, Loops
<1>2. /\ UNCHANGED <<proc, answers, running, runningTests, stoppingTests, currentTests>>
      /\ UNCHANGED <<starter, newTests, launched, startingTests, stopHandler, control>>
      /\ UNCHANGED <<handled, handleTests>> /\ UNCHANGED flowVars
  BY DEF ReadFreeze, BecomeFrozen, BecomeThawed, WakeUp, AllFinished, ExitHandler,
         EndHandling, StillRuns, testVars, queueVars, listVars, flagVars, starterVars,
         prepVars, sessionVars, flowVars
<1>3. NotYetRun' = NotYetRun
  BY <1>1, <1>2, QueuesStay
<1>4. Started' = Started
  BY <1>2 DEF Started
<1>5. CountsAgree'
  BY <1>1, <1>2, <1>4 DEF CountsAgree
<1>6. CASE StillRuns(First)
  <2>1. /\ UNCHANGED <<loop, toHandle>> /\ loop[First] = "handling"
        /\ index'[First] = index[First] + 1 /\ index[First] \in Nat /\ toHandle[First] \in Nat
    BY <1>1, <1>6 DEF StillRuns, LoopTypes
  <2>2. Ahead' \subseteq Ahead
    BY <2>1 DEF Ahead
  <2>3. Deferred' = Deferred
    BY <1>2, <2>1 DEF Deferred
  <2>4. AnswersAgree'
    BY <1>1, <1>2, <1>3, <2>1, <2>2, <2>3 DEF AnswersAgree, NotAnswered
  <2>5. NothingLost'
    BY <1>1, <1>2, <1>3, <1>4, <2>1 DEF NothingLost, NotAnswered, Ended
  <2> QED BY <1>5, <2>4, <2>5 DEF TestsInv
<1>7. CASE ~StillRuns(First)
  <2>1. /\ loop[First] \in {"top", "freezing", "thawing", "collecting", "idle", "exit", "handling"}
        /\ loop'[First] \in {"break", "freezing", "thawing", "collecting", "catchingUp",
                             "exit", "top", "gone"}
        /\ loop'[First] = "catchingUp" => index'[First] = 1
        /\ loop'[First] \in {"break", "exit"} => stopHandler
        /\ toHandle'[First] = toHandle[First] \/ toHandle'[First] = 0
    BY <1>1, <1>7 DEF ReadFreeze, BecomeFrozen, BecomeThawed, WakeUp, AllFinished, Finished,
         ExitHandler, EndHandling, LoopGoto, LoopTypes
  <2>2. Ahead' = {} /\ Ended = {} /\ Ended' = {}
    BY <2>1 DEF Ahead, Ended
  <2>3. Deferred' = Deferred
    BY <1>2, <2>1 DEF Deferred
  <2>4. \A i : i \in 1 .. toHandle'[First] => i \in 1 .. toHandle[First]
    BY <2>1
  <2>5. AnswersAgree'
    BY <1>1, <1>2, <1>3, <2>1, <2>2, <2>3, <2>4 DEF AnswersAgree, NotAnswered
  <2>6. NothingLost'
    BY <1>1, <1>2, <1>3, <1>4, <2>1, <2>2 DEF NothingLost, NotAnswered
  <2> QED BY <1>5, <2>5, <2>6 DEF TestsInv
<1> QED BY <1>6, <1>7

\* _stoppingTests after a freeze: its tests are stopped one by one.
LEMMA LoopCatchesUp ==
  ASSUME PlaceInv, TestsInv, CatchUp(First) \/ CaughtUp(First)
  PROVE  TestsInv'
<1>1. /\ TypeOK /\ QueuesApart /\ LoopTypes /\ ListTypes /\ TestTypes /\ First \in Loops
      /\ ProcsAgree /\ AnswersAgree /\ CountsAgree /\ NothingLost /\ MaxConcurrent \in Nat
  BY TypeGroups, HandlerAssumption DEF PlaceInv, TestsInv, Loops
<1>2. /\ UNCHANGED <<running, runningTests>>
      /\ UNCHANGED <<starter, newTests, launched, startingTests, stopHandler, control>>
      /\ UNCHANGED <<toHandle, handled, handleTests>> /\ UNCHANGED flowVars
  BY DEF CatchUp, CaughtUp, StopTest, testVars, queueVars, flagVars, starterVars,
         prepVars, sessionVars, flowVars
<1>3. NotYetRun' = NotYetRun
  BY <1>1, <1>2, QueuesStay
<1>4. /\ loop[First] = "catchingUp" /\ index[First] \in Nat \ {0}
      /\ Len(stoppingTests) \in Nat /\ DOMAIN stoppingTests = 1 .. Len(stoppingTests)
  BY <1>1 DEF CatchUp, CaughtUp, LoopGoto, LoopTypes, ListTypes
<1>5. /\ Deferred = index[First] .. Len(stoppingTests) /\ Ended = {}
  BY <1>4 DEF Deferred, Ended
<1>6. CASE CatchUp(First)
  <2>0. PICK t : t = stoppingTests[index[First]]
    OBVIOUS
  <2>1. /\ Answer(t) /\ currentTests' = currentTests - 1
        /\ proc' = [proc EXCEPT ![t] = "dead"]
        /\ UNCHANGED <<loop, stoppingTests>> /\ index'[First] = index[First] + 1
        /\ index[First] \in DOMAIN stoppingTests
    BY <1>1, <1>4, <1>6, <2>0 DEF CatchUp, StopTest, LoopTypes
  <2>2. t \in ToSet(stoppingTests) /\ t \in Tests
    BY <1>1, <2>0, <2>1 DEF ToSet, ListTypes
  <2>3. proc[t] = "dead" /\ t \notin running /\ answers[t] = 0 /\ t \notin NotYetRun
    <3>1. index[First] \in Deferred
      BY <1>4, <1>5, <2>1
    <3> QED BY <1>1, <2>0, <2>1, <2>2, <3>1, Unrun DEF AnswersAgree, NotAnswered
  <2>4. /\ \A u \in Tests : proc'[u] = proc[u]
        /\ \A u \in Tests : answers'[u] = IF u = t THEN 1 ELSE answers[u]
    BY <1>1, <2>1, <2>2, <2>3, AnswerCounts DEF TestTypes
  <2>5. /\ Deferred' = index[First] + 1 .. Len(stoppingTests)
        /\ Ahead' = {} /\ Ended' = {}
    BY <1>4, <2>1 DEF Deferred, Ahead, Ended
  <2>6. \A i \in DOMAIN stoppingTests :
           /\ stoppingTests[i] \in ToSet(stoppingTests) /\ stoppingTests[i] \in Tests
           /\ stoppingTests[i] = t => i = index[First]
    BY <1>1, <2>0, <2>1 DEF AnswersAgree, IsInjective, ToSet, ListTypes
  <2>7. \A i \in DOMAIN stoppingTests : answers'[stoppingTests[i]] = 0 <=> i \in Deferred'
    <3> TAKE i \in DOMAIN stoppingTests
    <3>1. CASE i = index[First]
      BY <1>4, <2>0, <2>2, <2>4, <2>5, <3>1
    <3>2. CASE i # index[First]
      <4>1. answers'[stoppingTests[i]] = answers[stoppingTests[i]]
        BY <2>4, <2>6, <3>2
      <4>2. i \in Deferred' <=> i \in Deferred
        BY <1>4, <1>5, <2>5, <3>2
      <4> QED BY <1>1, <4>1, <4>2 DEF AnswersAgree, NotAnswered
    <3> QED BY <3>1, <3>2
  <2>8. \A u \in NotYetRun \cup running : u \in Tests /\ u # t
    BY <1>1, <2>3, Unrun DEF TestTypes
  <2>9. \A u \in ToSet(stoppingTests) : u \in Tests
    BY <1>1 DEF ListTypes, ToSet
  <2>10. AnswersAgree'
    <3>1. \A u \in Tests : answers'[u] <= 1 /\ (proc'[u] = "new" => answers'[u] = 0)
      BY <1>1, <2>3, <2>4 DEF AnswersAgree, NotAnswered
    <3>2. \A u \in NotYetRun' \cup running' : answers'[u] = 0
      BY <1>1, <1>2, <1>3, <2>4, <2>8 DEF AnswersAgree, NotAnswered
    <3>3. \A u \in ToSet(stoppingTests) : u \notin running' /\ proc'[u] = "dead"
      BY <1>1, <1>2, <2>4, <2>9 DEF AnswersAgree
    <3> QED BY <1>1, <1>2, <1>4, <2>1, <2>5, <2>7, <3>1, <3>2, <3>3 DEF AnswersAgree, NotAnswered
  <2>11. Started' = Started \ {t} /\ t \in Started
    BY <2>2, <2>3, <2>4 DEF Started
  <2>12. IsFiniteSet(Started') /\ Cardinality(Started') = Cardinality(Started) - 1
    BY <1>1, <2>11, FS_RemoveElement DEF CountsAgree
  <2>13. CountsAgree'
    <3>1. currentTests \in Int /\ Len(startingTests) \in Nat
      BY <1>1 DEF TypeOK
    <3> QED BY <1>1, <1>2, <2>1, <2>12, <3>1 DEF CountsAgree
  <2>14. NothingLost'
    <3>1. \A u \in Tests : proc'[u] = "queued" /\ answers'[u] = 0 => u \in NotYetRun'
      BY <1>1, <1>3, <2>3, <2>4 DEF NothingLost, NotAnswered
    <3>2. \A u \in Started' : u \in running' \cup ToSet(stoppingTests') \cup Ended'
      BY <1>1, <1>2, <1>5, <2>1, <2>5, <2>11 DEF NothingLost
    <3> QED BY <1>1, <1>2, <1>4, <2>1, <3>1, <3>2 DEF NothingLost, NotAnswered
  <2> QED BY <2>10, <2>13, <2>14 DEF TestsInv
<1>7. CASE CaughtUp(First)
  <2>1. /\ UNCHANGED <<proc, answers, currentTests>> /\ loop'[First] = "collecting"
        /\ stoppingTests' = <<>> /\ index[First] > Len(stoppingTests)
    BY <1>1, <1>7 DEF CaughtUp, LoopGoto, LoopTypes, testVars
  <2>2. ToSet(stoppingTests') = {} /\ IsInjective(stoppingTests') /\ DOMAIN stoppingTests' = {}
    BY <2>1, EmptyDeque
  <2>3. Ahead' = {} /\ Ended' = {} /\ Deferred = {}
    BY <1>4, <1>5, <2>1 DEF Ahead, Ended
  <2>4. AnswersAgree'
    BY <1>1, <1>2, <1>3, <2>1, <2>2, <2>3 DEF AnswersAgree, NotAnswered
  <2>5. Started' = Started
    BY <2>1 DEF Started
  <2>6. CountsAgree'
    BY <1>1, <1>2, <2>1, <2>5 DEF CountsAgree
  <2>7. \A t \in ToSet(stoppingTests) : t \notin Started
    <3> TAKE t \in ToSet(stoppingTests)
    <3>1. PICK i \in DOMAIN stoppingTests : t = stoppingTests[i]
      BY DEF ToSet
    <3>2. ~NotAnswered(t)
      BY <1>1, <2>3, <3>1 DEF AnswersAgree
    <3> QED BY <3>2 DEF Started, NotAnswered
  <2>8. NothingLost'
    <3>1. \A t \in Started' : t \in running' \cup ToSet(stoppingTests') \cup Ended'
      BY <1>1, <1>2, <1>5, <2>5, <2>7 DEF NothingLost
    <3> QED BY <1>1, <1>2, <1>3, <2>1, <3>1 DEF NothingLost, NotAnswered
  <2> QED BY <2>4, <2>6, <2>8 DEF TestsInv
<1> QED BY <1>6, <1>7

\* What every step of the loop leaves alone.
LEMMA LoopLeaves ==
  ASSUME PlaceInv, NEW l \in Loops, LoopStep(l)
  PROVE  /\ UNCHANGED <<starter, newTests, launched, startingTests, stopHandler, control>>
         /\ NotYetRun' = NotYetRun
<1>1. /\ UNCHANGED <<starter, newTests, launched, startingTests, stopHandler, control>>
      /\ UNCHANGED flowVars
  BY DEF LoopStep, ReadFreeze, BecomeFrozen, BecomeThawed, CatchUp, CaughtUp,
         Collect, AllFinished, WakeUp, EndHandling, StillRuns, HasEnded,
         TestFinished, StopHandled, DeferHandled, KillRunning, ExitHandler,
         queueVars, flagVars, starterVars, prepVars, sessionVars, flowVars
<1> QED BY <1>1, QueuesStay DEF PlaceInv

\* The loop fills _handleTests.
LEMMA LoopCollects ==
  ASSUME PlaceInv, TestsInv, SingleLoop, Collect(First)
  PROVE  TestsInv'
<1>1. /\ TypeOK /\ LoopTypes /\ ListTypes /\ First \in Loops /\ IsInjective(runningTests)
      /\ AnswersAgree /\ CountsAgree /\ NothingLost
  BY TypeGroups DEF PlaceInv, TestsInv, Loops, RunningApart
<1>2. /\ UNCHANGED <<starter, newTests, launched, startingTests, stopHandler, control>>
      /\ NotYetRun' = NotYetRun
  BY <1>1, LoopLeaves DEF LoopStep
<1>3. /\ UNCHANGED <<proc, answers, running, stoppingTests, currentTests, handled>>
      /\ loop[First] = "collecting" /\ loop'[First] \in {"idle", "handling"}
      /\ index'[First] = 1
  BY <1>1 DEF Collect, LoopGoto, LoopTypes, testVars
<1>4. /\ ToSet(runningTests) \cap running \subseteq ToSet(runningTests')
      /\ toHandle' = [toHandle EXCEPT ![First] = Found] /\ Found \in 0 .. MaxConcurrent
      /\ \A k \in 1 .. Found : handleTests'[k] \in ToSet(runningTests) \cap running
      /\ \A j, k \in 1 .. Found : handleTests'[j] = handleTests'[k] => j = k
  BY <1>1, CollectFacts
<1>5. toHandle'[First] = Found
  BY <1>1, <1>4 DEF LoopTypes
<1>6. /\ Ahead' \subseteq 1 .. Found /\ Ended = {} /\ Ended' = {} /\ Deferred' = Deferred
  BY <1>3, <1>5 DEF Ahead, Ended, Deferred
<1>7. AnswersAgree'
  BY <1>1, <1>2, <1>3, <1>4, <1>5, <1>6 DEF AnswersAgree, NotAnswered
<1>8. Started' = Started
  BY <1>3 DEF Started
<1>9. CountsAgree'
  BY <1>1, <1>2, <1>3, <1>8 DEF CountsAgree
<1>10. NothingLost'
  <2>1. \A t \in running : t \in ToSet(runningTests) => t \in ToSet(runningTests')
    BY <1>4
  <2>2. \A k \in 1 .. Found : handleTests'[k] \in ToSet(runningTests')
    BY <1>4
  <2> QED BY <1>1, <1>2, <1>3, <1>5, <1>6, <1>8, <2>1, <2>2 DEF NothingLost, NotAnswered
<1> QED BY <1>7, <1>9, <1>10 DEF TestsInv

\* The loop sees that a process has ended, or ends it.
LEMMA LoopSeesEnd ==
  ASSUME PlaceInv, TestsInv, SingleLoop, HasEnded(First) \/ KillRunning(First)
  PROVE  TestsInv'
<1>1. /\ TypeOK /\ LoopTypes /\ ListTypes /\ TestTypes /\ First \in Loops /\ ProcsAgree
      /\ AnswersAgree /\ CountsAgree /\ NothingLost
  BY TypeGroups DEF PlaceInv, TestsInv, Loops
<1>2. /\ UNCHANGED <<starter, newTests, launched, startingTests, stopHandler, control>>
      /\ NotYetRun' = NotYetRun
  BY <1>1, LoopLeaves DEF LoopStep
<1>3. /\ UNCHANGED <<answers, running, stoppingTests, currentTests, index, toHandle, handleTests>>
      /\ index[First] \in Nat \ {0} /\ toHandle[First] \in Nat
  BY <1>1 DEF HasEnded, KillRunning, LoopTypes, listVars
<1>4. /\ ProcsGoOn
      /\ \A t \in Tests : proc'[t] = proc[t] \/ (StartedTest(t) /\ proc'[t] = "dead")
  <2>1. CASE HasEnded(First)
    <3>0. PICK t : t = Current(First)
      OBVIOUS
    <3>1. proc' = [proc EXCEPT ![t] = "dead"] /\ index[First] \in 1 .. toHandle[First]
      BY <1>3, <2>1, <3>0 DEF HasEnded
    <3>2. StartedTest(t)
      BY <1>1, <3>0, <3>1 DEF ProcsAgree, Current
    <3> QED BY <1>1, <3>1, <3>2, ProcDies DEF TestTypes
  <2>2. CASE KillRunning(First)
    <3>1. \A t \in Tests : t \in ToSet(runningTests) => StartedTest(t)
      BY <1>1 DEF ProcsAgree
    <3>2. \A t \in Tests : proc'[t] = IF t \in ToSet(runningTests) THEN "dead" ELSE proc[t]
      BY <2>2 DEF KillRunning
    <3> QED BY <3>1, <3>2 DEF ProcsGoOn, StartedTest
  <2> QED BY <2>1, <2>2
<1>5. Started' = Started
  BY <1>3, <1>4 DEF Started, StartedTest
<1>6. \A t \in Tests : /\ proc'[t] = "new" => proc[t] = "new"
                       /\ proc'[t] = "queued" => proc[t] = "queued"
                       /\ proc[t] = "dead" => proc'[t] = "dead"
  BY <1>4 DEF ProcsGoOn
<1>7. CountsAgree'
  BY <1>1, <1>2, <1>3, <1>5 DEF CountsAgree
<1>8. \/ /\ loop[First] = "handling" /\ loop'[First] = "ended" /\ runningTests' = runningTests
         /\ index[First] <= toHandle[First] /\ handled'[First] = handleTests[index[First]]
      \/ loop[First] = "break" /\ loop'[First] = "exit"
  BY <1>1, <1>3 DEF HasEnded, KillRunning, LoopGoto, LoopTypes, Current, listVars
<1>9. Ahead' = Ahead /\ Deferred' = Deferred /\ Ended = {} /\ Ended' = {}
  BY <1>3, <1>8 DEF Ahead, Deferred, Ended
<1>10. \A t \in ToSet(stoppingTests) : t \in Tests
  BY <1>1 DEF ListTypes, ToSet
<1>11. AnswersAgree'
  <2>1. \A t \in Tests : answers'[t] <= 1 /\ (proc'[t] = "new" => answers'[t] = 0)
    BY <1>1, <1>3, <1>6 DEF AnswersAgree, NotAnswered
  <2>2. \A t \in ToSet(stoppingTests) : t \notin running' /\ proc'[t] = "dead"
    BY <1>1, <1>3, <1>6, <1>10 DEF AnswersAgree
  <2>3. loop'[First] = "ended" \/ loop'[First] = "exit"
    BY <1>8
  <2>4. loop'[First] = "ended" =>
          index[First] <= toHandle[First] /\ handled'[First] = handleTests[index[First]]
    BY <1>8
  <2>5. /\ \A t \in NotYetRun \cup running : answers[t] = 0
        /\ IsInjective(stoppingTests)
        /\ \A i \in DOMAIN stoppingTests : answers[stoppingTests[i]] = 0 <=> i \in Deferred
        /\ \A i, j \in 1 .. toHandle[First] : handleTests[i] = handleTests[j] => i = j
        /\ \A i \in Ahead : handleTests[i] \in running
    BY <1>1 DEF AnswersAgree, NotAnswered
  <2> QED BY <1>2, <1>3, <1>9, <2>1, <2>2, <2>3, <2>4, <2>5 DEF AnswersAgree, NotAnswered
<1>12. NothingLost'
  <2>1. \A t \in Tests : proc'[t] = "queued" /\ answers'[t] = 0 => t \in NotYetRun'
    BY <1>1, <1>2, <1>3, <1>6 DEF NothingLost, NotAnswered
  <2>2. \A t \in Started' : t \in running' \cup ToSet(stoppingTests') \cup Ended'
    BY <1>1, <1>3, <1>5, <1>9 DEF NothingLost
  <2>3. stopHandler' => control' = "stopped"
    BY <1>1, <1>2 DEF NothingLost
  <2>4. CASE loop'[First] = "exit"
    <3>1. stopHandler'
      BY <1>1, <1>2, <1>8, <2>4 DEF NothingLost
    <3> QED BY <2>1, <2>2, <2>3, <3>1 DEF NothingLost, NotAnswered
  <2>5. CASE loop'[First] = "ended"
    <3>1. loop[First] = "handling" /\ runningTests' = runningTests
      BY <1>8, <2>5
    <3> QED BY <1>1, <1>2, <1>3, <2>1, <2>2, <2>3, <2>5, <3>1 DEF NothingLost, NotAnswered
  <2> QED BY <1>8, <2>4, <2>5
<1> QED BY <1>7, <1>11, <1>12 DEF TestsInv

\* TestFinished takes the test out of the running ones.
LEMMA LoopFinishes ==
  ASSUME PlaceInv, TestsInv, SingleLoop, TestFinished(First)
  PROVE  TestsInv'
<1>1. /\ TypeOK /\ LoopTypes /\ ListTypes /\ TestTypes /\ First \in Loops
      /\ AnswersAgree /\ CountsAgree /\ NothingLost /\ ~stopRequested[First]
  BY TypeGroups DEF PlaceInv, TestsInv, SingleLoop, Loops
<1>2. /\ UNCHANGED <<starter, newTests, launched, startingTests, stopHandler, control>>
      /\ NotYetRun' = NotYetRun
  BY <1>1, LoopLeaves DEF LoopStep
<1>3. /\ UNCHANGED <<proc, answers, runningTests, stoppingTests, currentTests>>
      /\ UNCHANGED <<index, toHandle, handled, handleTests>>
      /\ loop[First] = "ended" /\ loop'[First] \in {"stopping", "deferring"}
      /\ running' = running \ {handled[First]}
      /\ index[First] \in Nat \ {0} /\ toHandle[First] \in Nat
  BY <1>1 DEF TestFinished, AfterTest, LoopGoto, LoopTypes, listVars
<1>4. /\ Ahead = index[First] .. toHandle[First] /\ Ahead' = index[First] + 1 .. toHandle[First]
      /\ Deferred' = Deferred /\ Ended = {}
      /\ handled[First] \in Tests => Ended' = {handled[First]}
  BY <1>3 DEF Ahead, Deferred, Ended
<1>5. /\ index[First] \in Ahead /\ handled[First] = handleTests[index[First]]
      /\ index[First] <= toHandle[First]
  BY <1>1, <1>3, <1>4 DEF AnswersAgree
<1>6. handled[First] \in running /\ handled[First] \in Tests
  BY <1>1, <1>5 DEF AnswersAgree, TestTypes
<1>7. handled[First] \notin ToSet(stoppingTests) /\ answers[handled[First]] = 0
  BY <1>1, <1>6 DEF AnswersAgree, NotAnswered
<1>8. \A i \in Ahead' : handleTests[i] \in running'
  <2> TAKE i \in Ahead'
  <2>1. /\ i \in Ahead /\ i # index[First] /\ i \in 1 .. toHandle[First]
        /\ index[First] \in 1 .. toHandle[First]
    BY <1>3, <1>4, <1>5
  <2>2. handleTests[i] # handled[First] /\ handleTests[i] \in running
    BY <1>1, <1>5, <2>1 DEF AnswersAgree
  <2> QED BY <1>3, <2>2
<1>9. AnswersAgree'
  BY <1>1, <1>2, <1>3, <1>4, <1>5, <1>6, <1>7, <1>8 DEF AnswersAgree, NotAnswered
<1>10. Started' = Started
  BY <1>3 DEF Started
<1>11. CountsAgree'
  BY <1>1, <1>2, <1>3, <1>10 DEF CountsAgree
<1>12. NothingLost'
  BY <1>1, <1>2, <1>3, <1>4, <1>6, <1>10 DEF NothingLost, NotAnswered
<1> QED BY <1>9, <1>11, <1>12 DEF TestsInv

\* The test that has ended is stopped, or kept until the thaw.
LEMMA LoopStops ==
  ASSUME PlaceInv, TestsInv, SingleLoop, StopHandled(First)
  PROVE  TestsInv'
<1>1. /\ TypeOK /\ LoopTypes /\ ListTypes /\ TestTypes /\ First \in Loops /\ AliveListed
      /\ AnswersAgree /\ CountsAgree /\ NothingLost
  BY TypeGroups DEF PlaceInv, TestsInv, Loops
<1>2. /\ UNCHANGED <<starter, newTests, launched, startingTests, stopHandler, control>>
      /\ NotYetRun' = NotYetRun
  BY <1>1, LoopLeaves DEF LoopStep
<1>3. PICK t : t = handled[First]
  OBVIOUS
<1>4. /\ UNCHANGED <<running, runningTests, stoppingTests, toHandle, handleTests>>
      /\ loop[First] = "stopping" /\ loop'[First] = "handling"
      /\ Answer(t) /\ currentTests' = currentTests - 1 /\ proc' = [proc EXCEPT ![t] = "dead"]
      /\ index'[First] = index[First] + 1 /\ index[First] \in Nat /\ toHandle[First] \in Nat
  BY <1>1, <1>3 DEF StopHandled, StopTest, NextHandled, LoopGoto, LoopTypes
<1>5. /\ t \in Tests /\ proc[t] = "dead" /\ t \notin running /\ t \notin ToSet(stoppingTests)
      /\ answers[t] = 0
  BY <1>1, <1>3, <1>4 DEF AliveListed, AnswersAgree, NotAnswered
<1>6. /\ \A u \in Tests : proc'[u] = proc[u]
      /\ \A u \in Tests : answers'[u] = IF u = t THEN 1 ELSE answers[u]
  BY <1>1, <1>4, <1>5, AnswerCounts DEF TestTypes
<1>7. Ahead' = Ahead /\ Deferred' = Deferred /\ Ended = {t} /\ Ended' = {}
  BY <1>3, <1>4, <1>5 DEF Ahead, Deferred, Ended
<1>8. \A u \in NotYetRun \cup running \cup ToSet(stoppingTests) : u \in Tests /\ u # t
  BY <1>1, <1>5, Unrun DEF TestTypes, ListTypes, ToSet
<1>9. AnswersAgree'
  <2>1. \A u \in Tests : answers'[u] <= 1 /\ (proc'[u] = "new" => answers'[u] = 0)
    BY <1>1, <1>5, <1>6 DEF AnswersAgree, NotAnswered
  <2>2. \A u \in NotYetRun' \cup running' : answers'[u] = 0
    BY <1>1, <1>2, <1>4, <1>6, <1>8 DEF AnswersAgree, NotAnswered
  <2>3. \A u \in ToSet(stoppingTests) : u \notin running' /\ proc'[u] = "dead"
    BY <1>1, <1>4, <1>6, <1>8 DEF AnswersAgree
  <2>4. \A i \in DOMAIN stoppingTests : answers'[stoppingTests[i]] = 0 <=> i \in Deferred'
    <3> TAKE i \in DOMAIN stoppingTests
    <3>1. stoppingTests[i] \in ToSet(stoppingTests)
      BY DEF ToSet
    <3> QED BY <1>1, <1>6, <1>7, <1>8, <3>1 DEF AnswersAgree, NotAnswered
  <2> QED BY <1>1, <1>4, <1>7, <2>1, <2>2, <2>3, <2>4 DEF AnswersAgree, NotAnswered
<1>10. Started' = Started \ {t} /\ t \in Started
  BY <1>5, <1>6 DEF Started
<1>11. IsFiniteSet(Started') /\ Cardinality(Started') = Cardinality(Started) - 1
  BY <1>1, <1>10, FS_RemoveElement DEF CountsAgree
<1>12. CountsAgree'
  <2>1. currentTests \in Int /\ Len(startingTests) \in Nat /\ MaxConcurrent \in Nat
    BY <1>1, HandlerAssumption DEF TypeOK
  <2> QED BY <1>1, <1>2, <1>4, <1>11, <2>1 DEF CountsAgree
<1>13. NothingLost'
  <2>1. \A u \in Tests : proc'[u] = "queued" /\ answers'[u] = 0 => u \in NotYetRun'
    BY <1>1, <1>2, <1>5, <1>6 DEF NothingLost, NotAnswered
  <2>2. \A u \in Started' : u \in running' \cup ToSet(stoppingTests') \cup Ended'
    BY <1>1, <1>4, <1>7, <1>10 DEF NothingLost
  <2> QED BY <1>1, <1>2, <1>4, <2>1, <2>2 DEF NothingLost, NotAnswered
<1> QED BY <1>9, <1>12, <1>13 DEF TestsInv

LEMMA LoopDefers ==
  ASSUME PlaceInv, TestsInv, SingleLoop, DeferHandled(First)
  PROVE  TestsInv'
<1>1. /\ TypeOK /\ LoopTypes /\ ListTypes /\ TestTypes /\ First \in Loops /\ AliveListed
      /\ AnswersAgree /\ CountsAgree /\ NothingLost
  BY TypeGroups DEF PlaceInv, TestsInv, Loops
<1>2. /\ UNCHANGED <<starter, newTests, launched, startingTests, stopHandler, control>>
      /\ NotYetRun' = NotYetRun
  BY <1>1, LoopLeaves DEF LoopStep
<1>3. PICK t : t = handled[First]
  OBVIOUS
<1>4. /\ UNCHANGED <<proc, answers, running, runningTests, currentTests, toHandle, handleTests>>
      /\ loop[First] = "deferring" /\ loop'[First] = "handling"
      /\ stoppingTests' = Append(stoppingTests, t)
      /\ index'[First] = index[First] + 1 /\ index[First] \in Nat /\ toHandle[First] \in Nat
  BY <1>1, <1>3 DEF DeferHandled, NextHandled, LoopGoto, LoopTypes, testVars
<1>5. /\ t \in Tests /\ proc[t] = "dead" /\ t \notin running /\ t \notin ToSet(stoppingTests)
      /\ answers[t] = 0
  BY <1>1, <1>3, <1>4 DEF AliveListed, AnswersAgree, NotAnswered
<1>6. Ahead' = Ahead /\ Ended = {t} /\ Ended' = {}
  BY <1>3, <1>4, <1>5 DEF Ahead, Ended
<1>7. /\ IsInjective(stoppingTests') /\ ToSet(stoppingTests') = ToSet(stoppingTests) \cup {t}
  BY <1>1, <1>4, <1>5, PushBack DEF AnswersAgree, ListTypes
<1>8. \A i \in DOMAIN stoppingTests' : answers'[stoppingTests'[i]] = 0 <=> i \in Deferred'
  <2>1. /\ Len(stoppingTests) \in Nat /\ DOMAIN stoppingTests = 1 .. Len(stoppingTests)
        /\ DOMAIN stoppingTests' = 1 .. Len(stoppingTests) + 1
        /\ Len(stoppingTests') = Len(stoppingTests) + 1
        /\ \A i \in 1 .. Len(stoppingTests) : stoppingTests'[i] = stoppingTests[i]
        /\ stoppingTests'[Len(stoppingTests) + 1] = t
    BY <1>1, <1>4, <1>5 DEF ListTypes
  <2>2. Deferred = 1 .. Len(stoppingTests) /\ Deferred' = 1 .. Len(stoppingTests) + 1
    BY <1>4, <2>1 DEF Deferred
  <2>3. \A i \in 1 .. Len(stoppingTests) : answers[stoppingTests[i]] = 0
    BY <1>1, <2>1, <2>2 DEF AnswersAgree, NotAnswered
  <2> QED BY <1>4, <1>5, <2>1, <2>2, <2>3
<1>9. AnswersAgree'
  BY <1>1, <1>2, <1>4, <1>5, <1>6, <1>7, <1>8 DEF AnswersAgree, NotAnswered
<1>10. Started' = Started
  BY <1>4 DEF Started
<1>11. CountsAgree'
  BY <1>1, <1>2, <1>4, <1>10 DEF CountsAgree
<1>12. NothingLost'
  <2>1. \A u \in Started' : u \in running' \cup ToSet(stoppingTests') \cup Ended'
    BY <1>1, <1>4, <1>6, <1>7, <1>10 DEF NothingLost
  <2> QED BY <1>1, <1>2, <1>4, <2>1 DEF NothingLost, NotAnswered
<1> QED BY <1>9, <1>11, <1>12 DEF TestsInv

-----------------------------------------------------------------------------
(* What holds as long as the watchdog does not replace the loop.  With a    *)
(* replacement the two loops share _handleTests, and a test may be stopped  *)
(* twice.                                                                  *)

LEMMA AnswersInitially == Init => AnswerInv
<1> SUFFICES ASSUME Init PROVE AnswerInv
  OBVIOUS
<1>1. ToSet(<<>>) = {} /\ IsInjective(<<>>) /\ DOMAIN <<>> = {} /\ Len(<<>>) = 0
  BY EmptyDeque
<1>2. Started = {} /\ NotYetRun = {} /\ Ended = {} /\ Ahead = {}
  BY <1>1 DEF Init, Started, NotYetRun, AtStart, Held, Ended, Ahead, Loops, First
<1>3. SingleLoop
  BY DEF Init, SingleLoop, Loops, First, Second
<1>4. AnswersAgree
  <2>1. loop[First] = "top" /\ toHandle[First] = 0
    BY DEF Init, Loops, First
  <2> QED BY <1>1, <1>2, <2>1 DEF Init, AnswersAgree, NotAnswered
<1>5. CountsAgree
  BY <1>1, <1>2, HandlerAssumption, FS_EmptySet DEF Init, CountsAgree
<1>6. NothingLost
  BY <1>1, <1>2 DEF Init, NothingLost, Loops, First
<1> QED BY <1>3, <1>4, <1>5, <1>6 DEF AnswerInv

\* Who was replaced stays replaced.
LEMMA AloneBefore ==
  ASSUME LoopTypes, [Next]_vars, Alone'
  PROVE  Alone /\ ~ReinitHandler
<1>1. First # Second /\ First \in Loops /\ Second \in Loops
  BY DEF Loops, First, Second
<1>2. ~ReinitHandler
  BY <1>1 DEF ReinitHandler, Alone, LoopTypes
<1>3. CASE \E l \in Loops : LoopStep(l)
  <2>1. PICK l \in Loops : LoopStep(l)
    BY <1>3
  <2>2. \/ UNCHANGED loop
        \/ \E to : to # "none" /\ loop' = [loop EXCEPT ![l] = to]
    BY <2>1 DEF LoopStep, ReadFreeze, BecomeFrozen, BecomeThawed, CatchUp, CaughtUp,
         Collect, AllFinished, WakeUp, EndHandling, StillRuns, HasEnded, TestFinished,
         AfterTest, StopHandled, DeferHandled, KillRunning, ExitHandler, LoopGoto
  <2> QED BY <1>1, <1>2, <2>2 DEF Alone, LoopTypes
<1>4. CASE ~\E l \in Loops : LoopStep(l)
  <2>1. UNCHANGED loop
    BY <1>2, <1>4 DEF Next, AddTest, ProcessEnds, PrepareStep, TakeInitJob, BeginInit, CheckPopulation,
         PopWaiting, PushPrepared, PrepareFails, StarterStep, BeginRound, EndNap,
         CheckSlots, LockQueue, FillOne, FillEnds, StartSucceeds, StartFails,
         ListStarted, EndRound, SessionStep, FreezeReturns, PoolFreezeReturns, ReadStatus, EmptyPool, EndSave,
         FreezeForEnd, TakeTopLevel, TakeLockQueue, ClearTests, BeginSave,
         EndSession, StopHandler, loopVars, vars
  <2> QED BY <1>2, <2>1 DEF Alone
<1> QED BY <1>3, <1>4

LEMMA SingleLoopKept ==
  ASSUME PlaceInv, SingleLoop, [Next]_vars, Alone'
  PROVE  SingleLoop'
<1>2. LoopTypes
  BY TypeGroups DEF PlaceInv
<1>1. ~ReinitHandler
  BY <1>2, AloneBefore
<1>3. CASE \E l \in Loops : LoopStep(l)
  <2>1. LoopStep(First)
    BY <1>3, OneLoop
  <2>2. UNCHANGED stopRequested
    BY <2>1 DEF LoopStep, ReadFreeze, BecomeFrozen, BecomeThawed, CatchUp, CaughtUp,
         Collect, AllFinished, WakeUp, EndHandling, StillRuns, HasEnded, TestFinished,
         StopHandled, DeferHandled, KillRunning, ExitHandler, flagVars
  <2>3. loop'[Second] = loop[Second]
    <3>1. First # Second /\ First \in Loops /\ Second \in Loops
      BY DEF Loops, First, Second
    <3>2. \/ UNCHANGED loop
          \/ \E from, to : LoopGoto(First, from, to)
      BY <2>1 DEF LoopStep, ReadFreeze, BecomeFrozen, BecomeThawed, CatchUp, CaughtUp,
           Collect, AllFinished, WakeUp, EndHandling, StillRuns, HasEnded, TestFinished,
           StopHandled, DeferHandled, KillRunning, ExitHandler
    <3> QED BY <1>2, <3>1, <3>2 DEF LoopGoto, LoopTypes
  <2> QED BY <2>2, <2>3 DEF SingleLoop
<1>4. CASE ~\E l \in Loops : LoopStep(l)
  <2>1. UNCHANGED <<loop, stopRequested>>
    BY <1>1, <1>4 DEF Next, AddTest, ProcessEnds, PrepareStep, TakeInitJob, BeginInit, CheckPopulation,
         PopWaiting, PushPrepared, PrepareFails, StarterStep, BeginRound, EndNap,
         CheckSlots, LockQueue, FillOne, FillEnds, StartSucceeds, StartFails,
         ListStarted, EndRound, SessionStep, FreezeReturns, PoolFreezeReturns, ReadStatus, EmptyPool, EndSave,
         FreezeForEnd, TakeTopLevel, TakeLockQueue, ClearTests, BeginSave,
         EndSession, StopHandler, loopVars, flagVars, vars
  <2> QED BY <2>1 DEF SingleLoop
<1> QED BY <1>3, <1>4

\* An end is final.
LEMMA EndLasts ==
  ASSUME control \in Ends, [Next]_vars
  PROVE  control' \in Ends
BY DEF Ends, Next, AddTest, ProcessEnds, PrepareStep, TakeInitJob, BeginInit, CheckPopulation,
       PopWaiting, PushPrepared, PrepareFails, StarterStep, BeginRound, EndNap,
       CheckSlots, LockQueue, FillOne, FillEnds, StartSucceeds, StartFails,
       ListStarted, EndRound, LoopStep, ReadFreeze, BecomeFrozen, BecomeThawed,
       CatchUp, CaughtUp, Collect, AllFinished, WakeUp, EndHandling, StillRuns,
       HasEnded, TestFinished, StopHandled, DeferHandled, KillRunning, ExitHandler,
       SessionStep, FreezeReturns, PoolFreezeReturns, ReadStatus, EmptyPool, EndSave, FreezeForEnd,
       TakeTopLevel, TakeLockQueue, ClearTests, ReinitHandler, BeginSave, EndSession,
       StopHandler, ControlGoto, sessionVars, vars

LEMMA AnswersKept ==
  ASSUME PlaceInv, AnswerInv, [Next]_vars
  PROVE  AnswerInv'
<1> SUFFICES ASSUME Alone'
             PROVE  SingleLoop' /\ (control' \notin Ends => TestsInv')
  BY DEF AnswerInv, TestsInv, Ends
<1>0. Alone /\ ~ReinitHandler
  BY AloneBefore, TypeGroups DEF PlaceInv
<1>1. PlaceInv'
  BY PlaceKept
<1>2. SingleLoop /\ SingleLoop'
  BY <1>0, SingleLoopKept DEF AnswerInv
<1>3. ASSUME control' \notin Ends PROVE TestsInv'
  <2>1. TestsInv
    BY <1>0, <1>3, EndLasts DEF AnswerInv, TestsInv
  <2>3. ASSUME NEW t \in Tests, AddTest(t) \/ ProcessEnds(t) PROVE TestsInv'
    BY <1>1, <2>1, <2>3, TestAnswers
  <2>4. ASSUME NEW p \in Preparers, PrepareStep(p) PROVE TestsInv'
    BY <1>1, <2>1, <2>4, PrepareAnswers
  <2>5. CASE StarterStep
    BY <1>1, <2>1, <2>5, StarterAnswers
  <2>6. CASE \/ SessionStep \/ BeginSave \/ EndSession
             \/ \E finish \in course.stops : StopHandler(finish)
             \/ UNCHANGED vars
    BY <1>1, <1>3, <2>1, <2>6, SessionAnswers
  <2>7. ASSUME NEW l \in Loops, LoopStep(l) PROVE TestsInv'
    <3>1. LoopStep(First)
      BY <1>2, <2>7, OneLoop
    <3>2. CASE \/ ReadFreeze(First) \/ BecomeFrozen(First) \/ BecomeThawed(First)
               \/ WakeUp(First) \/ AllFinished(First) \/ ExitHandler(First)
               \/ EndHandling(First) \/ StillRuns(First)
      BY <1>2, <2>1, <3>1, <3>2, LoopTurns
    <3>3. CASE CatchUp(First) \/ CaughtUp(First)
      BY <2>1, <3>3, LoopCatchesUp
    <3>4. CASE Collect(First)
      BY <1>2, <2>1, <3>4, LoopCollects
    <3>5. CASE HasEnded(First) \/ KillRunning(First)
      BY <1>2, <2>1, <3>5, LoopSeesEnd
    <3>6. CASE TestFinished(First)
      BY <1>2, <2>1, <3>6, LoopFinishes
    <3>7. CASE StopHandled(First)
      BY <1>2, <2>1, <3>7, LoopStops
    <3>8. CASE DeferHandled(First)
      BY <1>2, <2>1, <3>8, LoopDefers
    <3> QED BY <3>1, <3>2, <3>3, <3>4, <3>5, <3>6, <3>7, <3>8 DEF LoopStep
  <2> QED BY <1>0, <2>3, <2>4, <2>5, <2>6, <2>7 DEF Next
<1> QED BY <1>2, <1>3

LEMMA AnswersAlways == Safety => [](PlaceInv /\ AnswerInv)
<1>1. Init => PlaceInv /\ AnswerInv
  BY PlaceInitially, AnswersInitially
<1>2. PlaceInv /\ AnswerInv /\ [Next]_vars => (PlaceInv /\ AnswerInv)'
  BY PlaceKept, AnswersKept
<1> QED BY <1>1, <1>2, PTL DEF Safety

\* A test is in one place and, until the session ends itself, its callback is
\* called at most once, although the loop, the starter and the preparers call
\* callbacks, and tests that end during a save are stopped after it.
THEOREM NoDoubleAnswer == Safety => []HandledOnce
<1>1. PlaceInv /\ AnswerInv => HandledOnce
  <2>1. AnswerInv => AnsweredAtMostOnce
    BY DEF AnswerInv, Alone, Ends, Ordinary, AnswersAgree, AnsweredAtMostOnce
  <2> QED BY <2>1, PlacesApart DEF HandledOnce
<1> QED BY <1>1, AnswersAlways, PTL

\* _currentTests is the number of tests that were started and not stopped, and
\* TestStarter never lets it exceed the number that may run.
THEOREM CountExact == Safety => []CurrentTestsExact
<1>1. PlaceInv /\ AnswerInv => CurrentTestsExact
  <2> SUFFICES ASSUME PlaceInv, AnswerInv, Ordinary
               PROVE  currentTests = Cardinality(Started) /\ currentTests <= MaxConcurrent
    BY DEF CurrentTestsExact
  <2>1. CountsAgree
    BY DEF AnswerInv, Alone, Ends, Ordinary
  <2>2. currentTests \in Int /\ Len(startingTests) \in Nat /\ MaxConcurrent \in Nat
    BY HandlerAssumption DEF PlaceInv, TypeOK
  <2> QED BY <2>1, <2>2 DEF CountsAgree
<1> QED BY <1>1, AnswersAlways, PTL

\* A save misses no test but those that TestStarter has in hand, or a task of
\* the pool that TaskController::Freeze has overlooked.
THEOREM SaveCompleteButHeld == Safety => []SaveMissesOnlyHeld
<1>1. PlaceInv /\ AnswerInv => SaveMissesOnlyHeld
  <2> SUFFICES ASSUME PlaceInv, AnswerInv, control = "saving", Ordinary, NEW t \in Unanswered
               PROVE  t \in Listed \cup ToSet(startingTests) \cup {launched} \cup Overlooked
    BY DEF SaveMissesOnlyHeld
  <2>1. /\ TypeOK /\ PhasesAgree /\ LoopTypes /\ AnswersAgree /\ NothingLost /\ First \in Loops
    BY TypeGroups DEF PlaceInv, AnswerInv, Loops, Alone, Ends, Ordinary
  <2>2. /\ t \in Tests /\ answers[t] = 0 /\ proc[t] \in {"queued", "alive", "dead"}
    BY <2>1 DEF Unanswered, TypeOK
  <2>3. ~stopHandler
    BY <2>1 DEF NothingLost
  <2>4. CASE proc[t] = "queued"
    <3>1. t \in NotYetRun
      BY <2>1, <2>2, <2>4 DEF NothingLost, NotAnswered
    <3>2. Held \subseteq Overlooked
      <4>1. \A p \in Preparers : inHand[p] # None => seen[p] = "taken"
        BY HeldOverlooked
      <4> QED BY <4>1 DEF Held, Overlooked
    <3> QED BY <3>1, <3>2 DEF NotYetRun, AtStart, Listed
  <2>5. CASE proc[t] \in {"alive", "dead"}
    <3>1. t \in running \cup ToSet(stoppingTests) \cup Ended
      BY <2>1, <2>2, <2>5 DEF NothingLost, Started
    <3>2. t \in running => t \in ToSet(runningTests) \/ t = launched
      BY <2>1, <2>3 DEF NothingLost
    <3>3. t \in Ended => t \in ToSet(runningTests)
      <4> SUFFICES ASSUME t \in Ended PROVE t \in ToSet(runningTests)
        OBVIOUS
      <4>1. loop[First] \in {"stopping", "deferring"} /\ t = handled[First]
        BY DEF Ended
      <4>2. /\ index[First] <= toHandle[First] /\ handled[First] = handleTests[index[First]]
            /\ index[First] \in Nat \ {0} /\ toHandle[First] \in Nat
        BY <2>1, <4>1 DEF AnswersAgree, LoopTypes
      <4>3. index[First] \in 1 .. toHandle[First]
        BY <4>2
      <4> QED BY <2>1, <2>3, <4>1, <4>2, <4>3 DEF NothingLost
    <3> QED BY <3>1, <3>2, <3>3 DEF Listed
  <2> QED BY <2>2, <2>4, <2>5
<1> QED BY <1>1, AnswersAlways, PTL

-----------------------------------------------------------------------------
(* The freeze of a save, when there is one save at most.  A second save may *)
(* find _frozen still set by the first.                                    *)

LEMMA FreezeInitially == Init => FreezeInv
BY DEF Init, FreezeInv, Loops, First

LEMMA FreezeKept ==
  ASSUME OneSave, PlaceInv, SingleLoop, FreezeInv, [Next]_vars, ~ReinitHandler
  PROVE  FreezeInv'
<1>1. /\ LoopTypes /\ FlagTypes /\ SessionTypes /\ First \in Loops /\ ~stopRequested[First]
      /\ course.saves <= 1 /\ course.saves \in Nat /\ freezes \in 0 .. course.saves
  <2>1. LoopTypes /\ FlagTypes /\ SessionTypes /\ First \in Loops /\ ~stopRequested[First]
    BY TypeGroups DEF PlaceInv, SingleLoop, Loops
  <2>2. \A c \in Courses : c.saves \in Nat
    BY HandlerAssumption
  <2> QED BY <2>1, <2>2 DEF OneSave, SessionTypes
<1>2. CASE \E l \in Loops : LoopStep(l)
  <2>1. LoopStep(First) /\ UNCHANGED <<control, freezes, freeze>>
    <3>1. PICK l \in Loops : LoopStep(l)
      BY <1>2
    <3>2. LoopStep(First)
      BY <3>1, OneLoop
    <3>3. UNCHANGED <<control, freezes, freeze>>
      BY <3>2 DEF LoopStep, ReadFreeze, BecomeFrozen, BecomeThawed, CatchUp, CaughtUp,
         Collect, AllFinished, WakeUp, EndHandling, StillRuns, HasEnded, TestFinished,
         StopHandled, DeferHandled, KillRunning, ExitHandler, flagVars, sessionVars
    <3> QED BY <3>2, <3>3
  <2>2. CASE ReadFreeze(First)
    <3>1. UNCHANGED <<frozen, active>> /\ (loop'[First] \in {"break", "freezing", "thawing"})
      BY <1>1, <2>2 DEF ReadFreeze, LoopGoto, LoopTypes, flagVars
    <3>2. /\ freeze => loop'[First] # "thawing"
          /\ ~freeze => loop'[First] # "freezing"
      BY <1>1, <2>2 DEF ReadFreeze, LoopGoto, LoopTypes
    <3> QED BY <2>1, <3>1, <3>2 DEF FreezeInv
  <2>3. CASE BecomeFrozen(First)
    <3>1. /\ frozen' = TRUE /\ UNCHANGED active /\ loop[First] = "freezing"
          /\ loop'[First] = "collecting"
      BY <1>1, <2>3 DEF BecomeFrozen, LoopGoto, LoopTypes
    <3> QED BY <2>1, <3>1 DEF FreezeInv
  <2>4. CASE BecomeThawed(First)
    <3>1. /\ frozen' = FALSE /\ UNCHANGED active /\ loop[First] = "thawing"
          /\ loop'[First] \in {"catchingUp", "collecting"}
      BY <1>1, <2>4 DEF BecomeThawed, LoopGoto, LoopTypes
    <3> QED BY <2>1, <3>1 DEF FreezeInv
  <2>5. CASE TestFinished(First)
    <3>1. /\ UNCHANGED <<frozen, active>> /\ loop[First] = "ended"
          /\ loop'[First] \in {"stopping", "deferring"}
          /\ frozen => loop'[First] = "deferring"
      BY <1>1, <2>5 DEF TestFinished, AfterTest, LoopGoto, LoopTypes, flagVars
    <3> QED BY <2>1, <3>1 DEF FreezeInv
  <2>6. CASE ExitHandler(First)
    <3>1. /\ UNCHANGED frozen /\ active' = FALSE /\ loop'[First] = "gone"
      BY <1>1, <2>6 DEF ExitHandler, LoopGoto, LoopTypes
    <3> QED BY <2>1, <3>1 DEF FreezeInv
  <2>7. CASE ~(ReadFreeze(First) \/ BecomeFrozen(First) \/ BecomeThawed(First)
               \/ TestFinished(First) \/ ExitHandler(First))
    <3>1. UNCHANGED <<frozen, active>>
      BY <2>1, <2>7 DEF LoopStep, CatchUp, CaughtUp, Collect, AllFinished, WakeUp,
         EndHandling, StillRuns, HasEnded, StopHandled, DeferHandled, KillRunning, flagVars
    <3>2. loop' = loop \/ loop'[First] \notin {"thawing", "catchingUp", "stopping", "freezing"}
      BY <1>1, <2>1, <2>7 DEF LoopStep, CatchUp, CaughtUp, Collect, AllFinished, WakeUp,
         EndHandling, StillRuns, HasEnded, StopHandled, DeferHandled, KillRunning, LoopGoto,
         LoopTypes
    <3> QED BY <2>1, <3>1, <3>2 DEF FreezeInv
  <2> QED BY <2>2, <2>3, <2>4, <2>5, <2>6, <2>7
<1>3. CASE ~\E l \in Loops : LoopStep(l)
  <2>1. UNCHANGED <<loop, frozen, active>>
    BY <1>1, <1>3 DEF Next, AddTest, ProcessEnds, PrepareStep, TakeInitJob, BeginInit, CheckPopulation,
         PopWaiting, PushPrepared, PrepareFails, StarterStep, BeginRound, EndNap,
         CheckSlots, LockQueue, FillOne, FillEnds, StartSucceeds, StartFails,
         ListStarted, EndRound, SessionStep, FreezeReturns, PoolFreezeReturns, ReadStatus, EmptyPool, EndSave,
         FreezeForEnd, TakeTopLevel, TakeLockQueue, ClearTests, BeginSave,
         EndSession, StopHandler, loopVars, flagVars, vars
  <2>2. CASE BeginSave
    <3>1. /\ control = "serving" /\ control' = "freezing" /\ freeze' = TRUE
          /\ freezes < course.saves /\ freezes' = freezes + 1
      BY <2>2 DEF BeginSave, ControlGoto
    <3>2. freezes = 0 /\ freezes' > 0
      BY <1>1, <3>1
    <3> QED BY <2>1, <3>1, <3>2 DEF FreezeInv
  <2>3. CASE FreezeReturns \/ PoolFreezeReturns
    <3>1. /\ UNCHANGED <<freeze, freezes>> /\ (control' = "settling" => frozen \/ ~active)
          /\ \/ control = "freezing" /\ control' = "settling"
             \/ control = "stilling" /\ control' = "clearing"
             \/ control = "settling" /\ control' = "saving"
      BY <2>3 DEF FreezeReturns, PoolFreezeReturns, ControlGoto, flagVars
    <3> QED BY <2>1, <3>1 DEF FreezeInv
  <2>4. CASE EndSave
    <3>1. control = "saving" /\ control' = "serving" /\ UNCHANGED freezes
      BY <2>4 DEF EndSave, ControlGoto
    <3> QED BY <2>1, <3>1 DEF FreezeInv
  <2>5. CASE ~(BeginSave \/ FreezeReturns \/ PoolFreezeReturns \/ EndSave)
    <3>1. \/ UNCHANGED <<control, freezes, freeze>>
          \/ control' \notin {"serving", "freezing", "settling", "saving"}
      BY <1>1, <1>3, <2>5 DEF Next, AddTest, ProcessEnds, PrepareStep, TakeInitJob, BeginInit,
         CheckPopulation, PopWaiting, PushPrepared, PrepareFails, StarterStep, BeginRound,
         EndNap, CheckSlots, LockQueue, FillOne, FillEnds, StartSucceeds, StartFails,
         ListStarted, EndRound, SessionStep, ReadStatus, EmptyPool, FreezeForEnd, TakeTopLevel, TakeLockQueue,
         ClearTests, EndSession, StopHandler, ControlGoto, flagVars,
         sessionVars, vars
    <3> QED BY <2>1, <3>1 DEF FreezeInv
  <2> QED BY <2>2, <2>3, <2>4, <2>5
<1> QED BY <1>2, <1>3

\* Who answers a test that was started: the loop, or ClearTests.
LEMMA StartedKept ==
  ASSUME PlaceInv, SingleLoop, [Next]_vars, ~CatchUp(First), ~StopHandled(First), ~ClearTests
  PROVE  \A t \in Started : answers'[t] = answers[t]
<1>1. /\ TypeOK /\ QueuesApart /\ PhasesAgree
      /\ \A t \in Started : t \in Tests /\ t \notin NotYetRun
  BY Unrun DEF PlaceInv, Started
<1>2. ASSUME NEW t \in Tests, t \in NotYetRun, Answer(t)
      PROVE  \A u \in Started : answers'[u] = answers[u]
  BY <1>1, <1>2, AnswerCounts
<1>3. ASSUME NEW p \in Preparers, PrepareFails(p)
      PROVE  \A u \in Started : answers'[u] = answers[u]
  BY <1>1, <1>2, <1>3, FailFlow DEF PrepareFails
<1>4. CASE FillOne
  BY <1>1, <1>2, <1>4, FillFlow DEF Spoilt
<1>5. CASE StartFails
  BY <1>1, <1>2, <1>5, StartFlow DEF StartFails
<1>6. CASE ~(FillOne \/ StartFails \/ \E p \in Preparers : PrepareFails(p))
  <2>1. CASE \E l \in Loops : LoopStep(l)
    <3>1. LoopStep(First)
      BY <2>1, OneLoop
    <3>2. UNCHANGED answers
      BY <3>1 DEF LoopStep, ReadFreeze, BecomeFrozen, BecomeThawed, CaughtUp,
         Collect, AllFinished, WakeUp, EndHandling, StillRuns, HasEnded, TestFinished,
         DeferHandled, KillRunning, ExitHandler, testVars
    <3> QED BY <3>2
  <2>2. CASE ~\E l \in Loops : LoopStep(l)
    <3>1. UNCHANGED answers
      BY <1>6, <2>2 DEF Next, AddTest, ProcessEnds, PrepareStep, TakeInitJob, BeginInit, CheckPopulation,
         PopWaiting, PushPrepared, StarterStep, BeginRound, EndNap, CheckSlots, LockQueue,
         FillEnds, StartSucceeds, ListStarted, EndRound, SessionStep, FreezeReturns,
         PoolFreezeReturns, ReadStatus, EmptyPool, EndSave, FreezeForEnd, TakeTopLevel, TakeLockQueue,
         ReinitHandler, BeginSave, EndSession, StopHandler, testVars, vars
    <3> QED BY <3>1
  <2> QED BY <2>1, <2>2
<1> QED BY <1>3, <1>4, <1>5, <1>6

\* Between the Freeze and the Thaw of a save, the callback of no test that was
\* started is called: what the save has written stays true.
THEOREM ResultsKept ==
  ASSUME OneSave
  PROVE  Safety => FrozenKeepsResults
<1> DEFINE Kept == active /\ Ordinary /\ control \in {"settling", "saving"} =>
                     \A t \in Started : answers'[t] = 0
           Inv  == PlaceInv /\ AnswerInv /\ (Alone => FreezeInv)
<1>1. Init => Inv
  BY PlaceInitially, AnswersInitially, FreezeInitially
<1>2. Inv /\ [Next]_vars => Inv'
  <2> SUFFICES ASSUME Inv, [Next]_vars, Alone' PROVE FreezeInv'
    BY PlaceKept, AnswersKept
  <2>1. Alone /\ ~ReinitHandler
    BY AloneBefore, TypeGroups DEF PlaceInv
  <2> QED BY <2>1, FreezeKept DEF AnswerInv
<1>3. ASSUME Inv, [Next]_vars PROVE Kept
  <2> SUFFICES ASSUME active, Ordinary, control \in {"settling", "saving"}
               PROVE  \A t \in Started : answers'[t] = 0
    OBVIOUS
  <2>1. frozen /\ loop[First] \notin {"catchingUp", "stopping"}
    BY <1>3 DEF FreezeInv, Ordinary, Alone
  <2>2. ~CatchUp(First) /\ ~StopHandled(First) /\ ~ClearTests
    BY <2>1 DEF CatchUp, StopHandled, LoopGoto, ClearTests, ControlGoto
  <2>3. \A t \in Started : answers'[t] = answers[t]
    BY <1>3, <2>2, StartedKept DEF AnswerInv, Ordinary, Alone
  <2> QED BY <2>3 DEF Started
<1>4. Inv /\ [Next]_vars => [Kept]_vars
  BY <1>3
<1>5. Safety => [][Kept]_vars
  BY <1>1, <1>2, <1>4, PTL DEF Safety
<1> QED BY <1>5 DEF FrozenKeepsResults
=============================================================================
