------------------------------ MODULE TestPipes ------------------------------
(***************************************************************************)
(* The pipes and processes of tests, on Linux: the class Test of           *)
(* src/src/Test.cpp, the queue of writes of src/src/IPCommManager.cpp, the *)
(* calls of the operating system of src/src/Processes.cpp, and what the    *)
(* threads of src/src/ExecutionHandler.cpp do with them: TestStarter,      *)
(* InternalLoop, TestWaiter and the tasks WriteTestInputCallback.          *)
(*                                                                         *)
(* How tests get to TestStarter, and what freezes and stops the threads,   *)
(* is in module ExecutionHandler.  Here the input of a test is a sequence  *)
(* of units, of which a pipe holds Capacity; the pipes are blocking.       *)
(***************************************************************************)
EXTENDS Integers, Sequences, FiniteSets, SequencesExt

CONSTANTS
  Tests,
  Writers,        \* threads that write input
  Capacity,       \* of a pipe
  Courses,        \* values of course
  None

ASSUME PipesAssumption ==
  /\ Capacity \in Nat \ {0}
  /\ IsFiniteSet(Tests)
  /\ Courses \subseteq [kind : {"stdin", "script", "fragments"}, talks : BOOLEAN,
                        size : [Tests -> Nat \ {0}]]
  /\ None \notin Tests
  /\ Writers # {}

VARIABLES
  course,         \* how input is given, how long it is, whether output is written
  \* the members of Test
  valid,          \* _valid; processid is 0 when it is FALSE
  avail,          \* _avail
  pipeError,      \* _pipeError
  holder,         \* the writer that holds _availFlag; the loop may hold it too
  fd,             \* red_input[1], the number of the end that is written
  executed,       \* _executed: fragments that were written
  \* the operating system
  file,           \* whose pipe a number means
  stdin,          \* the units in the input pipe of a test: whose, and which
  got,            \* the units its process has read
  unread,         \* tests whose output pipe holds something
  proc,           \* its process: none, alive, a zombie, or waited for
  term,           \* processes that were sent SIGTERM
  inherited,      \* the pipes that were open when its process was spawned
  \* the threads
  queue,          \* _writeQueue
  sem,            \* _writeQueueSem
  pass,           \* the entries PerformWritesInternal has yet to visit
  jobs,           \* tasks WriteTestInputCallback in the pool
  writer,         \* where each writer is, for which test, to which pipe
  starter,        \* the test whose input TestStarter is about to give
  loop,           \* where InternalLoop is, with which test, and those to come
  phase,          \* new, prepared, starting, running or stopped
  pids            \* the queue of TestWaiter

objectVars == <<valid, avail, pipeError, holder, fd, executed>>
systemVars == <<file, stdin, got, unread, proc, term, inherited>>
queueVars  == <<queue, sem, pass, jobs>>
handlerVars == <<starter, loop, phase, pids>>
vars == <<course, objectVars, systemVars, queueVars, writer, handlerVars>>

Closed  == 0
Numbers == 1 .. Cardinality(Tests)
Size(t) == course.size[t]

WriterIdle == [at |-> "idle", test |-> None, to |-> None, sent |-> 0]

Init ==
  /\ course \in Courses
  /\ valid = [t \in Tests |-> TRUE]
  /\ avail = [t \in Tests |-> FALSE]
  /\ pipeError = {}
  /\ holder = [t \in Tests |-> None]
  /\ fd = [t \in Tests |-> Closed]
  /\ executed = [t \in Tests |-> 0]
  /\ file = [n \in Numbers |-> None]
  /\ stdin = [t \in Tests |-> <<>>] /\ got = [t \in Tests |-> <<>>]
  /\ proc = [t \in Tests |-> "none"]
  /\ term = {} /\ unread = {}
  /\ inherited = [t \in Tests |-> {}]
  /\ queue = {} /\ sem = 1 /\ pass = {} /\ jobs = {}
  /\ writer = [w \in Writers |-> WriterIdle]
  /\ starter = None
  /\ loop = [at |-> "top", test |-> None, todo |-> {}]
  /\ phase = [t \in Tests |-> "new"]
  /\ pids = {}

\* _availFlag: a writer holds it, or InternalLoop, which reads the output.
LockFree(t) == holder[t] = None /\ ~(loop.at = "draining" /\ loop.test = t)

-----------------------------------------------------------------------------
(* The operating system.                                                   *)

Alive   == {t \in Tests : proc[t] = "alive"}
Zombies == {t \in Tests : proc[t] = "zombie"}

Full(t) == Len(stdin[t]) >= Capacity

\* Both ends are open here, or neither is.
Opened == {file[n] : n \in Numbers} \ {None}

\* The processes that were spawned while a pipe was open hold its ends too.
ReadEndOpen(t) == t \in Opened \/ \E u \in Alive : t \in inherited[u]

Put(t, unit) == stdin' = [stdin EXCEPT ![t] = Append(@, unit)]

Reap(t) == proc' = [proc EXCEPT ![t] = IF @ = "zombie" THEN "reaped" ELSE @]

\* GetProcessRunning for the processid of t.  If it is 0, waitpid is called
\* for any child.
GetProcessRunning(t, running) ==
  IF valid[t]
    THEN running = (t \in Alive) /\ Reap(t)
    ELSE \/ \E u \in Zombies : ~running /\ Reap(u)
         \/ /\ Zombies = {} /\ running = (Alive # {})
            /\ UNCHANGED proc

ReadStdin(t) ==
  /\ t \in Alive
  /\ stdin[t] # <<>>
  /\ got' = [got EXCEPT ![t] = Append(@, Head(stdin[t]))]
  /\ stdin' = [stdin EXCEPT ![t] = Tail(@)]
  /\ UNCHANGED <<course, objectVars, file, unread, proc, term, inherited, queueVars,
                 writer, handlerVars>>

WriteOutput(t) ==
  /\ course.talks
  /\ t \in Alive
  /\ unread' = unread \cup {t}
  /\ UNCHANGED <<course, objectVars, file, stdin, got, proc, term, inherited, queueVars,
                 writer, handlerVars>>

Exit(t) ==
  /\ t \in Alive
  /\ proc' = [proc EXCEPT ![t] = "zombie"]
  /\ UNCHANGED <<course, objectVars, file, stdin, got, unread, term, inherited,
                 queueVars, writer, handlerVars>>

-----------------------------------------------------------------------------
(* TestStarter, and the tasks that prepare tests.                          *)

\* Init: the system gives out the lowest number that is free.
PrepareForExecution(t) ==
  /\ phase[t] = "new"
  /\ phase' = [phase EXCEPT ![t] = "prepared"]
  /\ LET free == {n \in Numbers : file[n] = None}
         n    == CHOOSE m \in free : \A k \in free : m <= k
     IN  /\ file' = [file EXCEPT ![n] = t]
         /\ fd' = [fd EXCEPT ![t] = n]
  /\ avail' = [avail EXCEPT ![t] = TRUE]
  /\ UNCHANGED <<course, valid, pipeError, holder, executed, stdin, got, unread, proc,
                 term, inherited, queueVars, writer, starter, loop, pids>>

\* InValidate takes no lock; what other threads do between its assignments
\* they can also do between looking at the number and using it.
InValidate(t) ==
  /\ valid' = [valid EXCEPT ![t] = FALSE]
  /\ file' = [file EXCEPT ![fd[t]] = None]
  /\ fd' = [fd EXCEPT ![t] = Closed]
  /\ phase' = [phase EXCEPT ![t] = "stopped"]

\* StartTest, of an input that ran before or whose process cannot be spawned.
DropTest(t) ==
  /\ starter = None
  /\ phase[t] = "prepared"
  /\ InValidate(t)
  /\ UNCHANGED <<course, avail, pipeError, holder, executed, stdin, got, unread, proc,
                 term, inherited, queueVars, writer, starter, loop, pids>>

\* StartPUTProcess.  The pipes are inherited by every process, not only by
\* that of their test.
StartPUTProcess(t) ==
  /\ starter = None
  /\ phase[t] = "prepared"
  /\ phase' = [phase EXCEPT ![t] = "starting"]
  /\ proc' = [proc EXCEPT ![t] = "alive"]
  /\ inherited' = [inherited EXCEPT ![t] = Opened]
  /\ starter' = t
  /\ UNCHANGED <<course, objectVars, file, stdin, got, unread, term, queueVars, writer,
                 loop, pids>>

\* Mutant of WriteInput: the result of write is not looked at.
WriteUnchecked(t) ==
  /\ LockFree(t)
  /\ Reap(t)
  /\ IF avail[t] /\ t \in Alive /\ ~Full(t)
       THEN Put(t, <<t, executed[t] + 1>>) /\ UNCHANGED avail
       ELSE /\ avail' = IF t \in Alive THEN avail ELSE [avail EXCEPT ![t] = FALSE]
            /\ UNCHANGED stdin
  /\ executed' = [executed EXCEPT ![t] = @ + 1]

\* WriteInput of one fragment, which fits into the pipe: it is written if the
\* process runs and the pipe is not full.
WriteInput(t) ==
  /\ LockFree(t)
  /\ Reap(t)
  /\ IF avail[t] /\ t \in Alive /\ ~Full(t)
       THEN /\ Put(t, <<t, executed[t] + 1>>)
            /\ executed' = [executed EXCEPT ![t] = @ + 1]
            /\ UNCHANGED avail
       ELSE /\ avail' = IF t \in Alive THEN avail ELSE [avail EXCEPT ![t] = FALSE]
            /\ UNCHANGED <<stdin, executed>>

\* The first fragment, an entry of the queue of writes, or a task; then the
\* test is listed for InternalLoop.
GiveInput ==
  /\ starter # None
  /\ \/ /\ course.kind = "fragments"
        /\ WriteInput(starter)
        /\ UNCHANGED <<queue, jobs>>
     \/ /\ course.kind = "stdin"
        /\ sem = 1
        /\ queue' = queue \cup {starter}
        /\ UNCHANGED <<jobs, stdin, executed, avail, proc>>
     \/ /\ course.kind = "script"
        /\ jobs' = jobs \cup {starter}
        /\ UNCHANGED <<queue, stdin, executed, avail, proc>>
  /\ phase' = [phase EXCEPT ![starter] = "running"]
  /\ starter' = None
  /\ UNCHANGED <<course, valid, pipeError, holder, fd, file, got, unread, term,
                 inherited, sem, pass, writer, loop, pids>>

-----------------------------------------------------------------------------
(* The writers: the detached thread of PerformWritesInternal, or threads   *)
(* of the pool that run WriteTestInputCallback.  Both call Test::Write.    *)

WriterGoes(w, at) == writer' = [writer EXCEPT ![w].at = at]

TakeJob(w, t) ==
  /\ writer[w].at = "idle"
  /\ t \in jobs
  /\ jobs' = jobs \ {t}
  /\ writer' = [writer EXCEPT ![w] = [WriterIdle EXCEPT !.at = "entering", !.test = t]]
  /\ UNCHANGED <<course, objectVars, systemVars, queue, sem, pass, handlerVars>>

\* Mutant of NextEntry: the semaphore is not released.
NextEntryKeepsSem(w) ==
  /\ writer[w].at = "next"
  /\ IF pass = {}
       THEN writer' = [writer EXCEPT ![w] = WriterIdle] /\ UNCHANGED <<queue, pass>>
       ELSE \E t \in pass :
              /\ pass' = pass \ {t}
              /\ IF valid[t]
                   THEN /\ writer' = [writer EXCEPT ![w].at = "asking", ![w].test = t]
                        /\ UNCHANGED queue
                   ELSE /\ queue' = queue \ {t}
                        /\ UNCHANGED writer
  /\ UNCHANGED <<course, objectVars, systemVars, sem, jobs, handlerVars>>

\* The next entry.  That of a test that is not valid is erased.
NextEntry(w) ==
  /\ writer[w].at = "next"
  /\ IF pass = {}
       THEN /\ sem' = 1
            /\ writer' = [writer EXCEPT ![w] = WriterIdle]
            /\ UNCHANGED <<queue, pass>>
       ELSE \E t \in pass :
              /\ pass' = pass \ {t}
              /\ IF valid[t]
                   THEN /\ writer' = [writer EXCEPT ![w].at = "asking", ![w].test = t]
                        /\ UNCHANGED queue
                   ELSE /\ queue' = queue \ {t}
                        /\ UNCHANGED writer
              /\ UNCHANGED sem
  /\ UNCHANGED <<course, objectVars, systemVars, jobs, handlerVars>>

\* IsRunning.
AskRunning(w) ==
  LET t == writer[w].test IN
  /\ writer[w].at = "asking"
  /\ LockFree(t)
  /\ \E running \in BOOLEAN :
       /\ GetProcessRunning(t, running)
       /\ IF running
            THEN WriterGoes(w, "entering") /\ UNCHANGED <<avail, queue>>
            ELSE /\ avail' = [avail EXCEPT ![t] = FALSE]
                 /\ queue' = queue \ {t}
                 /\ WriterGoes(w, "next")
  /\ UNCHANGED <<course, valid, pipeError, holder, fd, executed, file, stdin, got,
                 unread, term, inherited, sem, pass, jobs, handlerVars>>

\* Mutant of Return: an entry that was written stays.
ReturnKeepsEntry(w, ended) ==
  LET t == writer[w].test IN
  /\ holder' = [holder EXCEPT ![t] = IF @ = w THEN None ELSE @]
  /\ UNCHANGED queue
  /\ writer' = [writer EXCEPT ![w] =
       IF course.kind = "stdin" THEN [WriterIdle EXCEPT !.at = "next"] ELSE WriterIdle]

\* What the callers make of the result of Write: an entry is erased unless it
\* is still to be written, a task ends.
Return(w, ended) ==
  LET t == writer[w].test IN
  /\ holder' = [holder EXCEPT ![t] = IF @ = w THEN None ELSE @]
  /\ queue' = IF ended THEN queue \ {t} ELSE queue
  /\ writer' = [writer EXCEPT ![w] =
       IF course.kind = "stdin" THEN [WriterIdle EXCEPT !.at = "next"] ELSE WriterIdle]

\* Write: _valid is read before _availFlag is taken.
EnterWrite(w) ==
  LET t == writer[w].test IN
  /\ writer[w].at = "entering"
  /\ valid[t] => LockFree(t)
  /\ IF valid[t] /\ avail[t]
       THEN /\ holder' = [holder EXCEPT ![t] = w]
            /\ WriterGoes(w, "polling")
            /\ UNCHANGED queue
       ELSE Return(w, FALSE)
  /\ UNCHANGED <<course, valid, avail, pipeError, fd, executed, systemVars, sem, pass,
                 jobs, handlerVars>>

\* poll ignores a number of -1, and reports one that is closed.  If there is
\* room, the number is given to write.
Poll(w) ==
  LET t == writer[w].test
      n == fd[t]
  IN
  /\ writer[w].at = "polling"
  /\ IF n = Closed \/ (file[n] # None /\ ReadEndOpen(file[n]) /\ Full(file[n]))
       THEN Return(w, FALSE) /\ UNCHANGED pipeError
     ELSE IF file[n] = None \/ ~ReadEndOpen(file[n])
       THEN Return(w, TRUE) /\ pipeError' = pipeError \cup {t}
     ELSE /\ writer' = [writer EXCEPT ![w].at = "calling", ![w].to = n]
          /\ UNCHANGED <<pipeError, holder, queue>>
  /\ UNCHANGED <<course, valid, avail, fd, executed, systemVars, sem, pass, jobs,
                 handlerVars>>

\* write: the number may mean another pipe by now, or none.
CallWrite(w) ==
  LET n == writer[w].to IN
  /\ writer[w].at = "calling"
  /\ IF file[n] = None
       THEN Return(w, TRUE)
       ELSE /\ writer' = [writer EXCEPT ![w].at = "writing", ![w].to = file[n]]
            /\ UNCHANGED <<holder, queue>>
  /\ UNCHANGED <<course, valid, avail, pipeError, fd, executed, systemVars, sem, pass,
                 jobs, handlerVars>>

\* A unit is put into the pipe, when there is room.
PutUnit(w) ==
  LET t == writer[w].test
      n == writer[w].sent + 1
  IN
  /\ writer[w].at = "writing"
  /\ ReadEndOpen(writer[w].to) /\ ~Full(writer[w].to)
  /\ Put(writer[w].to, <<t, n>>)
  /\ IF n = Size(t)
       THEN Return(w, TRUE)
       ELSE writer' = [writer EXCEPT ![w].sent = n] /\ UNCHANGED <<holder, queue>>
  /\ UNCHANGED <<course, valid, avail, pipeError, fd, executed, file, got, unread, proc,
                 term, inherited, sem, pass, jobs, handlerVars>>

\* Nobody can read any more: EPIPE, if nothing was written.
BreakPipe(w) ==
  LET first == writer[w].sent = 0 IN
  /\ writer[w].at = "writing"
  /\ ~ReadEndOpen(writer[w].to)
  /\ pipeError' = IF first THEN pipeError \cup {writer[w].test} ELSE pipeError
  /\ Return(w, first)
  /\ UNCHANGED <<course, valid, avail, fd, executed, systemVars, sem, pass, jobs,
                 handlerVars>>

WriterStep(w) ==
  \/ \E t \in jobs : TakeJob(w, t)
  \/ NextEntry(w) \/ AskRunning(w) \/ EnterWrite(w) \/ Poll(w)
  \/ CallWrite(w) \/ PutUnit(w) \/ BreakPipe(w)

-----------------------------------------------------------------------------
(* InternalLoop, for the tests that are listed.                            *)

LoopGoes(from, to) == loop.at = from /\ loop' = [loop EXCEPT !.at = to]

\* PerformWrites: a thread is detached unless one is at work.
BeginRound ==
  /\ loop.at = "top"
  /\ loop' = [loop EXCEPT !.at = "next", !.todo = {t \in Tests : phase[t] = "running"}]
  /\ IF sem = 1 /\ queue # {}
       THEN /\ sem' = 0
            /\ pass' = queue
            /\ writer' = [writer EXCEPT ![CHOOSE w \in Writers : TRUE].at = "next"]
       ELSE UNCHANGED <<sem, pass, writer>>
  /\ UNCHANGED <<course, objectVars, systemVars, queue, jobs, starter, phase, pids>>

\* A test whose pipe is broken is killed.
HandleNext ==
  /\ loop.at = "next"
  /\ IF loop.todo = {}
       THEN loop' = [loop EXCEPT !.at = "top", !.test = None] /\ UNCHANGED term
       ELSE \E t \in loop.todo :
              /\ loop' = [at |-> IF t \in pipeError THEN "stopping" ELSE "reading",
                          test |-> t, todo |-> loop.todo \ {t}]
              /\ term' = IF t \in pipeError THEN term \cup {t} ELSE term
  /\ UNCHANGED <<course, objectVars, file, stdin, got, unread, proc, inherited,
                 queueVars, writer, starter, phase, pids>>

\* ReadOutput: if _avail is set, the loop keeps _availFlag until it has found
\* the pipe empty.
BeginReading ==
  LET t == loop.test IN
  /\ LoopGoes("reading", IF avail[t] THEN "draining" ELSE "asking")
  /\ LockFree(t)
  /\ UNCHANGED <<course, objectVars, systemVars, queueVars, writer, starter, phase, pids>>

\* What the pipe holds is read; the process may write more before the next poll.
ReadSome ==
  /\ loop.at = "draining"
  /\ loop.test \in unread
  /\ unread' = unread \ {loop.test}
  /\ UNCHANGED <<course, objectVars, file, stdin, got, proc, term, inherited, queueVars,
                 writer, handlerVars>>

EndReading ==
  /\ LoopGoes("draining", "asking")
  /\ loop.test \notin unread
  /\ UNCHANGED <<course, objectVars, systemVars, queueVars, writer, starter, phase, pids>>

IsRunning ==
  LET t == loop.test IN
  /\ LoopGoes("asking", IF t \in Alive THEN "checking" ELSE "stopping")
  /\ LockFree(t)
  /\ Reap(t)
  /\ avail' = IF t \in Alive THEN avail ELSE [avail EXCEPT ![t] = FALSE]
  /\ UNCHANGED <<course, valid, pipeError, holder, fd, executed, file, stdin, got, unread,
                 term, inherited, queueVars, writer, starter, phase, pids>>

\* Mutant of CheckTest: timeouts are not applied.
CheckTestNever(up) ==
  LET t == loop.test IN
  /\ LoopGoes("checking", "next")
  /\ LockFree(t)
  /\ IF course.kind = "fragments" /\ avail[t] /\ stdin[t] = <<>> /\ executed[t] < Size(t)
       THEN WriteInput(t)
       ELSE UNCHANGED <<proc, stdin, executed, avail>>
  /\ UNCHANGED <<course, valid, pipeError, holder, fd, file, got, unread, term, inherited,
                 queueVars, writer, starter, phase, pids>>

\* CheckInput and WriteNext: when the last fragment was read, the next is
\* written.  Then the time of the test may be up, or the last fragment may have
\* been read too long ago, or its memory may be used up.
CheckTest(up) ==
  LET t == loop.test IN
  /\ LoopGoes("checking", IF up THEN "stopping" ELSE "next")
  /\ LockFree(t)
  /\ IF course.kind = "fragments" /\ avail[t] /\ stdin[t] = <<>> /\ executed[t] < Size(t)
       THEN WriteInput(t)
       ELSE UNCHANGED <<proc, stdin, executed, avail>>
  /\ term' = IF up THEN term \cup {t} ELSE term
  /\ UNCHANGED <<course, valid, pipeError, holder, fd, file, got, unread, inherited,
                 queueVars, writer, starter, phase, pids>>

\* Mutant of StopTest: the process is not given to TestWaiter.
StopAndForget ==
  LET t == loop.test IN
  /\ LoopGoes("stopping", "next")
  /\ Reap(t)
  /\ term' = IF t \in Alive THEN term \cup {t} ELSE term
  /\ InValidate(t)
  /\ UNCHANGED <<course, avail, pipeError, holder, executed, stdin, got, unread,
                 inherited, queueVars, writer, starter, pids>>

\* StopTest: WaitAndKillProcess, and InValidate.  A process that was killed is
\* waited for by TestWaiter.
StopTest ==
  LET t == loop.test IN
  /\ LoopGoes("stopping", "next")
  /\ Reap(t)
  /\ term' = IF t \in Alive THEN term \cup {t} ELSE term
  /\ pids' = IF t \in Alive THEN pids \cup {t} ELSE pids
  /\ InValidate(t)
  /\ UNCHANGED <<course, avail, pipeError, holder, executed, stdin, got, unread,
                 inherited, queueVars, writer, starter>>

LoopStep ==
  \/ BeginRound \/ HandleNext \/ BeginReading \/ ReadSome \/ EndReading \/ IsRunning
  \/ \E up \in BOOLEAN : CheckTest(up)
  \/ StopTest

\* TestWaiter.
WaitProcess(t) ==
  /\ t \in pids \ Alive
  /\ Reap(t)
  /\ pids' = pids \ {t}
  /\ UNCHANGED <<course, objectVars, file, stdin, got, unread, term, inherited, queueVars,
                 writer, starter, loop, phase>>

-----------------------------------------------------------------------------

StarterStep ==
  \/ \E t \in Tests : DropTest(t) \/ StartPUTProcess(t)
  \/ GiveInput

Next ==
  \/ \E t \in Tests : ReadStdin(t) \/ WriteOutput(t) \/ Exit(t)
  \/ \E t \in Tests : PrepareForExecution(t) \/ WaitProcess(t)
  \/ StarterStep
  \/ \E w \in Writers : WriterStep(w)
  \/ LoopStep

\* Every thread runs, and time passes: a test is not found within its time for
\* ever.  A process need not do anything but end when it is killed.
Fairness ==
  /\ WF_vars(StarterStep) /\ WF_vars(LoopStep)
  /\ \A w \in Writers : WF_vars(WriterStep(w))
  /\ \A t \in Tests : /\ WF_vars(WaitProcess(t))
                      /\ SF_vars(loop.test = t /\ CheckTest(TRUE))
                      /\ WF_vars(t \in term /\ Exit(t))

Safety == Init /\ [][Next]_vars
Spec   == Safety /\ Fairness

-----------------------------------------------------------------------------
(* Properties.                                                             *)

Units == UNION {{t} \X (1 .. Size(t)) : t \in Tests}

ObjectTypes ==
  /\ valid \in [Tests -> BOOLEAN] /\ avail \in [Tests -> BOOLEAN]
  /\ pipeError \subseteq Tests
  /\ holder \in [Tests -> Writers \cup {None}]
  /\ fd \in [Tests -> Numbers \cup {Closed}]
  /\ executed \in [Tests -> Nat] /\ \A t \in Tests : executed[t] <= Size(t)

SystemTypes ==
  /\ file \in [Numbers -> Tests \cup {None}]
  /\ got \in [Tests -> Seq(Units)]
  /\ stdin \in [Tests -> Seq(Units)] /\ \A t \in Tests : Len(stdin[t]) <= Capacity
  /\ unread \subseteq Tests /\ term \subseteq Tests
  /\ proc \in [Tests -> {"none", "alive", "zombie", "reaped"}]
  /\ inherited \in [Tests -> SUBSET Tests]

QueueTypes ==
  /\ queue \subseteq Tests /\ pass \subseteq Tests /\ jobs \subseteq Tests
  /\ sem = IF course.kind = "stdin" /\ \E w \in Writers : writer[w].at # "idle" THEN 0 ELSE 1
  /\ \A w \in Writers : /\ writer[w].at \in {"idle", "next", "asking", "entering",
                                             "polling", "calling", "writing"}
                        /\ writer[w].test \in Tests \cup {None}
                        /\ writer[w].to \in Tests \cup Numbers \cup {None}

HandlerTypes ==
  /\ starter \in Tests \cup {None}
  /\ loop.at \in {"top", "next", "reading", "draining", "asking", "checking",
                 "stopping"}
  /\ loop.todo \subseteq Tests
  /\ phase \in [Tests -> {"new", "prepared", "starting", "running", "stopped"}]
  /\ pids \subseteq Tests

\* Every variable has its type; in particular the binary semaphore, which one
\* thread takes and another one gives back, is never given back twice.
TypeOK ==
  course \in Courses /\ ObjectTypes /\ SystemTypes /\ QueueTypes /\ HandlerTypes

\* The units a process was given, or is to read.
Given(t) == got[t] \o stdin[t]

\* The places of the units of u in a stream.
PlacesOf(s, u) == {i \in DOMAIN s : s[i][1] = u}

Numbered(s, u) ==
  \A i \in PlacesOf(s, u) : s[i][2] = Cardinality({j \in PlacesOf(s, u) : j <= i})

\* A process is given the input of its test in order and nothing of it twice,
\* although the entry of the queue is visited in many rounds; as long as a test
\* is valid, its input goes to no other process; and the input of a test that
\* was stopped is trimmed to the fragments that its process was given
\* (ExecutionHandler.cpp:566), no more and no less.
InputInOrder ==
  \A t, u \in Tests :
    /\ Numbered(Given(t), u)
    /\ t # u /\ valid[u] => PlacesOf(Given(t), u) = {}
    /\ course.kind = "fragments" /\ phase[t] = "stopped" =>
         executed[t] = Cardinality(PlacesOf(Given(t), t))

\* If the inputs fit into a pipe, or are given by fragments, every test that is
\* prepared is stopped, at the latest after its timeout, and its process is
\* waited for, even if it neither reads its input nor ends, and wherever the
\* writers are: provided that no process writes output so fast and so long that
\* the loop never finds its pipe empty, as it looks at no timeout meanwhile
\* (Test.cpp:496-515).
InputsFit ==
  course.kind = "fragments" \/ FoldFunction(+, 0, course.size) <= Capacity

OutputPauses == []<>(loop.at # "draining")

EveryTestEnds ==
  InputsFit /\ OutputPauses =>
    \A t \in Tests :
      phase[t] = "prepared" ~> phase[t] = "stopped" /\ proc[t] \in {"none", "reaped"}
=============================================================================
