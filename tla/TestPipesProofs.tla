-------------------------- MODULE TestPipesProofs --------------------------
(***************************************************************************)
(* Theorems about the pipes of tests: for any number of tests, writers and *)
(* units, the semaphore of the writes is never given back twice, and a     *)
(* process is given the input of its test in order and nothing twice.      *)
(***************************************************************************)
EXTENDS TestPipes, SequenceFacts

Chosen == CHOOSE w \in Writers : TRUE

Active(w)  == writer[w].at \in {"asking", "entering", "polling", "calling", "writing"}
Writing(w) == writer[w].at = "writing"
Early(t)   == phase[t] \in {"new", "prepared", "starting"}

\* The records, and what they hold.
IsWriter(r) ==
  /\ r = [at |-> r.at, test |-> r.test, to |-> r.to, sent |-> r.sent]
  /\ r.at \in {"idle", "next", "asking", "entering", "polling", "calling", "writing"}
  /\ r.test \in Tests \cup {None} /\ r.to \in Tests \cup Numbers \cup {None}
  /\ r.sent \in Nat
  /\ r.at \in {"asking", "entering", "polling", "calling", "writing"} => r.test \in Tests
  /\ r.at # "writing" => r.sent = 0
  /\ r.at = "calling" => r.to \in Numbers
  /\ r.at = "writing" => r.to \in Tests /\ r.sent < Size(r.test)

\* The number of a pipe is used by one test, from when it is prepared until it is
\* stopped.
NumberInv ==
  /\ \A t \in Tests : /\ valid[t] = (phase[t] # "stopped")
                      /\ fd[t] # Closed <=> phase[t] \in {"prepared", "starting", "running"}
                      /\ fd[t] # Closed => file[fd[t]] = t
  /\ \A n \in Numbers : file[n] # None => fd[file[n]] = n

\* Who works on which test.
ThreadInv ==
  /\ starter # None => phase[starter] = "starting"
  /\ loop = [at |-> loop.at, test |-> loop.test, todo |-> loop.todo]
  /\ loop.at # "top" => \A t \in loop.todo : phase[t] = "running"
  /\ loop.at \notin {"top", "next"} => /\ loop.test \in Tests \ loop.todo
                                       /\ phase[loop.test] = "running"
  /\ \A w \in Writers : IsWriter(writer[w])
  /\ writer \in [Writers -> {writer[w] : w \in Writers}]

\* There is one thread of PerformWritesInternal; a task is taken once.
WriterInv ==
  /\ course.kind = "stdin" =>
       /\ jobs = {}
       /\ \A w \in Writers \ {Chosen} : writer[w].at = "idle"
       /\ pass \subseteq queue
       /\ pass # {} => writer[Chosen].at # "idle"
       /\ Active(Chosen) => writer[Chosen].test \in queue \ pass
  /\ course.kind = "script" =>
       /\ queue = {} /\ pass = {}
       /\ \A w \in Writers : writer[w].at \notin {"next", "asking"}
       /\ \A w \in Writers : Active(w) => writer[w].test \notin jobs
       /\ \A v, w \in Writers :
            Active(v) /\ Active(w) /\ writer[v].test = writer[w].test => v = w
  /\ course.kind = "fragments" =>
       /\ queue = {} /\ pass = {} /\ jobs = {}
       /\ \A w \in Writers : writer[w].at = "idle"
  /\ \A t \in Tests : Early(t) => /\ t \notin queue \cup jobs /\ executed[t] = 0
                                  /\ \A w \in Writers : Active(w) => writer[w].test # t

UnitsOf(u, t) == PlacesOf(Given(t), u)

\* Nothing of the input of u was written anywhere.
Fresh(u) == \A t \in Tests : UnitsOf(u, t) = {}

Count(u, t) == Cardinality(UnitsOf(u, t))

InOrder(u, t) == Numbered(Given(t), u)

\* What a writer has still to do with the input of its test.
WriterUnits(w) ==
  LET u == writer[w].test
      x == writer[w].to
  IN  /\ course.kind = "script" /\ writer[w].at = "entering" => Fresh(u)
      /\ writer[w].at \in {"polling", "calling"} => Fresh(u)
      /\ writer[w].at = "calling" /\ valid[u] => fd[u] = x
      /\ writer[w].at = "writing" =>
           /\ Count(u, x) = writer[w].sent
           /\ \A t \in Tests \ {x} : UnitsOf(u, t) = {}
           /\ x # u => ~valid[u]

OrderInv ==
  \A t, u \in Tests : InOrder(u, t) /\ (t # u /\ valid[u] => UnitsOf(u, t) = {})

\* What is to be written has not been written.
FreshInv ==
  /\ \A u \in Tests : Early(u) \/ u \in jobs => Fresh(u)
  /\ \A u \in queue :
       valid[u] /\ (\A w \in Writers : ~(Writing(w) /\ writer[w].test = u)) => Fresh(u)

UnitInv ==
  /\ OrderInv /\ FreshInv
  /\ course.kind = "fragments" => \A t \in Tests : executed[t] = Count(t, t)
  /\ \A w \in Writers : WriterUnits(w)

PipesInv == TypeOK /\ NumberInv /\ ThreadInv /\ WriterInv /\ UnitInv

-----------------------------------------------------------------------------
(* The units of one test in a stream.                                      *)

LEMMA AppendPlaces ==
  ASSUME NEW S, NEW s \in Seq(S), NEW e \in S, NEW u
  PROVE  /\ IsFiniteSet(PlacesOf(s, u)) /\ Cardinality(PlacesOf(s, u)) \in Nat
         /\ e[1] # u => PlacesOf(Append(s, e), u) = PlacesOf(s, u)
         /\ e[1] = u => Cardinality(PlacesOf(Append(s, e), u)) = Cardinality(PlacesOf(s, u)) + 1
         /\ /\ Numbered(s, u)
            /\ e[1] = u => e[2] = Cardinality(PlacesOf(s, u)) + 1
            => Numbered(Append(s, e), u)
<1> DEFINE r == Append(s, e)
           P == PlacesOf(s, u)
           n == Len(s) + 1
<1>1. /\ r \in Seq(S) /\ DOMAIN s = 1 .. Len(s) /\ DOMAIN r = 1 .. n /\ n \in Nat
      /\ \A i \in 1 .. Len(s) : r[i] = s[i]
      /\ r[n] = e
  OBVIOUS
<1>2. P \subseteq 1 .. Len(s) /\ Len(s) \in Nat /\ n \notin P
  BY DEF PlacesOf
<1>3. IsFiniteSet(P) /\ Cardinality(P) \in Nat
  BY <1>2, FS_Interval, FS_Subset, FS_CardinalityType, 1 \in Int, Len(s) \in Int
<1>4. PlacesOf(r, u) = IF e[1] = u THEN P \cup {n} ELSE P
  BY <1>1 DEF PlacesOf
<1>5. Cardinality(P \cup {n}) = Cardinality(P) + 1
  BY <1>2, <1>3, FS_AddElement
<1> HIDE DEF r, P, n
<1>6. ASSUME Numbered(s, u), e[1] = u => e[2] = Cardinality(P) + 1, NEW i \in PlacesOf(r, u)
      PROVE  r[i][2] = Cardinality({j \in PlacesOf(r, u) : j <= i})
  <2>1. CASE i \in P
    <3>1. {j \in PlacesOf(r, u) : j <= i} = {j \in P : j <= i}
      BY <1>2, <1>4, <2>1 DEF n
    <3>2. r[i] = s[i]
      BY <1>1, <1>2, <2>1
    <3> QED BY <1>6, <2>1, <3>1, <3>2 DEF Numbered, P
  <2>2. CASE i \notin P
    <3>1. i = n /\ e[1] = u
      BY <1>4, <1>6, <2>2
    <3>2. {j \in PlacesOf(r, u) : j <= i} = P \cup {n}
      <4>1. \A j \in P \cup {n} : j <= n
        BY <1>2 DEF n
      <4> QED BY <1>4, <3>1, <4>1
    <3> QED BY <1>1, <1>5, <1>6, <3>1, <3>2
  <2> QED BY <2>1, <2>2
<1>7. /\ Numbered(s, u)
      /\ e[1] = u => e[2] = Cardinality(P) + 1
      => Numbered(r, u)
  BY <1>6 DEF Numbered
<1> QED BY <1>3, <1>4, <1>5, <1>7 DEF P, r

\* What is written comes last.
LEMMA WriteUnit ==
  ASSUME NEW S, NEW s \in Seq(S), NEW r \in Seq(S), NEW e \in S
  PROVE  s \o Append(r, e) = Append(s \o r, e)
  OBVIOUS

\* Reading moves a unit, and changes nothing of what a process was given.
LEMMA MoveUnit ==
  ASSUME NEW S, NEW s \in Seq(S), NEW r \in Seq(S), r # <<>>
  PROVE  Append(s, Head(r)) \o Tail(r) = s \o r
  OBVIOUS
-----------------------------------------------------------------------------
(* How the streams change.                                                 *)

LEMMA StreamType ==
  ASSUME TypeOK, NEW t \in Tests
  PROVE  /\ Given(t) \in Seq(Units) /\ stdin[t] \in Seq(Units) /\ got[t] \in Seq(Units)
         /\ \A u : /\ UnitsOf(u, t) = PlacesOf(Given(t), u)
                   /\ InOrder(u, t) = Numbered(Given(t), u)
                   /\ Count(u, t) \in Nat /\ IsFiniteSet(UnitsOf(u, t))
<1>1. stdin[t] \in Seq(Units) /\ got[t] \in Seq(Units)
  BY DEF TypeOK, ObjectTypes, SystemTypes, QueueTypes, HandlerTypes
<1>2. Given(t) \in Seq(Units)
  BY <1>1 DEF Given
<1>3. \A u : UnitsOf(u, t) = PlacesOf(Given(t), u)
  BY DEF UnitsOf
<1>4. \A u : InOrder(u, t) = Numbered(Given(t), u)
  BY DEF InOrder
<1>5. ASSUME NEW u PROVE Count(u, t) \in Nat /\ IsFiniteSet(UnitsOf(u, t))
  <2>1. UnitsOf(u, t) \subseteq 1 .. Len(Given(t)) /\ Len(Given(t)) \in Nat
    BY <1>2 DEF UnitsOf, PlacesOf
  <2>2. 1 \in Int /\ Len(Given(t)) \in Int
    BY <2>1
  <2> HIDE DEF Given, UnitsOf
  <2> QED BY <2>1, <2>2, FS_Interval, FS_Subset, FS_CardinalityType DEF Count
<1> QED BY <1>1, <1>2, <1>3, <1>4, <1>5

\* Nothing is written to a pipe.
SameUnits == \A t \in Tests : Given(t)' = Given(t)

LEMMA SameCounts ==
  ASSUME SameUnits
  PROVE  /\ \A u : \A t \in Tests : /\ UnitsOf(u, t)' = UnitsOf(u, t)
                                    /\ InOrder(u, t)' = InOrder(u, t)
                                    /\ Count(u, t)' = Count(u, t)
         /\ \A u : Fresh(u)' = Fresh(u)
<1>1. \A u : \A t \in Tests : UnitsOf(u, t)' = UnitsOf(u, t)
  BY DEF SameUnits, UnitsOf
<1>2. \A u : \A t \in Tests : InOrder(u, t)' = InOrder(u, t) /\ Count(u, t)' = Count(u, t)
  BY <1>1 DEF SameUnits, InOrder, Count
<1>3. \A u : Fresh(u)' = Fresh(u)
  BY <1>1 DEF Fresh
<1> QED BY <1>1, <1>2, <1>3

\* A unit is put into the pipe of x.
LEMMA OneMoreUnit ==
  ASSUME TypeOK, NEW x \in Tests, NEW unit \in Units, Put(x, unit), got' = got
  PROVE  /\ \A t \in Tests \ {x} : \A u : /\ UnitsOf(u, t)' = UnitsOf(u, t)
                                          /\ InOrder(u, t)' = InOrder(u, t)
                                          /\ Count(u, t)' = Count(u, t)
         /\ \A u : unit[1] # u => /\ UnitsOf(u, x)' = UnitsOf(u, x)
                                  /\ Count(u, x)' = Count(u, x)
         /\ Count(unit[1], x)' = Count(unit[1], x) + 1
         /\ \A u : InOrder(u, x) /\ (unit[1] = u => unit[2] = Count(u, x) + 1)
                     => InOrder(u, x)'
         /\ stdin' \in [Tests -> Seq(Units)]
         /\ \A t \in Tests \ {x} : stdin'[t] = stdin[t]
         /\ Len(stdin'[x]) = Len(stdin[x]) + 1
<1>1. /\ stdin' \in [Tests -> Seq(Units)]
      /\ stdin'[x] = Append(stdin[x], unit)
      /\ \A t \in Tests \ {x} : stdin'[t] = stdin[t]
  BY DEF Put, TypeOK, ObjectTypes, SystemTypes, QueueTypes, HandlerTypes
<1>2. Given(x)' = Append(Given(x), unit)
  <2>1. got[x] \in Seq(Units) /\ stdin[x] \in Seq(Units)
    BY DEF TypeOK, ObjectTypes, SystemTypes, QueueTypes, HandlerTypes
  <2>2. Given(x)' = got[x] \o Append(stdin[x], unit)
    BY <1>1 DEF Given
  <2>3. got[x] \o Append(stdin[x], unit) = Append(got[x] \o stdin[x], unit)
    <3>1. PICK s \in Seq(Units) : s = got[x]
      BY <2>1
    <3>2. PICK r \in Seq(Units) : r = stdin[x]
      BY <2>1
    <3>3. s \o Append(r, unit) = Append(s \o r, unit)
      OBVIOUS
    <3> QED BY <3>1, <3>2, <3>3
  <2> QED BY <2>2, <2>3 DEF Given
<1>3. \A t \in Tests \ {x} : Given(t)' = Given(t)
  BY <1>1 DEF Given
<1>4. \A t \in Tests \ {x} : \A u : /\ UnitsOf(u, t)' = UnitsOf(u, t)
                                    /\ InOrder(u, t)' = InOrder(u, t)
                                    /\ Count(u, t)' = Count(u, t)
  BY <1>3 DEF UnitsOf, InOrder, Count
<1>5. \A u : /\ UnitsOf(u, x)' = PlacesOf(Append(Given(x), unit), u)
             /\ InOrder(u, x)' = Numbered(Append(Given(x), unit), u)
             /\ Count(u, x)' = Cardinality(PlacesOf(Append(Given(x), unit), u))
  BY <1>2 DEF UnitsOf, InOrder, Count
<1>6. /\ Given(x) \in Seq(Units)
      /\ \A u : /\ UnitsOf(u, x) = PlacesOf(Given(x), u)
                /\ InOrder(u, x) = Numbered(Given(x), u)
                /\ Count(u, x) = Cardinality(PlacesOf(Given(x), u))
  BY StreamType DEF Count, UnitsOf, InOrder
<1>7. Len(stdin'[x]) = Len(stdin[x]) + 1
  BY <1>1 DEF TypeOK, ObjectTypes, SystemTypes, QueueTypes, HandlerTypes
<1> QED BY <1>1, <1>4, <1>5, <1>6, <1>7, AppendPlaces

\* What the system does to processes alone.
LEMMA ReapType ==
  ASSUME TypeOK, NEW t \in Tests, Reap(t)
  PROVE  /\ proc' \in [Tests -> {"none", "alive", "zombie", "reaped"}]
         /\ Alive' = Alive
  BY DEF Reap, TypeOK, ObjectTypes, SystemTypes, QueueTypes, HandlerTypes, Alive

LEMMA AskType ==
  ASSUME TypeOK, NEW t \in Tests, NEW running \in BOOLEAN, GetProcessRunning(t, running)
  PROVE  proc' \in [Tests -> {"none", "alive", "zombie", "reaped"}]
<1>1. CASE Reap(t)
  BY <1>1, ReapType
<1>2. CASE \E u \in Zombies : Reap(u)
  BY <1>2, ReapType DEF Zombies
<1>3. CASE UNCHANGED proc
  BY <1>3 DEF TypeOK, ObjectTypes, SystemTypes, QueueTypes, HandlerTypes
<1> QED BY <1>1, <1>2, <1>3 DEF GetProcessRunning
-----------------------------------------------------------------------------
(* What keeps the parts of the invariant.                                  *)

LEMMA SameSizes ==
  ASSUME course' = course
  PROVE  Units' = Units /\ \A t : Size(t)' = Size(t)
  BY DEF Units, Size

LEMMA TypesKept ==
  ASSUME TypeOK, course' = course
  PROVE  /\ (/\ valid' = valid /\ avail' = avail /\ pipeError' = pipeError
             /\ holder' = holder /\ fd' = fd /\ executed' = executed) => ObjectTypes'
         /\ (/\ file' = file /\ got' = got /\ stdin' = stdin /\ unread' = unread
             /\ term' = term /\ proc' = proc /\ inherited' = inherited) => SystemTypes'
         /\ (/\ queue' = queue /\ pass' = pass /\ jobs' = jobs /\ sem' = sem
             /\ writer' = writer) => QueueTypes'
         /\ (/\ starter' = starter /\ loop' = loop /\ phase' = phase
             /\ pids' = pids) => HandlerTypes'
         /\ ObjectTypes' /\ SystemTypes' /\ QueueTypes' /\ HandlerTypes' => TypeOK'
  BY SameSizes DEF TypeOK, ObjectTypes, SystemTypes, QueueTypes, HandlerTypes

LEMMA NumberKept ==
  ASSUME NumberInv, valid' = valid, phase' = phase, fd' = fd, file' = file
  PROVE  NumberInv'
  BY DEF NumberInv

LEMMA ThreadKept ==
  ASSUME ThreadInv, course' = course, starter' = starter, loop' = loop, writer' = writer,
         phase' = phase
  PROVE  ThreadInv'
<1>1. \A w \in Writers : IsWriter(writer[w])'
  BY DEF ThreadInv, IsWriter, Size
<1> QED BY <1>1 DEF ThreadInv

LEMMA WriterKept ==
  ASSUME WriterInv, course' = course, jobs' = jobs, writer' = writer, pass' = pass, queue' = queue,
         \A t \in Tests : Early(t)' => Early(t) /\ executed'[t] = executed[t]
  PROVE  WriterInv'
<1>1. \A w : Active(w)' = Active(w)
  BY DEF Active
<1> QED BY <1>1 DEF WriterInv

LEMMA UnitsKept ==
  ASSUME TypeOK, ThreadInv, UnitInv, SameUnits, course' = course, TypeOK',
         course.kind = "fragments" => executed' = executed,
         \A u \in Tests : (valid'[u] => valid[u]) /\ (Early(u)' => Early(u)),
         \A u \in Tests : valid'[u] /\ fd[u] # Closed => fd'[u] = fd[u],
         \A u \in jobs' : u \in jobs \/ Early(u),
         \A u \in queue' : u \in queue \/ Early(u),
         \A w \in Writers : writer'[w] = writer[w] \/ WriterUnits(w)',
         \A w \in Writers :
           Writing(w) /\ writer[w].test \in queue' /\ valid'[writer[w].test] => writer'[w] = writer[w]
  PROVE  UnitInv'
<1>1. /\ \A u : \A t \in Tests : /\ UnitsOf(u, t)' = UnitsOf(u, t)
                                 /\ InOrder(u, t)' = InOrder(u, t)
                                 /\ Count(u, t)' = Count(u, t)
      /\ \A u : Fresh(u)' = Fresh(u)
  BY SameCounts
<1>2. jobs' \subseteq Tests /\ queue' \subseteq Tests /\ queue \subseteq Tests
  BY DEF TypeOK, ObjectTypes, SystemTypes, QueueTypes, HandlerTypes
<1>3. OrderInv'
  BY <1>1 DEF UnitInv, OrderInv
<1>4. FreshInv'
  <2>1. \A u \in Tests : Early(u)' \/ u \in jobs' => Fresh(u)
    BY <1>2 DEF UnitInv, FreshInv
  <2>2. ASSUME NEW u \in queue', valid'[u],
               \A w \in Writers : ~(Writing(w)' /\ writer'[w].test = u)
        PROVE  Fresh(u)
    <3>1. CASE Early(u)
      BY <3>1, <1>2 DEF UnitInv, FreshInv
    <3>2. CASE u \in queue
      <4>1. \A w \in Writers : ~(Writing(w) /\ writer[w].test = u)
        BY <2>2 DEF Writing
      <4> QED BY <4>1, <3>2, <2>2, <1>2 DEF UnitInv, FreshInv
    <3> QED BY <2>2, <3>1, <3>2
  <2> QED BY <1>1, <2>1, <2>2 DEF FreshInv
<1>5. course'.kind = "fragments" => \A t \in Tests : executed'[t] = Count(t, t)'
  BY <1>1 DEF UnitInv
<1>6. ASSUME NEW w \in Writers, writer'[w] = writer[w] PROVE WriterUnits(w)'
  <2> DEFINE u == writer[w].test
             x == writer[w].to
  <2>1. WriterUnits(w) /\ IsWriter(writer[w]) /\ None \notin Tests
    BY PipesAssumption DEF UnitInv, ThreadInv
  <2>2. writer[w].at \in {"entering", "polling", "calling", "writing"} => u \in Tests
    BY <2>1 DEF IsWriter
  <2>3. writer[w].at = "calling" => x \in Numbers /\ x # Closed
    BY <2>1 DEF IsWriter, Numbers, Closed
  <2>4. writer[w].at = "writing" => x \in Tests
    BY <2>1 DEF IsWriter
  <2>5. writer[w].at = "calling" /\ valid'[u] => fd'[u] = x
    BY <2>1, <2>2, <2>3 DEF WriterUnits
  <2>6. writer[w].at = "writing" /\ x # u => ~valid'[u]
    BY <2>1, <2>2 DEF WriterUnits
  <2> QED BY <1>1, <1>6, <2>1, <2>4, <2>5, <2>6 DEF WriterUnits
<1> QED BY <1>3, <1>4, <1>5, <1>6 DEF UnitInv

\* Steps of the system and of TestWaiter.
LEMMA SystemKept ==
  ASSUME PipesInv, TypeOK', SameUnits, course' = course, valid' = valid, fd' = fd, file' = file,
         phase' = phase, executed' = executed, jobs' = jobs, writer' = writer, pass' = pass,
         queue' = queue, starter' = starter, loop' = loop
  PROVE  PipesInv'
<1>1. \A t \in Tests : Early(t)' = Early(t)
  BY DEF Early
<1>2. UnitInv'
  BY <1>1, UnitsKept DEF PipesInv
<1>3. NumberInv' /\ ThreadInv'
  BY NumberKept, ThreadKept DEF PipesInv
<1>4. WriterInv'
  BY <1>1, WriterKept DEF PipesInv
<1> QED BY <1>2, <1>3, <1>4 DEF PipesInv

LEMMA ReadInv ==
  ASSUME PipesInv, NEW t \in Tests, ReadStdin(t)
  PROVE  PipesInv'
<1>1. /\ course' = course /\ valid' = valid /\ avail' = avail /\ pipeError' = pipeError
      /\ holder' = holder /\ fd' = fd /\ executed' = executed /\ file' = file
      /\ unread' = unread /\ proc' = proc /\ term' = term /\ inherited' = inherited
      /\ queue' = queue /\ sem' = sem /\ pass' = pass /\ jobs' = jobs /\ writer' = writer
      /\ starter' = starter /\ loop' = loop /\ phase' = phase /\ pids' = pids
  BY DEF ReadStdin, objectVars, queueVars, handlerVars
<1>2. /\ stdin[t] \in Seq(Units) /\ got[t] \in Seq(Units) /\ stdin[t] # <<>>
      /\ Len(stdin[t]) <= Capacity /\ Capacity \in Nat
  BY PipesAssumption DEF ReadStdin, PipesInv, TypeOK, ObjectTypes, SystemTypes, QueueTypes, HandlerTypes
<1>3. /\ got'[t] = Append(got[t], Head(stdin[t])) /\ stdin'[t] = Tail(stdin[t])
      /\ \A u \in Tests \ {t} : got'[u] = got[u] /\ stdin'[u] = stdin[u]
      /\ got' = [u \in Tests |-> got'[u]] /\ stdin' = [u \in Tests |-> stdin'[u]]
  BY DEF ReadStdin, PipesInv, TypeOK, ObjectTypes, SystemTypes, QueueTypes, HandlerTypes
<1>4. /\ got'[t] \in Seq(Units) /\ stdin'[t] \in Seq(Units) /\ Len(stdin'[t]) <= Capacity
  BY <1>2, <1>3
<1>5. SameUnits
  <2>1. PICK s \in Seq(Units) : s = got[t]
    BY <1>2
  <2>2. PICK r \in Seq(Units) : r = stdin[t] /\ r # <<>>
    BY <1>2
  <2>3. Append(s, Head(r)) \o Tail(r) = s \o r
    BY <2>2, MoveUnit
  <2>4. Given(t)' = Given(t)
    BY <1>3, <2>1, <2>2, <2>3 DEF Given
  <2>5. \A u \in Tests \ {t} : Given(u)' = Given(u)
    BY <1>3 DEF Given
  <2> QED BY <2>4, <2>5 DEF SameUnits
<1>6. TypeOK'
  <2>1. got' \in [Tests -> Seq(Units)] /\ stdin' \in [Tests -> Seq(Units)]
    BY <1>3, <1>4 DEF PipesInv, TypeOK, SystemTypes
  <2>2. \A u \in Tests : Len(stdin'[u]) <= Capacity
    BY <1>3, <1>4 DEF PipesInv, TypeOK, SystemTypes
  <2>3. SystemTypes'
    BY <1>1, <2>1, <2>2, SameSizes DEF PipesInv, TypeOK, SystemTypes
  <2> QED BY <1>1, <2>3, TypesKept DEF PipesInv
<1> QED BY <1>1, <1>5, <1>6, SystemKept

\* Steps that leave everything alone but some of the state of the system.
LEMMA OtherInv ==
  ASSUME PipesInv,
         UNCHANGED <<course, objectVars, file, stdin, got, inherited, queueVars, writer,
                     starter, loop, phase>>,
         unread' \subseteq Tests, pids' \subseteq Tests, term' \subseteq Tests,
         proc' \in [Tests -> {"none", "alive", "zombie", "reaped"}]
  PROVE  PipesInv'
<1>1. /\ course' = course /\ valid' = valid /\ avail' = avail /\ pipeError' = pipeError
      /\ holder' = holder /\ fd' = fd /\ executed' = executed /\ file' = file
      /\ stdin' = stdin /\ got' = got /\ inherited' = inherited
      /\ queue' = queue /\ sem' = sem /\ pass' = pass /\ jobs' = jobs /\ writer' = writer
      /\ starter' = starter /\ loop' = loop /\ phase' = phase
  BY DEF objectVars, queueVars
<1>2. TypeOK'
  <2>1. SystemTypes' /\ HandlerTypes'
    BY <1>1, SameSizes DEF PipesInv, TypeOK, SystemTypes, HandlerTypes
  <2> QED BY <1>1, <2>1, TypesKept DEF PipesInv
<1>3. SameUnits
  BY <1>1 DEF SameUnits, Given
<1> QED BY <1>1, <1>2, <1>3, SystemKept

LEMMA WriteOutputInv ==
  ASSUME PipesInv, NEW t \in Tests, WriteOutput(t) \/ Exit(t) \/ WaitProcess(t)
  PROVE  PipesInv'
<1>1. TypeOK
  BY DEF PipesInv
<1>2. /\ unread \subseteq Tests /\ pids \subseteq Tests /\ term \subseteq Tests
      /\ proc \in [Tests -> {"none", "alive", "zombie", "reaped"}]
  BY <1>1 DEF TypeOK, ObjectTypes, SystemTypes, QueueTypes, HandlerTypes
<1>3. CASE WriteOutput(t)
  BY <1>2, <1>3, OtherInv DEF WriteOutput, handlerVars
<1>4. CASE Exit(t)
  <2>1. proc' \in [Tests -> {"none", "alive", "zombie", "reaped"}]
    BY <1>2, <1>4 DEF Exit
  <2> QED BY <1>2, <1>4, <2>1, OtherInv DEF Exit, handlerVars
<1>5. CASE WaitProcess(t)
  BY <1>1, <1>2, <1>5, ReapType, OtherInv DEF WaitProcess
<1> QED BY <1>3, <1>4, <1>5
-----------------------------------------------------------------------------
(* TestStarter, and the tasks that prepare tests.                          *)

\* The system has a number left for a test that has none.
LEMMA FreeNumber ==
  ASSUME PipesInv, NEW t \in Tests, phase[t] = "new"
  PROVE  \E m \in Numbers : file[m] = None /\ \A k \in Numbers : file[k] = None => m <= k
<1> DEFINE free == {n \in Numbers : file[n] = None}
<1>1. free # {}
  <2> SUFFICES ASSUME free = {} PROVE FALSE
    OBVIOUS
  <2>1. /\ file \in [Numbers -> Tests \cup {None}] /\ fd[t] = Closed
        /\ \A n \in Numbers : fd[file[n]] = n /\ n # Closed
    <3>1. \A n \in Numbers : file[n] # None /\ n # Closed
      BY DEF Numbers, Closed
    <3> QED BY <3>1 DEF PipesInv, TypeOK, SystemTypes, NumberInv
  <2>2. \A n \in Numbers : file[n] \in Tests \ {t}
    BY <2>1
  <2>3. /\ IsFiniteSet(Tests) /\ Cardinality(Tests) \in Nat
        /\ IsFiniteSet(Tests \ {t}) /\ Cardinality(Tests \ {t}) < Cardinality(Tests)
    <3>1. IsFiniteSet(Tests) /\ Cardinality(Tests) \in Nat
      BY PipesAssumption, FS_CardinalityType
    <3>2. IsFiniteSet(Tests \ {t}) /\ Cardinality(Tests \ {t}) = Cardinality(Tests) - 1
      BY <3>1, FS_RemoveElement
    <3> QED BY <3>1, <3>2
  <2>4. IsFiniteSet(Numbers) /\ Cardinality(Numbers) = Cardinality(Tests)
    BY <2>3, FS_Interval, 1 \in Int, Cardinality(Tests) \in Int DEF Numbers
  <2>5. \E m, n \in Numbers : m # n /\ file[m] = file[n]
    BY <2>1, <2>2, <2>3, <2>4, FS_PigeonHole
  <2> QED BY <2>1, <2>5
<1>2. PICK m \in free : \A k \in free : m <= k
  <2>1. free \subseteq Nat
    BY DEF Numbers
  <2> HIDE DEF free
  <2> QED BY <1>1, <2>1, Least
<1> QED BY <1>2

LEMMA PrepareInv ==
  ASSUME PipesInv, NEW t \in Tests, PrepareForExecution(t)
  PROVE  PipesInv'
<1> DEFINE free == {k \in Numbers : file[k] = None}
<1>1. PICK n : n = CHOOSE m \in free : \A k \in free : m <= k
  OBVIOUS
<1>2. n \in Numbers /\ file[n] = None /\ n # Closed /\ phase[t] = "new"
  BY <1>1, FreeNumber DEF PrepareForExecution, Numbers, Closed
<1>3. /\ course' = course /\ valid' = valid /\ pipeError' = pipeError
      /\ holder' = holder /\ executed' = executed /\ stdin' = stdin /\ got' = got
      /\ unread' = unread /\ proc' = proc /\ term' = term /\ inherited' = inherited
      /\ queue' = queue /\ sem' = sem /\ pass' = pass /\ jobs' = jobs /\ writer' = writer
      /\ starter' = starter /\ loop' = loop /\ pids' = pids
      /\ phase' = [phase EXCEPT ![t] = "prepared"]
      /\ file' = [file EXCEPT ![n] = t] /\ fd' = [fd EXCEPT ![t] = n]
      /\ avail' = [avail EXCEPT ![t] = TRUE]
  BY <1>1 DEF PrepareForExecution, queueVars
<1> HIDE DEF free
<1>4. TypeOK /\ None \notin Tests
  BY PipesAssumption DEF PipesInv
<1>5. /\ phase'[t] = "prepared" /\ fd'[t] = n /\ file'[n] = t
      /\ \A u \in Tests \ {t} : phase'[u] = phase[u] /\ fd'[u] = fd[u]
      /\ \A k \in Numbers \ {n} : file'[k] = file[k]
  BY <1>2, <1>3, <1>4 DEF TypeOK, ObjectTypes, SystemTypes, HandlerTypes
<1>6. TypeOK'
  <2>1. ObjectTypes'
    BY <1>2, <1>3, <1>4, SameSizes DEF TypeOK, ObjectTypes
  <2>2. SystemTypes'
    BY <1>2, <1>3, <1>4, SameSizes DEF TypeOK, SystemTypes
  <2>3. HandlerTypes'
    BY <1>3, <1>4 DEF TypeOK, HandlerTypes
  <2> QED BY <1>3, <1>4, <2>1, <2>2, <2>3, TypesKept
<1>7. NumberInv'
  <2>1. fd[t] = Closed /\ valid'[t] /\ valid[t] = TRUE
    BY <1>2, <1>3, <1>4 DEF PipesInv, NumberInv, TypeOK, ObjectTypes
  <2>2. ASSUME NEW u \in Tests
        PROVE  /\ valid'[u] = (phase'[u] # "stopped")
               /\ fd'[u] # Closed <=> phase'[u] \in {"prepared", "starting", "running"}
               /\ fd'[u] # Closed => file'[fd'[u]] = u
    <3>1. CASE u = t
      BY <3>1, <1>2, <1>3, <1>5, <2>1
    <3>2. CASE u # t
      <4>1. fd[u] # Closed => fd[u] \in Numbers \ {n}
        BY <1>2, <1>4 DEF PipesInv, NumberInv, TypeOK, ObjectTypes
      <4> QED BY <3>2, <4>1, <1>3, <1>5 DEF PipesInv, NumberInv
    <3> QED BY <3>1, <3>2
  <2>3. ASSUME NEW k \in Numbers, file'[k] # None PROVE fd'[file'[k]] = k
    <3>1. CASE k = n
      BY <3>1, <1>5
    <3>2. CASE k # n
      <4>1. file[k] \in Tests /\ fd[file[k]] = k /\ k # Closed
        BY <2>3, <3>2, <1>4, <1>5 DEF PipesInv, NumberInv, TypeOK, SystemTypes, Numbers, Closed
      <4> QED BY <3>2, <4>1, <2>1, <1>5
    <3> QED BY <3>1, <3>2
  <2> QED BY <2>2, <2>3 DEF NumberInv
<1>8. \A u \in Tests : (Early(u)' => Early(u)) /\ (phase[u] \in {"starting", "running"} => phase'[u] = phase[u])
  BY <1>2, <1>5 DEF Early
<1>9. ThreadInv'
  <2>1. \A w \in Writers : IsWriter(writer[w])'
    BY <1>3 DEF PipesInv, ThreadInv, IsWriter, Size
  <2>2. starter' # None => phase'[starter'] = "starting"
    BY <1>3, <1>4, <1>8 DEF PipesInv, ThreadInv, TypeOK, HandlerTypes
  <2>3. /\ loop'.at # "top" => \A u \in loop'.todo : phase'[u] = "running"
        /\ loop'.at \notin {"top", "next"} => /\ loop'.test \in Tests \ loop'.todo
                                              /\ phase'[loop'.test] = "running"
    BY <1>3, <1>4, <1>8 DEF PipesInv, ThreadInv, TypeOK, HandlerTypes
  <2> QED BY <1>3, <2>1, <2>2, <2>3 DEF PipesInv, ThreadInv
<1>10. WriterInv'
  BY <1>3, <1>8, WriterKept DEF PipesInv
<1>11. UnitInv'
  <2>1. SameUnits
    BY <1>3 DEF SameUnits, Given
  <2>2. \A u \in Tests : valid'[u] /\ fd[u] # Closed => fd'[u] = fd[u]
    BY <1>2, <1>5 DEF PipesInv, NumberInv
  <2> QED BY <1>3, <1>6, <1>8, <2>1, <2>2, UnitsKept DEF PipesInv
<1> QED BY <1>6, <1>7, <1>9, <1>10, <1>11 DEF PipesInv
\* Steps that make a test be stopped, whose thread is not at work on another.
LEMMA InValidateKeeps ==
  ASSUME PipesInv, NEW t \in Tests, InValidate(t), phase[t] \in {"prepared", "running"},
         course' = course
  PROVE  /\ valid'[t] = FALSE /\ phase'[t] = "stopped" /\ ~Early(t)'
         /\ \A u \in Tests \ {t} : valid'[u] = valid[u] /\ fd'[u] = fd[u] /\ phase'[u] = phase[u]
         /\ valid' \in [Tests -> BOOLEAN] /\ fd' \in [Tests -> Numbers \cup {Closed}]
         /\ file' \in [Numbers -> Tests \cup {None}]
         /\ phase' \in [Tests -> {"new", "prepared", "starting", "running", "stopped"}]
         /\ \A u \in Tests : (Early(u)' => Early(u)) /\ (valid'[u] => valid[u])
         /\ NumberInv'
<1>1. /\ valid \in [Tests -> BOOLEAN] /\ fd \in [Tests -> Numbers \cup {Closed}]
      /\ file \in [Numbers -> Tests \cup {None}]
      /\ phase \in [Tests -> {"new", "prepared", "starting", "running", "stopped"}]
      /\ NumberInv /\ None \notin Tests
  BY PipesAssumption DEF PipesInv, TypeOK, ObjectTypes, SystemTypes, HandlerTypes
<1>2. PICK n : n = fd[t]
  OBVIOUS
<1>3. n \in Numbers /\ n # Closed /\ file[n] = t
  BY <1>1, <1>2 DEF NumberInv
<1>4. /\ valid' = [valid EXCEPT ![t] = FALSE] /\ file' = [file EXCEPT ![n] = None]
      /\ fd' = [fd EXCEPT ![t] = Closed] /\ phase' = [phase EXCEPT ![t] = "stopped"]
  BY <1>2 DEF InValidate
<1>5. /\ valid'[t] = FALSE /\ phase'[t] = "stopped" /\ fd'[t] = Closed /\ file'[n] = None
      /\ \A u \in Tests \ {t} : valid'[u] = valid[u] /\ fd'[u] = fd[u] /\ phase'[u] = phase[u]
      /\ \A k \in Numbers \ {n} : file'[k] = file[k]
  BY <1>1, <1>3, <1>4
<1>6. /\ valid' \in [Tests -> BOOLEAN] /\ fd' \in [Tests -> Numbers \cup {Closed}]
      /\ file' \in [Numbers -> Tests \cup {None}]
      /\ phase' \in [Tests -> {"new", "prepared", "starting", "running", "stopped"}]
  BY <1>1, <1>3, <1>4
<1>7. NumberInv'
  <2>1. ASSUME NEW u \in Tests
        PROVE  /\ valid'[u] = (phase'[u] # "stopped")
               /\ fd'[u] # Closed <=> phase'[u] \in {"prepared", "starting", "running"}
               /\ fd'[u] # Closed => file'[fd'[u]] = u
    <3>1. CASE u = t
      BY <3>1, <1>5
    <3>2. CASE u # t
      <4>1. fd[u] # Closed => fd[u] \in Numbers \ {n}
        BY <3>2, <1>1, <1>3 DEF NumberInv
      <4> QED BY <3>2, <4>1, <1>1, <1>5 DEF NumberInv
    <3> QED BY <3>1, <3>2
  <2>2. ASSUME NEW k \in Numbers, file'[k] # None PROVE fd'[file'[k]] = k
    <3>1. k # n /\ file[k] # None
      BY <2>2, <1>5
    <3>2. file[k] \in Tests /\ fd[file[k]] = k /\ file[k] # t
      BY <3>1, <1>1, <1>2 DEF NumberInv
    <3> QED BY <3>1, <3>2, <1>5
  <2> QED BY <2>1, <2>2 DEF NumberInv
<1>8. \A u \in Tests : Early(u)' => Early(u)
  BY <1>5 DEF Early
<1>9. ~Early(t)'
  BY <1>5 DEF Early
<1> QED BY <1>5, <1>6, <1>7, <1>8, <1>9

\* The units stay what they are when a test is stopped.
LEMMA InValidateUnits ==
  ASSUME PipesInv, TypeOK', NEW t \in Tests, InValidate(t), phase[t] \in {"prepared", "running"},
         course' = course, stdin' = stdin, got' = got, executed' = executed,
         jobs' = jobs, queue' = queue, writer' = writer
  PROVE  UnitInv'
<1>1. SameUnits
  BY DEF SameUnits, Given
<1>2. \A u \in Tests : valid'[u] /\ fd[u] # Closed => fd'[u] = fd[u]
  BY InValidateKeeps
<1> QED BY <1>1, <1>2, InValidateKeeps, UnitsKept DEF PipesInv

LEMMA DropInv ==
  ASSUME PipesInv, NEW t \in Tests, DropTest(t)
  PROVE  PipesInv'
<1>1. /\ course' = course /\ avail' = avail /\ pipeError' = pipeError
      /\ holder' = holder /\ executed' = executed /\ stdin' = stdin /\ got' = got
      /\ unread' = unread /\ proc' = proc /\ term' = term /\ inherited' = inherited
      /\ queue' = queue /\ sem' = sem /\ pass' = pass /\ jobs' = jobs /\ writer' = writer
      /\ starter' = starter /\ loop' = loop /\ pids' = pids
      /\ InValidate(t) /\ phase[t] = "prepared" /\ starter = None /\ TypeOK
  BY DEF DropTest, queueVars, PipesInv
<1>2. TypeOK'
  <2>1. ObjectTypes'
    <3>1. valid' \in [Tests -> BOOLEAN] /\ fd' \in [Tests -> Numbers \cup {Closed}]
      BY <1>1, InValidateKeeps
    <3>2. \A u \in Tests : executed[u] <= Size(u)'
      BY <1>1, SameSizes DEF TypeOK, ObjectTypes
    <3> QED BY <1>1, <3>1, <3>2 DEF TypeOK, ObjectTypes
  <2>2. SystemTypes'
    BY <1>1, SameSizes, InValidateKeeps DEF TypeOK, SystemTypes
  <2>3. HandlerTypes'
    BY <1>1, InValidateKeeps DEF TypeOK, HandlerTypes
  <2> QED BY <1>1, <2>1, <2>2, <2>3, TypesKept
<1>3. NumberInv'
  BY <1>1, InValidateKeeps
<1>4. ThreadInv'
  <2>1. \A w \in Writers : IsWriter(writer[w])'
    BY <1>1 DEF PipesInv, ThreadInv, IsWriter, Size
  <2>2. /\ loop.at # "top" => \A u \in loop.todo : u \in Tests \ {t}
        /\ loop.at \notin {"top", "next"} => loop.test \in Tests \ {t}
    BY <1>1 DEF PipesInv, ThreadInv, TypeOK, HandlerTypes
  <2>3. /\ loop'.at # "top" => \A u \in loop'.todo : phase'[u] = "running"
        /\ loop'.at \notin {"top", "next"} => /\ loop'.test \in Tests \ loop'.todo
                                              /\ phase'[loop'.test] = "running"
    BY <1>1, <2>2, InValidateKeeps DEF PipesInv, ThreadInv
  <2> QED BY <1>1, <2>1, <2>3 DEF PipesInv, ThreadInv
<1>5. WriterInv'
  BY <1>1, InValidateKeeps, WriterKept DEF PipesInv
<1>6. UnitInv'
  BY <1>1, <1>2, InValidateUnits
<1> QED BY <1>2, <1>3, <1>4, <1>5, <1>6 DEF PipesInv

LEMMA StartInv ==
  ASSUME PipesInv, NEW t \in Tests, StartPUTProcess(t)
  PROVE  PipesInv'
<1>1. /\ course' = course /\ valid' = valid /\ avail' = avail /\ pipeError' = pipeError
      /\ holder' = holder /\ executed' = executed /\ stdin' = stdin /\ got' = got
      /\ fd' = fd /\ file' = file /\ unread' = unread /\ term' = term
      /\ queue' = queue /\ sem' = sem /\ pass' = pass /\ jobs' = jobs /\ writer' = writer
      /\ starter' = t /\ loop' = loop /\ pids' = pids
      /\ phase[t] = "prepared" /\ starter = None /\ TypeOK /\ None \notin Tests
      /\ phase' = [phase EXCEPT ![t] = "starting"] /\ proc' = [proc EXCEPT ![t] = "alive"]
      /\ inherited' = [inherited EXCEPT ![t] = Opened]
  BY PipesAssumption DEF StartPUTProcess, objectVars, queueVars, PipesInv
<1>2. /\ phase'[t] = "starting" /\ \A u \in Tests \ {t} : phase'[u] = phase[u]
      /\ \A u \in Tests : Early(u)' = Early(u)
  BY <1>1 DEF TypeOK, HandlerTypes, Early
<1>3. TypeOK'
  <2>1. Opened \subseteq Tests
    BY <1>1 DEF TypeOK, SystemTypes, Opened
  <2>2. SystemTypes'
    BY <1>1, <2>1, SameSizes DEF TypeOK, SystemTypes
  <2>3. HandlerTypes'
    BY <1>1 DEF TypeOK, HandlerTypes
  <2> QED BY <1>1, <2>2, <2>3, TypesKept
<1>4. NumberInv'
  BY <1>1, <1>2 DEF PipesInv, NumberInv
<1>5. ThreadInv'
  <2>1. \A w \in Writers : IsWriter(writer[w])'
    BY <1>1 DEF PipesInv, ThreadInv, IsWriter, Size
  <2>2. /\ loop.at # "top" => \A u \in loop.todo : u \in Tests \ {t}
        /\ loop.at \notin {"top", "next"} => loop.test \in Tests \ {t}
    BY <1>1 DEF PipesInv, ThreadInv, TypeOK, HandlerTypes
  <2>3. /\ loop'.at # "top" => \A u \in loop'.todo : phase'[u] = "running"
        /\ loop'.at \notin {"top", "next"} => /\ loop'.test \in Tests \ loop'.todo
                                              /\ phase'[loop'.test] = "running"
    BY <1>1, <1>2, <2>2 DEF PipesInv, ThreadInv
  <2> QED BY <1>1, <1>2, <2>1, <2>3 DEF PipesInv, ThreadInv
<1>6. WriterInv'
  BY <1>1, <1>2, WriterKept DEF PipesInv
<1>7. UnitInv'
  <2>1. SameUnits
    BY <1>1 DEF SameUnits, Given
  <2> QED BY <1>1, <1>2, <1>3, <2>1, UnitsKept DEF PipesInv
<1> QED BY <1>3, <1>4, <1>5, <1>6, <1>7 DEF PipesInv
\* A fragment is written, or nothing is.
LEMMA FragmentTypes ==
  ASSUME TypeOK, NEW t \in Tests, WriteInput(t), executed[t] < Size(t), course' = course,
         got' = got
  PROVE  /\ avail' \in [Tests -> BOOLEAN]
         /\ executed' \in [Tests -> Nat] /\ \A u \in Tests : executed'[u] <= Size(u)'
         /\ stdin' \in [Tests -> Seq(Units)] /\ \A u \in Tests : Len(stdin'[u]) <= Capacity
         /\ proc' \in [Tests -> {"none", "alive", "zombie", "reaped"}]
         /\ \/ stdin' = stdin /\ executed' = executed
            \/ /\ <<t, executed[t] + 1>> \in Units
               /\ Put(t, <<t, executed[t] + 1>>)
               /\ executed' = [executed EXCEPT ![t] = executed[t] + 1]
<1>1. /\ avail \in [Tests -> BOOLEAN] /\ executed \in [Tests -> Nat]
      /\ \A u \in Tests : executed[u] <= Size(u) /\ Size(u)' = Size(u) /\ Size(u) \in Nat
      /\ stdin \in [Tests -> Seq(Units)] /\ \A u \in Tests : Len(stdin[u]) <= Capacity
      /\ Capacity \in Nat
  BY SameSizes, PipesAssumption DEF TypeOK, ObjectTypes, SystemTypes, Size
<1>2. proc' \in [Tests -> {"none", "alive", "zombie", "reaped"}]
  BY ReapType DEF WriteInput
<1>3. CASE avail[t] /\ t \in Alive /\ ~Full(t)
  <2>1. /\ Put(t, <<t, executed[t] + 1>>) /\ avail' = avail
        /\ executed' = [executed EXCEPT ![t] = executed[t] + 1]
    BY <1>3 DEF WriteInput
  <2>2. <<t, executed[t] + 1>> \in Units
    <3>1. executed[t] + 1 \in 1 .. Size(t)
      BY <1>1
    <3> QED BY <3>1 DEF Units
  <2>3. /\ stdin' \in [Tests -> Seq(Units)]
        /\ \A u \in Tests \ {t} : stdin'[u] = stdin[u]
        /\ Len(stdin'[t]) = Len(stdin[t]) + 1
    BY <2>1, <2>2, OneMoreUnit
  <2>4. \A u \in Tests : Len(stdin'[u]) <= Capacity
    <3>1. Len(stdin[t]) < Capacity /\ Len(stdin[t]) \in Nat
      BY <1>1, <1>3 DEF Full
    <3>2. \A u \in Tests \ {t} : Len(stdin'[u]) <= Capacity
      BY <1>1, <2>3
    <3>3. Len(stdin'[t]) <= Capacity
      BY <1>1, <2>3, <3>1
    <3> QED BY <3>2, <3>3
  <2>5. executed' \in [Tests -> Nat] /\ \A u \in Tests : executed'[u] <= Size(u)'
    BY <1>1, <2>1
  <2> QED BY <1>1, <1>2, <2>1, <2>2, <2>3, <2>4, <2>5
<1>4. CASE ~(avail[t] /\ t \in Alive /\ ~Full(t))
  <2>1. stdin' = stdin /\ executed' = executed
    BY <1>4 DEF WriteInput
  <2>2. avail' = avail \/ avail' = [avail EXCEPT ![t] = FALSE]
    BY <1>4 DEF WriteInput
  <2> QED BY <1>1, <1>2, <2>1, <2>2
<1> QED BY <1>3, <1>4

LEMMA FragmentUnits ==
  ASSUME PipesInv, TypeOK', NEW t \in Tests, WriteInput(t), executed[t] < Size(t),
         course.kind = "fragments", course' = course, got' = got, valid' = valid, fd' = fd,
         queue' = queue, jobs' = jobs, writer' = writer,
         ~Early(t)', \A u \in Tests : Early(u)' => Early(u)
  PROVE  UnitInv'
<1>1. CASE stdin' = stdin /\ executed' = executed
  <2>1. SameUnits
    BY <1>1 DEF SameUnits, Given
  <2> QED BY <1>1, <2>1, UnitsKept DEF PipesInv
<1>2. ASSUME <<t, executed[t] + 1>> \in Units, Put(t, <<t, executed[t] + 1>>),
             executed' = [executed EXCEPT ![t] = executed[t] + 1]
      PROVE  UnitInv'
  <2>1. /\ executed[t] = Count(t, t) /\ queue = {} /\ jobs = {}
        /\ \A w \in Writers : writer[w].at = "idle"
        /\ \A u \in Tests : executed[u] = Count(u, u)
        /\ executed \in [Tests -> Nat]
    BY DEF PipesInv, UnitInv, WriterInv, TypeOK, ObjectTypes
  <2>2. PICK unit \in Units : unit = <<t, executed[t] + 1>>
    BY <1>2
  <2>3. /\ \A v \in Tests \ {t} : \A u : /\ UnitsOf(u, v)' = UnitsOf(u, v)
                                         /\ InOrder(u, v)' = InOrder(u, v)
                                         /\ Count(u, v)' = Count(u, v)
        /\ \A u : u # t => UnitsOf(u, t)' = UnitsOf(u, t) /\ Count(u, t)' = Count(u, t)
        /\ Count(t, t)' = Count(t, t) + 1
        /\ \A u : InOrder(u, t) => InOrder(u, t)'
    <3>1. unit[1] = t /\ unit[2] = Count(t, t) + 1 /\ Put(t, unit) /\ TypeOK
      BY <1>2, <2>1, <2>2 DEF PipesInv
    <3> QED BY <3>1, OneMoreUnit
  <2>4. OrderInv'
    <3>1. OrderInv
      BY DEF PipesInv, UnitInv
    <3> QED BY <2>3, <3>1 DEF OrderInv
  <2>5. FreshInv'
    <3>1. ASSUME NEW u \in Tests, Early(u)' PROVE Fresh(u)'
      <4>1. Fresh(u) /\ u # t
        BY <3>1 DEF PipesInv, UnitInv, FreshInv
      <4> QED BY <2>3, <4>1 DEF Fresh
    <3> QED BY <2>1, <3>1 DEF FreshInv
  <2>6. \A w \in Writers : WriterUnits(w)'
    BY <2>1 DEF WriterUnits
  <2>7. \A u \in Tests : executed'[u] = Count(u, u)'
    BY <1>2, <2>1, <2>3
  <2> QED BY <2>4, <2>5, <2>6, <2>7 DEF UnitInv
<1> QED BY <1>1, <1>2, FragmentTypes DEF PipesInv

\* What giving input does, in whatever way it is given.
LEMMA GiveKeeps ==
  ASSUME PipesInv, GiveInput
  PROVE  /\ starter \in Tests
         /\ \A u \in Tests : u = starter => Early(u) /\ ~Early(u)'
         /\ \A u \in Tests : Early(u)' => Early(u)
         /\ NumberInv' /\ ThreadInv' /\ HandlerTypes'
<1>1. PICK t : t = starter
  OBVIOUS
<1>2. /\ t \in Tests /\ phase[t] = "starting" /\ None \notin Tests
      /\ phase \in [Tests -> {"new", "prepared", "starting", "running", "stopped"}]
      /\ loop' = loop /\ writer' = writer /\ starter' = None /\ pids' = pids
      /\ fd' = fd /\ file' = file /\ valid' = valid /\ course' = course
      /\ phase' = [phase EXCEPT ![t] = "running"]
  BY <1>1, PipesAssumption DEF PipesInv, TypeOK, HandlerTypes, ThreadInv, GiveInput
<1>3. phase'[t] = "running" /\ \A u \in Tests \ {t} : phase'[u] = phase[u]
  BY <1>2
<1>4. Early(t) /\ ~Early(t)' /\ \A u \in Tests : Early(u)' => Early(u)
  BY <1>2, <1>3 DEF Early
<1>5. NumberInv'
  BY <1>2, <1>3 DEF PipesInv, NumberInv
<1>6. ThreadInv'
  <2>1. \A w \in Writers : IsWriter(writer[w])'
    BY <1>2 DEF PipesInv, ThreadInv, IsWriter, Size
  <2>2. /\ loop'.at # "top" => \A u \in loop'.todo : phase'[u] = "running"
        /\ loop'.at \notin {"top", "next"} => /\ loop'.test \in Tests \ loop'.todo
                                              /\ phase'[loop'.test] = "running"
    BY <1>2, <1>3 DEF PipesInv, ThreadInv, TypeOK, HandlerTypes
  <2> QED BY <1>2, <2>1, <2>2 DEF PipesInv, ThreadInv
<1>7. HandlerTypes'
  BY <1>2 DEF PipesInv, TypeOK, HandlerTypes
<1> QED BY <1>1, <1>2, <1>4, <1>5, <1>6, <1>7

LEMMA GiveInputInv ==
  ASSUME PipesInv, GiveInput
  PROVE  PipesInv'
<1>1. PICK t : t = starter
  OBVIOUS
<1>2. /\ course' = course /\ valid' = valid /\ pipeError' = pipeError /\ holder' = holder
      /\ fd' = fd /\ file' = file /\ got' = got /\ unread' = unread /\ term' = term
      /\ inherited' = inherited /\ sem' = sem /\ pass' = pass /\ writer' = writer
  BY DEF GiveInput
<1>3. /\ t \in Tests /\ Early(t) /\ ~Early(t)' /\ TypeOK
      /\ \A u \in Tests : Early(u)' => Early(u) /\ u # t
      /\ t \notin queue \cup jobs /\ executed[t] = 0
      /\ \A w \in Writers : Active(w) => writer[w].test # t
      /\ NumberInv' /\ ThreadInv' /\ HandlerTypes'
  <2>1. /\ t \in Tests /\ Early(t) /\ ~Early(t)' /\ TypeOK
        /\ \A u \in Tests : Early(u)' => Early(u)
        /\ NumberInv' /\ ThreadInv' /\ HandlerTypes'
    BY <1>1, GiveKeeps DEF PipesInv
  <2>2. /\ t \notin queue \cup jobs /\ executed[t] = 0
        /\ \A w \in Writers : Active(w) => writer[w].test # t
    BY <2>1 DEF PipesInv, WriterInv
  <2> QED BY <2>1, <2>2
<1>4. /\ queue \subseteq Tests /\ jobs \subseteq Tests /\ pass \subseteq Tests
      /\ executed \in [Tests -> Nat]
  BY <1>3 DEF TypeOK, QueueTypes, ObjectTypes
<1>5. ASSUME course.kind = "fragments", WriteInput(t), queue' = queue, jobs' = jobs
      PROVE  PipesInv'
  <2>1. executed[t] < Size(t)
    <3>1. Size(t) \in Nat \ {0}
      BY <1>3, PipesAssumption DEF TypeOK, Size
    <3> QED BY <1>3, <3>1
  <2>2. ObjectTypes'
    BY <1>2, <1>3, <1>5, <2>1, FragmentTypes DEF TypeOK, ObjectTypes
  <2>3. SystemTypes'
    BY <1>2, <1>3, <1>5, <2>1, SameSizes, FragmentTypes DEF TypeOK, SystemTypes
  <2>4. TypeOK'
    BY <1>2, <1>3, <1>5, <2>2, <2>3, TypesKept
  <2>5. UnitInv'
    BY <1>2, <1>3, <1>5, <2>1, <2>4, FragmentUnits
  <2>6. \A u \in Tests : Early(u)' => Early(u) /\ executed'[u] = executed[u]
    <3>1. \A u \in Tests \ {t} : executed'[u] = executed[u]
      BY <1>2, <1>3, <1>4, <1>5, <2>1, FragmentTypes
    <3> QED BY <1>3, <3>1
  <2>7. WriterInv'
    BY <1>2, <1>5, <2>6, WriterKept DEF PipesInv
  <2> QED BY <1>3, <2>4, <2>5, <2>7 DEF PipesInv
<1>6. ASSUME \/ course.kind = "stdin" /\ queue' = queue \cup {t} /\ jobs' = jobs
             \/ course.kind = "script" /\ jobs' = jobs \cup {t} /\ queue' = queue,
             stdin' = stdin, executed' = executed, avail' = avail, proc' = proc
      PROVE  PipesInv'
  <2>1. TypeOK'
    <3>1. QueueTypes'
      BY <1>2, <1>3, <1>4, <1>6 DEF TypeOK, QueueTypes
    <3> QED BY <1>2, <1>3, <1>6, <3>1, TypesKept
  <2>2. UnitInv'
    <3>1. SameUnits
      BY <1>2, <1>6 DEF SameUnits, Given
    <3>2. \A u \in Tests : (valid'[u] => valid[u]) /\ (Early(u)' => Early(u))
      BY <1>2, <1>3
    <3>3. \A u \in jobs' \cup queue' : u \in jobs \cup queue \/ Early(u)
      BY <1>3, <1>6
    <3>4. (\A u \in jobs' : u \in jobs \/ Early(u)) /\ (\A u \in queue' : u \in queue \/ Early(u))
      BY <1>3, <1>6
    <3> QED BY <1>2, <1>6, <2>1, <3>1, <3>2, <3>4, UnitsKept DEF PipesInv
  <2>3. WriterInv'
    <3>1. \A w \in Writers : Active(w)' = Active(w)
      BY <1>2 DEF Active
    <3>2. \A u \in Tests : Early(u)' => /\ u \notin queue' \cup jobs' /\ executed'[u] = 0
                                        /\ \A w \in Writers : Active(w) => writer[w].test # u
      BY <1>3, <1>6 DEF PipesInv, WriterInv
    <3>3. CASE course.kind = "stdin"
      <4>1. /\ jobs' = {} /\ queue \subseteq queue'
            /\ \A w \in Writers \ {Chosen} : writer[w].at = "idle"
            /\ pass \subseteq queue
            /\ pass # {} => writer[Chosen].at # "idle"
            /\ Active(Chosen) => writer[Chosen].test \in queue \ pass
        BY <1>6, <3>3 DEF PipesInv, WriterInv
      <4>2. Chosen \in Writers
        BY PipesAssumption DEF Chosen
      <4>3. Active(Chosen)' = Active(Chosen)
        BY <3>1, <4>2
      <4> QED BY <1>2, <3>1, <3>2, <3>3, <4>1, <4>3 DEF WriterInv
    <3>4. CASE course.kind = "script"
      BY <1>2, <1>3, <1>6, <3>1, <3>2, <3>4 DEF PipesInv, WriterInv
    <3> QED BY <1>6, <3>3, <3>4
  <2> QED BY <1>3, <2>1, <2>2, <2>3 DEF PipesInv
<1> QED BY <1>1, <1>5, <1>6 DEF GiveInput
-----------------------------------------------------------------------------
(* The writers.                                                            *)

\* What WriterInv says of threads that run tasks, and of the detached thread.
LEMMA ScriptWriters ==
  ASSUME course'.kind = "script", queue' = {}, pass' = {},
         \A v \in Writers : writer'[v].at \notin {"next", "asking"},
         \A v \in Writers : Active(v)' => writer'[v].test \notin jobs',
         \A v, x \in Writers :
           Active(v)' /\ Active(x)' /\ writer'[v].test = writer'[x].test => v = x,
         \A t \in Tests : Early(t)' => t \notin queue' \cup jobs' /\ executed'[t] = 0,
         \A t \in Tests : \A v \in Writers : Early(t)' /\ Active(v)' => writer'[v].test # t
  PROVE  WriterInv'
<1>1. /\ (course.kind = "script" =>
            /\ queue = {} /\ pass = {}
            /\ \A w \in Writers : writer[w].at \notin {"next", "asking"}
            /\ \A w \in Writers : Active(w) => writer[w].test \notin jobs
            /\ \A v, w \in Writers :
                 Active(v) /\ Active(w) /\ writer[v].test = writer[w].test => v = w)'
      /\ course'.kind \notin {"stdin", "fragments"}
  OBVIOUS
<1>2. (\A t \in Tests : Early(t) => /\ t \notin queue \cup jobs /\ executed[t] = 0
                                    /\ \A w \in Writers : Active(w) => writer[w].test # t)'
  OBVIOUS
<1> QED BY ONLY <1>1, <1>2 DEF WriterInv

LEMMA QueueWriters ==
  ASSUME course'.kind = "stdin", jobs' = {}, NEW c \in Writers, c = Chosen,
         \A v \in Writers \ {c} : writer'[v].at = "idle",
         pass' \subseteq queue',
         pass' # {} => writer'[c].at # "idle",
         Active(c)' => writer'[c].test \in queue' \ pass',
         \A t \in Tests : Early(t)' => t \notin queue' \cup jobs' /\ executed'[t] = 0
  PROVE  WriterInv'
<1>1. /\ (course.kind = "stdin" =>
            /\ jobs = {}
            /\ \A w \in Writers \ {Chosen} : writer[w].at = "idle"
            /\ pass \subseteq queue
            /\ pass # {} => writer[Chosen].at # "idle"
            /\ Active(Chosen) => writer[Chosen].test \in queue \ pass)'
      /\ course'.kind \notin {"script", "fragments"}
  OBVIOUS
<1>2. \A v \in Writers : Active(v)' => v = c
  BY DEF Active
<1>3. (\A t \in Tests : Early(t) => /\ t \notin queue \cup jobs /\ executed[t] = 0
                                    /\ \A w \in Writers : Active(w) => writer[w].test # t)'
  BY <1>2
<1> QED BY ONLY <1>1, <1>3 DEF WriterInv

\* A writer that is not idle goes on, or stops.
LEMMA WriterMoves ==
  ASSUME PipesInv, NEW w \in Writers, NEW r, IsWriter(r), writer' = [writer EXCEPT ![w] = r],
         course' = course, starter' = starter, loop' = loop, phase' = phase, pids' = pids,
         jobs' = jobs, sem' = sem, executed' = executed,
         queue' \subseteq queue, pass' \subseteq pass, pass' \subseteq queue',
         course.kind = "stdin" =>
           /\ writer[w].at # "idle" /\ r.at # "idle"
           /\ r.at # "next" => r.test \in queue' \ pass',
         course.kind = "script" =>
           /\ r.at \notin {"next", "asking"}
           /\ r.at # "idle" => writer[w].at # "idle" /\ r.test = writer[w].test,
         course.kind # "fragments"
  PROVE  /\ writer'[w] = r /\ \A v \in Writers \ {w} : writer'[v] = writer[v]
         /\ QueueTypes' /\ HandlerTypes' /\ ThreadInv' /\ WriterInv'
<1>1. /\ writer'[w] = r /\ \A v \in Writers \ {w} : writer'[v] = writer[v]
      /\ writer' \in [Writers -> {writer'[v] : v \in Writers}]
  BY DEF PipesInv, ThreadInv
<1>2. \A v \in Writers : IsWriter(writer[v]) /\ IsWriter(writer'[v])
  BY <1>1 DEF PipesInv, ThreadInv
<1>3. \A s : IsWriter(s)' <=> IsWriter(s')
  <2>1. \A u : Size(u)' = Size(u)
    BY SameSizes
  <2> QED BY <2>1 DEF IsWriter
<1>4. ThreadInv'
  <2>1. \A v \in Writers : IsWriter(writer[v])'
    BY <1>2, <1>3
  <2>2. /\ starter' # None => phase'[starter'] = "starting"
        /\ loop' = [at |-> loop'.at, test |-> loop'.test, todo |-> loop'.todo]
        /\ loop'.at # "top" => \A t \in loop'.todo : phase'[t] = "running"
        /\ loop'.at \notin {"top", "next"} => /\ loop'.test \in Tests \ loop'.todo
                                              /\ phase'[loop'.test] = "running"
    BY DEF PipesInv, ThreadInv
  <2> QED BY <1>1, <2>1, <2>2 DEF ThreadInv
<1>5. /\ queue \subseteq Tests /\ jobs \subseteq Tests /\ HandlerTypes /\ course \in Courses
      /\ sem = IF course.kind = "stdin" /\ \E v \in Writers : writer[v].at # "idle" THEN 0 ELSE 1
  BY DEF PipesInv, TypeOK, QueueTypes
<1>6. HandlerTypes'
  BY <1>5 DEF HandlerTypes
<1>7. QueueTypes'
  <2>1. \A v \in Writers : /\ writer'[v].at \in {"idle", "next", "asking", "entering",
                                               "polling", "calling", "writing"}
                           /\ writer'[v].test \in Tests \cup {None}
                           /\ writer'[v].to \in Tests \cup Numbers \cup {None}
    BY <1>2 DEF IsWriter
  <2>2. course.kind = "stdin" =>
          (\E v \in Writers : writer[v].at # "idle") /\ (\E v \in Writers : writer'[v].at # "idle")
    BY <1>1
  <2>3. sem' = IF course'.kind = "stdin" /\ \E v \in Writers : writer'[v].at # "idle" THEN 0 ELSE 1
    BY <1>5, <2>2
  <2> QED BY <1>5, <2>1, <2>3 DEF QueueTypes
<1>8. /\ \A v \in Writers \ {w} : Active(v)' = Active(v)
      /\ Active(w)' = (r.at \notin {"idle", "next"})
      /\ Active(w) = (writer[w].at \notin {"idle", "next"})
  BY <1>1, <1>2 DEF Active, IsWriter
<1>9. course.kind \in {"stdin", "script"}
  BY <1>5, PipesAssumption
<1>10. ASSUME course.kind = "stdin" PROVE WriterInv'
  <2>1. /\ jobs = {} /\ \A v \in Writers \ {Chosen} : writer[v].at = "idle"
        /\ w = Chosen
    BY <1>10 DEF PipesInv, WriterInv
  <2>2. PICK c \in Writers : c = Chosen /\ c = w
    BY <2>1
  <2>3. Active(c)' => r.test \in queue' \ pass'
    BY <1>8, <1>10, <2>2
  <2>5. ASSUME NEW t \in Tests, Early(t)'
        PROVE  t \notin queue' \cup jobs' /\ executed'[t] = 0
    <3>1. t \notin queue \cup jobs /\ executed[t] = 0
      BY <2>5 DEF PipesInv, WriterInv, Early
    <3> QED BY <2>1, <3>1
  <2>6. /\ jobs' = {} /\ \A v \in Writers \ {c} : writer'[v].at = "idle"
        /\ pass' \subseteq queue' /\ writer'[c].at # "idle"
        /\ Active(c)' => writer'[c].test \in queue' \ pass'
    BY <1>1, <1>10, <2>1, <2>2, <2>3
  <2>7. course'.kind = "stdin"
    BY <1>10
  <2>8. \A t \in Tests : Early(t)' => t \notin queue' \cup jobs' /\ executed'[t] = 0
    BY <2>5
  <2> QED BY ONLY <2>2, <2>6, <2>7, <2>8, QueueWriters
<1>11. ASSUME course.kind = "script" PROVE WriterInv'
  <2>1. /\ queue = {} /\ pass = {}
        /\ \A v \in Writers : writer[v].at \notin {"next", "asking"}
        /\ \A v \in Writers : Active(v) => writer[v].test \notin jobs
        /\ \A v, x \in Writers :
             Active(v) /\ Active(x) /\ writer[v].test = writer[x].test => v = x
    BY <1>11 DEF PipesInv, WriterInv
  <2>2. \A v \in Writers : Active(v)' => Active(v) /\ writer'[v].test = writer[v].test
    BY <1>1, <1>8, <1>11, <2>1
  <2>3. /\ queue' = {} /\ pass' = {}
        /\ \A v \in Writers : writer'[v].at \notin {"next", "asking"}
    BY <1>1, <1>11, <2>1
  <2>4. ASSUME NEW t \in Tests, Early(t)'
        PROVE  /\ t \notin queue' \cup jobs' /\ executed'[t] = 0
               /\ \A v \in Writers : Active(v)' => writer'[v].test # t
    <3>1. /\ t \notin queue \cup jobs /\ executed[t] = 0
          /\ \A v \in Writers : Active(v) => writer[v].test # t
      BY <2>4 DEF PipesInv, WriterInv, Early
    <3> QED BY <2>2, <3>1
  <2>5. /\ \A v \in Writers : Active(v)' => writer'[v].test \notin jobs'
        /\ \A v, x \in Writers :
             Active(v)' /\ Active(x)' /\ writer'[v].test = writer'[x].test => v = x
    BY <2>1, <2>2
  <2>6. course'.kind = "script"
    BY <1>11
  <2>7. /\ \A t \in Tests : Early(t)' => t \notin queue' \cup jobs' /\ executed'[t] = 0
        /\ \A t \in Tests : \A v \in Writers : Early(t)' /\ Active(v)' => writer'[v].test # t
    BY <2>4
  <2> QED BY ONLY <2>3, <2>5, <2>6, <2>7, ScriptWriters
<1> QED BY <1>1, <1>4, <1>6, <1>7, <1>9, <1>10, <1>11
\* A writer's step that writes nothing.
LEMMA QuietStep ==
  ASSUME PipesInv, NEW w \in Writers, NEW r, IsWriter(r), writer' = [writer EXCEPT ![w] = r],
         course' = course, valid' = valid, fd' = fd, executed' = executed, file' = file,
         stdin' = stdin, got' = got, unread' = unread, term' = term, inherited' = inherited,
         starter' = starter, loop' = loop, phase' = phase, pids' = pids, jobs' = jobs, sem' = sem,
         avail' \in [Tests -> BOOLEAN], holder' \in [Tests -> Writers \cup {None}],
         pipeError' \subseteq Tests,
         proc' \in [Tests -> {"none", "alive", "zombie", "reaped"}],
         queue' \subseteq queue, pass' \subseteq pass, pass' \subseteq queue',
         course.kind = "stdin" =>
           /\ writer[w].at # "idle" /\ r.at # "idle"
           /\ r.at # "next" => r.test \in queue' \ pass',
         course.kind = "script" =>
           /\ r.at \notin {"next", "asking"}
           /\ r.at # "idle" => writer[w].at # "idle" /\ r.test = writer[w].test,
         course.kind # "fragments",
         WriterUnits(w)',
         Writing(w) => writer[w].test \notin queue' \/ ~valid[writer[w].test]
  PROVE  PipesInv'
<1>1. /\ writer'[w] = r /\ \A v \in Writers \ {w} : writer'[v] = writer[v]
      /\ QueueTypes' /\ HandlerTypes' /\ ThreadInv' /\ WriterInv'
  BY WriterMoves
<1>2. TypeOK'
  <2>1. \A t \in Tests : executed[t] <= Size(t)'
    BY SameSizes DEF PipesInv, TypeOK, ObjectTypes
  <2>2. ObjectTypes'
    BY <2>1 DEF PipesInv, TypeOK, ObjectTypes
  <2>3. SystemTypes'
    BY SameSizes DEF PipesInv, TypeOK, SystemTypes
  <2> QED BY <1>1, <2>2, <2>3, TypesKept DEF PipesInv
<1>3. NumberInv'
  BY NumberKept DEF PipesInv
<1>4. UnitInv'
  <2>1. SameUnits
    BY DEF SameUnits, Given
  <2>2. \A t \in Tests : (valid'[t] => valid[t]) /\ (Early(t)' => Early(t))
    BY DEF Early
  <2>3. \A v \in Writers : writer'[v] = writer[v] \/ WriterUnits(v)'
    BY <1>1
  <2>4. \A v \in Writers :
          Writing(v) /\ writer[v].test \in queue' /\ valid'[writer[v].test] => writer'[v] = writer[v]
    BY <1>1
  <2>5. (\A t \in jobs' : t \in jobs \/ Early(t)) /\ (\A t \in queue' : t \in queue \/ Early(t))
    OBVIOUS
  <2> QED BY <1>2, <2>1, <2>2, <2>3, <2>4, <2>5, UnitsKept DEF PipesInv
<1> QED BY <1>1, <1>2, <1>3, <1>4 DEF PipesInv

\* What the invariant says of a writer at work.
LEMMA WriterFacts ==
  ASSUME PipesInv, NEW w \in Writers
  PROVE  /\ IsWriter(writer[w]) /\ TypeOK
         /\ course.kind \in {"stdin", "script", "fragments"}
         /\ \A t \in Tests : Size(t) \in Nat \ {0}
         /\ writer[w].at # "idle" => course.kind # "fragments"
         /\ course.kind = "stdin" =>
              /\ pass \subseteq queue
              /\ Active(w) => writer[w].test \in queue \ pass
         /\ course.kind = "script" => queue = {} /\ pass = {}
         /\ Active(w) => writer[w].test \in Tests /\ ~Early(writer[w].test)
         /\ \A a : WriterGoes(w, a) =>
              writer' = [writer EXCEPT ![w] = [at |-> a, test |-> writer[w].test,
                                               to |-> writer[w].to, sent |-> writer[w].sent]]
<1>1. IsWriter(writer[w]) /\ TypeOK /\ writer \in [Writers -> {writer[v] : v \in Writers}]
  BY DEF PipesInv, ThreadInv
<1>2. /\ course \in Courses /\ course.kind \in {"stdin", "script", "fragments"}
      /\ \A t \in Tests : Size(t) \in Nat \ {0}
  BY <1>1, PipesAssumption DEF TypeOK, Size
<1>3. writer[w].at # "idle" => course.kind # "fragments"
  BY DEF PipesInv, WriterInv
<1>4. course.kind = "stdin" =>
        /\ pass \subseteq queue
        /\ Active(w) => writer[w].test \in queue \ pass
  BY DEF PipesInv, WriterInv, Active
<1>5. course.kind = "script" => queue = {} /\ pass = {}
  BY DEF PipesInv, WriterInv
<1>6. Active(w) => writer[w].test \in Tests
  BY <1>1 DEF IsWriter, Active
<1>7. Active(w) => ~Early(writer[w].test)
  BY <1>6 DEF PipesInv, WriterInv
<1>8. ASSUME NEW a, WriterGoes(w, a)
      PROVE  writer' = [writer EXCEPT ![w] = [at |-> a, test |-> writer[w].test,
                                              to |-> writer[w].to, sent |-> writer[w].sent]]
  <2>1. [writer[w] EXCEPT !.at = a] = [at |-> a, test |-> writer[w].test,
                                      to |-> writer[w].to, sent |-> writer[w].sent]
    BY <1>1 DEF IsWriter
  <2> QED BY <1>1, <1>8, <2>1 DEF WriterGoes
<1> QED BY <1>1, <1>2, <1>3, <1>4, <1>5, <1>6, <1>7, <1>8

\* Where a writer goes when Write returns.
Ended(w) ==
  [at |-> IF course.kind = "stdin" THEN "next" ELSE "idle", test |-> None, to |-> None, sent |-> 0]

LEMMA ReturnFacts ==
  ASSUME PipesInv, NEW w \in Writers, NEW ended \in BOOLEAN, Active(w), Return(w, ended)
  PROVE  /\ IsWriter(Ended(w)) /\ writer' = [writer EXCEPT ![w] = Ended(w)]
         /\ holder' \in [Tests -> Writers \cup {None}]
         /\ queue' \subseteq queue /\ pass \subseteq queue'
         /\ ended => queue' = queue \ {writer[w].test}
         /\ course.kind = "stdin" => Ended(w).at = "next"
         /\ course.kind # "stdin" => Ended(w).at = "idle"
         /\ course.kind # "fragments" /\ writer[w].at # "idle"
<1>1. writer[w].test \in Tests /\ course.kind # "fragments" /\ writer[w].at # "idle"
  BY WriterFacts DEF Active
<1>2. IsWriter(Ended(w))
  BY DEF Ended, IsWriter
<1>3. writer' = [writer EXCEPT ![w] = Ended(w)]
  <2>1. [WriterIdle EXCEPT !.at = "next"] = [at |-> "next", test |-> None, to |-> None, sent |-> 0]
    BY DEF WriterIdle
  <2>2. (IF course.kind = "stdin" THEN [WriterIdle EXCEPT !.at = "next"] ELSE WriterIdle) = Ended(w)
    BY <2>1 DEF WriterIdle, Ended
  <2> QED BY <2>2 DEF Return
<1>4. holder' \in [Tests -> Writers \cup {None}]
  <2>1. holder \in [Tests -> Writers \cup {None}]
    BY DEF PipesInv, TypeOK, ObjectTypes
  <2> QED BY <1>1, <2>1 DEF Return
<1>5. /\ queue' \subseteq queue /\ (ended => queue' = queue \ {writer[w].test})
      /\ queue' = queue \/ queue' = queue \ {writer[w].test}
  BY DEF Return
<1>6. pass \subseteq queue'
  <2>1. CASE course.kind = "stdin"
    <3>1. pass \subseteq queue /\ writer[w].test \notin pass
      BY <2>1, WriterFacts
    <3> QED BY <1>5, <3>1
  <2>2. CASE course.kind = "script"
    BY <2>2, WriterFacts
  <2> QED BY <1>1, <2>1, <2>2, WriterFacts
<1> QED BY <1>1, <1>2, <1>3, <1>4, <1>5, <1>6 DEF Ended

LEMMA ReturnInv ==
  ASSUME PipesInv, NEW w \in Writers, NEW ended \in BOOLEAN, Active(w), Return(w, ended),
         UNCHANGED <<course, valid, avail, fd, executed, systemVars, sem, pass, jobs, handlerVars>>,
         pipeError' \subseteq Tests,
         Writing(w) => ended \/ ~valid[writer[w].test]
  PROVE  PipesInv'
<1>1. PICK r : r = Ended(w)
  OBVIOUS
<1>2. /\ IsWriter(r) /\ writer' = [writer EXCEPT ![w] = r]
      /\ holder' \in [Tests -> Writers \cup {None}]
      /\ queue' \subseteq queue /\ pass \subseteq queue'
      /\ ended => queue' = queue \ {writer[w].test}
      /\ course.kind = "stdin" => r.at = "next"
      /\ course.kind # "stdin" => r.at = "idle"
      /\ course.kind # "fragments" /\ writer[w].at # "idle"
  BY <1>1, ReturnFacts
<1>3. /\ course' = course /\ valid' = valid /\ avail' = avail /\ fd' = fd /\ executed' = executed
      /\ file' = file /\ stdin' = stdin /\ got' = got /\ unread' = unread /\ proc' = proc
      /\ term' = term /\ inherited' = inherited /\ sem' = sem /\ pass' = pass /\ jobs' = jobs
      /\ starter' = starter /\ loop' = loop /\ phase' = phase /\ pids' = pids
  BY DEF systemVars, handlerVars
<1>4. /\ avail \in [Tests -> BOOLEAN] /\ proc \in [Tests -> {"none", "alive", "zombie", "reaped"}]
  BY DEF PipesInv, TypeOK, ObjectTypes, SystemTypes
<1>5. WriterUnits(w)'
  <2>1. writer'[w] = r /\ r.at \in {"idle", "next"}
    BY <1>2 DEF PipesInv, ThreadInv
  <2> QED BY <2>1 DEF WriterUnits
<1>6. Writing(w) => writer[w].test \notin queue' \/ ~valid[writer[w].test]
  BY <1>2
<1> QED BY <1>2, <1>3, <1>4, <1>5, <1>6, QuietStep
\* A writer that goes on with what it is at work on.
LEMMA GoesOnInv ==
  ASSUME PipesInv, NEW w \in Writers, NEW r, IsWriter(r), writer' = [writer EXCEPT ![w] = r],
         Active(w), ~Writing(w), r.test = writer[w].test, r.at \notin {"idle", "next", "asking"},
         UNCHANGED <<course, valid, avail, pipeError, fd, executed, file, stdin, got, unread,
                     term, inherited, queueVars, handlerVars>>,
         holder' \in [Tests -> Writers \cup {None}],
         proc' \in [Tests -> {"none", "alive", "zombie", "reaped"}],
         WriterUnits(w)'
  PROVE  PipesInv'
<1>1. /\ course' = course /\ valid' = valid /\ avail' = avail /\ pipeError' = pipeError
      /\ fd' = fd /\ executed' = executed
      /\ file' = file /\ stdin' = stdin /\ got' = got /\ unread' = unread
      /\ term' = term /\ inherited' = inherited /\ queue' = queue /\ sem' = sem
      /\ pass' = pass /\ jobs' = jobs
      /\ starter' = starter /\ loop' = loop /\ phase' = phase /\ pids' = pids
  BY DEF queueVars, handlerVars
<1>2. avail \in [Tests -> BOOLEAN] /\ pipeError \subseteq Tests
  BY DEF PipesInv, TypeOK, ObjectTypes
<1>3. /\ writer[w].at # "idle" /\ course.kind # "fragments"
      /\ course.kind \in {"stdin", "script", "fragments"}
      /\ course.kind = "stdin" => pass \subseteq queue /\ r.test \in queue \ pass
      /\ course.kind = "script" => pass \subseteq queue
  BY WriterFacts DEF Active
<1>4. pass' \subseteq queue'
  BY <1>1, <1>3
<1> QED BY <1>1, <1>2, <1>3, <1>4, QuietStep

LEMMA EnterInv ==
  ASSUME PipesInv, NEW w \in Writers, EnterWrite(w)
  PROVE  PipesInv'
<1>1. PICK t : t = writer[w].test
  OBVIOUS
<1>2. writer[w].at = "entering" /\ Active(w) /\ ~Writing(w)
  BY DEF EnterWrite, Active, Writing
<1>3. t \in Tests /\ IsWriter(writer[w]) /\ TypeOK
  BY <1>1, <1>2, WriterFacts
<1>4. CASE valid[t] /\ avail[t]
  <2>1. PICK r : r = [at |-> "polling", test |-> t, to |-> writer[w].to, sent |-> writer[w].sent]
    OBVIOUS
  <2>2. WriterGoes(w, "polling") /\ holder' = [holder EXCEPT ![t] = w] /\ queue' = queue
    BY <1>1, <1>4 DEF EnterWrite
  <2>3. writer' = [writer EXCEPT ![w] = r] /\ writer'[w] = r
    BY <1>1, <2>1, <2>2, WriterFacts DEF PipesInv, ThreadInv
  <2>4. IsWriter(r)
    BY <1>2, <1>3, <2>1 DEF IsWriter
  <2>5. holder' \in [Tests -> Writers \cup {None}]
    BY <1>3, <2>2 DEF TypeOK, ObjectTypes
  <2>6. Fresh(t)
    <3>1. CASE course.kind = "script"
      BY <1>1, <1>2, <3>1 DEF PipesInv, UnitInv, WriterUnits
    <3>2. CASE course.kind = "stdin"
      <4>1. t \in queue
        BY <1>1, <1>2, <3>2, WriterFacts
      <4>2. \A v \in Writers : ~(Writing(v) /\ writer[v].test = t)
        <5>1. \A v \in Writers \ {Chosen} : writer[v].at = "idle"
          BY <3>2 DEF PipesInv, WriterInv
        <5> QED BY <1>2, <5>1 DEF Writing
      <4> QED BY <1>4, <4>1, <4>2 DEF PipesInv, UnitInv, FreshInv
    <3> QED BY <1>2, <3>1, <3>2, WriterFacts
  <2>7. stdin' = stdin /\ got' = got
    BY DEF EnterWrite, systemVars
  <2>8. Fresh(t)'
    <3>1. SameUnits
      BY <2>7 DEF SameUnits, Given
    <3> QED BY <2>6, <3>1, SameCounts
  <2>9. WriterUnits(w)'
    BY <2>1, <2>3, <2>8 DEF WriterUnits
  <2>10. /\ UNCHANGED <<course, valid, avail, pipeError, fd, executed, file, stdin, got, unread,
                        term, inherited, queueVars, handlerVars>>
         /\ proc' = proc
    BY <2>2 DEF EnterWrite, systemVars, queueVars
  <2>11. proc' \in [Tests -> {"none", "alive", "zombie", "reaped"}]
    BY <1>3, <2>10 DEF TypeOK, SystemTypes
  <2>12. r.test = writer[w].test /\ r.at \notin {"idle", "next", "asking"}
    BY <1>1, <2>1
  <2> QED BY <1>2, <2>3, <2>4, <2>5, <2>9, <2>10, <2>11, <2>12, GoesOnInv
<1>5. CASE ~(valid[t] /\ avail[t])
  <2>1. Return(w, FALSE)
    BY <1>1, <1>5 DEF EnterWrite
  <2>2. UNCHANGED <<course, valid, avail, fd, executed, systemVars, sem, pass, jobs, handlerVars>>
    BY DEF EnterWrite
  <2>3. pipeError' \subseteq Tests
    BY <1>3 DEF EnterWrite, TypeOK, ObjectTypes
  <2> QED BY <1>2, <2>1, <2>2, <2>3, ReturnInv
<1> QED BY <1>4, <1>5

LEMMA PollInv ==
  ASSUME PipesInv, NEW w \in Writers, Poll(w)
  PROVE  PipesInv'
<1>1. PICK t : t = writer[w].test
  OBVIOUS
<1>2. PICK n : n = fd[t]
  OBVIOUS
<1>3. writer[w].at = "polling" /\ Active(w) /\ ~Writing(w)
  BY DEF Poll, Active, Writing
<1>4. t \in Tests /\ IsWriter(writer[w]) /\ TypeOK /\ pipeError \subseteq Tests
  BY <1>1, <1>3, WriterFacts DEF TypeOK, ObjectTypes
<1>5. UNCHANGED <<course, valid, avail, fd, executed, systemVars, sem, pass, jobs, handlerVars>>
  BY DEF Poll
<1>6. ASSUME NEW ended \in BOOLEAN, Return(w, ended), pipeError' \in {pipeError, pipeError \cup {t}}
      PROVE  PipesInv'
  <2>1. pipeError' \subseteq Tests
    BY <1>4, <1>6
  <2> QED BY <1>3, <1>5, <1>6, <2>1, ReturnInv
<1>7. ASSUME n # Closed, writer' = [writer EXCEPT ![w].at = "calling", ![w].to = n],
             UNCHANGED <<pipeError, holder, queue>>
      PROVE  PipesInv'
  <2>1. PICK r : r = [at |-> "calling", test |-> t, to |-> n, sent |-> writer[w].sent]
    OBVIOUS
  <2>2. n \in Numbers
    BY <1>2, <1>4, <1>7 DEF TypeOK, ObjectTypes
  <2>3. writer' = [writer EXCEPT ![w] = r] /\ writer'[w] = r
    <3>1. writer[w] = [at |-> writer[w].at, test |-> t, to |-> writer[w].to, sent |-> writer[w].sent]
      BY <1>1, <1>4 DEF IsWriter
    <3>2. [[writer[w] EXCEPT !.at = "calling"] EXCEPT !.to = n] = r
      <4>1. PICK q : q = [at |-> "calling", test |-> t, to |-> writer[w].to,
                         sent |-> writer[w].sent]
        OBVIOUS
      <4>2. [writer[w] EXCEPT !.at = "calling"] = q
        BY <3>1, <4>1
      <4>3. [q EXCEPT !.to = n] = r
        BY <2>1, <4>1
      <4> QED BY <4>2, <4>3
    <3> QED BY <1>7, <3>2 DEF PipesInv, ThreadInv
  <2>4. IsWriter(r)
    BY <1>3, <1>4, <2>1, <2>2 DEF IsWriter
  <2>5. Fresh(t)
    BY <1>1, <1>3 DEF PipesInv, UnitInv, WriterUnits
  <2>6. stdin' = stdin /\ got' = got /\ fd' = fd
    BY <1>5 DEF systemVars
  <2>7. Fresh(t)'
    <3>1. SameUnits
      BY <2>6 DEF SameUnits, Given
    <3> QED BY <2>5, <3>1, SameCounts
  <2>8. WriterUnits(w)'
    BY <1>2, <2>1, <2>3, <2>6, <2>7 DEF WriterUnits
  <2>9. /\ UNCHANGED <<course, valid, avail, pipeError, fd, executed, file, stdin, got, unread,
                       term, inherited, queueVars, handlerVars>>
        /\ proc' = proc
    BY <1>5, <1>7 DEF systemVars, queueVars
  <2>10. /\ proc' \in [Tests -> {"none", "alive", "zombie", "reaped"}]
         /\ holder' \in [Tests -> Writers \cup {None}]
    BY <1>4, <1>7, <2>9 DEF TypeOK, SystemTypes, ObjectTypes
  <2>11. r.test = writer[w].test /\ r.at \notin {"idle", "next", "asking"}
    BY <1>1, <2>1
  <2> QED BY <1>3, <2>3, <2>4, <2>8, <2>9, <2>10, <2>11, GoesOnInv
<1>8. \/ Return(w, FALSE) /\ UNCHANGED pipeError
      \/ Return(w, TRUE) /\ pipeError' = pipeError \cup {t}
      \/ /\ n # Closed /\ writer' = [writer EXCEPT ![w].at = "calling", ![w].to = n]
         /\ UNCHANGED <<pipeError, holder, queue>>
  BY <1>1, <1>2 DEF Poll
<1>9. CASE Return(w, FALSE) /\ UNCHANGED pipeError
  BY <1>6, <1>9
<1>10. CASE Return(w, TRUE) /\ pipeError' = pipeError \cup {t}
  BY <1>6, <1>10
<1> QED BY <1>7, <1>8, <1>9, <1>10
LEMMA CallInv ==
  ASSUME PipesInv, NEW w \in Writers, CallWrite(w)
  PROVE  PipesInv'
<1>1. PICK t : t = writer[w].test
  OBVIOUS
<1>2. PICK n : n = writer[w].to
  OBVIOUS
<1>3. writer[w].at = "calling" /\ Active(w) /\ ~Writing(w)
  BY DEF CallWrite, Active, Writing
<1>4. /\ t \in Tests /\ IsWriter(writer[w]) /\ TypeOK /\ n \in Numbers /\ Size(t) \in Nat \ {0}
      /\ n # Closed /\ None \notin Tests /\ writer[w].sent = 0
  BY <1>1, <1>2, <1>3, WriterFacts, PipesAssumption DEF IsWriter, Numbers, Closed
<1>5. /\ UNCHANGED <<course, valid, avail, fd, executed, systemVars, sem, pass, jobs, handlerVars>>
      /\ pipeError' = pipeError
  BY DEF CallWrite
<1>6. CASE Return(w, TRUE)
  <2>1. pipeError' \subseteq Tests
    BY <1>4, <1>5 DEF TypeOK, ObjectTypes
  <2> QED BY <1>3, <1>5, <1>6, <2>1, ReturnInv
<1>7. ASSUME file[n] # None, UNCHANGED <<holder, queue>>,
             writer' = [writer EXCEPT ![w].at = "writing", ![w].to = file[n]]
      PROVE  PipesInv'
  <2>1. PICK x : x = file[n]
    OBVIOUS
  <2>2. x \in Tests /\ (valid[t] /\ fd[t] = n => x = t)
    BY <1>4, <1>7, <2>1 DEF TypeOK, SystemTypes, PipesInv, NumberInv
  <2>3. PICK r : r = [at |-> "writing", test |-> t, to |-> x, sent |-> writer[w].sent]
    OBVIOUS
  <2>4. writer' = [writer EXCEPT ![w] = r] /\ writer'[w] = r
    <3>1. writer[w] = [at |-> writer[w].at, test |-> t, to |-> writer[w].to, sent |-> writer[w].sent]
      BY <1>1, <1>4 DEF IsWriter
    <3>2. PICK q : q = [at |-> "writing", test |-> t, to |-> writer[w].to, sent |-> writer[w].sent]
      OBVIOUS
    <3>3. [writer[w] EXCEPT !.at = "writing"] = q
      BY <3>1, <3>2
    <3>4. [q EXCEPT !.to = x] = r
      BY <2>3, <3>2
    <3>5. [[writer[w] EXCEPT !.at = "writing"] EXCEPT !.to = x] = r
      BY <3>3, <3>4
    <3> QED BY <1>7, <2>1, <3>5 DEF PipesInv, ThreadInv
  <2>5. IsWriter(r)
    BY <1>3, <1>4, <2>2, <2>3 DEF IsWriter
  <2>6. Fresh(t) /\ (valid[t] => fd[t] = n)
    BY <1>1, <1>2, <1>3 DEF PipesInv, UnitInv, WriterUnits
  <2>7. stdin' = stdin /\ got' = got /\ valid' = valid
    BY <1>5 DEF systemVars
  <2>8. Fresh(t)'
    <3>1. SameUnits
      BY <2>7 DEF SameUnits, Given
    <3> QED BY <2>6, <3>1, SameCounts
  <2>9. WriterUnits(w)'
    <3>1. \A u \in Tests : UnitsOf(t, u)' = {}
      BY <2>8 DEF Fresh
    <3>2. Count(t, x)' = 0
      BY <2>2, <3>1, FS_EmptySet DEF Count
    <3>3. writer'[w].at = "writing" /\ writer'[w].test = t /\ writer'[w].to = x
          /\ writer'[w].sent = 0 /\ (x # t => ~valid'[t])
      BY <1>4, <2>2, <2>3, <2>4, <2>6, <2>7
    <3> QED BY <3>1, <3>2, <3>3 DEF WriterUnits
  <2>10. /\ UNCHANGED <<course, valid, avail, pipeError, fd, executed, file, stdin, got, unread,
                        term, inherited, queueVars, handlerVars>>
         /\ proc' = proc
    BY <1>5, <1>7 DEF systemVars, queueVars
  <2>11. /\ proc' \in [Tests -> {"none", "alive", "zombie", "reaped"}]
         /\ holder' \in [Tests -> Writers \cup {None}]
    BY <1>4, <1>7, <2>10 DEF TypeOK, SystemTypes, ObjectTypes
  <2>12. r.test = writer[w].test /\ r.at \notin {"idle", "next", "asking"}
    BY <1>1, <2>3
  <2> QED BY <1>3, <2>4, <2>5, <2>9, <2>10, <2>11, <2>12, GoesOnInv
<1> QED BY <1>2, <1>6, <1>7 DEF CallWrite

LEMMA BreakInv ==
  ASSUME PipesInv, NEW w \in Writers, BreakPipe(w)
  PROVE  PipesInv'
<1>1. PICK t : t = writer[w].test
  OBVIOUS
<1>2. PICK first \in BOOLEAN : first = (writer[w].sent = 0)
  OBVIOUS
<1>3. writer[w].at = "writing" /\ Active(w) /\ ~ReadEndOpen(writer[w].to)
  BY DEF BreakPipe, Active
<1>4. t \in Tests /\ TypeOK /\ ~Early(t) /\ pipeError \subseteq Tests
  BY <1>1, <1>3, WriterFacts DEF TypeOK, ObjectTypes
<1>5. UNCHANGED <<course, valid, avail, fd, executed, systemVars, sem, pass, jobs, handlerVars>>
  BY DEF BreakPipe
<1>6. Return(w, first) /\ pipeError' \in {pipeError, pipeError \cup {t}}
  BY <1>1, <1>2 DEF BreakPipe
<1>7. ~valid[t]
  <2> SUFFICES ASSUME valid[t] PROVE FALSE
    OBVIOUS
  <2>1. writer[w].to = t
    BY <1>1, <1>3 DEF PipesInv, UnitInv, WriterUnits
  <2>2. phase[t] = "running"
    BY <1>4 DEF PipesInv, NumberInv, TypeOK, HandlerTypes, Early
  <2>3. fd[t] # Closed /\ file[fd[t]] = t /\ fd[t] \in Numbers
    BY <1>4, <2>2 DEF PipesInv, NumberInv, TypeOK, ObjectTypes
  <2>4. t \in Opened
    BY <1>4, <2>3, PipesAssumption DEF Opened
  <2> QED BY <1>3, <2>1, <2>4 DEF ReadEndOpen
<1>8. pipeError' \subseteq Tests
  BY <1>4, <1>6
<1> QED BY <1>1, <1>3, <1>5, <1>6, <1>7, <1>8, ReturnInv

LEMMA AskInv ==
  ASSUME PipesInv, NEW w \in Writers, AskRunning(w)
  PROVE  PipesInv'
<1>1. PICK t : t = writer[w].test
  OBVIOUS
<1>2. writer[w].at = "asking" /\ Active(w) /\ ~Writing(w)
  BY DEF AskRunning, Active, Writing
<1>3. /\ t \in Tests /\ IsWriter(writer[w]) /\ TypeOK /\ course.kind = "stdin"
      /\ pass \subseteq queue /\ t \in queue \ pass
  <2>1. course.kind # "script"
    BY <1>2 DEF PipesInv, WriterInv
  <2> QED BY <1>1, <1>2, <2>1, WriterFacts DEF Active
<1>4. PICK running \in BOOLEAN :
        /\ GetProcessRunning(t, running)
        /\ \/ running /\ WriterGoes(w, "entering") /\ UNCHANGED <<avail, queue>>
           \/ /\ avail' = [avail EXCEPT ![t] = FALSE]
              /\ queue' = queue \ {t}
              /\ WriterGoes(w, "next")
  BY <1>1 DEF AskRunning
<1>5. /\ course' = course /\ valid' = valid /\ pipeError' = pipeError /\ holder' = holder
      /\ fd' = fd /\ executed' = executed /\ file' = file /\ stdin' = stdin /\ got' = got
      /\ unread' = unread /\ term' = term /\ inherited' = inherited /\ sem' = sem
      /\ pass' = pass /\ jobs' = jobs
      /\ starter' = starter /\ loop' = loop /\ phase' = phase /\ pids' = pids
  BY DEF AskRunning, handlerVars
<1>6. /\ proc' \in [Tests -> {"none", "alive", "zombie", "reaped"}]
      /\ holder' \in [Tests -> Writers \cup {None}] /\ pipeError' \subseteq Tests
      /\ avail' \in [Tests -> BOOLEAN]
  BY <1>3, <1>4, <1>5, AskType DEF TypeOK, ObjectTypes
<1>7. PICK a \in {"entering", "next"} :
        /\ WriterGoes(w, a) /\ (a = "entering" => queue' = queue)
        /\ queue' \subseteq queue /\ pass \subseteq queue'
  BY <1>3, <1>4
<1>8. PICK r : r = [at |-> a, test |-> t, to |-> writer[w].to, sent |-> writer[w].sent]
  OBVIOUS
<1>9. writer' = [writer EXCEPT ![w] = r] /\ writer'[w] = r /\ r.at = a
  BY <1>1, <1>7, <1>8, WriterFacts DEF PipesInv, ThreadInv
<1>10. IsWriter(r)
  BY <1>2, <1>3, <1>8 DEF IsWriter
<1>11. WriterUnits(w)'
  BY <1>3, <1>5, <1>9 DEF WriterUnits
<1>12. r.at # "idle" /\ (r.at # "next" => r.test \in queue' \ pass')
  BY <1>3, <1>5, <1>7, <1>8
<1> QED BY <1>2, <1>3, <1>5, <1>6, <1>7, <1>9, <1>10, <1>11, <1>12, QuietStep
LEMMA NextEntryInv ==
  ASSUME PipesInv, NEW w \in Writers, NextEntry(w)
  PROVE  PipesInv'
<1>1. /\ course' = course /\ valid' = valid /\ avail' = avail /\ pipeError' = pipeError
      /\ holder' = holder /\ fd' = fd /\ executed' = executed /\ file' = file
      /\ stdin' = stdin /\ got' = got /\ unread' = unread /\ proc' = proc /\ term' = term
      /\ inherited' = inherited /\ jobs' = jobs
      /\ starter' = starter /\ loop' = loop /\ phase' = phase /\ pids' = pids
  BY DEF NextEntry, objectVars, systemVars, handlerVars
<1>2. /\ writer[w].at = "next" /\ ~Writing(w) /\ TypeOK /\ course.kind = "stdin"
      /\ pass \subseteq queue /\ IsWriter(writer[w])
      /\ avail \in [Tests -> BOOLEAN] /\ holder \in [Tests -> Writers \cup {None}]
      /\ pipeError \subseteq Tests /\ queue \subseteq Tests
      /\ proc \in [Tests -> {"none", "alive", "zombie", "reaped"}]
      /\ w = Chosen /\ \A v \in Writers \ {w} : writer[v].at = "idle"
  <2>1. writer[w].at = "next" /\ ~Writing(w)
    BY DEF NextEntry, Writing
  <2>2. course.kind = "stdin"
    BY <2>1, WriterFacts DEF PipesInv, WriterInv
  <2>3. TypeOK /\ pass \subseteq queue /\ IsWriter(writer[w])
    BY <2>2, WriterFacts
  <2>4. w = Chosen /\ \A v \in Writers \ {w} : writer[v].at = "idle"
    BY <2>1, <2>2 DEF PipesInv, WriterInv
  <2> QED BY <2>1, <2>2, <2>3, <2>4 DEF TypeOK, ObjectTypes, SystemTypes, QueueTypes
<1>3. ASSUME pass = {}, sem' = 1, writer' = [writer EXCEPT ![w] = WriterIdle],
             queue' = queue, pass' = pass
      PROVE  PipesInv'
  <2>1. /\ writer'[w] = WriterIdle /\ \A v \in Writers \ {w} : writer'[v] = writer[v]
        /\ writer' \in [Writers -> {writer'[v] : v \in Writers}]
    BY <1>3 DEF PipesInv, ThreadInv
  <2>2. IsWriter(WriterIdle)' /\ WriterIdle.at = "idle"
    BY DEF WriterIdle, IsWriter
  <2>3. \A v \in Writers : IsWriter(writer[v])' /\ writer'[v].at = "idle"
    <3>1. \A v \in Writers \ {w} : IsWriter(writer[v])'
      <4>1. \A v \in Writers \ {w} : IsWriter(writer[v])
        BY DEF PipesInv, ThreadInv
      <4> QED BY <1>1, <2>1, <4>1 DEF IsWriter, Size
    <3>2. IsWriter(writer[w])'
      BY <2>1, <2>2 DEF IsWriter
    <3> QED BY <1>2, <2>1, <2>2, <3>1, <3>2
  <2>4. TypeOK'
    <3>1. \A v \in Writers : /\ writer'[v].test \in Tests \cup {None}
                             /\ writer'[v].to \in Tests \cup Numbers \cup {None}
      BY <2>3 DEF IsWriter
    <3>2. QueueTypes'
      BY <1>1, <1>2, <1>3, <2>3, <3>1 DEF TypeOK, QueueTypes
    <3> QED BY <1>1, <1>2, <3>2, TypesKept
  <2>5. ThreadInv'
    BY <1>1, <2>1, <2>3 DEF PipesInv, ThreadInv
  <2>6. WriterInv'
    <3>1. PICK c \in Writers : c = Chosen
      BY <1>2
    <3>2. jobs' = {} /\ \A t \in Tests : Early(t)' => t \notin queue' \cup jobs' /\ executed'[t] = 0
      BY <1>1, <1>2, <1>3 DEF PipesInv, WriterInv, Early
    <3>3. ~Active(c)'
      BY <2>3, <3>1 DEF Active
    <3>4. pass' \subseteq queue' /\ pass' = {} /\ course'.kind = "stdin"
      BY <1>1, <1>2, <1>3
    <3> QED BY <2>3, <3>1, <3>2, <3>3, <3>4, QueueWriters
  <2>7. UnitInv'
    <3>1. SameUnits
      BY <1>1 DEF SameUnits, Given
    <3>2. \A v \in Writers : writer'[v] = writer[v] \/ WriterUnits(v)'
      BY <2>3 DEF WriterUnits
    <3>3. \A v \in Writers : ~Writing(v)
      BY <1>2 DEF Writing
    <3>4. \A u \in Tests : (valid'[u] => valid[u]) /\ (Early(u)' => Early(u))
      BY <1>1 DEF Early
    <3> QED BY <1>1, <1>3, <2>4, <3>1, <3>2, <3>3, <3>4, UnitsKept DEF PipesInv
  <2>8. NumberInv'
    BY <1>1, NumberKept DEF PipesInv
  <2> QED BY <2>4, <2>5, <2>6, <2>7, <2>8 DEF PipesInv
<1>4. ASSUME NEW t \in pass, pass' = pass \ {t}, valid[t], queue' = queue, sem' = sem,
             writer' = [writer EXCEPT ![w].at = "asking", ![w].test = t]
      PROVE  PipesInv'
  <2>1. PICK r : r = [at |-> "asking", test |-> t, to |-> writer[w].to, sent |-> writer[w].sent]
    OBVIOUS
  <2>2. writer' = [writer EXCEPT ![w] = r] /\ writer'[w] = r
    <3>1. writer[w] = [at |-> writer[w].at, test |-> writer[w].test, to |-> writer[w].to,
                       sent |-> writer[w].sent]
      BY <1>2 DEF IsWriter
    <3>2. PICK q : q = [at |-> "asking", test |-> writer[w].test, to |-> writer[w].to,
                        sent |-> writer[w].sent]
      OBVIOUS
    <3>3. [writer[w] EXCEPT !.at = "asking"] = q
      BY <3>1, <3>2
    <3>4. [q EXCEPT !.test = t] = r
      BY <2>1, <3>2
    <3>5. [[writer[w] EXCEPT !.at = "asking"] EXCEPT !.test = t] = r
      BY <3>3, <3>4
    <3> QED BY <1>4, <3>5 DEF PipesInv, ThreadInv
  <2>3. IsWriter(r)
    BY <1>2, <2>1 DEF IsWriter
  <2>4. WriterUnits(w)'
    BY <2>1, <2>2 DEF WriterUnits
  <2>5. /\ r.at # "idle" /\ (r.at # "next" => r.test \in queue' \ pass')
        /\ queue' \subseteq queue /\ pass' \subseteq pass /\ pass' \subseteq queue'
    BY <1>2, <1>4, <2>1
  <2> QED BY <1>1, <1>2, <1>4, <2>2, <2>3, <2>4, <2>5, QuietStep
<1>5. ASSUME NEW t \in pass, pass' = pass \ {t}, queue' = queue \ {t}, sem' = sem,
             writer' = writer
      PROVE  PipesInv'
  <2>1. PICK r : r = writer[w]
    OBVIOUS
  <2>2. writer' = [writer EXCEPT ![w] = r] /\ writer'[w] = r
    BY <1>5, <2>1 DEF PipesInv, ThreadInv
  <2>3. WriterUnits(w)'
    BY <1>2, <2>1, <2>2 DEF WriterUnits
  <2>4. /\ queue' \subseteq queue /\ pass' \subseteq pass /\ pass' \subseteq queue'
        /\ IsWriter(r) /\ r.at = "next"
    BY <1>2, <1>5, <2>1
  <2> QED BY <1>1, <1>2, <1>5, <2>2, <2>3, <2>4, QuietStep
<1> QED BY <1>3, <1>4, <1>5 DEF NextEntry

LEMMA TakeJobInv ==
  ASSUME PipesInv, NEW w \in Writers, NEW t \in jobs, TakeJob(w, t)
  PROVE  PipesInv'
<1>1. /\ course' = course /\ valid' = valid /\ avail' = avail /\ pipeError' = pipeError
      /\ holder' = holder /\ fd' = fd /\ executed' = executed /\ file' = file
      /\ stdin' = stdin /\ got' = got /\ unread' = unread /\ proc' = proc /\ term' = term
      /\ inherited' = inherited /\ queue' = queue /\ sem' = sem /\ pass' = pass
      /\ starter' = starter /\ loop' = loop /\ phase' = phase /\ pids' = pids
      /\ jobs' = jobs \ {t} /\ writer[w].at = "idle"
  BY DEF TakeJob, objectVars, systemVars, handlerVars
<1>2. PICK r : r = [at |-> "entering", test |-> t, to |-> None, sent |-> 0]
  OBVIOUS
<1>3. /\ writer' = [writer EXCEPT ![w] = r] /\ writer'[w] = r
      /\ \A v \in Writers \ {w} : writer'[v] = writer[v]
      /\ writer' \in [Writers -> {writer'[v] : v \in Writers}]
  <2>1. PICK q : q = [at |-> "entering", test |-> None, to |-> None, sent |-> 0]
    OBVIOUS
  <2>2. [WriterIdle EXCEPT !.at = "entering"] = q
    BY <2>1 DEF WriterIdle
  <2>3. [q EXCEPT !.test = t] = r
    BY <1>2, <2>1
  <2>4. [[WriterIdle EXCEPT !.at = "entering"] EXCEPT !.test = t] = r
    BY <2>2, <2>3
  <2> QED BY <2>4 DEF TakeJob, PipesInv, ThreadInv
<1>4. /\ TypeOK /\ jobs \subseteq Tests /\ t \in Tests /\ course.kind = "script"
      /\ queue = {} /\ pass = {} /\ sem = 1
  <2>1. TypeOK /\ jobs \subseteq Tests
    BY DEF PipesInv, TypeOK, QueueTypes
  <2>2. course.kind = "script" /\ queue = {} /\ pass = {}
    BY WriterFacts DEF PipesInv, WriterInv
  <2>3. sem = 1
    BY <2>1, <2>2 DEF TypeOK, QueueTypes
  <2> QED BY <2>1, <2>2, <2>3
<1>5. IsWriter(r)
  BY <1>2, <1>4 DEF IsWriter
<1>6. \A v \in Writers : IsWriter(writer[v])'
  <2>1. \A v \in Writers : IsWriter(writer'[v])
    BY <1>3, <1>5 DEF PipesInv, ThreadInv
  <2> QED BY <1>1, <2>1 DEF IsWriter, Size
<1>7. TypeOK'
  <2>1. \A v \in Writers : /\ writer'[v].at \in {"idle", "next", "asking", "entering",
                                               "polling", "calling", "writing"}
                           /\ writer'[v].test \in Tests \cup {None}
                           /\ writer'[v].to \in Tests \cup Numbers \cup {None}
    BY <1>6 DEF IsWriter
  <2>2. QueueTypes'
    BY <1>1, <1>4, <2>1 DEF QueueTypes
  <2> QED BY <1>1, <1>4, <2>2, TypesKept
<1>8. ThreadInv'
  BY <1>1, <1>3, <1>6 DEF PipesInv, ThreadInv
<1>9. WriterInv'
  <2>1. /\ \A v \in Writers : writer[v].at \notin {"next", "asking"}
        /\ \A v \in Writers : Active(v) => writer[v].test \notin jobs
        /\ \A v, x \in Writers :
             Active(v) /\ Active(x) /\ writer[v].test = writer[x].test => v = x
    BY <1>4 DEF PipesInv, WriterInv
  <2>2. \A v \in Writers \ {w} : Active(v)' => Active(v)
    BY <1>3 DEF Active
  <2>3. \A v \in Writers : Active(v)' =>
          writer'[v].test = (IF v = w THEN t ELSE writer[v].test)
    BY <1>2, <1>3
  <2>4. \A v \in Writers \ {w} : Active(v)' => writer'[v].test \notin jobs
    BY <2>1, <2>2, <2>3
  <2>5. \A v \in Writers : Active(v)' => writer'[v].test \notin jobs'
    BY <1>1, <2>3, <2>4
  <2>6. \A v, x \in Writers :
          Active(v)' /\ Active(x)' /\ writer'[v].test = writer'[x].test => v = x
    BY <2>1, <2>2, <2>3
  <2>7. ASSUME NEW u \in Tests, Early(u)'
        PROVE  /\ u \notin queue' \cup jobs' /\ executed'[u] = 0
               /\ \A v \in Writers : Active(v)' => writer'[v].test # u
    <3>1. /\ u \notin queue \cup jobs /\ executed[u] = 0
          /\ \A v \in Writers : Active(v) => writer[v].test # u
      BY <1>1, <2>7 DEF PipesInv, WriterInv, Early
    <3> QED BY <1>1, <1>4, <2>2, <2>3, <3>1
  <2>8. /\ queue' = {} /\ pass' = {} /\ course'.kind = "script"
        /\ \A v \in Writers : writer'[v].at \notin {"next", "asking"}
    BY <1>1, <1>2, <1>3, <1>4, <2>1
  <2> QED BY <2>5, <2>6, <2>7, <2>8, ScriptWriters
<1>10. UnitInv'
  <2>1. SameUnits
    BY <1>1 DEF SameUnits, Given
  <2>2. Fresh(t)'
    <3>1. Fresh(t)
      BY <1>4 DEF PipesInv, UnitInv, FreshInv
    <3> QED BY <2>1, <3>1, SameCounts
  <2>3. \A v \in Writers : writer'[v] = writer[v] \/ WriterUnits(v)'
    BY <1>2, <1>3, <2>2 DEF WriterUnits
  <2>4. \A v \in Writers : Writing(v) => writer'[v] = writer[v]
    BY <1>1, <1>3 DEF Writing
  <2>5. \A u \in Tests : (valid'[u] => valid[u]) /\ (Early(u)' => Early(u))
    BY <1>1 DEF Early
  <2> QED BY <1>1, <1>7, <2>1, <2>3, <2>4, <2>5, UnitsKept DEF PipesInv
<1>11. NumberInv'
  BY <1>1, NumberKept DEF PipesInv
<1> QED BY <1>7, <1>8, <1>9, <1>10, <1>11 DEF PipesInv
LEMMA PutInv ==
  ASSUME PipesInv, NEW w \in Writers, PutUnit(w)
  PROVE  PipesInv'
<1>1. PICK t : t = writer[w].test
  OBVIOUS
<1>2. PICK x : x = writer[w].to
  OBVIOUS
<1>3. PICK n : n = writer[w].sent + 1
  OBVIOUS
<1>4. /\ writer[w].at = "writing" /\ Active(w) /\ Writing(w)
      /\ ~Full(x) /\ Put(x, <<t, n>>)
      /\ IF n = Size(t) THEN Return(w, TRUE)
                        ELSE writer' = [writer EXCEPT ![w].sent = n] /\ UNCHANGED <<holder, queue>>
  BY <1>1, <1>2, <1>3 DEF PutUnit, Active, Writing
<1>5. /\ course' = course /\ valid' = valid /\ avail' = avail /\ pipeError' = pipeError
      /\ fd' = fd /\ executed' = executed /\ file' = file /\ got' = got
      /\ unread' = unread /\ proc' = proc /\ term' = term
      /\ inherited' = inherited /\ sem' = sem /\ pass' = pass /\ jobs' = jobs
      /\ starter' = starter /\ loop' = loop /\ phase' = phase /\ pids' = pids
  BY DEF PutUnit, handlerVars
<1>6. /\ t \in Tests /\ x \in Tests /\ TypeOK /\ IsWriter(writer[w]) /\ ~Early(t)
      /\ n \in Nat /\ n <= Size(t) /\ Size(t) \in Nat /\ writer[w].sent \in Nat /\ n # 0
  <2>1. t \in Tests /\ TypeOK /\ IsWriter(writer[w]) /\ Size(t) \in Nat /\ ~Early(t)
    BY <1>1, <1>4, WriterFacts
  <2>2. x \in Tests /\ writer[w].sent \in Nat /\ writer[w].sent < Size(t)
    BY <1>1, <1>2, <1>4, <2>1 DEF IsWriter
  <2> QED BY <1>3, <2>1, <2>2
<1>7. PICK unit \in Units : unit = <<t, n>>
  <2>1. n \in 1 .. Size(t)
    BY <1>6
  <2>2. <<t, n>> \in Units
    BY <1>6, <2>1 DEF Units
  <2> QED BY <2>2
\* Where the writer is afterwards.
<1>8. PICK r : /\ IsWriter(r) /\ writer' = [writer EXCEPT ![w] = r]
               /\ holder' \in [Tests -> Writers \cup {None}]
               /\ queue' \subseteq queue /\ pass \subseteq queue'
               /\ \/ r.at \in {"idle", "next"} /\ t \notin queue'
                  \/ r.at = "writing" /\ r.test = t /\ r.to = x /\ r.sent = n /\ queue' = queue
               /\ course.kind = "stdin" => r.at \in {"next", "writing"}
               /\ course.kind = "script" => r.at \in {"idle", "writing"}
  <2>1. CASE n = Size(t)
    <3>1. PICK r : r = Ended(w)
      OBVIOUS
    <3>2. /\ IsWriter(r) /\ writer' = [writer EXCEPT ![w] = r]
          /\ holder' \in [Tests -> Writers \cup {None}]
          /\ queue' \subseteq queue /\ pass \subseteq queue'
          /\ queue' = queue \ {writer[w].test}
          /\ course.kind = "stdin" => r.at = "next"
          /\ course.kind # "stdin" => r.at = "idle"
      BY <1>4, <2>1, <3>1, ReturnFacts
    <3> QED BY <1>1, <3>2
  <2>2. CASE n # Size(t)
    <3>1. PICK r : r = [at |-> "writing", test |-> t, to |-> x, sent |-> n]
      OBVIOUS
    <3>2. writer[w] = [at |-> writer[w].at, test |-> t, to |-> x, sent |-> writer[w].sent]
      BY <1>1, <1>2, <1>6 DEF IsWriter
    <3>3. [writer[w] EXCEPT !.sent = n] = r
      BY <1>4, <3>1, <3>2
    <3>4. writer' = [writer EXCEPT ![w] = r] /\ holder' = holder /\ queue' = queue
      BY <1>4, <2>2, <3>3 DEF PipesInv, ThreadInv
    <3>5. IsWriter(r)
      BY <1>6, <2>2, <3>1 DEF IsWriter
    <3>6. holder \in [Tests -> Writers \cup {None}]
      BY <1>6 DEF TypeOK, ObjectTypes
    <3>7. pass \subseteq queue
      <4>1. course.kind \in {"stdin", "script"}
        BY <1>4, WriterFacts
      <4> QED BY <4>1, WriterFacts
    <3>8. r.at = "writing" /\ r.test = t /\ r.to = x /\ r.sent = n
      BY <3>1
    <3>9. queue' \subseteq queue /\ pass \subseteq queue'
      BY <3>4, <3>7
    <3> QED BY <3>4, <3>5, <3>6, <3>8, <3>9
  <2> QED BY <2>1, <2>2
<1>9. /\ course.kind \in {"stdin", "script"} /\ course.kind # "fragments"
      /\ course.kind = "stdin" => t \in queue \ pass
  BY <1>1, <1>4, WriterFacts
<1>10. /\ writer'[w] = r /\ \A v \in Writers \ {w} : writer'[v] = writer[v]
       /\ QueueTypes' /\ HandlerTypes' /\ ThreadInv' /\ WriterInv'
  <2>1. course.kind = "stdin" =>
          /\ writer[w].at # "idle" /\ r.at # "idle"
          /\ r.at # "next" => r.test \in queue' \ pass'
    BY <1>4, <1>5, <1>8, <1>9
  <2>2. course.kind = "script" =>
          /\ r.at \notin {"next", "asking"}
          /\ r.at # "idle" => writer[w].at # "idle" /\ r.test = writer[w].test
    BY <1>1, <1>4, <1>8
  <2>3. pass' \subseteq pass /\ pass' \subseteq queue'
    BY <1>5, <1>8
  <2> QED BY <1>5, <1>8, <1>9, <2>1, <2>2, <2>3, WriterMoves
\* What is in the pipes afterwards.
<1>11. /\ \A p \in Tests \ {x} : \A u : /\ UnitsOf(u, p)' = UnitsOf(u, p)
                                        /\ InOrder(u, p)' = InOrder(u, p)
                                        /\ Count(u, p)' = Count(u, p)
       /\ \A u : u # t => UnitsOf(u, x)' = UnitsOf(u, x) /\ Count(u, x)' = Count(u, x)
       /\ Count(t, x)' = Count(t, x) + 1
       /\ \A u : InOrder(u, x) /\ (u = t => n = Count(u, x) + 1) => InOrder(u, x)'
       /\ stdin' \in [Tests -> Seq(Units)]
       /\ \A p \in Tests \ {x} : stdin'[p] = stdin[p]
       /\ Len(stdin'[x]) = Len(stdin[x]) + 1
  <2>1. Put(x, unit) /\ unit[1] = t /\ unit[2] = n
    BY <1>4, <1>7
  <2> QED BY <1>5, <1>6, <2>1, OneMoreUnit
<1>12. TypeOK'
  <2>1. Len(stdin'[x]) <= Capacity
    <3>1. Len(stdin[x]) \in Nat
      BY <1>6 DEF TypeOK, SystemTypes
    <3> QED BY <1>4, <1>11, <3>1, PipesAssumption DEF Full
  <2>2. \A p \in Tests : Len(stdin'[p]) <= Capacity
    BY <1>6, <1>11, <2>1 DEF TypeOK, SystemTypes
  <2>3. SystemTypes'
    BY <1>5, <1>6, <1>11, <2>2, SameSizes DEF TypeOK, SystemTypes
  <2>4. ObjectTypes'
    <3>1. \A u \in Tests : executed[u] <= Size(u)'
      BY <1>5, <1>6, SameSizes DEF TypeOK, ObjectTypes
    <3> QED BY <1>5, <1>6, <1>8, <3>1 DEF TypeOK, ObjectTypes
  <2> QED BY <1>5, <1>6, <1>10, <2>3, <2>4, TypesKept
<1>13. NumberInv'
  BY <1>5, NumberKept DEF PipesInv
<1>14. /\ Count(t, x) = writer[w].sent
       /\ \A p \in Tests \ {x} : UnitsOf(t, p) = {}
       /\ x # t => ~valid[t]
  BY <1>1, <1>2, <1>4 DEF PipesInv, UnitInv, WriterUnits
<1>15. \A u \in Tests \ {t} : /\ \A p \in Tests : UnitsOf(u, p)' = UnitsOf(u, p)
                              /\ \A p \in Tests : Count(u, p)' = Count(u, p)
                              /\ Fresh(u) => Fresh(u)'
  <2>1. ASSUME NEW u \in Tests \ {t}
        PROVE  /\ \A p \in Tests : UnitsOf(u, p)' = UnitsOf(u, p)
               /\ \A p \in Tests : Count(u, p)' = Count(u, p)
    BY <1>11, <2>1
  <2> QED BY <2>1 DEF Fresh
<1>16. OrderInv'
  <2>1. ASSUME NEW p \in Tests, NEW u \in Tests PROVE InOrder(u, p)'
    <3>1. InOrder(u, p)
      BY DEF PipesInv, UnitInv, OrderInv
    <3> QED BY <1>3, <1>11, <1>14, <3>1
  <2>2. ASSUME NEW p \in Tests, NEW u \in Tests, p # u, valid[u] PROVE UnitsOf(u, p)' = {}
    <3>1. UnitsOf(u, p) = {}
      BY <2>2 DEF PipesInv, UnitInv, OrderInv
    <3> QED BY <1>11, <1>14, <2>2, <3>1
  <2> QED BY <1>5, <2>1, <2>2 DEF OrderInv
<1>17. FreshInv'
  <2>1. ASSUME NEW u \in Tests, Early(u)' \/ u \in jobs' PROVE Fresh(u)'
    <3>1. Early(u) \/ u \in jobs
      BY <1>5, <2>1 DEF Early
    <3>2. u # t
      <4>1. t \notin jobs
        BY <1>1, <1>4, <1>9 DEF PipesInv, WriterInv
      <4> QED BY <1>6, <3>1, <4>1
    <3> QED BY <1>15, <3>1, <3>2 DEF PipesInv, UnitInv, FreshInv
  <2>2. ASSUME NEW u \in queue', valid'[u],
               \A v \in Writers : ~(Writing(v)' /\ writer'[v].test = u)
        PROVE  Fresh(u)'
    <3>1. u # t
      BY <1>8, <1>10, <2>2 DEF Writing
    <3>2. \A v \in Writers : ~(Writing(v) /\ writer[v].test = u)
      BY <1>1, <1>10, <2>2, <3>1 DEF Writing
    <3>3. u \in queue /\ u \in Tests /\ valid[u]
      BY <1>5, <1>6, <1>8, <2>2 DEF TypeOK, QueueTypes
    <3> QED BY <1>15, <3>1, <3>2, <3>3 DEF PipesInv, UnitInv, FreshInv
  <2> QED BY <2>1, <2>2 DEF FreshInv
<1>18. WriterUnits(w)'
  <2>1. Count(t, x)' = n /\ \A p \in Tests \ {x} : UnitsOf(t, p)' = {}
    BY <1>3, <1>11, <1>14
  <2> QED BY <1>5, <1>8, <1>10, <1>14, <2>1 DEF WriterUnits
<1>19. ASSUME NEW v \in Writers \ {w} PROVE WriterUnits(v)'
  <2>1. PICK u : u = writer[v].test
    OBVIOUS
  <2>2. WriterUnits(v) /\ IsWriter(writer[v]) /\ writer'[v] = writer[v]
    BY <1>10 DEF PipesInv, UnitInv, ThreadInv
  <2>3. CASE Active(v)
    <3>1. u \in Tests \ {t}
      <4>1. CASE course.kind = "stdin"
        BY <1>4, <2>3, <4>1 DEF PipesInv, WriterInv, Active
      <4>2. CASE course.kind = "script"
        BY <1>1, <1>4, <2>1, <2>3, <4>2, WriterFacts DEF PipesInv, WriterInv
      <4> QED BY <1>9, <4>1, <4>2
    <3>2. writer[v].at = "writing" => writer[v].to \in Tests
      BY <2>2 DEF IsWriter
    <3> QED BY <1>5, <1>15, <2>1, <2>2, <3>1, <3>2 DEF WriterUnits
  <2>4. CASE ~Active(v)
    BY <2>2, <2>4 DEF WriterUnits, Active
  <2> QED BY <2>3, <2>4
<1>20. UnitInv'
  BY <1>5, <1>9, <1>16, <1>17, <1>18, <1>19 DEF UnitInv
<1> QED BY <1>10, <1>12, <1>13, <1>20 DEF PipesInv
-----------------------------------------------------------------------------
(* InternalLoop.                                                           *)

\* What ThreadInv says of the loop.
LoopInv ==
  /\ loop = [at |-> loop.at, test |-> loop.test, todo |-> loop.todo]
  /\ loop.at # "top" => \A t \in loop.todo : phase[t] = "running"
  /\ loop.at \notin {"top", "next"} => /\ loop.test \in Tests \ loop.todo
                                       /\ phase[loop.test] = "running"

\* Steps of the loop that change nothing else the invariant is about.
LEMMA LoopKept ==
  ASSUME PipesInv, LoopInv',
         course' = course, valid' = valid, fd' = fd, file' = file, stdin' = stdin, got' = got,
         phase' = phase, executed' = executed, jobs' = jobs, writer' = writer, pass' = pass,
         queue' = queue, sem' = sem, starter' = starter, pids' = pids, holder' = holder,
         pipeError' = pipeError, inherited' = inherited,
         loop'.at \in {"top", "next", "reading", "draining", "asking", "checking",
                        "stopping"},
         loop'.todo \subseteq Tests, unread' \subseteq Tests, term' \subseteq Tests,
         avail' \in [Tests -> BOOLEAN],
         proc' \in [Tests -> {"none", "alive", "zombie", "reaped"}]
  PROVE  PipesInv'
<1>1. SameUnits
  BY DEF SameUnits, Given
<1>2. TypeOK'
  <2>1. \A u \in Tests : executed[u] <= Size(u)'
    BY SameSizes DEF PipesInv, TypeOK, ObjectTypes
  <2>2. ObjectTypes'
    BY <2>1 DEF PipesInv, TypeOK, ObjectTypes
  <2>3. SystemTypes'
    BY SameSizes DEF PipesInv, TypeOK, SystemTypes
  <2>4. HandlerTypes'
    BY DEF PipesInv, TypeOK, HandlerTypes
  <2> QED BY <2>2, <2>3, <2>4, TypesKept DEF PipesInv
<1>3. ThreadInv'
  <2>1. \A w \in Writers : IsWriter(writer[w])'
    BY DEF PipesInv, ThreadInv, IsWriter, Size
  <2> QED BY <2>1 DEF PipesInv, ThreadInv, LoopInv
<1>4. \A t \in Tests : Early(t)' = Early(t)
  BY DEF Early
<1>5. UnitInv'
  BY <1>1, <1>2, <1>4, UnitsKept DEF PipesInv
<1>6. NumberInv' /\ WriterInv'
  BY <1>4, NumberKept, WriterKept DEF PipesInv
<1> QED BY <1>2, <1>3, <1>5, <1>6 DEF PipesInv

LEMMA LoopFacts ==
  ASSUME PipesInv
  PROVE  /\ LoopInv /\ TypeOK /\ loop.todo \subseteq Tests
         /\ unread \subseteq Tests /\ term \subseteq Tests /\ pids \subseteq Tests
         /\ avail \in [Tests -> BOOLEAN]
         /\ proc \in [Tests -> {"none", "alive", "zombie", "reaped"}]
         /\ \A from, to : LoopGoes(from, to) =>
              /\ loop.at = from
              /\ loop' = [at |-> to, test |-> loop.test, todo |-> loop.todo]
<1>1. LoopInv
  BY DEF PipesInv, ThreadInv, LoopInv
<1>2. ASSUME NEW from, NEW to, LoopGoes(from, to)
      PROVE  loop.at = from /\ loop' = [at |-> to, test |-> loop.test, todo |-> loop.todo]
  BY <1>1, <1>2 DEF LoopInv, LoopGoes
<1> QED BY <1>1, <1>2 DEF PipesInv, TypeOK, ObjectTypes, SystemTypes, HandlerTypes

\* The loop goes on with a test, or is done with it.
LEMMA LoopMoves ==
  ASSUME PipesInv, NEW from, NEW to, LoopGoes(from, to), phase' = phase,
         from \notin {"top", "next"},
         to \in {"next", "reading", "draining", "asking", "checking", "stopping"}
  PROVE  /\ LoopInv' /\ loop.test \in Tests /\ phase[loop.test] = "running"
         /\ loop'.at = to /\ loop'.todo \subseteq Tests
<1>1. /\ loop.at = from /\ loop' = [at |-> to, test |-> loop.test, todo |-> loop.todo]
      /\ LoopInv /\ loop.todo \subseteq Tests
  BY LoopFacts
<1>2. /\ loop'.at = to /\ loop'.test = loop.test /\ loop'.todo = loop.todo
      /\ loop' = [at |-> loop'.at, test |-> loop'.test, todo |-> loop'.todo]
  BY <1>1
<1> QED BY <1>1, <1>2 DEF LoopInv

LEMMA BeginInv ==
  ASSUME PipesInv, BeginRound
  PROVE  PipesInv'
<1>1. /\ course' = course /\ valid' = valid /\ avail' = avail /\ pipeError' = pipeError
      /\ holder' = holder /\ fd' = fd /\ executed' = executed /\ file' = file
      /\ stdin' = stdin /\ got' = got /\ unread' = unread /\ proc' = proc /\ term' = term
      /\ inherited' = inherited /\ queue' = queue /\ jobs' = jobs
      /\ starter' = starter /\ phase' = phase /\ pids' = pids
  BY DEF BeginRound, objectVars, systemVars
<1>2. /\ loop' = [at |-> "next", test |-> loop.test, todo |-> {t \in Tests : phase[t] = "running"}]
      /\ TypeOK
  <2>1. loop = [at |-> loop.at, test |-> loop.test, todo |-> loop.todo]
    BY DEF PipesInv, ThreadInv
  <2>2. PICK running : running = {t \in Tests : phase[t] = "running"}
    OBVIOUS
  <2>3. PICK q : q = [at |-> "next", test |-> loop.test, todo |-> loop.todo]
    OBVIOUS
  <2>4. [loop EXCEPT !.at = "next"] = q
    BY <2>1, <2>3
  <2>5. [q EXCEPT !.todo = running] = [at |-> "next", test |-> loop.test, todo |-> running]
    BY <2>3
  <2>6. [[loop EXCEPT !.at = "next"] EXCEPT !.todo = running] =
          [at |-> "next", test |-> loop.test, todo |-> running]
    BY <2>4, <2>5
  <2> QED BY <2>2, <2>6 DEF BeginRound, PipesInv
<1>3. LoopInv' /\ loop'.at = "next" /\ loop'.todo \subseteq Tests
  BY <1>1, <1>2 DEF LoopInv
<1>4. CASE UNCHANGED <<sem, pass, writer>>
  BY <1>1, <1>3, <1>4, LoopFacts, LoopKept
<1>5. ASSUME sem = 1, queue # {}, sem' = 0, pass' = queue,
             writer' = [writer EXCEPT ![CHOOSE w \in Writers : TRUE].at = "next"]
      PROVE  PipesInv'
  <2>1. PICK c \in Writers : c = Chosen
    BY PipesAssumption DEF Chosen
  <2>2. /\ course.kind = "stdin" /\ jobs = {} /\ queue \subseteq Tests
        /\ \A v \in Writers : writer[v].at = "idle"
    <3>1. course.kind = "stdin"
      BY <1>5, <2>1, WriterFacts DEF PipesInv, WriterInv
    <3> QED BY <1>2, <1>5, <3>1 DEF TypeOK, QueueTypes, PipesInv, WriterInv
  <2>3. PICK r : r = [at |-> "next", test |-> writer[c].test, to |-> writer[c].to,
                      sent |-> writer[c].sent]
    OBVIOUS
  <2>4. /\ IsWriter(writer[c]) /\ IsWriter(r)
        /\ writer' = [writer EXCEPT ![c] = r] /\ writer'[c] = r
        /\ \A v \in Writers \ {c} : writer'[v] = writer[v]
        /\ writer' \in [Writers -> {writer'[v] : v \in Writers}]
    <3>1. IsWriter(writer[c])
      BY DEF PipesInv, ThreadInv
    <3>2. IsWriter(r)
      BY <2>2, <2>3, <3>1 DEF IsWriter
    <3>3. [writer[c] EXCEPT !.at = "next"] = r
      BY <2>3, <3>1 DEF IsWriter
    <3> QED BY <1>5, <2>1, <3>1, <3>2, <3>3 DEF Chosen, PipesInv, ThreadInv
  <2>5. \A v \in Writers : IsWriter(writer[v])'
    <3>1. \A v \in Writers : IsWriter(writer'[v])
      BY <2>4 DEF PipesInv, ThreadInv
    <3> QED BY <1>1, <3>1 DEF IsWriter, Size
  <2>6. TypeOK'
    <3>1. \A v \in Writers : /\ writer'[v].at \in {"idle", "next", "asking", "entering",
                                                 "polling", "calling", "writing"}
                             /\ writer'[v].test \in Tests \cup {None}
                             /\ writer'[v].to \in Tests \cup Numbers \cup {None}
      BY <2>5 DEF IsWriter
    <3>2. QueueTypes'
      <4>1. writer'[c].at # "idle"
        BY <2>3, <2>4
      <4> QED BY <1>1, <1>5, <2>2, <3>1, <4>1 DEF QueueTypes
    <3>3. HandlerTypes'
      BY <1>1, <1>2, <1>3 DEF TypeOK, HandlerTypes
    <3> QED BY <1>1, <1>2, <3>2, <3>3, TypesKept
  <2>7. ThreadInv'
    BY <1>1, <1>3, <2>4, <2>5 DEF PipesInv, ThreadInv, LoopInv
  <2>8. \A u \in Tests : Early(u)' = Early(u)
    BY <1>1 DEF Early
  <2>9. WriterInv'
    <3>1. /\ course'.kind = "stdin" /\ jobs' = {} /\ pass' \subseteq queue'
          /\ \A v \in Writers \ {c} : writer'[v].at = "idle"
          /\ writer'[c].at = "next"
      BY <1>1, <1>5, <2>2, <2>3, <2>4
    <3>2. ~Active(c)'
      BY <3>1 DEF Active
    <3>3. \A t \in Tests : Early(t)' => t \notin queue' \cup jobs' /\ executed'[t] = 0
      BY <1>1, <2>8 DEF PipesInv, WriterInv
    <3> QED BY <2>1, <3>1, <3>2, <3>3, QueueWriters
  <2>10. UnitInv'
    <3>1. SameUnits
      BY <1>1 DEF SameUnits, Given
    <3>2. \A v \in Writers : writer'[v] = writer[v] \/ WriterUnits(v)'
      BY <2>3, <2>4 DEF WriterUnits
    <3>3. \A v \in Writers : ~Writing(v)
      BY <2>2 DEF Writing
    <3> QED BY <1>1, <2>6, <2>8, <3>1, <3>2, <3>3, UnitsKept DEF PipesInv
  <2>11. NumberInv'
    BY <1>1, NumberKept DEF PipesInv
  <2> QED BY <2>6, <2>7, <2>9, <2>10, <2>11 DEF PipesInv
<1> QED BY <1>4, <1>5 DEF BeginRound
LEMMA HandleInv ==
  ASSUME PipesInv, HandleNext
  PROVE  PipesInv'
<1>1. /\ course' = course /\ valid' = valid /\ avail' = avail /\ pipeError' = pipeError
      /\ holder' = holder /\ fd' = fd /\ executed' = executed /\ file' = file
      /\ stdin' = stdin /\ got' = got /\ unread' = unread /\ proc' = proc
      /\ inherited' = inherited /\ queue' = queue /\ sem' = sem /\ pass' = pass
      /\ jobs' = jobs /\ writer' = writer
      /\ starter' = starter /\ phase' = phase /\ pids' = pids /\ loop.at = "next"
  BY DEF HandleNext, objectVars, queueVars
<1>2. /\ LoopInv /\ loop.todo \subseteq Tests /\ unread \subseteq Tests /\ term \subseteq Tests
      /\ avail \in [Tests -> BOOLEAN]
      /\ proc \in [Tests -> {"none", "alive", "zombie", "reaped"}]
  BY LoopFacts
<1>3. CASE loop' = [loop EXCEPT !.at = "top", !.test = None] /\ UNCHANGED term
  <2>1. loop'.at = "top" /\ loop'.todo = loop.todo
        /\ loop' = [at |-> loop'.at, test |-> loop'.test, todo |-> loop'.todo]
    <3>1. PICK q : q = [at |-> "top", test |-> loop.test, todo |-> loop.todo]
      OBVIOUS
    <3>2. [loop EXCEPT !.at = "top"] = q
      BY <1>2, <3>1 DEF LoopInv
    <3>3. [q EXCEPT !.test = None] = [at |-> "top", test |-> None, todo |-> loop.todo]
      BY <3>1
    <3>4. [[loop EXCEPT !.at = "top"] EXCEPT !.test = None] =
            [at |-> "top", test |-> None, todo |-> loop.todo]
      BY <3>2, <3>3
    <3> QED BY <1>3, <3>4
  <2>2. LoopInv'
    BY <2>1 DEF LoopInv
  <2> QED BY <1>1, <1>2, <1>3, <2>1, <2>2, LoopKept
<1>4. ASSUME NEW t \in loop.todo,
             loop' = [at |-> IF t \in pipeError THEN "stopping" ELSE "reading",
                      test |-> t, todo |-> loop.todo \ {t}],
             term' = IF t \in pipeError THEN term \cup {t} ELSE term
      PROVE  PipesInv'
  <2>1. loop'.at \in {"stopping", "reading"} /\ loop'.test = t /\ loop'.todo = loop.todo \ {t}
        /\ loop' = [at |-> loop'.at, test |-> loop'.test, todo |-> loop'.todo]
    BY <1>4
  <2>2. LoopInv' /\ term' \subseteq Tests /\ loop'.todo \subseteq Tests
    BY <1>1, <1>2, <1>4, <2>1 DEF LoopInv
  <2> QED BY <1>1, <1>2, <2>1, <2>2, LoopKept
<1> QED BY <1>3, <1>4 DEF HandleNext

LEMMA ReadingInv ==
  ASSUME PipesInv, BeginReading \/ ReadSome \/ EndReading
  PROVE  PipesInv'
<1>1. /\ course' = course /\ valid' = valid /\ avail' = avail /\ pipeError' = pipeError
      /\ holder' = holder /\ fd' = fd /\ executed' = executed /\ file' = file
      /\ stdin' = stdin /\ got' = got /\ proc' = proc /\ term' = term
      /\ inherited' = inherited /\ queue' = queue /\ sem' = sem /\ pass' = pass
      /\ jobs' = jobs /\ writer' = writer
      /\ starter' = starter /\ phase' = phase /\ pids' = pids
  BY DEF BeginReading, ReadSome, EndReading, objectVars, systemVars, queueVars, handlerVars
<1>2. /\ LoopInv' /\ loop'.todo \subseteq Tests
      /\ loop'.at \in {"top", "next", "reading", "draining", "asking", "checking", "stopping"}
  <2>1. CASE BeginReading \/ EndReading
    <3>1. PICK from \in {"reading", "draining"}, to \in {"draining", "asking"} :
             LoopGoes(from, to)
      BY <2>1 DEF BeginReading, EndReading
    <3> QED BY <1>1, <3>1, LoopMoves
  <2>2. CASE ReadSome
    <3>1. loop' = loop
      BY <2>2 DEF ReadSome, handlerVars
    <3> QED BY <1>1, <3>1, LoopFacts DEF LoopInv, TypeOK, HandlerTypes
  <2> QED BY <2>1, <2>2
<1>3. unread' \subseteq unread
  BY DEF BeginReading, ReadSome, EndReading, systemVars
<1> QED BY <1>1, <1>2, <1>3, LoopFacts, LoopKept

LEMMA IsRunningInv ==
  ASSUME PipesInv, IsRunning
  PROVE  PipesInv'
<1>1. /\ course' = course /\ valid' = valid /\ pipeError' = pipeError
      /\ holder' = holder /\ fd' = fd /\ executed' = executed /\ file' = file
      /\ stdin' = stdin /\ got' = got /\ unread' = unread /\ term' = term
      /\ inherited' = inherited /\ queue' = queue /\ sem' = sem /\ pass' = pass
      /\ jobs' = jobs /\ writer' = writer
      /\ starter' = starter /\ phase' = phase /\ pids' = pids
  BY DEF IsRunning, queueVars
<1>2. PICK t : t = loop.test
  OBVIOUS
<1>3. PICK to \in {"checking", "stopping"} : LoopGoes("asking", to)
  BY DEF IsRunning
<1>4. LoopInv' /\ loop'.at = to /\ loop'.todo \subseteq Tests /\ t \in Tests
  BY <1>1, <1>2, <1>3, LoopMoves
<1>5. /\ avail' \in [Tests -> BOOLEAN]
      /\ proc' \in [Tests -> {"none", "alive", "zombie", "reaped"}]
  <2>1. Reap(t) /\ (avail' = avail \/ avail' = [avail EXCEPT ![t] = FALSE])
    BY <1>2 DEF IsRunning
  <2> QED BY <1>4, <2>1, ReapType, LoopFacts
<1> QED BY <1>1, <1>4, <1>5, LoopFacts, LoopKept

LEMMA CheckInv ==
  ASSUME PipesInv, NEW up \in BOOLEAN, CheckTest(up)
  PROVE  PipesInv'
<1>1. /\ course' = course /\ valid' = valid /\ pipeError' = pipeError
      /\ holder' = holder /\ fd' = fd /\ file' = file
      /\ got' = got /\ unread' = unread
      /\ inherited' = inherited /\ queue' = queue /\ sem' = sem /\ pass' = pass
      /\ jobs' = jobs /\ writer' = writer
      /\ starter' = starter /\ phase' = phase /\ pids' = pids
  BY DEF CheckTest, queueVars
<1>2. PICK t : t = loop.test
  OBVIOUS
<1>3. PICK to \in {"next", "stopping"} : LoopGoes("checking", to)
  BY DEF CheckTest
<1>4. /\ LoopInv' /\ loop'.at = to /\ loop'.todo \subseteq Tests /\ t \in Tests
      /\ phase[t] = "running" /\ LoopInv
  BY <1>1, <1>2, <1>3, LoopMoves, LoopFacts
<1>5. term' \subseteq Tests /\ TypeOK
  <2>1. term' = term \/ term' = term \cup {t}
    BY <1>2 DEF CheckTest
  <2> QED BY <1>4, <2>1, LoopFacts
<1>6. CASE UNCHANGED <<proc, stdin, executed, avail>>
  BY <1>1, <1>4, <1>5, <1>6, LoopFacts, LoopKept
<1>7. ASSUME course.kind = "fragments", executed[t] < Size(t), WriteInput(t)
      PROVE  PipesInv'
  <2>1. /\ avail' \in [Tests -> BOOLEAN]
        /\ executed' \in [Tests -> Nat] /\ \A u \in Tests : executed'[u] <= Size(u)'
        /\ stdin' \in [Tests -> Seq(Units)] /\ \A u \in Tests : Len(stdin'[u]) <= Capacity
        /\ proc' \in [Tests -> {"none", "alive", "zombie", "reaped"}]
        /\ \A u \in Tests \ {t} : executed'[u] = executed[u]
    <3>1. executed \in [Tests -> Nat]
      BY <1>5 DEF TypeOK, ObjectTypes
    <3> QED BY <1>1, <1>4, <1>5, <1>7, <3>1, FragmentTypes
  <2>2. TypeOK'
    <3>1. ObjectTypes'
      BY <1>1, <1>5, <2>1 DEF TypeOK, ObjectTypes
    <3>2. SystemTypes'
      BY <1>1, <1>5, <2>1, SameSizes DEF TypeOK, SystemTypes
    <3>3. HandlerTypes'
      BY <1>1, <1>4, <1>5 DEF TypeOK, HandlerTypes
    <3> QED BY <1>1, <1>5, <3>1, <3>2, <3>3, TypesKept
  <2>3. ThreadInv'
    <3>1. \A w \in Writers : IsWriter(writer[w])'
      BY <1>1 DEF PipesInv, ThreadInv, IsWriter, Size
    <3> QED BY <1>1, <1>4, <3>1 DEF PipesInv, ThreadInv, LoopInv
  <2>4. ~Early(t)' /\ \A u \in Tests : Early(u)' => Early(u) /\ u # t
    BY <1>1, <1>4 DEF Early
  <2>5. UnitInv'
    BY <1>1, <1>4, <1>7, <2>2, <2>4, FragmentUnits
  <2>6. NumberInv' /\ WriterInv'
    <3>1. \A u \in Tests : Early(u)' => Early(u) /\ executed'[u] = executed[u]
      BY <2>1, <2>4
    <3> QED BY <1>1, <3>1, NumberKept, WriterKept DEF PipesInv
  <2> QED BY <2>2, <2>3, <2>5, <2>6 DEF PipesInv
<1> QED BY <1>2, <1>6, <1>7 DEF CheckTest

LEMMA StopInv ==
  ASSUME PipesInv, StopTest
  PROVE  PipesInv'
<1>1. /\ course' = course /\ avail' = avail /\ pipeError' = pipeError
      /\ holder' = holder /\ executed' = executed /\ stdin' = stdin /\ got' = got
      /\ unread' = unread /\ inherited' = inherited
      /\ queue' = queue /\ sem' = sem /\ pass' = pass /\ jobs' = jobs /\ writer' = writer
      /\ starter' = starter /\ LoopGoes("stopping", "next")
  BY DEF StopTest, queueVars
<1>2. PICK t : t = loop.test
  OBVIOUS
<1>3. /\ InValidate(t) /\ Reap(t)
      /\ term' \in {term, term \cup {t}} /\ pids' \in {pids, pids \cup {t}}
  BY <1>2 DEF StopTest
<1>4. /\ LoopInv /\ TypeOK /\ loop.at = "stopping" /\ loop.todo \subseteq Tests
      /\ loop' = [at |-> "next", test |-> t, todo |-> loop.todo]
      /\ term \subseteq Tests /\ pids \subseteq Tests
  BY <1>1, <1>2, LoopFacts
<1>5. t \in Tests \ loop.todo /\ phase[t] = "running"
  BY <1>2, <1>4 DEF LoopInv
<1>6. /\ phase'[t] = "stopped" /\ ~Early(t)'
      /\ \A u \in Tests \ {t} : phase'[u] = phase[u]
      /\ valid' \in [Tests -> BOOLEAN] /\ fd' \in [Tests -> Numbers \cup {Closed}]
      /\ file' \in [Numbers -> Tests \cup {None}]
      /\ phase' \in [Tests -> {"new", "prepared", "starting", "running", "stopped"}]
      /\ \A u \in Tests : Early(u)' => Early(u)
      /\ NumberInv'
  BY <1>1, <1>3, <1>5, InValidateKeeps
<1>7. TypeOK'
  <2>1. \A u \in Tests : executed[u] <= Size(u)'
    BY <1>1, <1>4, SameSizes DEF TypeOK, ObjectTypes
  <2>2. ObjectTypes'
    BY <1>1, <1>4, <1>6, <2>1 DEF TypeOK, ObjectTypes
  <2>3. proc' \in [Tests -> {"none", "alive", "zombie", "reaped"}]
    BY <1>3, <1>4, <1>5, ReapType
  <2>4. term' \subseteq Tests /\ pids' \subseteq Tests
    BY <1>3, <1>4, <1>5
  <2>5. SystemTypes'
    BY <1>1, <1>4, <1>6, <2>3, <2>4, SameSizes DEF TypeOK, SystemTypes
  <2>6. HandlerTypes'
    BY <1>1, <1>4, <1>6, <2>4 DEF TypeOK, HandlerTypes
  <2> QED BY <1>1, <1>4, <2>2, <2>5, <2>6, TypesKept
<1>8. ThreadInv'
  <2>1. \A w \in Writers : IsWriter(writer[w])'
    BY <1>1 DEF PipesInv, ThreadInv, IsWriter, Size
  <2>2. \A u \in loop.todo : phase'[u] = "running"
    BY <1>4, <1>5, <1>6 DEF LoopInv
  <2>3. starter' # None => phase'[starter'] = "starting"
    <3>1. starter # None => starter \in Tests /\ phase[starter] = "starting"
      BY DEF PipesInv, ThreadInv, TypeOK, HandlerTypes
    <3> QED BY <1>1, <1>5, <1>6, <3>1
  <2>4. /\ loop' = [at |-> loop'.at, test |-> loop'.test, todo |-> loop'.todo]
        /\ loop'.at = "next" /\ loop'.todo = loop.todo
    BY <1>4
  <2> QED BY <1>1, <2>1, <2>2, <2>3, <2>4 DEF PipesInv, ThreadInv
<1>9. WriterInv'
  BY <1>1, <1>6, WriterKept DEF PipesInv
<1>10. UnitInv'
  BY <1>1, <1>3, <1>5, <1>7, InValidateUnits
<1> QED BY <1>6, <1>7, <1>8, <1>9, <1>10 DEF PipesInv
-----------------------------------------------------------------------------
(* The invariant, and what it says.                                        *)

LEMMA InitInv ==
  ASSUME Init
  PROVE  PipesInv
<1>1. \A t \in Tests : Given(t) = <<>>
  BY DEF Init, Given
<1>2. \A t \in Tests : \A u : UnitsOf(u, t) = {} /\ InOrder(u, t) /\ Count(u, t) = 0
  <2>1. \A u : PlacesOf(<<>>, u) = {} /\ Numbered(<<>>, u)
    BY DEF PlacesOf, Numbered
  <2> QED BY <1>1, <2>1, FS_EmptySet DEF UnitsOf, InOrder, Count
<1>3. /\ course \in Courses /\ course.kind \in {"stdin", "script", "fragments"}
      /\ \A t \in Tests : Size(t) \in Nat \ {0}
      /\ Capacity \in Nat /\ None \notin Tests /\ Writers # {}
  BY PipesAssumption DEF Init, Size
<1>4. /\ \A w \in Writers : writer[w] = WriterIdle
      /\ writer \in [Writers -> {writer[w] : w \in Writers}]
      /\ \A t \in Tests : phase[t] = "new" /\ valid[t] = TRUE /\ fd[t] = Closed
      /\ \A n \in Numbers : file[n] = None
  BY DEF Init
<1>5. TypeOK
  <2>1. ObjectTypes
    BY <1>3 DEF Init, ObjectTypes, Size
  <2>2. SystemTypes
    <3>1. <<>> \in Seq(Units) /\ Len(<<>>) = 0
      OBVIOUS
    <3> QED BY <1>3, <3>1 DEF Init, SystemTypes
  <2>3. QueueTypes
    BY <1>4 DEF Init, QueueTypes, WriterIdle
  <2>4. HandlerTypes
    BY DEF Init, HandlerTypes
  <2> QED BY <1>3, <2>1, <2>2, <2>3, <2>4 DEF TypeOK
<1>6. NumberInv
  BY <1>4 DEF NumberInv
<1>7. ThreadInv
  <2>1. \A w \in Writers : IsWriter(writer[w])
    BY <1>4 DEF WriterIdle, IsWriter
  <2> QED BY <1>4, <2>1 DEF ThreadInv, Init
<1>8. WriterInv
  <2>1. \A w \in Writers : writer[w].at = "idle" /\ ~Active(w)
    BY <1>4 DEF WriterIdle, Active
  <2>2. Chosen \in Writers
    BY <1>3 DEF Chosen
  <2> QED BY <2>1, <2>2 DEF Init, WriterInv
<1>9. UnitInv
  <2>1. \A u : Fresh(u)
    BY <1>2 DEF Fresh
  <2>2. \A w \in Writers : WriterUnits(w)
    BY <1>4 DEF WriterIdle, WriterUnits
  <2>3. \A t \in Tests : executed[t] = Count(t, t)
    BY <1>2 DEF Init
  <2> QED BY <1>2, <2>1, <2>2, <2>3 DEF UnitInv, OrderInv, FreshInv
<1> QED BY <1>5, <1>6, <1>7, <1>8, <1>9 DEF PipesInv

LEMMA SameInv ==
  ASSUME PipesInv, UNCHANGED vars
  PROVE  PipesInv'
<1>1. UNCHANGED <<course, objectVars, file, stdin, got, inherited, queueVars, writer,
                  starter, loop, phase>>
      /\ unread' = unread /\ pids' = pids /\ term' = term /\ proc' = proc
  BY DEF vars, systemVars, handlerVars
<1> QED BY <1>1, LoopFacts, OtherInv

LEMMA NextInv ==
  ASSUME PipesInv, [Next]_vars
  PROVE  PipesInv'
<1>1. ASSUME NEW t \in Tests, ReadStdin(t) \/ WriteOutput(t) \/ Exit(t) \/ WaitProcess(t)
      PROVE  PipesInv'
  BY <1>1, ReadInv, WriteOutputInv
<1>2. ASSUME NEW t \in Tests, PrepareForExecution(t) \/ DropTest(t) \/ StartPUTProcess(t)
      PROVE  PipesInv'
  BY <1>2, PrepareInv, DropInv, StartInv
<1>3. CASE GiveInput
  BY <1>3, GiveInputInv
<1>4. ASSUME NEW w \in Writers, WriterStep(w)
      PROVE  PipesInv'
  BY <1>4, TakeJobInv, NextEntryInv, AskInv, EnterInv, PollInv, CallInv, PutInv, BreakInv
     DEF WriterStep
<1>5. CASE LoopStep
  BY <1>5, BeginInv, HandleInv, ReadingInv, IsRunningInv, CheckInv, StopInv DEF LoopStep
<1>6. CASE UNCHANGED vars
  BY <1>6, SameInv
<1> QED BY <1>1, <1>2, <1>3, <1>4, <1>5, <1>6 DEF Next, StarterStep

\* The inductive invariant: the pipes' numbers are used by one test each, a test
\* is worked on by one writer, and what a writer, the queue or a task has still
\* to write has not been written.
THEOREM PipesInvariant ==
  Spec => []PipesInv
<1>1. Init => PipesInv
  BY InitInv
<1>2. PipesInv /\ [Next]_vars => PipesInv'
  BY NextInv
<1> QED BY <1>1, <1>2, PTL DEF Spec, Safety

\* Every variable has its type; the semaphore of the writes is 0 as long as the
\* detached thread of PerformWritesInternal is at work, and 1 otherwise.
THEOREM TypesHold ==
  Spec => []TypeOK
<1>1. PipesInv => TypeOK
  BY DEF PipesInv
<1> QED BY <1>1, PipesInvariant, PTL

\* For any number of tests and writers, and pipes of any size: a process is given
\* the input of its test in order and nothing of it twice; as long as a test is
\* valid nobody else is given it; and what a test is trimmed to is what its
\* process was given.
THEOREM InputComesInOrder ==
  Spec => []InputInOrder
<1>1. PipesInv => InputInOrder
  <2> SUFFICES ASSUME PipesInv, NEW t \in Tests, NEW u \in Tests
               PROVE  /\ Numbered(Given(t), u)
                      /\ t # u /\ valid[u] => PlacesOf(Given(t), u) = {}
                      /\ course.kind = "fragments" =>
                           executed[t] = Cardinality(PlacesOf(Given(t), t))
    BY DEF InputInOrder
  <2>1. InOrder(u, t) /\ (t # u /\ valid[u] => UnitsOf(u, t) = {})
    BY DEF PipesInv, UnitInv, OrderInv
  <2>2. course.kind = "fragments" => executed[t] = Count(t, t)
    BY DEF PipesInv, UnitInv
  <2> QED BY <2>1, <2>2 DEF InOrder, UnitsOf, Count
<1> QED BY <1>1, PipesInvariant, PTL
=============================================================================
