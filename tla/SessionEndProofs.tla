-------------------------- MODULE SessionEndProofs --------------------------
(***************************************************************************)
(* What is proved of the cycle of generations and of the end of a session, *)
(* for any number of threads, controllers and savers, every target and     *)
(* every bound on mishaps: the counts of a generation stay in their ranges *)
(* in every session; a generation is replaced only when all of it is done, *)
(* and nothing is done after the end, in the sessions whose saves are      *)
(* Regular.                                                                *)
(***************************************************************************)
EXTENDS SessionEnd, SequenceFacts, FiniteSetTheorems

-----------------------------------------------------------------------------
(* The counts of a generation.                                             *)

QueuedIn(tasks) == {i \in 1 .. Len(tasks) : tasks[i] = "generate"}

\* The threads in MasterGenerationCallback.
MakersIn(f) == {w \in Workers : f[w].at \in {"generate", "making", "failed"}}

\* The inputs that are reserved and not yet made.
PromisedIn(f) == {p \in Workers \X (1 .. Step) : p[2] <= f[p[1]].left}

\* Every MasterGenerationCallback that is queued or runs is counted once; what
\* was counted off without having been reserved are mishaps.
CountInv ==
  /\ \A w \in Workers : worker[w].at \notin {"making", "failed"} => worker[w].left = 0
  /\ callbacks = Cardinality(QueuedIn(heavy)) + Cardinality(MakersIn(worker))
  /\ generated + mishaps >= Cardinality(PromisedIn(worker))

\* What a thread and a controller are.
Places ==
  Kinds \cup {"waiting", "making", "failed", "test end", "request", "optimizing",
             "selecting", "attaching", "finishing", "replacing", "restarting"}

Threads ==
  [at : Places, left : 0 .. Step, made : BOOLEAN, todo : SUBSET Controllers,
   with : SUBSET Controllers, begun : BOOLEAN]

DeltaStates == [state : {"none", "busy", "hung", "finished"}, listed : BOOLEAN]

\* TypeOK, but for the lower bound of generated.
Types ==
  /\ params \in Configurations
  /\ generated \in Int /\ generated <= params.target
  /\ active \in Nat /\ active <= MaxActive
  /\ ending \in BOOLEAN /\ finishing \in BOOLEAN
  /\ tests \in Nat /\ light \in Nat /\ saving \in Nat
  /\ heavy \in Seq(Kinds)
  /\ callbacks \in Nat /\ callbacks <= MaxCallbacks
  /\ worker \in [Workers -> Threads]
  /\ controller \in [Controllers -> DeltaStates]
  /\ mishaps \in Nat /\ mishaps <= params.mishaps

TypeInv == Types /\ CountInv

\* A thread of the pool goes somewhere, with so many inputs to make.
Moves(w, at, left) ==
  /\ worker' \in [Workers -> Threads]
  /\ worker'[w].at = at /\ worker'[w].left = left
  /\ \A v \in Workers \ {w} : worker'[v] = worker[v]

-----------------------------------------------------------------------------
(* Counting tasks, threads and inputs.                                     *)

LEMMA OneMoreTask ==
  ASSUME NEW h \in Seq(Kinds), NEW k \in Kinds
  PROVE  /\ h \o <<k>> \in Seq(Kinds)
         /\ Len(h \o <<k>>) = Len(h) + 1
         /\ (h \o <<k>>)[Len(h) + 1] = k
         /\ \A i \in 1 .. Len(h) : (h \o <<k>>)[i] = h[i]
         /\ h \o <<k>> # <<>>
         /\ h = <<>> => h \o <<k>> = <<k>>
         /\ h \o <<k>> = <<"renew">> => k = "renew"
<1>1. /\ h \o <<k>> \in Seq(Kinds) /\ Len(h \o <<k>>) = Len(h) + 1
      /\ (h \o <<k>>)[Len(h) + 1] = k
      /\ Len(h) \in Nat
  OBVIOUS
<1>2. \A i \in 1 .. Len(h) : (h \o <<k>>)[i] = h[i]
  OBVIOUS
<1>3. h \o <<k>> # <<>>
  BY <1>1
<1>4. h = <<>> => h \o <<k>> = <<k>>
  OBVIOUS
<1>5. ASSUME h \o <<k>> = <<"renew">>
      PROVE  k = "renew"
  <2> DEFINE c == h \o <<k>>
  <2>1. Len(c) = 1 /\ c[1] = "renew"
    <3>1. c = <<"renew">>
      BY <1>5
    <3> HIDE DEF c
    <3> QED BY <3>1
  <2>2. Len(h) = 0
    BY <1>1, <2>1
  <2> QED BY <1>1, <2>1, <2>2
<1> QED BY <1>1, <1>2, <1>3, <1>4, <1>5

LEMMA NoMoreTask ==
  ASSUME NEW h \in Seq(Kinds)
  PROVE  h \o <<>> = h
OBVIOUS

LEMMA TasksCounted ==
  ASSUME NEW h \in Seq(Kinds)
  PROVE  IsFiniteSet(QueuedIn(h)) /\ Cardinality(QueuedIn(h)) \in Nat
<1>1. QueuedIn(h) \in SUBSET (1 .. Len(h)) /\ Len(h) \in Nat
  BY DEF QueuedIn
<1>2. IsFiniteSet(1 .. Len(h))
  <2>1. 1 \in Int /\ Len(h) \in Int
    BY <1>1
  <2> QED BY <2>1, FS_Interval
<1>3. IsFiniteSet(QueuedIn(h))
  BY <1>1, <1>2, FS_Subset
<1> QED BY <1>3, FS_CardinalityType

LEMMA TaskAdded ==
  ASSUME NEW h \in Seq(Kinds), NEW k \in Kinds
  PROVE  Cardinality(QueuedIn(h \o <<k>>)) =
           Cardinality(QueuedIn(h)) + IF k = "generate" THEN 1 ELSE 0
<1>1. /\ Len(h \o <<k>>) = Len(h) + 1 /\ (h \o <<k>>)[Len(h) + 1] = k
      /\ \A i \in 1 .. Len(h) : (h \o <<k>>)[i] = h[i]
      /\ Len(h) \in Nat
  BY OneMoreTask
<1>2. CASE k = "generate"
  <2>1. QueuedIn(h \o <<k>>) = QueuedIn(h) \cup {Len(h) + 1} /\ Len(h) + 1 \notin QueuedIn(h)
    BY <1>1, <1>2 DEF QueuedIn
  <2> QED BY <1>2, <2>1, TasksCounted, FS_AddElement
<1>3. CASE k # "generate"
  <2>1. QueuedIn(h \o <<k>>) = QueuedIn(h)
    BY <1>1, <1>3 DEF QueuedIn
  <2> QED BY <1>3, <2>1, TasksCounted
<1> QED BY <1>2, <1>3

LEMMA TaskTaken ==
  ASSUME NEW h \in Seq(Kinds), h # <<>>
  PROVE  /\ Head(h) \in Kinds /\ Tail(h) \in Seq(Kinds)
         /\ Cardinality(QueuedIn(Tail(h))) =
              Cardinality(QueuedIn(h)) - IF Head(h) = "generate" THEN 1 ELSE 0
<1>1. /\ Head(h) \in Kinds /\ Tail(h) \in Seq(Kinds) /\ Head(h) = h[1]
      /\ Len(h) \in Nat /\ Len(h) > 0 /\ Len(Tail(h)) = Len(h) - 1
      /\ \A i \in 1 .. Len(Tail(h)) : Tail(h)[i] = h[i + 1]
  OBVIOUS
<1> DEFINE Rest == QueuedIn(h) \ {1}
           f == [i \in QueuedIn(Tail(h)) |-> i + 1]
<1>2. IsFiniteSet(QueuedIn(h)) /\ IsFiniteSet(QueuedIn(Tail(h)))
  BY <1>1, TasksCounted
<1>3. f \in Bijection(QueuedIn(Tail(h)), Rest)
  <2>1. \A i \in QueuedIn(Tail(h)) : f[i] \in Rest
    BY <1>1 DEF QueuedIn
  <2>2. \A j \in Rest : j - 1 \in QueuedIn(Tail(h)) /\ f[j - 1] = j
    BY <1>1 DEF QueuedIn
  <2>3. \A i, j \in QueuedIn(Tail(h)) : f[i] = f[j] => i = j
    BY <1>1 DEF QueuedIn
  <2>4. f \in Injection(QueuedIn(Tail(h)), Rest)
    BY <2>1, <2>3 DEF Injection, IsInjective
  <2>5. f \in Surjection(QueuedIn(Tail(h)), Rest)
    BY <2>1, <2>2 DEF Surjection
  <2> QED BY <2>4, <2>5 DEF Bijection
<1>4. IsFiniteSet(Rest) /\ Cardinality(QueuedIn(Tail(h))) = Cardinality(Rest)
  <2>1. ExistsBijection(QueuedIn(Tail(h)), Rest)
    BY <1>3 DEF ExistsBijection
  <2> HIDE DEF f, Rest
  <2> QED BY <1>2, <2>1, FS_Bijection
<1>5. Cardinality(QueuedIn(h)) \in Nat
  BY TasksCounted
<1>6. CASE Head(h) = "generate"
  <2>1. 1 \in QueuedIn(h)
    BY <1>1, <1>6 DEF QueuedIn
  <2> QED BY <1>1, <1>2, <1>4, <1>6, <2>1, FS_RemoveElement
<1>7. CASE Head(h) # "generate"
  <2>1. Rest = QueuedIn(h)
    BY <1>1, <1>7 DEF QueuedIn
  <2>2. Cardinality(QueuedIn(Tail(h))) = Cardinality(QueuedIn(h))
    BY <1>4, <2>1
  <2> HIDE DEF Rest, f
  <2> QED BY <1>1, <1>5, <1>7, <2>2
<1> QED BY <1>6, <1>7

LEMMA MakersCounted ==
  ASSUME NEW f
  PROVE  IsFiniteSet(MakersIn(f)) /\ Cardinality(MakersIn(f)) \in Nat
<1>1. MakersIn(f) \in SUBSET Workers /\ IsFiniteSet(Workers)
  BY GenerationAssumption DEF MakersIn
<1> QED BY <1>1, FS_Subset, FS_CardinalityType

Makes(at) == at \in {"generate", "making", "failed"}

LEMMA MakersMove ==
  ASSUME NEW f, NEW g, NEW w \in Workers, \A v \in Workers \ {w} : g[v] = f[v]
  PROVE  Cardinality(MakersIn(g)) = Cardinality(MakersIn(f))
           + (IF Makes(g[w].at) THEN 1 ELSE 0) - (IF Makes(f[w].at) THEN 1 ELSE 0)
<1> DEFINE Others == MakersIn(f) \ {w}
<1>1. MakersIn(g) \ {w} = Others
  BY DEF MakersIn
<1>2. ASSUME NEW h
      PROVE  Cardinality(MakersIn(h)) =
               Cardinality(MakersIn(h) \ {w}) + IF Makes(h[w].at) THEN 1 ELSE 0
  <2>1. IsFiniteSet(MakersIn(h)) /\ Cardinality(MakersIn(h)) \in Nat
    BY MakersCounted
  <2>2. w \in MakersIn(h) <=> Makes(h[w].at)
    BY DEF MakersIn, Makes
  <2>3. CASE w \in MakersIn(h)
    <3>1. Cardinality(MakersIn(h) \ {w}) = Cardinality(MakersIn(h)) - 1
      BY <2>1, <2>3, FS_RemoveElement
    <3> QED BY <2>1, <2>2, <2>3, <3>1
  <2>4. CASE w \notin MakersIn(h)
    <3>1. MakersIn(h) \ {w} = MakersIn(h)
      BY <2>4
    <3> QED BY <2>1, <2>2, <2>4, <3>1
  <2> QED BY <2>3, <2>4
<1>3. IsFiniteSet(Others) /\ Cardinality(Others) \in Nat
  BY MakersCounted, FS_RemoveElement, FS_CardinalityType
<1> QED BY <1>1, <1>2, <1>3

LEMMA PromisesCounted ==
  ASSUME NEW f
  PROVE  IsFiniteSet(PromisedIn(f)) /\ Cardinality(PromisedIn(f)) \in Nat
<1>1. IsFiniteSet(Workers) /\ Step \in Nat
  BY GenerationAssumption
<1>2. IsFiniteSet(1 .. Step)
  <2>1. 1 \in Int /\ Step \in Int
    BY <1>1
  <2> QED BY <2>1, FS_Interval
<1>3. IsFiniteSet(Workers \X (1 .. Step))
  BY <1>1, <1>2, FS_Product
<1>4. PromisedIn(f) \in SUBSET (Workers \X (1 .. Step))
  BY DEF PromisedIn
<1> QED BY <1>3, <1>4, FS_Subset, FS_CardinalityType

LEMMA PromisesMove ==
  ASSUME NEW f, NEW g, NEW w \in Workers, \A v \in Workers \ {w} : g[v] = f[v],
         f[w].left \in 0 .. Step, g[w].left \in 0 .. Step
  PROVE  Cardinality(PromisedIn(g)) = Cardinality(PromisedIn(f)) + g[w].left - f[w].left
<1> DEFINE Others(h) == {p \in PromisedIn(h) : p[1] # w}
<1>1. Others(g) = Others(f)
  BY DEF PromisedIn
<1>2. ASSUME NEW h, h[w].left \in 0 .. Step
      PROVE  /\ IsFiniteSet(Others(h)) /\ Cardinality(Others(h)) \in Nat
             /\ Cardinality(PromisedIn(h)) = Cardinality(Others(h)) + h[w].left
  <2> DEFINE Own == {p \in PromisedIn(h) : p[1] = w}
             n == h[w].left
             e == [i \in 1 .. n |-> <<w, i>>]
  <2>1. n \in Nat /\ n <= Step /\ Step \in Nat
    BY <1>2, GenerationAssumption
  <2>2. \A p \in Own : p[2] \in 1 .. n /\ p = <<w, p[2]>>
    BY <2>1 DEF PromisedIn
  <2>3. \A i \in 1 .. n : <<w, i>> \in Own
    BY <2>1 DEF PromisedIn
  <2>4. e \in Bijection(1 .. n, Own)
    <3>1. e \in [1 .. n -> Own]
      BY <2>3
    <3>2. \A i, j \in 1 .. n : e[i] = e[j] => i = j
      OBVIOUS
    <3>3. \A p \in Own : \E i \in 1 .. n : e[i] = p
      BY <2>2
    <3>4. e \in Injection(1 .. n, Own)
      BY <3>1, <3>2 DEF Injection, IsInjective
    <3>5. e \in Surjection(1 .. n, Own)
      BY <3>1, <3>3 DEF Surjection
    <3> QED BY <3>4, <3>5 DEF Bijection
  <2>5. IsFiniteSet(1 .. n) /\ Cardinality(1 .. n) = n
    <3>1. 1 \in Int /\ n \in Int
      BY <2>1
    <3> HIDE DEF n
    <3>2. /\ IsFiniteSet(1 .. n)
          /\ Cardinality(1 .. n) = IF 1 > n THEN 0 ELSE n - 1 + 1
      BY <3>1, FS_Interval
    <3> QED BY <2>1, <3>1, <3>2
  <2>6. IsFiniteSet(PromisedIn(h))
    BY PromisesCounted
  <2>7. /\ IsFiniteSet(Own) /\ IsFiniteSet(Others(h))
        /\ Own \in SUBSET PromisedIn(h) /\ Others(h) \in SUBSET PromisedIn(h)
        /\ Own \cap Others(h) = {} /\ Own \cup Others(h) = PromisedIn(h)
    BY <2>6, FS_Subset
  <2>8. Cardinality(Own) = n
    <3>1. ExistsBijection(1 .. n, Own)
      BY <2>4 DEF ExistsBijection
    <3> HIDE DEF n, Own, e
    <3> QED BY <2>5, <3>1, FS_Bijection
  <2>9. Cardinality(Others(h)) \in Nat /\ Cardinality(Own \cap Others(h)) = 0
    BY <2>7, FS_CardinalityType, FS_EmptySet
  <2>10. Cardinality(Own \cup Others(h)) =
           Cardinality(Own) + Cardinality(Others(h)) - Cardinality(Own \cap Others(h))
    BY <2>7, FS_Union
  <2>11. Cardinality(PromisedIn(h)) = n + Cardinality(Others(h)) - 0
    BY <2>7, <2>8, <2>9, <2>10
  <2> HIDE DEF n, Own, e, Others
  <2>12. Cardinality(PromisedIn(h)) = Cardinality(Others(h)) + n
    BY <2>1, <2>9, <2>11
  <2> QED BY <2>7, <2>9, <2>12 DEF n
<1> HIDE DEF Others
<1>3. f[w].left \in Int /\ g[w].left \in Int
  OBVIOUS
<1> QED BY <1>1, <1>2, <1>3
-----------------------------------------------------------------------------
(* What the threads of the pool do.                                        *)

LEMMA TypeFacts ==
  ASSUME TypeInv
  PROVE  /\ params.workers \subseteq Workers
         /\ params.target \in Nat /\ params.target > 0 /\ params.mishaps \in Nat
         /\ mishaps \in Nat /\ mishaps <= params.mishaps
         /\ generated \in Int /\ generated <= params.target
         /\ active \in Nat /\ active <= MaxActive
         /\ MaxActive \in Nat /\ MaxActive > 0 /\ Step \in Nat /\ Step > 0
         /\ MaxCallbacks \in Nat /\ MaxCallbacks > 0
         /\ callbacks \in Nat /\ callbacks <= MaxCallbacks
         /\ heavy \in Seq(Kinds)
         /\ worker \in [Workers -> Threads]
         /\ \A w \in Workers : /\ worker[w].at \in Places /\ worker[w].left \in Nat
                               /\ worker[w].left <= Step
<1>1. params \in Configurations
  BY DEF TypeInv, Types
<1>2. /\ params.workers \subseteq Workers
      /\ params.target \in Nat /\ params.target > 0 /\ params.mishaps \in Nat
  BY <1>1, GenerationAssumption
<1>3. /\ MaxActive \in Nat /\ MaxActive > 0 /\ Step \in Nat /\ Step > 0
      /\ MaxCallbacks \in Nat /\ MaxCallbacks > 0
  BY GenerationAssumption
<1>6. worker \in [Workers -> Threads]
  BY DEF TypeInv, Types
<1>7. \A w \in Workers : /\ worker[w].at \in Places /\ worker[w].left \in Nat
                         /\ worker[w].left <= Step
  <2>1. \A r \in Threads : r.at \in Places /\ r.left \in Nat /\ r.left <= Step
    BY <1>3 DEF Threads
  <2> QED BY <1>6, <2>1
<1> QED BY <1>2, <1>3, <1>6, <1>7 DEF TypeInv, Types

LEMMA OneMoves ==
  ASSUME worker \in [Workers -> Threads], NEW w \in Workers, NEW r \in Threads,
         worker' = [worker EXCEPT ![w] = r]
  PROVE  Moves(w, r.at, r.left)
BY DEF Moves

LEMMA WaitingThread == Waiting \in Threads /\ Waiting.at = "waiting" /\ Waiting.left = 0
BY GenerationAssumption DEF Waiting, Threads, Places

LEMMA EndsMoves ==
  ASSUME TypeInv, NEW w \in Workers, Ends(w)
  PROVE  Moves(w, "waiting", 0)
<1>1. worker' = [worker EXCEPT ![w] = Waiting]
  BY DEF Ends
<1> QED BY <1>1, TypeFacts, WaitingThread, OneMoves

LEMMA ThreadChanged ==
  ASSUME NEW r \in Threads, NEW at \in Places
  PROVE  /\ [r EXCEPT !.at = at] \in Threads
         /\ [r EXCEPT !.at = at].at = at
         /\ [r EXCEPT !.at = at].left = r.left
BY DEF Threads

LEMMA GoesMoves ==
  ASSUME TypeInv, NEW w \in Workers, NEW at \in Places, Goes(w, at)
  PROVE  Moves(w, at, worker[w].left)
<1>1. worker \in [Workers -> Threads] /\ worker[w] \in Threads
  BY TypeFacts
<1>2. worker' = [worker EXCEPT ![w] = [worker[w] EXCEPT !.at = at]]
  BY <1>1 DEF Goes
<1>3. PICK r \in Threads : r = [worker[w] EXCEPT !.at = at]
  BY <1>1, ThreadChanged
<1>4. r.at = at /\ r.left = worker[w].left
  BY <1>1, <1>3, ThreadChanged
<1> QED BY <1>1, <1>2, <1>3, <1>4, OneMoves
LEMMA TypesImplied == TypeInv => TypeOK
<1> SUFFICES ASSUME TypeInv PROVE TypeOK
  OBVIOUS
<1>1. /\ params.mishaps \in Nat /\ params.target \in Nat
      /\ MaxActive \in Nat /\ MaxCallbacks \in Nat
  BY TypeFacts
<1>2. -params.mishaps <= generated
  <2>1. Cardinality(PromisedIn(worker)) \in Nat
    BY PromisesCounted
  <2>2. generated + mishaps >= Cardinality(PromisedIn(worker))
    BY DEF TypeInv, CountInv
  <2> QED BY <1>1, <2>1, <2>2 DEF TypeInv, Types
<1>3. generated \in -params.mishaps .. params.target
  BY <1>1, <1>2 DEF TypeInv, Types
<1>4. active \in 0 .. MaxActive /\ callbacks \in 0 .. MaxCallbacks /\ mishaps \in 0 .. params.mishaps
  BY <1>1 DEF TypeInv, Types
<1> QED BY <1>3, <1>4 DEF TypeOK, TypeInv, Types, Threads, Places, DeltaStates

\* A task is queued, or none is, with so many callbacks that generate inputs.
Queues(n) ==
  \/ heavy' = heavy /\ n = 0
  \/ \E k \in Kinds : heavy' = heavy \o <<k>> /\ n = IF k = "generate" THEN 1 ELSE 0

LEMMA QueuesCounted ==
  ASSUME TypeInv, NEW n, Queues(n)
  PROVE  /\ n \in Nat /\ heavy' \in Seq(Kinds)
         /\ Cardinality(QueuedIn(heavy')) = Cardinality(QueuedIn(heavy)) + n
<1>1. heavy \in Seq(Kinds) /\ Cardinality(QueuedIn(heavy)) \in Nat
  BY TypeFacts, TasksCounted
<1>2. CASE heavy' = heavy /\ n = 0
  BY <1>1, <1>2
<1>3. CASE \E k \in Kinds : heavy' = heavy \o <<k>> /\ n = IF k = "generate" THEN 1 ELSE 0
  <2>1. PICK k \in Kinds : heavy' = heavy \o <<k>> /\ n = IF k = "generate" THEN 1 ELSE 0
    BY <1>3
  <2>2. n \in Nat
    BY <2>1
  <2>3. heavy \o <<k>> \in Seq(Kinds)
    BY <1>1, OneMoreTask
  <2>4. Cardinality(QueuedIn(heavy \o <<k>>)) = Cardinality(QueuedIn(heavy)) + n
    BY <1>1, <2>1, TaskAdded
  <2> QED BY <2>1, <2>2, <2>3, <2>4
<1> QED BY <1>2, <1>3 DEF Queues

\* A thread of the pool moves: what is to be shown of the counts.
LEMMA StepCounted ==
  ASSUME TypeInv, NEW w \in Workers, NEW at \in Places, NEW left \in 0 .. Step,
         Moves(w, at, left), at \notin {"making", "failed"} => left = 0,
         NEW n, Queues(n),
         callbacks' = callbacks + n + (IF Makes(at) THEN 1 ELSE 0)
                                    - (IF Makes(worker[w].at) THEN 1 ELSE 0),
         generated' \in Int, mishaps' \in Nat,
         generated' + mishaps' >= generated + mishaps + left - worker[w].left
  PROVE  CountInv' /\ callbacks' \in Nat /\ heavy' \in Seq(Kinds)
<1> DEFINE Q == Cardinality(QueuedIn(heavy))
           M == Cardinality(MakersIn(worker))
           P == Cardinality(PromisedIn(worker))
<1>1. /\ worker' \in [Workers -> Threads] /\ worker'[w].at = at /\ worker'[w].left = left
      /\ \A v \in Workers \ {w} : worker'[v] = worker[v]
  BY DEF Moves
<1>2. Q \in Nat /\ M \in Nat /\ P \in Nat
  BY TypeFacts, TasksCounted, MakersCounted, PromisesCounted
<1>3. n \in Nat /\ heavy' \in Seq(Kinds) /\ Cardinality(QueuedIn(heavy')) = Q + n
  BY QueuesCounted
<1>4. Cardinality(MakersIn(worker')) =
        M + (IF Makes(at) THEN 1 ELSE 0) - (IF Makes(worker[w].at) THEN 1 ELSE 0)
  BY <1>1, MakersMove
<1>5. worker[w].left \in 0 .. Step /\ Step \in Nat
  <2>1. worker[w].left \in Nat /\ worker[w].left <= Step /\ Step \in Nat
    BY TypeFacts
  <2> QED BY <2>1
<1>6. Cardinality(PromisedIn(worker')) = P + left - worker[w].left
  BY <1>1, <1>5, PromisesMove
<1>7. /\ callbacks = Q + M /\ generated + mishaps >= P
      /\ \A v \in Workers : worker[v].at \notin {"making", "failed"} => worker[v].left = 0
  BY DEF TypeInv, CountInv
<1>8. Cardinality(MakersIn(worker')) \in Nat
  BY MakersCounted
<1>9. generated \in Int /\ mishaps \in Nat
  BY TypeFacts
<1> HIDE DEF Q, M, P
<1>10. callbacks' = Cardinality(QueuedIn(heavy')) + Cardinality(MakersIn(worker'))
  BY <1>2, <1>3, <1>4, <1>7
<1>11. generated' + mishaps' >= Cardinality(PromisedIn(worker'))
  BY <1>2, <1>5, <1>6, <1>7, <1>9
<1>12. \A v \in Workers : worker'[v].at \notin {"making", "failed"} => worker'[v].left = 0
  BY <1>1, <1>7
<1>13. callbacks' \in Nat
  BY <1>2, <1>3, <1>8, <1>10
<1> QED BY <1>3, <1>10, <1>11, <1>12, <1>13 DEF CountInv

\* No thread of the pool moves.
LEMMA RestCounted ==
  ASSUME TypeInv, worker' = worker,
         NEW n, Queues(n), callbacks' = callbacks + n,
         generated' \in Int, mishaps' \in Nat, generated' + mishaps' >= generated + mishaps
  PROVE  CountInv' /\ callbacks' \in Nat /\ heavy' \in Seq(Kinds)
<1> DEFINE Q == Cardinality(QueuedIn(heavy))
           M == Cardinality(MakersIn(worker))
           P == Cardinality(PromisedIn(worker))
<1>1. Q \in Nat /\ M \in Nat /\ P \in Nat
  BY TypeFacts, TasksCounted, MakersCounted, PromisesCounted
<1>2. n \in Nat /\ heavy' \in Seq(Kinds) /\ Cardinality(QueuedIn(heavy')) = Q + n
  BY QueuesCounted
<1>3. /\ callbacks = Q + M /\ generated + mishaps >= P
      /\ \A v \in Workers : worker[v].at \notin {"making", "failed"} => worker[v].left = 0
  BY DEF TypeInv, CountInv
<1>4. generated \in Int /\ mishaps \in Nat
  BY TypeFacts
<1>5. Cardinality(MakersIn(worker')) = M /\ Cardinality(PromisedIn(worker')) = P
  OBVIOUS
<1> HIDE DEF Q, M, P
<1>6. callbacks' = Cardinality(QueuedIn(heavy')) + Cardinality(MakersIn(worker'))
  BY <1>1, <1>2, <1>3, <1>5
<1>7. generated' + mishaps' >= Cardinality(PromisedIn(worker'))
  <2>1. generated + mishaps >= P
    BY <1>3
  <2>2. \A a, b, c \in Int : a >= b /\ b >= c => a >= c
    OBVIOUS
  <2>3. generated' + mishaps' \in Int /\ generated + mishaps \in Int /\ P \in Int
    BY <1>1, <1>4
  <2>4. generated' + mishaps' >= P
    BY <2>1, <2>2, <2>3
  <2> QED BY <1>5, <2>4
<1>8. callbacks' \in Nat
  BY <1>1, <1>2, <1>3
<1> QED BY <1>2, <1>3, <1>6, <1>7, <1>8 DEF CountInv
Thread(at, left, made, todo, with, begun) ==
  [at |-> at, left |-> left, made |-> made, todo |-> todo, with |-> with, begun |-> begun]

LEMMA ThreadMade ==
  ASSUME NEW at \in Places, NEW left \in 0 .. Step, NEW made \in BOOLEAN,
         NEW todo \in SUBSET Controllers, NEW with \in SUBSET Controllers, NEW begun \in BOOLEAN
  PROVE  /\ Thread(at, left, made, todo, with, begun) \in Threads
         /\ Thread(at, left, made, todo, with, begun).at = at
         /\ Thread(at, left, made, todo, with, begun).left = left
BY DEF Thread, Threads

LEMMA ThreadParts ==
  ASSUME NEW r \in Threads
  PROVE  /\ r = Thread(r.at, r.left, r.made, r.todo, r.with, r.begun)
         /\ r.at \in Places /\ r.left \in 0 .. Step /\ r.made \in BOOLEAN
         /\ r.todo \in SUBSET Controllers /\ r.with \in SUBSET Controllers /\ r.begun \in BOOLEAN
BY DEF Thread, Threads

\* One field of a thread is changed.
LEMMA FieldChanged ==
  ASSUME NEW r \in Threads
  PROVE  /\ \A at \in Places :
              \E q \in Threads : q = [r EXCEPT !.at = at] /\ q.at = at /\ q.left = r.left
         /\ \A left \in 0 .. Step :
              \E q \in Threads : q = [r EXCEPT !.left = left] /\ q.at = r.at /\ q.left = left
         /\ \A made \in BOOLEAN :
              \E q \in Threads : q = [r EXCEPT !.made = made] /\ q.at = r.at /\ q.left = r.left
         /\ \A set \in SUBSET Controllers :
              \E q \in Threads : q = [r EXCEPT !.todo = set] /\ q.at = r.at /\ q.left = r.left
         /\ \A set \in SUBSET Controllers :
              \E q \in Threads : q = [r EXCEPT !.with = set] /\ q.at = r.at /\ q.left = r.left
         /\ \A begun \in BOOLEAN :
              \E q \in Threads : q = [r EXCEPT !.begun = begun] /\ q.at = r.at /\ q.left = r.left
<1>1. PICK a \in Places, l \in 0 .. Step, m \in BOOLEAN, t \in SUBSET Controllers,
           u \in SUBSET Controllers, b \in BOOLEAN : r = Thread(a, l, m, t, u, b)
  BY ThreadParts
<1>2. r.at = a /\ r.left = l
  BY <1>1, ThreadMade
<1>3. ASSUME NEW at \in Places
      PROVE  \E q \in Threads : q = [r EXCEPT !.at = at] /\ q.at = at /\ q.left = r.left
  <2>1. [r EXCEPT !.at = at] = Thread(at, l, m, t, u, b)
    BY <1>1 DEF Thread
  <2>2. \E q \in Threads : q = Thread(at, l, m, t, u, b) /\ q.at = at /\ q.left = l
    BY ThreadMade
  <2> QED BY <1>2, <2>1, <2>2
<1>4. ASSUME NEW left \in 0 .. Step
      PROVE  \E q \in Threads : q = [r EXCEPT !.left = left] /\ q.at = r.at /\ q.left = left
  <2>1. [r EXCEPT !.left = left] = Thread(a, left, m, t, u, b)
    BY <1>1 DEF Thread
  <2>2. \E q \in Threads : q = Thread(a, left, m, t, u, b) /\ q.at = a /\ q.left = left
    BY ThreadMade
  <2> QED BY <1>2, <2>1, <2>2
<1>5. ASSUME NEW made \in BOOLEAN
      PROVE  \E q \in Threads : q = [r EXCEPT !.made = made] /\ q.at = r.at /\ q.left = r.left
  <2>1. [r EXCEPT !.made = made] = Thread(a, l, made, t, u, b)
    BY <1>1 DEF Thread
  <2>2. \E q \in Threads : q = Thread(a, l, made, t, u, b) /\ q.at = a /\ q.left = l
    BY ThreadMade
  <2> QED BY <1>2, <2>1, <2>2
<1>6. ASSUME NEW set \in SUBSET Controllers
      PROVE  \E q \in Threads : q = [r EXCEPT !.todo = set] /\ q.at = r.at /\ q.left = r.left
  <2>1. [r EXCEPT !.todo = set] = Thread(a, l, m, set, u, b)
    BY <1>1 DEF Thread
  <2>2. \E q \in Threads : q = Thread(a, l, m, set, u, b) /\ q.at = a /\ q.left = l
    BY ThreadMade
  <2> QED BY <1>2, <2>1, <2>2
<1>7. ASSUME NEW set \in SUBSET Controllers
      PROVE  \E q \in Threads : q = [r EXCEPT !.with = set] /\ q.at = r.at /\ q.left = r.left
  <2>1. [r EXCEPT !.with = set] = Thread(a, l, m, t, set, b)
    BY <1>1 DEF Thread
  <2>2. \E q \in Threads : q = Thread(a, l, m, t, set, b) /\ q.at = a /\ q.left = l
    BY ThreadMade
  <2> QED BY <1>2, <2>1, <2>2
<1>8. ASSUME NEW begun \in BOOLEAN
      PROVE  \E q \in Threads : q = [r EXCEPT !.begun = begun] /\ q.at = r.at /\ q.left = r.left
  <2>1. [r EXCEPT !.begun = begun] = Thread(a, l, m, t, u, begun)
    BY <1>1 DEF Thread
  <2>2. \E q \in Threads : q = Thread(a, l, m, t, u, begun) /\ q.at = a /\ q.left = l
    BY ThreadMade
  <2> QED BY <1>2, <2>1, <2>2
<1> QED BY <1>3, <1>4, <1>5, <1>6, <1>7, <1>8

Changed(r, at, todo, with, begun) ==
  [r EXCEPT !.at = at, !.todo = todo, !.with = with, !.begun = begun]

LEMMA RecordChanged ==
  ASSUME NEW r \in Threads, NEW at \in Places, NEW todo \in SUBSET Controllers,
         NEW with \in SUBSET Controllers, NEW begun \in BOOLEAN
  PROVE  \E q \in Threads : /\ q = Changed(r, at, todo, with, begun)
                            /\ q.at = at /\ q.left = r.left
<1>1. PICK q1 \in Threads : q1 = [r EXCEPT !.at = at] /\ q1.at = at /\ q1.left = r.left
  BY FieldChanged
<1>2. PICK q2 \in Threads : q2 = [q1 EXCEPT !.todo = todo] /\ q2.at = q1.at /\ q2.left = q1.left
  BY FieldChanged
<1>3. PICK q3 \in Threads : q3 = [q2 EXCEPT !.with = with] /\ q3.at = q2.at /\ q3.left = q2.left
  BY FieldChanged
<1>4. PICK q4 \in Threads : q4 = [q3 EXCEPT !.begun = begun] /\ q4.at = q3.at /\ q4.left = q3.left
  BY FieldChanged
<1>5. [r EXCEPT !.at = at, !.todo = todo, !.with = with, !.begun = begun] =
        [[[[r EXCEPT !.at = at] EXCEPT !.todo = todo] EXCEPT !.with = with] EXCEPT !.begun = begun]
  OBVIOUS
<1>6. q4 = [r EXCEPT !.at = at, !.todo = todo, !.with = with, !.begun = begun]
  BY <1>1, <1>2, <1>3, <1>4, <1>5
<1>7. q4.at = at /\ q4.left = r.left
  BY <1>1, <1>2, <1>3, <1>4
<1> QED BY <1>6, <1>7 DEF Changed
LEMMA BeginMoves ==
  ASSUME TypeInv, NEW w \in Workers, NEW n \in Int, 1 <= n, n <= Step,
         worker' = [worker EXCEPT ![w] = [Waiting EXCEPT !.at = "making", !.left = n]]
  PROVE  Moves(w, "making", n)
<1>0. Step \in Nat
  BY TypeFacts
<1>1. Waiting \in Threads /\ "making" \in Places /\ n \in 0 .. Step
  BY <1>0, WaitingThread DEF Places
<1>2. PICK p \in Threads : p = [Waiting EXCEPT !.at = "making"] /\ p.at = "making"
  BY <1>1, FieldChanged
<1>3. PICK q \in Threads : q = [p EXCEPT !.left = n] /\ q.at = p.at /\ q.left = n
  BY <1>1, FieldChanged
<1>4. q.at = "making"
  BY <1>2, <1>3
<1>5. PICK r \in Threads : r = Waiting
  BY <1>1
<1>6. [r EXCEPT !.at = "making", !.left = n] = [[r EXCEPT !.at = "making"] EXCEPT !.left = n]
  OBVIOUS
<1>7. worker' = [worker EXCEPT ![w] = q]
  BY <1>2, <1>3, <1>5, <1>6
<1>8. Moves(w, q.at, q.left)
  BY <1>7, TypeFacts, OneMoves
<1> QED BY <1>3, <1>4, <1>8

LEMMA MakeInputMoves ==
  ASSUME TypeInv, NEW w \in Workers, MakeInput(w)
  PROVE  Moves(w, "making", worker[w].left - 1)
<1>1. worker \in [Workers -> Threads] /\ Step \in Nat
  BY TypeFacts
<1>2. PICK r \in Threads : r = worker[w]
  BY <1>1
<1>3. r.at = "making" /\ r.left \in 0 .. Step /\ r.left > 0
  BY <1>2, ThreadParts DEF MakeInput
<1>4. r.left - 1 \in 0 .. Step
  BY <1>1, <1>3
<1>5. PICK p \in Threads : p = [r EXCEPT !.left = r.left - 1] /\ p.at = r.at /\ p.left = r.left - 1
  BY <1>4, FieldChanged
<1>6. PICK q \in Threads : q = [p EXCEPT !.made = TRUE] /\ q.at = p.at /\ q.left = p.left
  BY FieldChanged
<1>7. [r EXCEPT !.left = r.left - 1, !.made = TRUE] =
        [[r EXCEPT !.left = r.left - 1] EXCEPT !.made = TRUE]
  OBVIOUS
<1>8. worker' = [worker EXCEPT ![w] = [r EXCEPT !.left = r.left - 1, !.made = TRUE]]
  BY <1>1, <1>2 DEF MakeInput
<1>9. worker' = [worker EXCEPT ![w] = q]
  BY <1>5, <1>6, <1>7, <1>8
<1>10. Moves(w, q.at, q.left)
  BY <1>1, <1>9, OneMoves
<1>11. q.at = "making" /\ q.left = worker[w].left - 1
  BY <1>2, <1>3, <1>5, <1>6
<1> QED BY <1>10, <1>11

LEMMA EndGenerationMoves ==
  ASSUME TypeInv, NEW w \in Workers, EndGeneration(w), ~QueuesItself(w)
  PROVE  \E at \in {"optimizing", "selecting"} : Moves(w, at, worker[w].left)
<1>1. worker \in [Workers -> Threads]
  BY TypeFacts
<1> DEFINE at == IF params.optimize THEN "optimizing" ELSE "selecting"
           there == {c \in Controllers : controller[c].state # "none"}
<1>2. at \in {"optimizing", "selecting"} /\ at \in Places /\ there \in SUBSET Controllers
  BY DEF Places
<1>3. worker' = [worker EXCEPT ![w].at = at, ![w].todo = there]
  BY DEF EndGeneration
<1> HIDE DEF at, there
<1>4. PICK r \in Threads : r = worker[w]
  BY <1>1
<1>5. PICK p \in Threads : p = [r EXCEPT !.at = at] /\ p.at = at /\ p.left = r.left
  BY <1>2, FieldChanged
<1>6. PICK q \in Threads : q = [p EXCEPT !.todo = there] /\ q.at = p.at /\ q.left = p.left
  BY <1>2, FieldChanged
<1>7. [r EXCEPT !.at = at, !.todo = there] = [[r EXCEPT !.at = at] EXCEPT !.todo = there]
  OBVIOUS
<1>8. worker' = [worker EXCEPT ![w] = [r EXCEPT !.at = at, !.todo = there]]
  BY <1>1, <1>3, <1>4
<1>9. worker' = [worker EXCEPT ![w] = q]
  BY <1>5, <1>6, <1>7, <1>8
<1>10. Moves(w, q.at, q.left)
  BY <1>1, <1>9, OneMoves
<1>11. q.at = at /\ q.left = worker[w].left
  BY <1>4, <1>5, <1>6
<1> QED BY <1>2, <1>10, <1>11

LEMMA ScoreMoves ==
  ASSUME TypeInv, NEW w \in Workers, NEW c \in Controllers, StartScoreOptimization(w, c)
  PROVE  Moves(w, "optimizing", worker[w].left)
<1>1. worker \in [Workers -> Threads]
  BY TypeFacts
<1>2. PICK r \in Threads : r = worker[w]
  BY <1>1
<1>3. worker' = [worker EXCEPT ![w] = [r EXCEPT !.begun = TRUE]] /\ r.at = "optimizing"
  BY <1>1, <1>2 DEF StartScoreOptimization
<1>4. PICK q \in Threads : q = [r EXCEPT !.begun = TRUE] /\ q.at = r.at /\ q.left = r.left
  BY FieldChanged
<1>5. Moves(w, q.at, q.left)
  BY <1>1, <1>3, <1>4, OneMoves
<1> QED BY <1>2, <1>3, <1>4, <1>5

LEMMA LookMoves ==
  ASSUME TypeInv, NEW w \in Workers, NEW c \in Controllers, LookAtController(w, c)
  PROVE  \E at \in {"attaching", "selecting"} : Moves(w, at, worker[w].left)
<1>1. worker \in [Workers -> Threads]
  BY TypeFacts
<1>2. PICK r \in Threads : r = worker[w]
  BY <1>1
<1> DEFINE at == IF Active(c) THEN "attaching" ELSE "selecting"
           todo == IF Active(c) THEN r.todo ELSE r.todo \ {c}
           with == IF Active(c) THEN {c} ELSE {}
           begun == r.begun \/ (params.optimize /\ Active(c))
<1>3. worker' = [worker EXCEPT ![w] = Changed(r, at, todo, with, begun)]
  BY <1>1, <1>2 DEF LookAtController, Changed
<1>4. at \in {"attaching", "selecting"} /\ at \in Places
  BY DEF Places
<1>5. todo \in SUBSET Controllers /\ with \in SUBSET Controllers
  BY ThreadParts
<1>6. begun \in BOOLEAN
  <2>1. r.begun \in BOOLEAN
    BY ThreadParts
  <2> QED BY <2>1, Zenon
<1> HIDE DEF at, todo, with, begun
<1>7. PICK q \in Threads :
        q = Changed(r, at, todo, with, begun) /\ q.at = at /\ q.left = r.left
  BY <1>4, <1>5, <1>6, RecordChanged
<1>8. Moves(w, q.at, q.left)
  BY <1>1, <1>3, <1>7, OneMoves
<1> QED BY <1>2, <1>4, <1>7, <1>8

LEMMA AttachMoves ==
  ASSUME TypeInv, NEW w \in Workers, NEW c \in Controllers, AttachCallback(w, c)
  PROVE  Moves(w, "selecting", worker[w].left)
<1>1. worker \in [Workers -> Threads]
  BY TypeFacts
<1>2. PICK r \in Threads : r = worker[w]
  BY <1>1
<1> DEFINE todo == r.todo \ {c}
           with == {}
           begun == r.begun \/ Active(c)
<1>3. worker' = [worker EXCEPT ![w] = [r EXCEPT !.at = "selecting", !.with = with, !.todo = todo,
                                               !.begun = begun]]
  BY <1>1, <1>2 DEF AttachCallback
<1>4. "selecting" \in Places
  BY DEF Places
<1>5. todo \in SUBSET Controllers /\ with \in SUBSET Controllers
  BY ThreadParts
<1>6. begun \in BOOLEAN
  <2>1. r.begun \in BOOLEAN
    BY ThreadParts
  <2> QED BY <2>1, Zenon
<1> HIDE DEF todo, with, begun
<1>7. worker' = [worker EXCEPT ![w] = Changed(r, "selecting", todo, with, begun)]
  <2>1. [r EXCEPT !.at = "selecting", !.with = with, !.todo = todo, !.begun = begun] =
          [r EXCEPT !.at = "selecting", !.todo = todo, !.with = with, !.begun = begun]
    OBVIOUS
  <2> QED BY <1>3, <2>1 DEF Changed
<1>8. PICK q \in Threads :
        q = Changed(r, "selecting", todo, with, begun) /\ q.at = "selecting" /\ q.left = r.left
  BY <1>4, <1>5, <1>6, RecordChanged
<1>9. Moves(w, q.at, q.left)
  BY <1>1, <1>7, <1>8, OneMoves
<1> QED BY <1>2, <1>8, <1>9
-----------------------------------------------------------------------------
(* Every step keeps the types and the counts.                              *)

LEMMA NothingLeft ==
  ASSUME TypeInv, NEW w \in Workers, ~Makes(worker[w].at)
  PROVE  worker[w].left = 0
BY DEF TypeInv, CountInv, Makes

\* A thread goes on with something else than inputs, and no task that generates
\* inputs is queued.
LEMMA QuietMove ==
  ASSUME TypeInv, NEW w \in Workers, NEW at \in Places, Moves(w, at, worker[w].left),
         ~Makes(worker[w].at), ~Makes(at), Queues(0),
         UNCHANGED <<params, countVars, callbacks>>,
         ending' \in BOOLEAN, finishing' \in BOOLEAN,
         tests' \in Nat, light' \in Nat, saving' \in Nat,
         controller' \in [Controllers -> DeltaStates],
         mishaps' \in Nat, mishaps <= mishaps', mishaps' <= params.mishaps
  PROVE  TypeInv'
<1>1. worker[w].left = 0 /\ Step \in Nat /\ callbacks \in Nat
  BY NothingLeft, TypeFacts
<1>2. Moves(w, at, 0) /\ 0 \in 0 .. Step
  BY <1>1
<1>3. generated \in Int /\ generated <= params.target /\ mishaps \in Nat
  BY TypeFacts
<1>4. /\ generated' = generated /\ active' = active /\ callbacks' = callbacks
      /\ params' = params
  BY DEF countVars
<1>5. generated' \in Int /\ generated' + mishaps' >= generated + mishaps + 0 - worker[w].left
  <2>1. \A a \in Int, b, c \in Nat : b <= c => a + c >= a + b + 0 - 0
    OBVIOUS
  <2>2. generated + mishaps' >= generated + mishaps + 0 - 0
    BY <1>3, <2>1
  <2> QED BY <1>1, <1>3, <1>4, <2>2
<1>6. callbacks' = callbacks + 0 + (IF Makes(at) THEN 1 ELSE 0)
                                 - (IF Makes(worker[w].at) THEN 1 ELSE 0)
  BY <1>1, <1>4
<1>7. CountInv' /\ callbacks' \in Nat /\ heavy' \in Seq(Kinds)
  BY <1>2, <1>5, <1>6, StepCounted
<1>8. worker' \in [Workers -> Threads]
  BY DEF Moves
<1>9. Types'
  BY <1>4, <1>7, <1>8 DEF TypeInv, Types
<1> QED BY <1>7, <1>9 DEF TypeInv

LEMMA CheckQueues ==
  ASSUME TypeInv, NEW fails \in BOOLEAN, CheckGenerationEnd(fails)
  PROVE  /\ Queues(0) /\ ending' \in BOOLEAN
         /\ heavy' = heavy \/ heavy' = heavy \o <<"end">>
<1>1. heavy \o <<>> = heavy
  BY TypeFacts, NoMoreTask
<1>2. heavy' = heavy \/ heavy' = heavy \o <<"end">>
  BY <1>1 DEF CheckGenerationEnd, AddTasks
<1>3. Queues(0)
  BY <1>2 DEF Queues, Kinds
<1>4. ending \in BOOLEAN
  BY DEF TypeInv, Types
<1>5. ending' \in BOOLEAN
  BY <1>4 DEF CheckGenerationEnd
<1> QED BY <1>2, <1>3, <1>5

LEMMA GenerateQueues ==
  ASSUME TypeInv, GenerateTests
  PROVE  \E n \in {0, 1} : /\ Queues(n) /\ callbacks' = callbacks + n
                           /\ callbacks' <= MaxCallbacks
<1>1. callbacks \in Nat /\ MaxCallbacks \in Nat /\ callbacks <= MaxCallbacks
  BY TypeFacts
<1>2. CASE callbacks < MaxCallbacks
  <2>1. callbacks' = callbacks + 1 /\ heavy' = heavy \o <<"generate">>
    BY <1>2 DEF GenerateTests, AddTasks
  <2>2. Queues(1)
    BY <2>1 DEF Queues, Kinds
  <2>3. callbacks' <= MaxCallbacks
    BY <1>1, <1>2, <2>1
  <2> QED BY <2>1, <2>2, <2>3
<1>3. CASE ~(callbacks < MaxCallbacks)
  <2>1. callbacks' = callbacks /\ heavy' = heavy
    BY <1>3 DEF GenerateTests
  <2>2. Queues(0) /\ callbacks' = callbacks + 0 /\ callbacks' <= MaxCallbacks
    BY <1>1, <2>1 DEF Queues
  <2> QED BY <2>2
<1> QED BY <1>2, <1>3

LEMMA OneQueued ==
  ASSUME NEW k \in Kinds, k # "generate", heavy' = heavy \o <<k>>
  PROVE  Queues(0)
BY DEF Queues

LEMMA NoneQueued ==
  ASSUME TypeInv, heavy' = heavy \/ heavy' = heavy \o <<>>
  PROVE  Queues(0) /\ heavy' = heavy
BY TypeFacts, NoMoreTask DEF Queues
\* The rest of the types, unless a step changes them.
LEMMA Typed ==
  ASSUME TypeInv
  PROVE  /\ ending \in BOOLEAN /\ finishing \in BOOLEAN
         /\ tests \in Nat /\ light \in Nat /\ saving \in Nat
         /\ controller \in [Controllers -> DeltaStates]
         /\ mishaps \in Nat /\ mishaps <= params.mishaps /\ mishaps <= mishaps
BY DEF TypeInv, Types

LEMMA TestEndTypes ==
  ASSUME TypeInv, NEW w \in Workers, TestEnd(w)
  PROVE  /\ Moves(w, "request", worker[w].left) /\ ~Makes(worker[w].at)
         /\ TypeInv'
<1>1. worker[w].at = "test end" /\ CheckGenerationEnd(FALSE) /\ Goes(w, "request")
      /\ UNCHANGED <<params, countVars, finishing, tests, light, callbacks, controller, saving,
                     mishaps>>
  BY DEF TestEnd
<1>2. "request" \in Places /\ ~Makes("request") /\ ~Makes(worker[w].at)
  BY <1>1 DEF Places, Makes
<1>3. Moves(w, "request", worker[w].left)
  BY <1>1, <1>2, GoesMoves
<1>4. Queues(0) /\ ending' \in BOOLEAN
  BY <1>1, CheckQueues
<1> QED BY <1>1, <1>2, <1>3, <1>4, Typed, QuietMove

LEMMA RepeatTestTypes ==
  ASSUME TypeInv, NEW w \in Workers, RepeatTest(w)
  PROVE  /\ Moves(w, "waiting", 0) /\ ~Makes(worker[w].at)
         /\ TypeInv'
<1>1. /\ worker[w].at = "test end" /\ mishaps < params.mishaps /\ mishaps' = mishaps + 1
      /\ tests' = tests + 1 /\ Ends(w)
      /\ UNCHANGED <<params, countVars, flagVars, poolVars, controller, saving>>
  BY DEF RepeatTest
<1>2. "waiting" \in Places /\ ~Makes("waiting") /\ ~Makes(worker[w].at)
  BY <1>1 DEF Places, Makes
<1>3. Moves(w, "waiting", 0) /\ worker[w].left = 0
  BY <1>1, <1>2, EndsMoves, NothingLeft
<1>4. /\ params' = params /\ ending' = ending /\ finishing' = finishing /\ light' = light
      /\ heavy' = heavy /\ callbacks' = callbacks /\ controller' = controller /\ saving' = saving
      /\ UNCHANGED <<params, countVars, callbacks>>
  BY <1>1 DEF flagVars, poolVars
<1>5. Queues(0)
  BY <1>4, NoneQueued
<1>6. mishaps' \in Nat /\ mishaps <= mishaps' /\ mishaps' <= params.mishaps /\ tests' \in Nat
  <2>1. mishaps \in Nat /\ tests \in Nat /\ params.mishaps \in Nat
    BY Typed, TypeFacts
  <2>2. mishaps < params.mishaps /\ mishaps' = mishaps + 1 /\ tests' = tests + 1
    BY <1>1
  <2> QED BY <2>1, <2>2
<1> QED BY <1>2, <1>3, <1>4, <1>5, <1>6, Typed, QuietMove

LEMMA EndGenerationTypes ==
  ASSUME TypeInv, NEW w \in Workers, EndGeneration(w)
  PROVE  /\ \E at \in {"waiting", "optimizing", "selecting"} : Moves(w, at, 0)
         /\ ~Makes(worker[w].at)
         /\ TypeInv'
<1>1. /\ worker[w].at = "end"
      /\ UNCHANGED <<params, countVars, flagVars, tests, light, callbacks, controller, saving,
                     mishaps>>
  BY DEF EndGeneration
<1>2. ~Makes(worker[w].at) /\ worker[w].left = 0
  <2>1. ~Makes(worker[w].at)
    BY <1>1 DEF Makes
  <2> QED BY <2>1, NothingLeft
<1>3. ending' = ending /\ finishing' = finishing
  BY <1>1 DEF flagVars
<1>4. CASE QueuesItself(w)
  <2>1. heavy' = heavy \o <<"end">> /\ Ends(w)
    BY <1>4 DEF EndGeneration, AddTasks
  <2>2. Queues(0) /\ Moves(w, "waiting", 0)
    BY <2>1, EndsMoves, OneQueued DEF Kinds
  <2>3. "waiting" \in Places /\ ~Makes("waiting")
    BY DEF Places, Makes
  <2> QED BY <1>1, <1>2, <1>3, <2>2, <2>3, Typed, QuietMove
<1>5. CASE ~QueuesItself(w)
  <2>1. heavy' = heavy
    BY <1>5 DEF EndGeneration
  <2>2. PICK at \in {"optimizing", "selecting"} : Moves(w, at, worker[w].left)
    BY <1>5, EndGenerationMoves
  <2>3. at \in Places /\ ~Makes(at) /\ Queues(0)
    BY <2>1, <2>2, NoneQueued DEF Places, Makes
  <2> QED BY <1>1, <1>2, <1>3, <2>2, <2>3, Typed, QuietMove
<1> QED BY <1>4, <1>5
LEMMA EndSelectionTypes ==
  ASSUME TypeInv, NEW w \in Workers, EndSelection(w)
  PROVE  /\ Moves(w, "waiting", 0) /\ ~Makes(worker[w].at)
         /\ heavy' = heavy \/ heavy' = heavy \o <<"finish">>
         /\ TypeInv'
<1>1. /\ worker[w].at \in {"optimizing", "selecting"} /\ Ends(w)
      /\ AddTasks(IF worker[w].begun THEN <<>> ELSE <<"finish">>)
      /\ UNCHANGED <<params, countVars, flagVars, tests, light, callbacks, controller, saving,
                     mishaps>>
  BY DEF EndSelection
<1>2. "waiting" \in Places /\ ~Makes("waiting") /\ ~Makes(worker[w].at)
  BY <1>1 DEF Places, Makes
<1>3. Moves(w, "waiting", 0) /\ worker[w].left = 0
  BY <1>1, <1>2, EndsMoves, NothingLeft
<1>4. ending' = ending /\ finishing' = finishing
  BY <1>1 DEF flagVars
<1>5. heavy' = heavy \o <<>> \/ heavy' = heavy \o <<"finish">>
  BY <1>1 DEF AddTasks
<1>6. heavy' = heavy \/ heavy' = heavy \o <<"finish">>
  BY <1>5, NoneQueued
<1>7. Queues(0)
  BY <1>6, NoneQueued, OneQueued DEF Kinds
<1> QED BY <1>1, <1>2, <1>3, <1>4, <1>6, <1>7, Typed, QuietMove

LEMMA ControllerSet ==
  ASSUME TypeInv, NEW c \in Controllers
  PROVE  /\ controller[c].state \in {"none", "busy", "hung", "finished"}
         /\ controller[c].listed \in BOOLEAN
         /\ \A s \in {"none", "busy", "hung", "finished"} :
              [controller EXCEPT ![c].state = s] \in [Controllers -> DeltaStates]
         /\ \A b \in BOOLEAN :
              [controller EXCEPT ![c].listed = b] \in [Controllers -> DeltaStates]
         /\ \A r \in DeltaStates : [controller EXCEPT ![c] = r] \in [Controllers -> DeltaStates]
<1>1. controller \in [Controllers -> DeltaStates]
  BY Typed
<1>2. PICK r \in DeltaStates : r = controller[c]
  BY <1>1
<1>3. \A q \in DeltaStates : [controller EXCEPT ![c] = q] \in [Controllers -> DeltaStates]
  BY <1>1
<1>4. \A s \in {"none", "busy", "hung", "finished"} : [r EXCEPT !.state = s] \in DeltaStates
  BY DEF DeltaStates
<1>5. \A b \in BOOLEAN : [r EXCEPT !.listed = b] \in DeltaStates
  BY DEF DeltaStates
<1>6. r.state \in {"none", "busy", "hung", "finished"} /\ r.listed \in BOOLEAN
  BY DEF DeltaStates
<1>7. ASSUME NEW s \in {"none", "busy", "hung", "finished"}
      PROVE  [controller EXCEPT ![c].state = s] \in [Controllers -> DeltaStates]
  <2>1. [controller EXCEPT ![c].state = s] = [controller EXCEPT ![c] = [r EXCEPT !.state = s]]
    BY <1>1, <1>2
  <2>2. PICK q \in DeltaStates : q = [r EXCEPT !.state = s]
    BY <1>4
  <2> QED BY <1>3, <2>1, <2>2
<1>8. ASSUME NEW b \in BOOLEAN
      PROVE  [controller EXCEPT ![c].listed = b] \in [Controllers -> DeltaStates]
  <2>1. [controller EXCEPT ![c].listed = b] = [controller EXCEPT ![c] = [r EXCEPT !.listed = b]]
    BY <1>1, <1>2
  <2>2. PICK q \in DeltaStates : q = [r EXCEPT !.listed = b]
    BY <1>5
  <2> QED BY <1>3, <2>1, <2>2
<1> QED BY <1>2, <1>3, <1>6, <1>7, <1>8

LEMMA ScoreTypes ==
  ASSUME TypeInv, NEW w \in Workers, NEW c \in Controllers, StartScoreOptimization(w, c)
  PROVE  /\ Moves(w, "optimizing", worker[w].left) /\ ~Makes(worker[w].at)
         /\ TypeInv'
<1>1. /\ worker[w].at = "optimizing"
      /\ controller' = [controller EXCEPT ![c] = [state |-> "busy", listed |-> TRUE]]
      /\ UNCHANGED <<params, countVars, flagVars, tests, poolVars, saving, mishaps>>
  BY DEF StartScoreOptimization
<1>2. "optimizing" \in Places /\ ~Makes("optimizing") /\ ~Makes(worker[w].at)
  BY <1>1 DEF Places, Makes
<1>3. Moves(w, "optimizing", worker[w].left)
  BY ScoreMoves
<1>4. /\ ending' = ending /\ finishing' = finishing /\ light' = light
      /\ heavy' = heavy /\ callbacks' = callbacks
      /\ UNCHANGED <<params, countVars, callbacks>>
  BY <1>1 DEF flagVars, poolVars
<1>5. Queues(0)
  BY <1>4, NoneQueued
<1>6. controller' \in [Controllers -> DeltaStates]
  <2>1. PICK r \in DeltaStates : r = [state |-> "busy", listed |-> TRUE]
    BY DEF DeltaStates
  <2> QED BY <1>1, <2>1, ControllerSet
<1> QED BY <1>1, <1>2, <1>3, <1>4, <1>5, <1>6, Typed, QuietMove

LEMMA LookTypes ==
  ASSUME TypeInv, NEW w \in Workers, NEW c \in Controllers, LookAtController(w, c)
  PROVE  /\ \E at \in {"attaching", "selecting"} : Moves(w, at, worker[w].left)
         /\ ~Makes(worker[w].at)
         /\ TypeInv'
<1>1. /\ worker[w].at \in {"optimizing", "selecting"}
      /\ UNCHANGED <<params, countVars, flagVars, tests, poolVars, controller, saving, mishaps>>
  BY DEF LookAtController
<1>2. PICK at \in {"attaching", "selecting"} : Moves(w, at, worker[w].left)
  BY LookMoves
<1>3. at \in Places /\ ~Makes(at) /\ ~Makes(worker[w].at)
  BY <1>1, <1>2 DEF Places, Makes
<1>4. /\ ending' = ending /\ finishing' = finishing /\ light' = light
      /\ heavy' = heavy /\ callbacks' = callbacks
      /\ UNCHANGED <<params, countVars, callbacks>>
  BY <1>1 DEF flagVars, poolVars
<1>5. Queues(0)
  BY <1>4, NoneQueued
<1> QED BY <1>1, <1>2, <1>3, <1>4, <1>5, Typed, QuietMove

LEMMA AttachTypes ==
  ASSUME TypeInv, NEW w \in Workers, NEW c \in Controllers, AttachCallback(w, c)
  PROVE  /\ Moves(w, "selecting", worker[w].left) /\ ~Makes(worker[w].at)
         /\ TypeInv'
<1>1. /\ worker[w].at = "attaching"
      /\ controller' = [controller EXCEPT ![c].listed = @ \/ Active(c)]
      /\ UNCHANGED <<params, countVars, flagVars, tests, poolVars, saving, mishaps>>
  BY DEF AttachCallback
<1>2. "selecting" \in Places /\ ~Makes("selecting") /\ ~Makes(worker[w].at)
  BY <1>1 DEF Places, Makes
<1>3. Moves(w, "selecting", worker[w].left)
  BY AttachMoves
<1>4. /\ ending' = ending /\ finishing' = finishing /\ light' = light
      /\ heavy' = heavy /\ callbacks' = callbacks
      /\ UNCHANGED <<params, countVars, callbacks>>
  BY <1>1 DEF flagVars, poolVars
<1>5. Queues(0)
  BY <1>4, NoneQueued
<1>6. controller' \in [Controllers -> DeltaStates]
  <2> DEFINE b == controller[c].listed \/ Active(c)
  <2>1. controller' = [controller EXCEPT ![c].listed = b]
    BY <1>1, Typed
  <2>2. controller[c].listed \in BOOLEAN
    BY ControllerSet
  <2>3. b \in BOOLEAN
    BY <2>2, Zenon
  <2> HIDE DEF b
  <2> QED BY <2>1, <2>3, ControllerSet
<1> QED BY <1>1, <1>2, <1>3, <1>4, <1>5, <1>6, Typed, QuietMove
LEMMA FinishTypes ==
  ASSUME TypeInv, NEW w \in Workers, FinishGeneration(w)
  PROVE  /\ ~Makes(worker[w].at)
         /\ \/ /\ Moves(w, "waiting", 0)
               /\ IF finishing THEN heavy' = heavy ELSE heavy' = heavy \o <<"finish">>
            \/ Moves(w, "finishing", 0) /\ heavy' = heavy /\ ~finishing
         /\ TypeInv'
<1>1. /\ worker[w].at = "finish" /\ finishing' = TRUE
      /\ UNCHANGED <<params, countVars, ending, tests, light, callbacks, controller, saving,
                     mishaps>>
  BY DEF FinishGeneration
<1>2. ~Makes(worker[w].at) /\ worker[w].left = 0
  <2>1. ~Makes(worker[w].at)
    BY <1>1 DEF Makes
  <2> QED BY <2>1, NothingLeft
<1>3. \/ /\ Ends(w)
         /\ IF finishing THEN heavy' = heavy ELSE heavy' = heavy \o <<"finish">>
      \/ Goes(w, "finishing") /\ heavy' = heavy /\ ~finishing
  BY DEF FinishGeneration, AddTasks
<1>4. {"waiting", "finishing"} \subseteq Places /\ ~Makes("waiting") /\ ~Makes("finishing")
  BY DEF Places, Makes
<1>5. Queues(0)
  BY <1>3, NoneQueued, OneQueued DEF Kinds
<1>6. finishing' \in BOOLEAN
  BY <1>1
<1>7. CASE /\ Ends(w)
           /\ IF finishing THEN heavy' = heavy ELSE heavy' = heavy \o <<"finish">>
  <2>1. Moves(w, "waiting", 0)
    BY <1>7, EndsMoves
  <2>2. TypeInv'
    BY <1>1, <1>2, <1>4, <1>5, <1>6, <2>1, Typed, QuietMove
  <2> QED BY <1>2, <1>7, <2>1, <2>2
<1>8. CASE Goes(w, "finishing") /\ heavy' = heavy /\ ~finishing
  <2>1. Moves(w, "finishing", 0)
    BY <1>2, <1>4, <1>8, GoesMoves
  <2>2. TypeInv'
    BY <1>1, <1>2, <1>4, <1>5, <1>6, <2>1, Typed, QuietMove
  <2> QED BY <1>2, <1>8, <2>1, <2>2
<1> QED BY <1>3, <1>7, <1>8

LEMMA WaitForControllersTypes ==
  ASSUME TypeInv, NEW w \in Workers, WaitForControllers(w)
  PROVE  /\ Moves(w, "waiting", 0) /\ ~Makes(worker[w].at)
         /\ TypeInv'
<1>1. /\ worker[w].at = "finishing" /\ Ends(w)
      /\ controller' = [c \in Controllers |-> [controller[c] EXCEPT !.listed = @ \/ Active(c)]]
      /\ UNCHANGED <<params, countVars, flagVars, tests, poolVars, saving, mishaps>>
  BY DEF WaitForControllers
<1>2. "waiting" \in Places /\ ~Makes("waiting") /\ ~Makes(worker[w].at)
  BY <1>1 DEF Places, Makes
<1>3. Moves(w, "waiting", 0) /\ worker[w].left = 0
  BY <1>1, <1>2, EndsMoves, NothingLeft
<1>4. /\ ending' = ending /\ finishing' = finishing /\ light' = light
      /\ heavy' = heavy /\ callbacks' = callbacks
      /\ UNCHANGED <<params, countVars, callbacks>>
  BY <1>1 DEF flagVars, poolVars
<1>5. Queues(0)
  BY <1>4, NoneQueued
<1>6. controller' \in [Controllers -> DeltaStates]
  <2>1. ASSUME NEW c \in Controllers
        PROVE  [controller[c] EXCEPT !.listed = @ \/ Active(c)] \in DeltaStates
    <3> DEFINE b == controller[c].listed \/ Active(c)
    <3>1. controller[c].listed \in BOOLEAN /\ controller[c] \in DeltaStates
      BY ControllerSet, Typed
    <3>2. b \in BOOLEAN
      BY <3>1, Zenon
    <3> HIDE DEF b
    <3>3. [controller[c] EXCEPT !.listed = b] \in DeltaStates
      BY <3>1, <3>2 DEF DeltaStates
    <3> QED BY <3>3 DEF b
  <2> QED BY <1>1, <2>1
<1> QED BY <1>1, <1>2, <1>3, <1>4, <1>5, <1>6, Typed, QuietMove

LEMMA WaitForRestTypes ==
  ASSUME TypeInv, NEW w \in Workers, WaitForRest(w)
  PROVE  /\ Moves(w, "replacing", 0) /\ ~Makes(worker[w].at)
         /\ TypeInv'
<1>1. /\ worker[w].at = "renew" /\ Goes(w, "replacing")
      /\ UNCHANGED <<params, countVars, flagVars, tests, poolVars, controller, saving, mishaps>>
  BY DEF WaitForRest
<1>2. "replacing" \in Places /\ ~Makes("replacing") /\ ~Makes(worker[w].at)
  BY <1>1 DEF Places, Makes
<1>3. Moves(w, "replacing", 0) /\ worker[w].left = 0
  BY <1>1, <1>2, GoesMoves, NothingLeft
<1>4. /\ ending' = ending /\ finishing' = finishing /\ light' = light
      /\ heavy' = heavy /\ callbacks' = callbacks
      /\ UNCHANGED <<params, countVars, callbacks>>
  BY <1>1 DEF flagVars, poolVars
<1>5. Queues(0)
  BY <1>4, NoneQueued
<1> QED BY <1>1, <1>2, <1>3, <1>4, <1>5, Typed, QuietMove

LEMMA SaveCheckTypes ==
  ASSUME TypeInv, NEW w \in Workers, SaveCheck(w)
  PROVE  /\ Moves(w, "waiting", 0) /\ ~Makes(worker[w].at)
         /\ IF params.saves THEN heavy' = heavy ELSE heavy' = heavy \o <<"renew">>
         /\ TypeInv'
<1>1. /\ worker[w].at = "finishing" /\ Ends(w)
      /\ IF params.saves THEN saving' = saving + 1 /\ heavy' = heavy
                         ELSE heavy' = heavy \o <<"renew">> /\ saving' = saving
      /\ UNCHANGED <<params, countVars, flagVars, tests, light, callbacks, controller, mishaps>>
  BY DEF SaveCheck, AddTasks
<1>2. "waiting" \in Places /\ ~Makes("waiting") /\ ~Makes(worker[w].at)
  BY <1>1 DEF Places, Makes
<1>3. Moves(w, "waiting", 0) /\ worker[w].left = 0
  BY <1>1, <1>2, EndsMoves, NothingLeft
<1>4. ending' = ending /\ finishing' = finishing
  BY <1>1 DEF flagVars
<1>5. heavy' = heavy \/ heavy' = heavy \o <<"renew">>
  BY <1>1
<1>6. Queues(0)
  BY <1>5, NoneQueued, OneQueued DEF Kinds
<1>7. saving' \in Nat
  BY <1>1, Typed
<1> QED BY <1>1, <1>2, <1>3, <1>4, <1>6, <1>7, Typed, QuietMove

\* The end of a generation that is the last one.
LEMMA LastTypes ==
  ASSUME TypeInv, NEW w \in Workers, worker[w].at = "finishing", Ends(w),
         UNCHANGED <<params, countVars, flagVars, tests, poolVars, controller, saving, mishaps>>
  PROVE  /\ Moves(w, "waiting", 0) /\ ~Makes(worker[w].at)
         /\ TypeInv'
<1>2. "waiting" \in Places /\ ~Makes("waiting") /\ ~Makes(worker[w].at)
  BY DEF Places, Makes
<1>3. Moves(w, "waiting", 0) /\ worker[w].left = 0
  BY <1>2, EndsMoves, NothingLeft
<1>4. /\ ending' = ending /\ finishing' = finishing /\ light' = light
      /\ heavy' = heavy /\ callbacks' = callbacks
      /\ UNCHANGED <<params, countVars, callbacks>>
  BY DEF flagVars, poolVars
<1>5. Queues(0)
  BY <1>4, NoneQueued
<1> QED BY <1>2, <1>3, <1>4, <1>5, Typed, QuietMove
-----------------------------------------------------------------------------
(* Threads that take a task, make inputs or give them up.                  *)

LEMMA TakeTaskTypes ==
  ASSUME TypeInv, NEW w \in Workers, TakeTask(w)
  PROVE  /\ worker[w].at = "waiting"
         /\ \/ Moves(w, "test end", 0) /\ heavy' = heavy /\ light > 0
            \/ Moves(w, Head(heavy), 0) /\ heavy # <<>> /\ heavy' = Tail(heavy) /\ light' = light
         /\ TypeInv'
<1>1. /\ worker[w].at = "waiting"
      /\ UNCHANGED <<params, countVars, flagVars, tests, callbacks, controller, saving, mishaps>>
      /\ \/ light > 0 /\ light' = light - 1 /\ Goes(w, "test end") /\ heavy' = heavy
         \/ heavy # <<>> /\ heavy' = Tail(heavy) /\ Goes(w, Head(heavy)) /\ light' = light
  BY DEF TakeTask
<1>2. ~Makes(worker[w].at) /\ worker[w].left = 0
  <2>1. ~Makes(worker[w].at)
    BY <1>1 DEF Makes
  <2> QED BY <2>1, NothingLeft
<1>3. ending' = ending /\ finishing' = finishing
  BY <1>1 DEF flagVars
<1>4. CASE light > 0 /\ light' = light - 1 /\ Goes(w, "test end") /\ heavy' = heavy
  <2>1. "test end" \in Places /\ ~Makes("test end")
    BY DEF Places, Makes
  <2>2. Moves(w, "test end", 0) /\ Queues(0)
    BY <1>2, <1>4, <2>1, GoesMoves, NoneQueued
  <2>3. light' \in Nat
    <3>1. light \in Nat
      BY Typed
    <3>2. light > 0 /\ light' = light - 1
      BY <1>4
    <3> QED BY <3>1, <3>2
  <2>4. TypeInv'
    BY <1>1, <1>2, <1>3, <2>1, <2>2, <2>3, Typed, QuietMove
  <2> QED BY <1>1, <1>4, <2>2, <2>4
<1>5. CASE heavy # <<>> /\ heavy' = Tail(heavy) /\ Goes(w, Head(heavy)) /\ light' = light
  <2> DEFINE k == Head(heavy)
             Q == Cardinality(QueuedIn(heavy))
             M == Cardinality(MakersIn(worker))
             P == Cardinality(PromisedIn(worker))
  <2>1. /\ k \in Kinds /\ heavy' \in Seq(Kinds)
        /\ Cardinality(QueuedIn(heavy')) = Q - IF k = "generate" THEN 1 ELSE 0
    BY <1>5, TypeFacts, TaskTaken
  <2>2. k \in Places /\ (Makes(k) <=> k = "generate") /\ k \notin {"making", "failed"}
    BY <2>1 DEF Places, Makes, Kinds
  <2>3. Moves(w, k, 0)
    BY <1>2, <1>5, <2>2, GoesMoves
  <2>4. /\ worker' \in [Workers -> Threads] /\ worker'[w].at = k /\ worker'[w].left = 0
        /\ \A v \in Workers \ {w} : worker'[v] = worker[v]
    BY <2>3 DEF Moves
  <2>5. Cardinality(MakersIn(worker')) =
          M + (IF Makes(k) THEN 1 ELSE 0) - (IF Makes(worker[w].at) THEN 1 ELSE 0)
    BY <2>4, MakersMove
  <2>6. Q \in Nat /\ M \in Nat /\ P \in Nat
    BY TypeFacts, TasksCounted, MakersCounted, PromisesCounted
  <2>7. Cardinality(PromisedIn(worker')) = P + 0 - 0
    <3>1. Step \in Nat
      BY TypeFacts
    <3>2. worker[w].left \in 0 .. Step /\ worker'[w].left \in 0 .. Step
      BY <1>2, <2>4, <3>1
    <3>3. Cardinality(PromisedIn(worker')) = P + worker'[w].left - worker[w].left
      BY <2>4, <3>2, PromisesMove
    <3> QED BY <1>2, <2>4, <3>3
  <2>8. callbacks = Q + M /\ generated + mishaps >= P
        /\ \A v \in Workers : worker[v].at \notin {"making", "failed"} => worker[v].left = 0
    BY DEF TypeInv, CountInv
  <2>9. /\ callbacks' = callbacks /\ generated' = generated /\ mishaps' = mishaps
        /\ params' = params /\ active' = active
        /\ tests' = tests /\ controller' = controller /\ saving' = saving
    BY <1>1 DEF countVars
  <2> HIDE DEF k, Q, M, P
  <2>10. callbacks' = Cardinality(QueuedIn(heavy')) + Cardinality(MakersIn(worker'))
    BY <1>2, <2>1, <2>2, <2>5, <2>6, <2>8, <2>9
  <2>11. generated' + mishaps' >= Cardinality(PromisedIn(worker'))
    <3>1. Cardinality(PromisedIn(worker')) = P
      BY <2>6, <2>7
    <3> QED BY <2>8, <2>9, <3>1
  <2>12. \A v \in Workers : worker'[v].at \notin {"making", "failed"} => worker'[v].left = 0
    BY <2>4, <2>8
  <2>13. CountInv'
    BY <2>10, <2>11, <2>12 DEF CountInv
  <2>14. Types'
    BY <1>3, <1>5, <2>1, <2>4, <2>9 DEF TypeInv, Types
  <2> QED BY <1>1, <1>5, <2>3, <2>13, <2>14 DEF TypeInv, k
<1> QED BY <1>1, <1>4, <1>5

LEMMA ReservableBounds ==
  ASSUME TypeInv, NEW size \in Int, NEW running \in Nat
  PROVE  /\ Reservable(size, running) \in Nat /\ Reservable(size, running) <= Step
         /\ Reservable(size, running) # 0 =>
              /\ size + Reservable(size, running) <= params.target
              /\ running + Reservable(size, running) <= MaxActive
<1>1. /\ params.target \in Nat /\ MaxActive \in Nat /\ Step \in Nat /\ Step > 0
  BY TypeFacts
<1> QED BY <1>1 DEF Reservable, Smaller

LEMMA ReserveTypes ==
  ASSUME TypeInv, NEW w \in Workers, Reserve(w)
  PROVE  /\ worker[w].at = "generate"
         /\ Moves(w, "waiting", 0) \/ \E n \in 1 .. Step : Moves(w, "making", n)
         /\ TypeInv'
<1> DEFINE running == IF Reservable(generated, active) = 0 /\ NeedsGeneration /\ tests = 0
                        THEN 0 ELSE active
           n == Reservable(generated, running)
<1>1. /\ worker[w].at = "generate"
      /\ active' = running + n /\ generated' = generated + n
      /\ IF n = 0
           THEN Ends(w) /\ callbacks' = callbacks - 1
           ELSE /\ worker' = [worker EXCEPT ![w] = [Waiting EXCEPT !.at = "making", !.left = n]]
                /\ callbacks' = callbacks
      /\ UNCHANGED <<params, flagVars, tests, light, heavy, controller, saving, mishaps>>
  BY DEF Reserve
<1>2. /\ running \in Nat /\ running <= MaxActive /\ MaxActive \in Nat
      /\ generated \in Int /\ generated <= params.target /\ params.target \in Nat
      /\ Step \in Nat /\ callbacks \in Nat /\ callbacks <= MaxCallbacks /\ MaxCallbacks \in Nat
      /\ mishaps \in Nat
  BY TypeFacts
<1> HIDE DEF running
<1>3. /\ n \in Nat /\ n <= Step
      /\ n # 0 => generated + n <= params.target /\ running + n <= MaxActive
  BY <1>2, ReservableBounds
<1> HIDE DEF n
<1>4. /\ active' \in Nat /\ active' <= MaxActive
      /\ generated' \in Int /\ generated' <= params.target
  BY <1>1, <1>2, <1>3
<1>5. Queues(0) /\ heavy' = heavy
  BY <1>1, NoneQueued
<1>6. Makes(worker[w].at) /\ worker[w].left = 0
  BY <1>1 DEF Makes, TypeInv, CountInv
<1>7. /\ params' = params /\ ending' = ending /\ finishing' = finishing /\ tests' = tests
      /\ light' = light /\ controller' = controller /\ saving' = saving /\ mishaps' = mishaps
  BY <1>1 DEF flagVars
<1>8. generated' + mishaps' >= generated + mishaps + n - worker[w].left
  <2>1. \A a, b, c \in Int : (a + c) + b >= a + b + c - 0
    OBVIOUS
  <2>2. (generated + n) + mishaps >= generated + mishaps + n - 0
    BY <1>2, <1>3, <2>1
  <2> QED BY <1>1, <1>6, <1>7, <2>2
<1>9. CASE n = 0
  <2>1. Moves(w, "waiting", 0)
    BY <1>1, <1>9, EndsMoves
  <2>2. "waiting" \in Places /\ ~Makes("waiting") /\ 0 \in 0 .. Step
    BY <1>2 DEF Places, Makes
  <2>3. callbacks' = callbacks - 1
    BY <1>1, <1>9
  <2>4. callbacks' = callbacks + 0 + (IF Makes("waiting") THEN 1 ELSE 0)
                                   - (IF Makes(worker[w].at) THEN 1 ELSE 0)
    BY <1>2, <1>6, <2>2, <2>3
  <2>5. mishaps' \in Nat
    BY <1>2, <1>7
  <2>6. generated' + mishaps' >= generated + mishaps + 0 - worker[w].left
    BY <1>8, <1>9
  <2>7. CountInv' /\ callbacks' \in Nat /\ heavy' \in Seq(Kinds)
    BY <1>4, <1>5, <2>1, <2>2, <2>4, <2>5, <2>6, StepCounted
  <2>8. worker' \in [Workers -> Threads] /\ callbacks' <= MaxCallbacks
    BY <1>2, <2>1, <2>3 DEF Moves
  <2>9. Types'
    BY <1>4, <1>7, <2>7, <2>8 DEF TypeInv, Types
  <2> QED BY <1>1, <2>1, <2>7, <2>9 DEF TypeInv
<1>10. CASE n # 0
  <2>1. 1 <= n /\ n \in 1 .. Step /\ n \in 0 .. Step /\ n \in Int
    BY <1>2, <1>3, <1>10
  <2>2. Moves(w, "making", n)
    BY <1>1, <1>3, <1>10, <2>1, BeginMoves
  <2>3. "making" \in Places /\ Makes("making")
    BY DEF Places, Makes
  <2>4. callbacks' = callbacks
    BY <1>1, <1>10
  <2>5. callbacks' = callbacks + 0 + (IF Makes("making") THEN 1 ELSE 0)
                                   - (IF Makes(worker[w].at) THEN 1 ELSE 0)
    BY <1>2, <1>6, <2>3, <2>4
  <2>6. mishaps' \in Nat
    BY <1>2, <1>7
  <2>7. CountInv' /\ callbacks' \in Nat /\ heavy' \in Seq(Kinds)
    BY <1>4, <1>5, <1>8, <2>1, <2>2, <2>3, <2>5, <2>6, StepCounted
  <2>8. worker' \in [Workers -> Threads] /\ callbacks' <= MaxCallbacks
    BY <1>2, <2>2, <2>4 DEF Moves
  <2>9. Types'
    BY <1>4, <1>7, <2>7, <2>8 DEF TypeInv, Types
  <2> QED BY <1>1, <2>1, <2>2, <2>7, <2>9 DEF TypeInv
<1> QED BY <1>9, <1>10
LEMMA MakeInputTypes ==
  ASSUME TypeInv, NEW w \in Workers, MakeInput(w)
  PROVE  /\ worker[w].at = "making" /\ Moves(w, "making", worker[w].left - 1)
         /\ TypeInv'
<1>1. /\ worker[w].at = "making" /\ worker[w].left > 0 /\ tests' = tests + 1
      /\ UNCHANGED <<params, countVars, flagVars, poolVars, controller, saving, mishaps>>
  BY DEF MakeInput
<1>2. Moves(w, "making", worker[w].left - 1)
  BY MakeInputMoves
<1>3. worker[w].left \in Nat /\ worker[w].left <= Step /\ Step \in Nat
  BY TypeFacts
<1>4. worker[w].left - 1 \in 0 .. Step /\ "making" \in Places /\ Makes("making")
      /\ Makes(worker[w].at)
  BY <1>1, <1>3 DEF Places, Makes
<1>5. /\ params' = params /\ ending' = ending /\ finishing' = finishing /\ light' = light
      /\ heavy' = heavy /\ callbacks' = callbacks /\ controller' = controller /\ saving' = saving
      /\ mishaps' = mishaps /\ generated' = generated /\ active' = active
  BY <1>1 DEF countVars, flagVars, poolVars
<1>6. Queues(0)
  BY <1>5, NoneQueued
<1>7. /\ generated \in Int /\ mishaps \in Nat /\ callbacks \in Nat
      /\ tests \in Nat
  BY TypeFacts, Typed
<1>8. generated' + mishaps' >= generated + mishaps + (worker[w].left - 1) - worker[w].left
  <2>1. \A a, b, c \in Int : a + b >= a + b + (c - 1) - c
    OBVIOUS
  <2>2. generated + mishaps >= generated + mishaps + (worker[w].left - 1) - worker[w].left
    BY <1>3, <1>7, <2>1
  <2> QED BY <1>5, <2>2
<1>9. callbacks' = callbacks + 0 + (IF Makes("making") THEN 1 ELSE 0)
                                 - (IF Makes(worker[w].at) THEN 1 ELSE 0)
  BY <1>4, <1>5, <1>7
<1>10. generated' \in Int /\ mishaps' \in Nat
  BY <1>5, <1>7
<1>11. CountInv' /\ callbacks' \in Nat /\ heavy' \in Seq(Kinds)
  BY <1>2, <1>4, <1>6, <1>8, <1>9, <1>10, StepCounted
<1>12. worker' \in [Workers -> Threads]
  BY <1>2 DEF Moves
<1>13. tests' \in Nat
  BY <1>1, <1>7
<1>14. Types'
  BY <1>5, <1>11, <1>12, <1>13 DEF TypeInv, Types
<1> QED BY <1>1, <1>2, <1>11, <1>14 DEF TypeInv

LEMMA GiveUpTypes ==
  ASSUME TypeInv, NEW w \in Workers, GiveUp(w)
  PROVE  /\ worker[w].at = "making" /\ Moves(w, "failed", worker[w].left)
         /\ TypeInv'
<1>1. /\ worker[w].at = "making" /\ Goes(w, "failed")
      /\ UNCHANGED <<params, countVars, flagVars, tests, poolVars, controller, saving, mishaps>>
  BY DEF GiveUp
<1>2. "failed" \in Places /\ Makes("failed") /\ Makes(worker[w].at)
  BY <1>1 DEF Places, Makes
<1>3. Moves(w, "failed", worker[w].left)
  BY <1>1, <1>2, GoesMoves
<1>4. worker[w].left \in 0 .. Step
  <2>1. worker[w].left \in Nat /\ worker[w].left <= Step /\ Step \in Nat
    BY TypeFacts
  <2> QED BY <2>1
<1>5. /\ params' = params /\ ending' = ending /\ finishing' = finishing /\ light' = light
      /\ heavy' = heavy /\ callbacks' = callbacks /\ controller' = controller /\ saving' = saving
      /\ mishaps' = mishaps /\ generated' = generated /\ active' = active /\ tests' = tests
  BY <1>1 DEF countVars, flagVars, poolVars
<1>6. Queues(0)
  BY <1>5, NoneQueued
<1>7. generated \in Int /\ mishaps \in Nat /\ callbacks \in Nat
  BY TypeFacts
<1>8. generated' + mishaps' >= generated + mishaps + worker[w].left - worker[w].left
  <2>1. \A a, b, c \in Int : a + b >= a + b + c - c
    OBVIOUS
  <2>2. generated + mishaps >= generated + mishaps + worker[w].left - worker[w].left
    BY <1>4, <1>7, <2>1
  <2> QED BY <1>5, <2>2
<1>9. callbacks' = callbacks + 0 + (IF Makes("failed") THEN 1 ELSE 0)
                                 - (IF Makes(worker[w].at) THEN 1 ELSE 0)
  BY <1>2, <1>5, <1>7
<1>10. generated' \in Int /\ mishaps' \in Nat
  BY <1>5, <1>7
<1>11. CountInv' /\ callbacks' \in Nat /\ heavy' \in Seq(Kinds)
  BY <1>2, <1>3, <1>4, <1>6, <1>8, <1>9, <1>10, StepCounted
<1>12. worker' \in [Workers -> Threads]
  BY <1>3 DEF Moves
<1>13. Types'
  BY <1>5, <1>11, <1>12 DEF TypeInv, Types
<1> QED BY <1>1, <1>3, <1>11, <1>13 DEF TypeInv

\* A task that generates inputs ends; what it has not made is returned, or not.
LEMMA MakerEnds ==
  ASSUME TypeInv, NEW w \in Workers, Makes(worker[w].at), Ends(w), Queues(0),
         callbacks' = callbacks - 1, ending' \in BOOLEAN,
         UNCHANGED <<params, finishing, tests, light, controller, saving, mishaps>>,
         \/ generated' = generated /\ active' = active
         \/ /\ generated' = generated - worker[w].left
            /\ active' = Larger(active - worker[w].left, 0)
  PROVE  Moves(w, "waiting", 0) /\ TypeInv'
<1>1. Moves(w, "waiting", 0)
  BY EndsMoves
<1>2. worker[w].left \in Nat
  BY TypeFacts
<1>3. /\ generated \in Int /\ generated <= params.target /\ params.target \in Nat
      /\ active \in Nat /\ active <= MaxActive /\ MaxActive \in Nat
      /\ mishaps \in Nat /\ Step \in Nat
      /\ callbacks \in Nat /\ callbacks <= MaxCallbacks /\ MaxCallbacks \in Nat
  BY TypeFacts
<1>4. /\ generated' \in Int /\ generated' <= params.target
      /\ active' \in Nat /\ active' <= MaxActive
  <2>1. CASE generated' = generated /\ active' = active
    BY <1>3, <2>1
  <2>2. CASE /\ generated' = generated - worker[w].left
             /\ active' = Larger(active - worker[w].left, 0)
    BY <1>2, <1>3, <2>2 DEF Larger
  <2> QED BY <2>1, <2>2
<1>5. "waiting" \in Places /\ ~Makes("waiting") /\ 0 \in 0 .. Step
  BY <1>3 DEF Places, Makes
<1>6. generated' + mishaps' >= generated + mishaps + 0 - worker[w].left
  <2>1. \A a, b \in Int, c \in Nat : a + b >= a + b + 0 - c /\ (a - c) + b >= a + b + 0 - c
    OBVIOUS
  <2>2. /\ generated + mishaps >= generated + mishaps + 0 - worker[w].left
        /\ (generated - worker[w].left) + mishaps >= generated + mishaps + 0 - worker[w].left
    BY <1>2, <1>3, <2>1
  <2>3. generated' = generated \/ generated' = generated - worker[w].left
    OBVIOUS
  <2> QED BY <2>2, <2>3
<1>7. callbacks' = callbacks + 0 + (IF Makes("waiting") THEN 1 ELSE 0)
                                 - (IF Makes(worker[w].at) THEN 1 ELSE 0)
  BY <1>3, <1>5
<1>8. mishaps' \in Nat
  BY <1>3
<1>9. CountInv' /\ callbacks' \in Nat /\ heavy' \in Seq(Kinds)
  BY <1>1, <1>4, <1>5, <1>6, <1>7, <1>8, StepCounted
<1>10. worker' \in [Workers -> Threads]
  BY <1>1 DEF Moves
<1>11. callbacks' <= MaxCallbacks
  BY <1>3
<1>12. Types'
  BY <1>4, <1>9, <1>10, <1>11 DEF TypeInv, Types
<1> QED BY <1>1, <1>9, <1>12 DEF TypeInv

LEMMA NoSourceTypes ==
  ASSUME TypeInv, NEW w \in Workers, NoRandomSource(w)
  PROVE  /\ worker[w].at = "making" /\ Moves(w, "waiting", 0)
         /\ TypeInv'
<1>1. /\ worker[w].at = "making" /\ CheckGenerationEnd(TRUE) /\ callbacks' = callbacks - 1
      /\ Ends(w) /\ generated' = generated /\ active' = active
      /\ UNCHANGED <<params, finishing, tests, light, controller, saving, mishaps>>
  BY DEF NoRandomSource, countVars
<1>2. Makes(worker[w].at)
  BY <1>1 DEF Makes
<1>3. Queues(0) /\ ending' \in BOOLEAN
  BY <1>1, CheckQueues
<1>4. Moves(w, "waiting", 0) /\ TypeInv'
  BY <1>1, <1>2, <1>3, MakerEnds
<1> QED BY <1>1, <1>4

LEMMA EndGeneratingTypes ==
  ASSUME TypeInv, NEW w \in Workers, EndGenerating(w)
  PROVE  /\ worker[w].at \in {"making", "failed"} /\ Moves(w, "waiting", 0)
         /\ TypeInv'
<1>1. /\ worker[w].at \in {"making", "failed"} /\ callbacks' = callbacks - 1 /\ Ends(w)
      /\ generated' = generated - worker[w].left
      /\ active' = Larger(active - worker[w].left, 0)
      /\ CheckGenerationEnd(TRUE) \/ (ending' = ending /\ heavy' = heavy)
      /\ UNCHANGED <<params, finishing, tests, light, controller, saving, mishaps>>
  BY DEF EndGenerating
<1>2. Makes(worker[w].at)
  BY <1>1 DEF Makes
<1>3. Queues(0) /\ ending' \in BOOLEAN
  BY <1>1, CheckQueues, NoneQueued, Typed
<1>4. Moves(w, "waiting", 0) /\ TypeInv'
  BY <1>1, <1>2, <1>3, MakerEnds
<1> QED BY <1>1, <1>4
-----------------------------------------------------------------------------
(* Requests, new generations, and what happens beside the pool.            *)

\* A thread that is not making inputs ends its task and queues one that does.
LEMMA MakerQueued ==
  ASSUME TypeInv, NEW w \in Workers, ~Makes(worker[w].at), Ends(w), GenerateTests,
         generated' = generated, active' = active, params' = params,
         ending' \in BOOLEAN, finishing' \in BOOLEAN, tests' = tests, light' = light,
         controller' \in [Controllers -> DeltaStates], saving' = saving, mishaps' = mishaps
  PROVE  Moves(w, "waiting", 0) /\ TypeInv'
<1>1. Moves(w, "waiting", 0) /\ worker[w].left = 0
  BY EndsMoves, NothingLeft
<1>2. PICK n \in {0, 1} : Queues(n) /\ callbacks' = callbacks + n /\ callbacks' <= MaxCallbacks
  BY GenerateQueues
<1>3. /\ generated \in Int /\ generated <= params.target /\ mishaps \in Nat /\ Step \in Nat
      /\ active \in Nat /\ active <= MaxActive /\ callbacks \in Nat
  BY TypeFacts
<1>4. "waiting" \in Places /\ ~Makes("waiting") /\ 0 \in 0 .. Step
  BY <1>3 DEF Places, Makes
<1>5. generated' + mishaps' >= generated + mishaps + 0 - worker[w].left
  <2>1. \A a, b \in Int : a + b >= a + b + 0 - 0
    OBVIOUS
  <2>2. generated + mishaps >= generated + mishaps + 0 - 0
    BY <1>3, <2>1
  <2> QED BY <1>1, <2>2
<1>6. callbacks' = callbacks + n + (IF Makes("waiting") THEN 1 ELSE 0)
                                 - (IF Makes(worker[w].at) THEN 1 ELSE 0)
  BY <1>2, <1>3, <1>4
<1>7. generated' \in Int /\ mishaps' \in Nat
  BY <1>3
<1>8. CountInv' /\ callbacks' \in Nat /\ heavy' \in Seq(Kinds)
  BY <1>1, <1>2, <1>4, <1>5, <1>6, <1>7, StepCounted
<1>9. worker' \in [Workers -> Threads]
  BY <1>1 DEF Moves
<1>10. Types'
  BY <1>2, <1>8, <1>9 DEF TypeInv, Types
<1> QED BY <1>1, <1>8, <1>10 DEF TypeInv

LEMMA RequestTypes ==
  ASSUME TypeInv, NEW w \in Workers, RequestInputs(w)
  PROVE  /\ worker[w].at = "request" /\ Moves(w, "waiting", 0)
         /\ TypeInv'
<1>1. /\ worker[w].at = "request" /\ GenerateTests /\ Ends(w)
      /\ UNCHANGED <<params, countVars, flagVars, tests, light, saving, mishaps>>
      /\ \/ controller' = controller
         \/ \E c \in Controllers : controller' = [controller EXCEPT ![c].state = "busy"]
  BY DEF RequestInputs
<1>2. ~Makes(worker[w].at)
  BY <1>1 DEF Makes
<1>3. controller' \in [Controllers -> DeltaStates]
  <2>1. CASE controller' = controller
    BY <2>1, Typed
  <2>2. CASE \E c \in Controllers : controller' = [controller EXCEPT ![c].state = "busy"]
    <3>1. PICK c \in Controllers : controller' = [controller EXCEPT ![c].state = "busy"]
      BY <2>2
    <3> QED BY <3>1, ControllerSet
  <2> QED BY <1>1, <2>1, <2>2
<1>4. /\ params' = params /\ ending' = ending /\ finishing' = finishing /\ light' = light
      /\ saving' = saving /\ mishaps' = mishaps /\ generated' = generated /\ active' = active
      /\ tests' = tests
  BY <1>1 DEF countVars, flagVars
<1>5. ending' \in BOOLEAN /\ finishing' \in BOOLEAN
  BY <1>4, Typed
<1>6. Moves(w, "waiting", 0) /\ TypeInv'
  BY <1>1, <1>2, <1>3, <1>4, <1>5, MakerQueued
<1> QED BY <1>1, <1>6

LEMMA RestartTypes ==
  ASSUME TypeInv, NEW w \in Workers, Restart(w)
  PROVE  /\ worker[w].at = "restarting" /\ Moves(w, "waiting", 0)
         /\ TypeInv'
<1>1. /\ worker[w].at = "restarting" /\ finishing' = FALSE /\ GenerateTests /\ Ends(w)
      /\ UNCHANGED <<params, countVars, ending, tests, light, controller, saving, mishaps>>
  BY DEF Restart
<1>2. ~Makes(worker[w].at)
  BY <1>1 DEF Makes
<1>3. /\ params' = params /\ ending' = ending /\ light' = light /\ controller' = controller
      /\ saving' = saving /\ mishaps' = mishaps /\ generated' = generated /\ active' = active
      /\ tests' = tests
  BY <1>1 DEF countVars
<1>4. ending' \in BOOLEAN /\ finishing' \in BOOLEAN /\ controller' \in [Controllers -> DeltaStates]
  BY <1>1, <1>3, Typed
<1>5. Moves(w, "waiting", 0) /\ TypeInv'
  BY <1>1, <1>2, <1>3, <1>4, MakerQueued
<1> QED BY <1>1, <1>5

LEMMA NewGenerationTypes ==
  ASSUME TypeInv, NEW w \in Workers, SetNewGeneration(w)
  PROVE  /\ worker[w].at = "replacing" /\ Moves(w, "restarting", 0)
         /\ TypeInv'
<1>1. /\ worker[w].at = "replacing" /\ ~Generating /\ generated' = 0 /\ active' = 0
      /\ ending' = FALSE /\ controller' = [c \in Controllers |-> NoController]
      /\ mishaps' = 0 /\ Goes(w, "restarting")
      /\ UNCHANGED <<params, finishing, tests, poolVars, saving>>
  BY DEF SetNewGeneration
<1>2. "restarting" \in Places /\ ~Makes("restarting") /\ ~Makes(worker[w].at)
  BY <1>1 DEF Places, Makes
<1>3. Moves(w, "restarting", 0)
  BY <1>1, <1>2, GoesMoves, NothingLeft
<1>4. /\ worker' \in [Workers -> Threads] /\ worker'[w].at = "restarting" /\ worker'[w].left = 0
      /\ \A v \in Workers \ {w} : worker'[v] = worker[v]
  BY <1>3 DEF Moves
<1>5. \A v \in Workers : worker'[v].left = 0
  <2>1. ASSUME NEW v \in Workers \ {w}
        PROVE  worker'[v].left = 0
    <3>1. worker[v].at \notin {"making", "failed"}
      BY <1>1 DEF Generating
    <3> QED BY <1>4, <3>1 DEF TypeInv, CountInv
  <2> QED BY <1>4, <2>1
<1>6. PromisedIn(worker') = {}
  <2>1. \A i \in 1 .. Step : ~(i <= 0)
    OBVIOUS
  <2> QED BY <1>5, <2>1 DEF PromisedIn
<1>7. Cardinality(PromisedIn(worker')) = 0
  BY <1>6, FS_EmptySet
<1>8. /\ params' = params /\ finishing' = finishing /\ light' = light /\ saving' = saving
      /\ heavy' = heavy /\ callbacks' = callbacks /\ tests' = tests
  BY <1>1 DEF poolVars
<1>9. Cardinality(MakersIn(worker')) = Cardinality(MakersIn(worker))
  <2>1. Cardinality(MakersIn(worker)) \in Nat
    BY MakersCounted
  <2>2. Cardinality(MakersIn(worker')) = Cardinality(MakersIn(worker))
          + (IF Makes(worker'[w].at) THEN 1 ELSE 0) - (IF Makes(worker[w].at) THEN 1 ELSE 0)
    BY <1>4, MakersMove
  <2> QED BY <1>2, <1>4, <2>1, <2>2
<1>10. CountInv'
  <2>1. callbacks = Cardinality(QueuedIn(heavy)) + Cardinality(MakersIn(worker))
    BY DEF TypeInv, CountInv
  <2>2. callbacks' = Cardinality(QueuedIn(heavy')) + Cardinality(MakersIn(worker'))
    BY <1>8, <1>9, <2>1
  <2>3. generated' + mishaps' >= Cardinality(PromisedIn(worker'))
    BY <1>1, <1>7
  <2> QED BY <1>5, <2>2, <2>3 DEF CountInv
<1>11. /\ params.target \in Nat /\ MaxActive \in Nat /\ params.mishaps \in Nat
  BY TypeFacts
<1>12. controller' \in [Controllers -> DeltaStates]
  <2>1. NoController \in DeltaStates
    BY DEF NoController, DeltaStates
  <2> QED BY <1>1, <2>1
<1>13. generated' \in Int /\ generated' <= params.target
  BY <1>1, <1>11
<1>14. active' \in Nat /\ active' <= MaxActive /\ mishaps' \in Nat /\ mishaps' <= params.mishaps
  BY <1>1, <1>11
<1>15. ending' \in BOOLEAN
  BY <1>1
<1>16. Types'
  BY <1>4, <1>8, <1>12, <1>13, <1>14, <1>15 DEF TypeInv, Types
<1> QED BY <1>1, <1>3, <1>10, <1>16 DEF TypeInv

\* No thread of the pool moves, and no task that generates inputs is queued.
LEMMA AtRestTypes ==
  ASSUME TypeInv, worker' = worker, params' = params, Queues(0), callbacks' = callbacks,
         generated' \in Int, mishaps' \in Nat, generated' + mishaps' >= generated + mishaps,
         generated' <= params.target, mishaps' <= params.mishaps,
         active' \in Nat, active' <= MaxActive,
         ending' \in BOOLEAN, finishing' \in BOOLEAN,
         tests' \in Nat, light' \in Nat, saving' \in Nat,
         controller' \in [Controllers -> DeltaStates]
  PROVE  TypeInv'
<1>1. callbacks \in Nat
  BY TypeFacts
<1>2. callbacks' = callbacks + 0
  BY <1>1
<1>3. CountInv' /\ callbacks' \in Nat /\ heavy' \in Seq(Kinds)
  BY <1>2, RestCounted
<1>4. Types'
  BY <1>3 DEF TypeInv, Types
<1> QED BY <1>3, <1>4 DEF TypeInv
LEMMA StopTestTypes == ASSUME TypeInv, StopTest PROVE TypeInv'
<1>1. /\ tests > 0 /\ tests' = tests - 1 /\ active' = Larger(active - 1, 0) /\ light' = light + 1
      /\ UNCHANGED <<params, generated, flagVars, heavy, callbacks, worker, controller, saving,
                     mishaps>>
  BY DEF StopTest
<1>2. /\ params' = params /\ ending' = ending /\ finishing' = finishing /\ heavy' = heavy
      /\ callbacks' = callbacks /\ worker' = worker /\ controller' = controller
      /\ saving' = saving /\ mishaps' = mishaps /\ generated' = generated
  BY <1>1 DEF flagVars
<1>3. /\ generated \in Int /\ generated <= params.target /\ mishaps \in Nat
      /\ active \in Nat /\ active <= MaxActive /\ MaxActive \in Nat
      /\ tests \in Nat /\ light \in Nat
  BY TypeFacts, Typed
<1>4. active' \in Nat /\ active' <= MaxActive
  <2>1. active' = Larger(active - 1, 0)
    BY <1>1
  <2> QED BY <1>3, <2>1 DEF Larger
<1>5. tests' \in Nat /\ light' \in Nat
  <2>1. tests > 0 /\ tests' = tests - 1 /\ light' = light + 1
    BY <1>1
  <2> QED BY <1>3, <2>1
<1>6. generated' + mishaps' >= generated + mishaps
  <2>1. generated + mishaps >= generated + mishaps
    BY <1>3
  <2> QED BY <1>2, <2>1
<1>7. Queues(0)
  BY <1>2, NoneQueued
<1>8. mishaps' <= params.mishaps
  BY <1>2, Typed
<1> QED BY <1>2, <1>3, <1>4, <1>5, <1>6, <1>7, <1>8, Typed, AtRestTypes

LEMMA FailTestTypes == ASSUME TypeInv, FailTest PROVE TypeInv'
<1>1. /\ tests > 0 /\ tests' = tests - 1 /\ active' = Larger(active - 1, 0) /\ light' = light + 1
      /\ mishaps < params.mishaps /\ mishaps' = mishaps + 1 /\ generated' = generated - 1
      /\ UNCHANGED <<params, flagVars, heavy, callbacks, worker, controller, saving>>
  BY DEF FailTest
<1>2. /\ params' = params /\ ending' = ending /\ finishing' = finishing /\ heavy' = heavy
      /\ callbacks' = callbacks /\ worker' = worker /\ controller' = controller
      /\ saving' = saving
  BY <1>1 DEF flagVars
<1>3. /\ generated \in Int /\ generated <= params.target /\ params.target \in Nat
      /\ mishaps \in Nat /\ params.mishaps \in Nat
      /\ active \in Nat /\ active <= MaxActive /\ MaxActive \in Nat
      /\ tests \in Nat /\ light \in Nat
  BY TypeFacts, Typed
<1>4. active' \in Nat /\ active' <= MaxActive
  <2>1. active' = Larger(active - 1, 0)
    BY <1>1
  <2> QED BY <1>3, <2>1 DEF Larger
<1>5. tests' \in Nat /\ light' \in Nat
  <2>1. tests > 0 /\ tests' = tests - 1 /\ light' = light + 1
    BY <1>1
  <2> QED BY <1>3, <2>1
<1>6. mishaps' \in Nat /\ mishaps' <= params.mishaps
  <2>1. mishaps < params.mishaps /\ mishaps' = mishaps + 1
    BY <1>1
  <2> QED BY <1>3, <2>1
<1>7. generated' \in Int /\ generated' <= params.target
  <2>1. generated' = generated - 1
    BY <1>1
  <2> QED BY <1>3, <2>1
<1>8. generated' + mishaps' >= generated + mishaps
  <2>1. \A a, b \in Int : (a - 1) + (b + 1) >= a + b
    OBVIOUS
  <2>2. (generated - 1) + (mishaps + 1) >= generated + mishaps
    BY <1>3, <2>1
  <2> QED BY <1>1, <2>2
<1>9. Queues(0)
  BY <1>2, NoneQueued
<1> QED BY <1>2, <1>4, <1>5, <1>6, <1>7, <1>8, <1>9, Typed, AtRestTypes

\* Only controllers, tasks other than the ones that generate inputs, tests and
\* saves change.
LEMMA AsideTypes ==
  ASSUME TypeInv, worker' = worker, params' = params, Queues(0), callbacks' = callbacks,
         generated' = generated, active' = active, mishaps' \in Nat, mishaps <= mishaps',
         mishaps' <= params.mishaps, ending' \in BOOLEAN, finishing' \in BOOLEAN,
         tests' \in Nat, light' \in Nat, saving' \in Nat,
         controller' \in [Controllers -> DeltaStates]
  PROVE  TypeInv'
<1>1. /\ generated \in Int /\ generated <= params.target /\ mishaps \in Nat
      /\ active \in Nat /\ active <= MaxActive
  BY TypeFacts
<1>2. generated' \in Int /\ generated' <= params.target /\ active' \in Nat /\ active' <= MaxActive
  BY <1>1
<1>3. generated' + mishaps' >= generated + mishaps
  <2>1. \A a, b, c \in Int : b <= c => a + c >= a + b
    OBVIOUS
  <2>2. generated \in Int /\ mishaps \in Int /\ mishaps' \in Int /\ mishaps <= mishaps'
    BY <1>1
  <2>3. generated + mishaps' >= generated + mishaps
    BY <2>1, <2>2
  <2> QED BY <1>1, <2>3
<1> QED BY <1>2, <1>3, AtRestTypes

LEMMA EndDeltaTypes ==
  ASSUME TypeInv, NEW c \in Controllers, EndDeltaDebugging(c)
  PROVE  TypeInv'
<1>1. /\ controller' = [controller EXCEPT ![c].state = "finished"]
      /\ AddTasks(IF controller[c].listed THEN <<"finish">> ELSE <<>>)
      /\ UNCHANGED <<params, countVars, flagVars, tests, light, callbacks, worker, saving, mishaps>>
  BY DEF EndDeltaDebugging
<1>2. /\ params' = params /\ ending' = ending /\ finishing' = finishing /\ light' = light
      /\ tests' = tests /\ callbacks' = callbacks /\ worker' = worker
      /\ saving' = saving /\ mishaps' = mishaps /\ generated' = generated /\ active' = active
  BY <1>1 DEF countVars, flagVars
<1>3. heavy' = heavy \o <<>> \/ heavy' = heavy \o <<"finish">>
  BY <1>1 DEF AddTasks
<1>4. Queues(0)
  BY <1>3, NoneQueued, OneQueued DEF Kinds
<1>5. controller' \in [Controllers -> DeltaStates]
  BY <1>1, ControllerSet
<1> QED BY <1>2, <1>4, <1>5, Typed, AsideTypes

LEMMA HangDeltaTypes ==
  ASSUME TypeInv, NEW c \in Controllers, HangDeltaDebugging(c)
  PROVE  TypeInv'
<1>1. /\ controller' = [controller EXCEPT ![c].state = "hung"]
      /\ mishaps < params.mishaps /\ mishaps' = mishaps + 1
      /\ UNCHANGED <<params, countVars, flagVars, tests, poolVars, worker, saving>>
  BY DEF HangDeltaDebugging
<1>2. /\ params' = params /\ ending' = ending /\ finishing' = finishing /\ light' = light
      /\ tests' = tests /\ callbacks' = callbacks /\ worker' = worker /\ heavy' = heavy
      /\ saving' = saving /\ generated' = generated /\ active' = active
  BY <1>1 DEF countVars, flagVars, poolVars
<1>3. Queues(0)
  BY <1>2, NoneQueued
<1>4. controller' \in [Controllers -> DeltaStates]
  BY <1>1, ControllerSet
<1>5. mishaps' \in Nat /\ mishaps <= mishaps' /\ mishaps' <= params.mishaps
  <2>1. mishaps \in Nat /\ params.mishaps \in Nat
    BY TypeFacts
  <2>2. mishaps < params.mishaps /\ mishaps' = mishaps + 1
    BY <1>1
  <2> QED BY <2>1, <2>2
<1> QED BY <1>2, <1>3, <1>4, <1>5, Typed, AsideTypes

LEMMA SaveEndsTypes == ASSUME TypeInv, SaveEnds PROVE TypeInv'
<1>1. /\ saving > 0 /\ saving' = saving - 1 /\ heavy' = heavy \o <<"renew">>
      /\ UNCHANGED <<params, countVars, flagVars, tests, light, callbacks, worker, controller,
                     mishaps>>
  BY DEF SaveEnds, AddTasks
<1>2. /\ params' = params /\ ending' = ending /\ finishing' = finishing /\ light' = light
      /\ tests' = tests /\ callbacks' = callbacks /\ worker' = worker
      /\ controller' = controller /\ mishaps' = mishaps /\ generated' = generated
      /\ active' = active
  BY <1>1 DEF countVars, flagVars
<1>3. Queues(0)
  BY <1>1, OneQueued DEF Kinds
<1>4. saving' \in Nat
  <2>1. saving \in Nat
    BY Typed
  <2>2. saving > 0 /\ saving' = saving - 1
    BY <1>1
  <2> QED BY <2>1, <2>2
<1> QED BY <1>2, <1>3, <1>4, Typed, AsideTypes

LEMMA SaveSkippedTypes == ASSUME TypeInv, SaveIsSkipped PROVE TypeInv'
<1>1. /\ saving > 0 /\ saving' = saving - 1
      /\ UNCHANGED <<params, countVars, flagVars, tests, poolVars, worker, controller, mishaps>>
  BY DEF SaveIsSkipped
<1>2. /\ params' = params /\ ending' = ending /\ finishing' = finishing /\ light' = light
      /\ tests' = tests /\ callbacks' = callbacks /\ worker' = worker /\ heavy' = heavy
      /\ controller' = controller /\ mishaps' = mishaps /\ generated' = generated
      /\ active' = active
  BY <1>1 DEF countVars, flagVars, poolVars
<1>3. Queues(0)
  BY <1>2, NoneQueued
<1>4. saving' \in Nat
  <2>1. saving \in Nat
    BY Typed
  <2>2. saving > 0 /\ saving' = saving - 1
    BY <1>1
  <2> QED BY <2>1, <2>2
<1> QED BY <1>2, <1>3, <1>4, Typed, AsideTypes

\* The session ends with a task that is to finish its last generation.
LEMMA LastQueuedTypes ==
  ASSUME TypeInv, heavy' = heavy \o <<"renew">>,
         UNCHANGED <<params, countVars, flagVars, tests, light, callbacks, worker, controller,
                     saving, mishaps>>
  PROVE  TypeInv'
<1>1. /\ ending' = ending /\ finishing' = finishing /\ generated' = generated /\ active' = active
  BY DEF countVars, flagVars
<1>2. Queues(0)
  BY OneQueued DEF Kinds
<1> QED BY <1>1, <1>2, Typed, AsideTypes
LEMMA NothingQueued == QueuedIn(<<>>) = {} /\ Cardinality(QueuedIn(<<>>)) = 0
<1>1. QueuedIn(<<>>) = {}
  BY DEF QueuedIn
<1> QED BY <1>1, FS_EmptySet

\* What a look of the watchdog adds to an empty queue.
LEMMA Pushed ==
  ASSUME TypeInv, NEW late \in BOOLEAN, Look(late)
  PROVE  /\ heavy = <<>>
         /\ \E n \in {0, 1}, first \in {<<>>, <<"end">>, <<"generate">>} :
              /\ heavy' = first \o IF late THEN <<"finish">> ELSE <<>>
              /\ callbacks' = callbacks + n /\ callbacks' <= MaxCallbacks
              /\ Cardinality(QueuedIn(first)) = n /\ first \in Seq(Kinds)
              /\ n = 1 => first = <<"generate">>
              /\ first = <<"end">> => ending' = TRUE /\ ending = FALSE
              /\ first = <<"generate">> => ending' = FALSE /\ ending = FALSE
<1>1. heavy = <<>> /\ ending' = Push.ending
      /\ callbacks' = callbacks + (IF Push.ending THEN 0 ELSE Len(Push.task))
      /\ heavy' = heavy \o (Push.task \o IF late THEN <<"finish">> ELSE <<>>)
  BY DEF Look, Idle, AddTasks
<1>2. callbacks \in Nat /\ callbacks <= MaxCallbacks /\ MaxCallbacks \in Nat /\ ending \in BOOLEAN
  BY TypeFacts, Typed
<1>3. /\ <<>> \in Seq(Kinds) /\ <<"end">> \in Seq(Kinds) /\ <<"generate">> \in Seq(Kinds)
      /\ <<"finish">> \in Seq(Kinds)
  BY DEF Kinds
<1>4. \A s \in Seq(Kinds) : <<>> \o s = s
  OBVIOUS
<1>5. \A s \in {<<>>, <<"end">>, <<"generate">>} :
        <<>> \o (s \o IF late THEN <<"finish">> ELSE <<>>) = s \o IF late THEN <<"finish">> ELSE <<>>
  <2> TAKE s \in {<<>>, <<"end">>, <<"generate">>}
  <2> DEFINE e == IF late THEN <<"finish">> ELSE <<>>
  <2>1. e \in Seq(Kinds) /\ s \in Seq(Kinds)
    BY <1>3
  <2> HIDE DEF e
  <2>2. s \o e \in Seq(Kinds)
    BY <2>1
  <2>3. <<>> \o (s \o e) = s \o e
    BY <1>4, <2>2
  <2> QED BY <2>3 DEF e
<1>6. Cardinality(QueuedIn(<<"end">>)) = 0
  <2>1. <<>> \o <<"end">> = <<"end">> /\ "end" \in Kinds
    BY <1>3, <1>4 DEF Kinds
  <2>2. Cardinality(QueuedIn(<<>> \o <<"end">>)) = 0 + 0
    BY <1>3, <2>1, TaskAdded, NothingQueued
  <2> QED BY <2>1, <2>2
<1>7. Cardinality(QueuedIn(<<"generate">>)) = 1
  <2>1. <<>> \o <<"generate">> = <<"generate">> /\ "generate" \in Kinds
    BY <1>3, <1>4 DEF Kinds
  <2>2. Cardinality(QueuedIn(<<>> \o <<"generate">>)) = 0 + 1
    BY <1>3, <2>1, TaskAdded, NothingQueued
  <2> QED BY <2>1, <2>2
<1>8. CASE ending \/ UsedUp(FALSE)
  <2>1. Push.ending = TRUE /\ Push.task = IF ending THEN <<>> ELSE <<"end">>
    BY <1>8 DEF Push
  <2>2. callbacks' = callbacks + 0 /\ ending' = TRUE
    BY <1>1, <2>1
  <2>3. callbacks' <= MaxCallbacks
    BY <1>2, <2>2
  <2>4. CASE ending
    <3>1. Push.task = <<>> /\ <<>> \in {<<>>, <<"end">>, <<"generate">>}
      BY <2>1, <2>4
    <3>2. heavy' = <<>> \o IF late THEN <<"finish">> ELSE <<>>
      BY <1>1, <1>5, <3>1
    <3>3. <<>> # <<"end">> /\ <<>> # <<"generate">>
      OBVIOUS
    <3> QED BY <1>1, <1>3, <2>2, <2>3, <3>1, <3>2, <3>3, NothingQueued
  <2>5. CASE ~ending
    <3>1. Push.task = <<"end">> /\ ending = FALSE
      BY <1>2, <2>1, <2>5
    <3>2. heavy' = <<"end">> \o IF late THEN <<"finish">> ELSE <<>>
      BY <1>1, <1>5, <3>1
    <3> QED BY <1>1, <1>3, <1>6, <2>2, <2>3, <3>1, <3>2
  <2> QED BY <2>4, <2>5
<1>9. CASE ~(ending \/ UsedUp(FALSE))
  <2>1. /\ Push.ending = FALSE /\ ending = FALSE
        /\ Push.task = IF callbacks < MaxCallbacks THEN <<"generate">> ELSE <<>>
    BY <1>2, <1>9 DEF Push
  <2>2. ending' = FALSE
    BY <1>1, <2>1
  <2>3. CASE callbacks < MaxCallbacks
    <3>1. Push.task = <<"generate">> /\ Len(<<"generate">>) = 1
      BY <2>1, <2>3
    <3>2. callbacks' = callbacks + 1
      BY <1>1, <2>1, <3>1
    <3>3. callbacks' <= MaxCallbacks
      BY <1>2, <2>3, <3>2
    <3>4. heavy' = <<"generate">> \o IF late THEN <<"finish">> ELSE <<>>
      BY <1>1, <1>5, <3>1
    <3> QED BY <1>1, <1>3, <1>7, <2>1, <2>2, <3>2, <3>3, <3>4
  <2>4. CASE ~(callbacks < MaxCallbacks)
    <3>1. Push.task = <<>> /\ Len(<<>>) = 0
      BY <2>1, <2>4
    <3>2. callbacks' = callbacks + 0
      BY <1>1, <2>1, <3>1
    <3>3. callbacks' <= MaxCallbacks
      BY <1>2, <3>2
    <3>4. heavy' = <<>> \o IF late THEN <<"finish">> ELSE <<>>
      BY <1>1, <1>5, <3>1
    <3> QED BY <1>1, <1>3, <2>1, <2>2, <3>2, <3>3, <3>4, NothingQueued
  <2> QED BY <2>3, <2>4
<1> QED BY <1>8, <1>9
LEMMA LookAroundTypes ==
  ASSUME TypeInv, NEW late \in BOOLEAN, Look(late)
  PROVE  TypeInv'
<1>1. PICK n \in {0, 1}, first \in {<<>>, <<"end">>, <<"generate">>} :
        /\ heavy' = first \o IF late THEN <<"finish">> ELSE <<>>
        /\ callbacks' = callbacks + n /\ callbacks' <= MaxCallbacks
        /\ Cardinality(QueuedIn(first)) = n /\ first \in Seq(Kinds)
  BY Pushed
<1>2. heavy' \in Seq(Kinds) /\ Cardinality(QueuedIn(heavy')) = n
  <2>1. CASE late
    <3>1. heavy' = first \o <<"finish">> /\ "finish" \in Kinds
      BY <1>1, <2>1 DEF Kinds
    <3>2. Cardinality(QueuedIn(first \o <<"finish">>)) = n + 0 /\ first \o <<"finish">> \in Seq(Kinds)
      BY <1>1, <3>1, TaskAdded, OneMoreTask
    <3> QED BY <1>1, <3>1, <3>2
  <2>2. CASE ~late
    <3>1. heavy' = first
      BY <1>1, <2>2, NoMoreTask
    <3> QED BY <1>1, <3>1
  <2> QED BY <2>1, <2>2
<1>3. /\ params' = params /\ finishing' = (finishing /\ ~late) /\ light' = light
      /\ tests' = tests /\ worker' = worker /\ saving' = saving /\ mishaps' = mishaps
      /\ generated' = generated /\ active' = active
      /\ controller' = [c \in Controllers |-> Awake(c)] /\ ending' = Push.ending
      /\ heavy = <<>>
  BY DEF Look, countVars, Idle
<1>4. controller' \in [Controllers -> DeltaStates]
  <2>1. ASSUME NEW c \in Controllers
        PROVE  Awake(c) \in DeltaStates
    <3>1. controller[c] \in DeltaStates
      BY Typed
    <3>2. [controller[c] EXCEPT !.state = "busy"] \in DeltaStates
      BY <3>1 DEF DeltaStates
    <3> QED BY <3>1, <3>2 DEF Awake
  <2> QED BY <1>3, <2>1
<1>5. ending' \in BOOLEAN /\ finishing' \in BOOLEAN
  BY <1>3, Typed DEF Push
<1>6. /\ callbacks = Cardinality(QueuedIn(heavy)) + Cardinality(MakersIn(worker))
      /\ generated + mishaps >= Cardinality(PromisedIn(worker))
      /\ \A v \in Workers : worker[v].at \notin {"making", "failed"} => worker[v].left = 0
  BY DEF TypeInv, CountInv
<1>7. Cardinality(QueuedIn(heavy)) = 0 /\ Cardinality(MakersIn(worker)) \in Nat
  BY <1>3, NothingQueued, MakersCounted
<1>8. callbacks' = Cardinality(QueuedIn(heavy')) + Cardinality(MakersIn(worker'))
  <2>1. Cardinality(MakersIn(worker')) = Cardinality(MakersIn(worker))
    BY <1>3
  <2> QED BY <1>1, <1>2, <1>6, <1>7, <2>1
<1>9. generated' + mishaps' >= Cardinality(PromisedIn(worker'))
  BY <1>3, <1>6
<1>10. \A v \in Workers : worker'[v].at \notin {"making", "failed"} => worker'[v].left = 0
  BY <1>3, <1>6
<1>11. CountInv'
  BY <1>8, <1>9, <1>10 DEF CountInv
<1>12. callbacks' \in Nat
  <2>1. callbacks \in Nat
    BY TypeFacts
  <2> QED BY <1>1, <2>1
<1>13. Types'
  BY <1>1, <1>2, <1>3, <1>4, <1>5, <1>12 DEF TypeInv, Types
<1> QED BY <1>11, <1>13 DEF TypeInv

LEMMA ClearTestsTypes == ASSUME TypeInv, ClearTests PROVE TypeInv'
<1>1. /\ tests' = 0
      /\ controller' = [c \in Controllers |->
           IF Busy(c) THEN [controller[c] EXCEPT !.state = "hung"] ELSE controller[c]]
      /\ UNCHANGED <<params, countVars, flagVars, poolVars, worker, saving, mishaps>>
  BY DEF ClearTests
<1>2. /\ params' = params /\ ending' = ending /\ finishing' = finishing /\ light' = light
      /\ callbacks' = callbacks /\ worker' = worker /\ heavy' = heavy
      /\ mishaps' = mishaps /\ generated' = generated /\ active' = active /\ saving' = saving
  BY <1>1 DEF countVars, flagVars, poolVars
<1>3. Queues(0)
  BY <1>2, NoneQueued
<1>4. controller' \in [Controllers -> DeltaStates]
  <2>1. ASSUME NEW c \in Controllers
        PROVE  (IF Busy(c) THEN [controller[c] EXCEPT !.state = "hung"] ELSE controller[c])
                  \in DeltaStates
    <3>1. controller[c] \in DeltaStates
      BY Typed
    <3>2. [controller[c] EXCEPT !.state = "hung"] \in DeltaStates
      BY <3>1 DEF DeltaStates
    <3> QED BY <3>1, <3>2
  <2> QED BY <1>1, <2>1
<1>5. tests' \in Nat
  BY <1>1
<1> QED BY <1>2, <1>3, <1>4, <1>5, Typed, AsideTypes

LEMMA ClearTasksTypes == ASSUME TypeInv, ClearTasks PROVE TypeInv'
<1>1. /\ light' = 0 /\ heavy' = <<>>
      /\ callbacks' = callbacks - Cardinality(QueuedIn(heavy))
      /\ UNCHANGED <<params, countVars, flagVars, tests, worker, controller, saving, mishaps>>
  BY DEF ClearTasks, QueuedIn
<1>2. /\ params' = params /\ ending' = ending /\ finishing' = finishing /\ tests' = tests
      /\ worker' = worker /\ controller' = controller
      /\ mishaps' = mishaps /\ generated' = generated /\ active' = active /\ saving' = saving
  BY <1>1 DEF countVars, flagVars
<1>3. /\ callbacks = Cardinality(QueuedIn(heavy)) + Cardinality(MakersIn(worker))
      /\ generated + mishaps >= Cardinality(PromisedIn(worker))
      /\ \A v \in Workers : worker[v].at \notin {"making", "failed"} => worker[v].left = 0
  BY DEF TypeInv, CountInv
<1>4. Cardinality(QueuedIn(heavy)) \in Nat /\ Cardinality(MakersIn(worker)) \in Nat
  BY TypeFacts, TasksCounted, MakersCounted
<1>5. Cardinality(QueuedIn(heavy')) = 0
  BY <1>1, NothingQueued
<1>6. callbacks' = Cardinality(MakersIn(worker))
  BY <1>1, <1>3, <1>4
<1>7. callbacks' = Cardinality(QueuedIn(heavy')) + Cardinality(MakersIn(worker'))
  BY <1>2, <1>4, <1>5, <1>6
<1>8. callbacks' \in Nat /\ callbacks' <= MaxCallbacks
  <2>1. callbacks \in Nat /\ callbacks <= MaxCallbacks /\ MaxCallbacks \in Nat
    BY TypeFacts
  <2>2. callbacks = Cardinality(QueuedIn(heavy)) + Cardinality(MakersIn(worker))
    BY <1>3
  <2> QED BY <1>4, <1>6, <2>1, <2>2
<1>9. generated' + mishaps' >= Cardinality(PromisedIn(worker'))
  BY <1>2, <1>3
<1>10. \A v \in Workers : worker'[v].at \notin {"making", "failed"} => worker'[v].left = 0
  BY <1>2, <1>3
<1>11. CountInv'
  BY <1>7, <1>9, <1>10 DEF CountInv
<1>12. heavy' \in Seq(Kinds) /\ light' \in Nat
  BY <1>1
<1>13. Types'
  BY <1>2, <1>8, <1>12 DEF TypeInv, Types
<1> QED BY <1>11, <1>13 DEF TypeInv

LEMMA RefuseTypes ==
  ASSUME TypeInv, NEW w \in Workers, Refuse(w)
  PROVE  /\ worker[w].at = "generate" /\ Moves(w, "waiting", 0)
         /\ TypeInv'
<1>1. /\ worker[w].at = "generate" /\ callbacks' = callbacks - 1 /\ Ends(w)
      /\ UNCHANGED <<params, countVars, flagVars, tests, light, heavy, controller, saving, mishaps>>
  BY DEF Refuse
<1>2. Makes(worker[w].at)
  BY <1>1 DEF Makes
<1>3. /\ params' = params /\ ending' = ending /\ finishing' = finishing /\ light' = light
      /\ heavy' = heavy /\ generated' = generated /\ active' = active
  BY <1>1 DEF countVars, flagVars
<1>4. Queues(0) /\ ending' \in BOOLEAN
  BY <1>3, NoneQueued, Typed
<1>5. Moves(w, "waiting", 0) /\ TypeInv'
  BY <1>1, <1>2, <1>3, <1>4, MakerEnds
<1> QED BY <1>1, <1>5

\* A task that could make nothing ends with the session.
LEMMA LastMakerTypes ==
  ASSUME TypeInv, NEW w \in Workers, ChecksEnd(w), Ends(w),
         generated' = generated - worker[w].left,
         active' = Larger(active - worker[w].left, 0), callbacks' = callbacks - 1,
         UNCHANGED <<params, flagVars, tests, light, heavy, controller, saving, mishaps>>
  PROVE  /\ worker[w].at = "failed" /\ Moves(w, "waiting", 0)
         /\ TypeInv'
<1>1. worker[w].at = "failed"
  BY DEF ChecksEnd
<1>2. Makes(worker[w].at)
  BY <1>1 DEF Makes
<1>3. ending' = ending /\ finishing' = finishing /\ heavy' = heavy
  BY DEF flagVars
<1>4. Queues(0) /\ ending' \in BOOLEAN
  BY <1>3, NoneQueued, Typed
<1>5. Moves(w, "waiting", 0) /\ TypeInv'
  BY <1>2, <1>3, <1>4, MakerEnds
<1> QED BY <1>1, <1>5
-----------------------------------------------------------------------------
(* The types, and the counts of a generation.                              *)

LEMMA InitTypes == SessionInit => TypeInv
<1> SUFFICES ASSUME SessionInit PROVE TypeInv
  OBVIOUS
<1>1. /\ params \in Configurations /\ generated = 0 /\ active = 0 /\ ending = FALSE
      /\ finishing = FALSE /\ tests = 0 /\ light = 0 /\ heavy = <<"generate">> /\ callbacks = 1
      /\ worker = [w \in Workers |-> Waiting]
      /\ controller = [c \in Controllers |-> NoController] /\ saving = 0 /\ mishaps = 0
  BY DEF SessionInit, Init
<1>2. /\ params.target \in Nat /\ params.mishaps \in Nat
      /\ MaxActive \in Nat /\ MaxCallbacks \in Nat /\ MaxCallbacks > 0 /\ Step \in Nat
  BY <1>1, GenerationAssumption
<1>3. worker \in [Workers -> Threads] /\ \A w \in Workers : worker[w].at = "waiting" /\ worker[w].left = 0
  BY <1>1, WaitingThread
<1>4. controller \in [Controllers -> DeltaStates]
  <2>1. NoController \in DeltaStates
    BY DEF NoController, DeltaStates
  <2> QED BY <1>1, <2>1
<1>5. heavy \in Seq(Kinds)
  BY <1>1 DEF Kinds
<1>6. generated <= params.target /\ active <= MaxActive /\ callbacks <= MaxCallbacks
      /\ mishaps <= params.mishaps
  BY <1>1, <1>2
<1>7. Types
  <2>1. /\ generated \in Int /\ active \in Nat /\ callbacks \in Nat /\ mishaps \in Nat
        /\ ending \in BOOLEAN /\ finishing \in BOOLEAN
        /\ tests \in Nat /\ light \in Nat /\ saving \in Nat /\ params \in Configurations
    <3>1. generated = 0 /\ active = 0 /\ mishaps = 0 /\ tests = 0 /\ light = 0 /\ saving = 0
      BY <1>1
    <3>2. ending = FALSE /\ finishing = FALSE /\ callbacks = 1 /\ params \in Configurations
      BY <1>1
    <3>3. ending \in BOOLEAN /\ finishing \in BOOLEAN
      BY <3>2
    <3>4. generated \in Int /\ active \in Nat /\ mishaps \in Nat /\ tests \in Nat
      BY <3>1
    <3>5. light \in Nat /\ saving \in Nat
      BY <3>1
    <3>6. callbacks \in Nat
      BY <3>2
    <3> QED BY <3>2, <3>3, <3>4, <3>5, <3>6
  <2> QED BY <1>3, <1>4, <1>5, <1>6, <2>1 DEF Types
<1>8. Cardinality(QueuedIn(heavy)) = 1
  <2>1. /\ <<>> \in Seq(Kinds) /\ "generate" \in Kinds /\ <<>> \o <<"generate">> = <<"generate">>
    BY DEF Kinds
  <2>2. Cardinality(QueuedIn(<<>> \o <<"generate">>)) = 0 + 1
    BY <2>1, TaskAdded, NothingQueued
  <2> QED BY <1>1, <2>1, <2>2
<1>9. MakersIn(worker) = {} /\ PromisedIn(worker) = {}
  <2>1. \A i \in 1 .. Step : ~(i <= 0)
    OBVIOUS
  <2> QED BY <1>3, <2>1 DEF MakersIn, PromisedIn
<1>10. Cardinality(MakersIn(worker)) = 0 /\ Cardinality(PromisedIn(worker)) = 0
  BY <1>9, FS_EmptySet
<1>11. callbacks = Cardinality(QueuedIn(heavy)) + Cardinality(MakersIn(worker))
  BY <1>1, <1>8, <1>10
<1>12. generated + mishaps >= Cardinality(PromisedIn(worker))
  BY <1>1, <1>10
<1>13. CountInv
  BY <1>3, <1>11, <1>12 DEF CountInv
<1> QED BY <1>7, <1>13 DEF TypeInv

LEMMA SameTypes == ASSUME TypeInv, UNCHANGED vars PROVE TypeInv'
BY DEF vars, countVars, flagVars, poolVars, TypeInv, Types, CountInv

LEMMA PoolTypes == ASSUME TypeInv, NEW w \in Workers, PoolThread(w) PROVE TypeInv'
<1>1. CASE TakeTaskUnfrozen(w)
  BY <1>1, TakeTaskTypes DEF TakeTaskUnfrozen
<1>2. CASE ReserveUnlessBlocked(w)
  BY <1>2, ReserveTypes DEF ReserveUnlessBlocked
<1>3. CASE Refuse(w)
  BY <1>3, RefuseTypes
<1>4. CASE RequestInputsAndCheck(w)
  BY <1>4, RequestTypes DEF RequestInputsAndCheck
<1>5. CASE EndGeneratingAndCheck(w)
  <2>1. \/ EndGenerating(w)
        \/ /\ ChecksEnd(w) /\ Ends(w)
           /\ generated' = generated - worker[w].left
           /\ active' = Larger(active - worker[w].left, 0) /\ callbacks' = callbacks - 1
           /\ UNCHANGED <<params, flagVars, tests, light, heavy, controller, saving, mishaps>>
    BY <1>5 DEF EndGeneratingAndCheck
  <2> QED BY <2>1, EndGeneratingTypes, LastMakerTypes
<1>6. CASE SaveOrEnd(w)
  <2>1. \/ SaveCheck(w)
        \/ /\ worker[w].at = "finishing" /\ Ends(w)
           /\ UNCHANGED <<params, countVars, flagVars, tests, poolVars, controller, saving, mishaps>>
    BY <1>6 DEF SaveOrEnd
  <2> QED BY <2>1, SaveCheckTypes, LastTypes
<1>7. CASE SetNextGeneration(w)
  BY <1>7, NewGenerationTypes DEF SetNextGeneration
<1>8. CASE Proceed(w)
  <2>1. CASE \E c \in Controllers :
               StartScoreOptimization(w, c) \/ LookAtController(w, c) \/ AttachCallback(w, c)
    BY <2>1, ScoreTypes, LookTypes, AttachTypes
  <2>2. CASE MakeInput(w) \/ GiveUp(w) \/ NoRandomSource(w)
    BY <2>2, MakeInputTypes, GiveUpTypes, NoSourceTypes
  <2>3. CASE TestEnd(w) \/ RepeatTest(w) \/ EndGeneration(w) \/ EndSelection(w)
    BY <2>3, TestEndTypes, RepeatTestTypes, EndGenerationTypes, EndSelectionTypes
  <2>4. CASE FinishGeneration(w) \/ WaitForControllers(w) \/ WaitForRest(w) \/ Restart(w)
    BY <2>4, FinishTypes, WaitForControllersTypes, WaitForRestTypes, RestartTypes
  <2> QED BY <1>8, <2>1, <2>2, <2>3, <2>4 DEF Proceed
<1> QED BY <1>1, <1>2, <1>3, <1>4, <1>5, <1>6, <1>7, <1>8 DEF PoolThread

\* What a detached thread does to a generation.
LEMMA DetachedEffect ==
  ASSUME NEW t \in Detached, Saver(t) \/ (t = Ender /\ EndSession)
  PROVE  \/ UNCHANGED vars
         \/ SaveIsSkipped \/ SaveEnds \/ ClearTests \/ ClearTasks
         \/ /\ heavy' = heavy \o <<"renew">>
            /\ UNCHANGED <<params, countVars, flagVars, tests, light, callbacks, worker, controller,
                           saving, mishaps>>
<1>1. ASSUME NEW u \in Detached, SkipSave(u)
      PROVE  UNCHANGED vars \/ SaveIsSkipped
  BY <1>1 DEF SkipSave
<1>2. ASSUME NEW u \in Detached, CallBack(u)
      PROVE  \/ UNCHANGED vars \/ SaveEnds
             \/ /\ heavy' = heavy \o <<"renew">>
                /\ UNCHANGED <<params, countVars, flagVars, tests, light, callbacks, worker,
                               controller, saving, mishaps>>
  BY <1>2 DEF CallBack, AddTasks
<1>3. ASSUME NEW u \in Detached,
             \/ BeginSave(u) \/ FreezeHandler(u) \/ WaitFrozen(u) \/ Thaw(u)
             \/ Saved(u) \/ CheckAfterSave(u)
      PROVE  UNCHANGED vars
  BY <1>3 DEF BeginSave, FreezeHandler, WaitFrozen, Thaw, Saved, CheckAfterSave
<1>4. BeginEnd \/ Stop => UNCHANGED vars
  BY DEF BeginEnd, Stop
<1>5. Ender \in Detached
  BY DEF Detached
<1>6. CASE Saver(t)
  BY <1>1, <1>2, <1>3, <1>6 DEF Saver
<1>7. CASE EndSession
  BY <1>1, <1>2, <1>3, <1>4, <1>5, <1>7 DEF EndSession
<1> QED BY <1>6, <1>7

LEMMA StepTypes == TypeInv /\ [SessionNext]_allVars => TypeInv'
<1> SUFFICES ASSUME TypeInv, [SessionNext]_allVars PROVE TypeInv'
  OBVIOUS
<1>1. ASSUME NEW w \in Workers, PoolThread(w) PROVE TypeInv'
  BY <1>1, PoolTypes
<1>2. ASSUME NEW t \in Detached, Saver(t) \/ (t = Ender /\ EndSession) PROVE TypeInv'
  BY <1>2, DetachedEffect, SameTypes, SaveSkippedTypes, SaveEndsTypes, ClearTestsTypes,
     ClearTasksTypes, LastQueuedTypes
<1>3. CASE HandlerStep
  BY <1>3, StopTestTypes, FailTestTypes DEF HandlerStep, ExecuteTests
<1>4. ASSUME NEW c \in Controllers, DeltaStep(c) PROVE TypeInv'
  BY <1>4, EndDeltaTypes, HangDeltaTypes DEF DeltaStep, DeltaDebugging
<1>5. ASSUME NEW late \in BOOLEAN, SessionControl(late) PROVE TypeInv'
  BY <1>5, LookAroundTypes DEF SessionControl
<1>6. CASE TimePasses
  BY <1>6, SameTypes DEF TimePasses
<1>7. CASE UNCHANGED allVars
  BY <1>7, SameTypes DEF allVars
<1>8. Savers \subseteq Detached /\ Ender \in Detached
  BY DEF Detached
<1> QED BY <1>1, <1>2, <1>3, <1>4, <1>5, <1>6, <1>7, <1>8 DEF SessionNext

\* Every variable has its type; a generation never has more inputs than its
\* target or more active ones than allowed, and there are never more tasks that
\* generate inputs than allowed, however often tests fail or are repeated,
\* whatever threads give up, and whenever the session is saved or ends.
THEOREM GenerationTypes == SessionSpec => []TypeOK
<1>1. SessionInit => TypeInv
  BY InitTypes
<1>2. TypeInv /\ [SessionNext]_allVars => TypeInv'
  BY StepTypes
<1>3. TypeInv => TypeOK
  BY TypesImplied
<1> QED BY <1>1, <1>2, <1>3, PTL DEF SessionSpec

-----------------------------------------------------------------------------
(* The detached threads.                                                   *)

SavePlaces == {"save", "freeze", "wait", "write", "call"}

Jobs ==
  [at : SavePlaces \cup {"none", "saved", "check", "end", "stop", "stopping", "clearing"},
   ended : BOOLEAN]

ThreadInv ==
  /\ terms \in Endings /\ params = terms.session
  /\ thread \in [Detached -> Jobs]
  /\ \A t \in Savers : thread[t].at \in SavePlaces \cup {"none", "saved", "check"}
  /\ thread[Ender].at \in SavePlaces \cup {"none", "end", "stop", "stopping", "clearing"}
  /\ memory \in {"fine", "out", "ending"} /\ (terms.ends # "memory" => memory = "fine")
  /\ skipping \in BOOLEAN
  /\ ~params.saves => \A t \in Savers : thread[t].ended = FALSE

\* A thread is detached: EndSession_Async, or SaveSession_Async, at the end of a
\* generation or not.
Begins(job, t, ended) ==
  /\ job.at = "none"
  /\ thread'[t].ended = ended
  /\ IF t = Ender
       THEN /\ thread'[t].at = "end" /\ ~abort
            /\ terms.ends \in {"timeout", "memory"} \/ (ended /\ terms.ends = "generations")
       ELSE /\ thread'[t].at = "save"
            /\ ended \/ terms.autosaves

LEMMA TermsKnown ==
  ASSUME ThreadInv
  PROVE  /\ terms.ends \in {"never", "generations", "timeout", "memory"}
         /\ terms.autosaves \in BOOLEAN /\ terms.prompt \in BOOLEAN
         /\ params.saves \in BOOLEAN /\ params.slowSave \in BOOLEAN /\ params.hangs \in BOOLEAN
<1>1. terms \in [ends : {"never", "generations", "timeout", "memory"},
                 session : Configurations, autosaves : BOOLEAN, prompt : BOOLEAN]
  BY SessionAssumption DEF ThreadInv
<1>2. params \in Configurations
  BY <1>1 DEF ThreadInv
<1>3. params \in [workers : (SUBSET Workers) \ {{}}, target : Nat \ {0}, mishaps : Nat,
                  optimize : BOOLEAN, hangs : BOOLEAN, saves : BOOLEAN, slowSave : BOOLEAN]
  BY <1>2, GenerationAssumption
<1> QED BY <1>1, <1>3

LEMMA Detaches == Ender \in Detached /\ Ender \notin Savers /\ Savers = Detached \ {Ender}
BY SessionAssumption DEF Detached

\* A job goes on.
LEMMA JobContinued ==
  ASSUME thread \in [Detached -> Jobs], NEW t \in Detached,
         NEW at \in SavePlaces \cup {"none", "saved", "check", "end", "stop", "stopping", "clearing"},
         Continues(t, at)
  PROVE  /\ thread' \in [Detached -> Jobs]
         /\ thread'[t].at = at /\ thread'[t].ended = thread[t].ended
         /\ \A u \in Detached \ {t} : thread'[u] = thread[u]
<1>1. thread' = [thread EXCEPT ![t].at = at]
  BY DEF Continues
<1>2. thread[t] \in Jobs
  OBVIOUS
<1> DEFINE job == [thread[t] EXCEPT !.at = at]
<1>3. job \in Jobs /\ job.at = at /\ job.ended = thread[t].ended
  BY <1>2 DEF Jobs
<1>4. thread' = [thread EXCEPT ![t] = job]
  BY <1>1
<1> HIDE DEF job
<1> QED BY <1>3, <1>4

LEMMA JobDetached ==
  ASSUME NEW f \in [Detached -> Jobs], NEW t \in Detached,
         NEW at \in {"save", "end"}, NEW ended \in BOOLEAN
  PROVE  /\ Detach(f, t, at, ended) \in [Detached -> Jobs]
         /\ Detach(f, t, at, ended)[t].at = at /\ Detach(f, t, at, ended)[t].ended = ended
         /\ \A u \in Detached \ {t} : Detach(f, t, at, ended)[u] = f[u]
<1> DEFINE job == [at |-> at, ended |-> ended]
<1>1. job \in Jobs /\ job.at = at /\ job.ended = ended
  BY DEF Jobs, SavePlaces
<1>2. Detach(f, t, at, ended) = [f EXCEPT ![t] = job]
  BY DEF Detach
<1> HIDE DEF job
<1> QED BY <1>1, <1>2

LEMMA EnderDetached ==
  ASSUME NEW f \in [Detached -> Jobs], NEW ended \in BOOLEAN
  PROVE  /\ DetachEnder(f, ended) \in [Detached -> Jobs]
         /\ \A u \in Savers : DetachEnder(f, ended)[u] = f[u]
         /\ \/ DetachEnder(f, ended)[Ender] = f[Ender]
            \/ /\ f[Ender].at = "none" /\ ~abort
               /\ DetachEnder(f, ended)[Ender].at = "end"
               /\ DetachEnder(f, ended)[Ender].ended = ended
<1>1. CASE f[Ender].at = "none" /\ ~abort
  <2>1. DetachEnder(f, ended) = Detach(f, Ender, "end", ended)
    BY <1>1 DEF DetachEnder
  <2> QED BY <1>1, <2>1, Detaches, JobDetached
<1>2. CASE ~(f[Ender].at = "none" /\ ~abort)
  <2>1. DetachEnder(f, ended) = f
    BY <1>2 DEF DetachEnder
  <2> QED BY <2>1
<1> QED BY <1>1, <1>2

\* The reclaiming of memory ends the session only if its memory is limited.
LEMMA MemoryEffect ==
  ASSUME ThreadInv, NEW f \in [Detached -> Jobs], MemoryCheck(f)
  PROVE  /\ memory' \in {"fine", "out", "ending"}
         /\ terms.ends # "memory" => memory' = "fine" /\ thread' = f
         /\ thread' = f \/ thread' = DetachEnder(f, FALSE)
<1> DEFINE above == terms.ends = "memory" /\ due
           next == CASE memory = "fine"   -> IF above THEN "out" ELSE "fine"
                     [] memory = "out"    -> IF above THEN "ending" ELSE "fine"
                     [] memory = "ending" -> "ending"
<1>1. /\ memory' = next
      /\ thread' = IF next # memory /\ next = "ending" THEN DetachEnder(f, FALSE) ELSE f
  BY DEF MemoryCheck
<1>2. memory \in {"fine", "out", "ending"} /\ (terms.ends # "memory" => memory = "fine")
  BY DEF ThreadInv
<1>3. next \in {"fine", "out", "ending"} /\ (terms.ends # "memory" => next = "fine")
  BY <1>2
<1> HIDE DEF next
<1> QED BY <1>1, <1>2, <1>3

\* What MasterControl detaches.
LEMMA MasterEffect ==
  ASSUME ThreadInv, NEW f \in [Detached -> Jobs], NEW ran, MasterControl(f, ran)
  PROVE  /\ thread' \in [Detached -> Jobs]
         /\ \A t \in Detached : thread'[t] = f[t] \/ Begins(f[t], t, FALSE)
         /\ memory' \in {"fine", "out", "ending"} /\ (terms.ends # "memory" => memory' = "fine")
         /\ skipping' \in BOOLEAN
         /\ terms' = terms /\ savelock' = savelock /\ frozen' = frozen
         /\ abort' = abort /\ finished' = finished
<1>1. terms' = terms /\ savelock' = savelock /\ frozen' = frozen /\ abort' = abort /\ finished' = finished
  BY DEF MasterControl, freezeVars, stopVars
<1>2. skipping' \in BOOLEAN
  BY DEF MasterControl, EndCheck
<1>3. memory \in {"fine", "out", "ending"} /\ (terms.ends # "memory" => memory = "fine")
  BY DEF ThreadInv
<1>4. ASSUME NEW g \in [Detached -> Jobs], thread' = g \/ thread' = DetachEnder(g, FALSE),
             terms.ends \notin {"timeout", "memory"} => thread' = g
      PROVE  /\ thread' \in [Detached -> Jobs]
             /\ \A t \in Savers : thread'[t] = g[t]
             /\ thread'[Ender] = g[Ender] \/ Begins(g[Ender], Ender, FALSE)
  <2>1. CASE thread' = g
    BY <2>1
  <2>2. CASE thread' = DetachEnder(g, FALSE) /\ terms.ends \in {"timeout", "memory"}
    BY <2>2, EnderDetached DEF Begins
  <2> QED BY <1>4, <2>1, <2>2
<1>5. CASE ConditionMet(FALSE)
  <2>1. thread' = DetachEnder(f, FALSE) /\ memory' = memory
    BY <1>5 DEF MasterControl
  <2>2. terms.ends = "timeout"
    BY <1>5 DEF ConditionMet, GoalReached
  <2> QED BY <1>1, <1>2, <1>3, <1>4, <2>1, <2>2, Detaches
<1>6. CASE ~ConditionMet(FALSE) /\ MemoryCheck(f)
  <2>1. /\ memory' \in {"fine", "out", "ending"}
        /\ terms.ends # "memory" => memory' = "fine" /\ thread' = f
        /\ thread' = f \/ thread' = DetachEnder(f, FALSE)
    BY <1>6, MemoryEffect
  <2> QED BY <1>1, <1>2, <1>4, <2>1, Detaches
<1>7. CASE /\ terms.autosaves
           /\ \E t \in Savers : f[t].at = "none" /\ MemoryCheck(Detach(f, t, "save", FALSE))
  <2>1. PICK s \in Savers : f[s].at = "none" /\ MemoryCheck(Detach(f, s, "save", FALSE))
    BY <1>7
  <2> DEFINE g == Detach(f, s, "save", FALSE)
  <2>2. /\ g \in [Detached -> Jobs] /\ g[s].at = "save" /\ g[s].ended = FALSE
        /\ \A u \in Detached \ {s} : g[u] = f[u]
    <3> DEFINE job == [at |-> "save", ended |-> FALSE]
    <3>1. job \in Jobs /\ job.at = "save" /\ job.ended = FALSE
      BY DEF Jobs, SavePlaces
    <3>2. g = [f EXCEPT ![s] = job] /\ s \in Detached
      BY Detaches DEF Detach
    <3> HIDE DEF g, job
    <3> QED BY <3>1, <3>2
  <2>3. MemoryCheck(g)
    BY <2>1
  <2> HIDE DEF g
  <2>4. /\ memory' \in {"fine", "out", "ending"}
        /\ terms.ends # "memory" => memory' = "fine" /\ thread' = g
        /\ thread' = g \/ thread' = DetachEnder(g, FALSE)
    BY <2>2, <2>3, MemoryEffect
  <2>5. /\ thread' \in [Detached -> Jobs]
        /\ \A t \in Savers : thread'[t] = g[t]
        /\ thread'[Ender] = g[Ender] \/ Begins(g[Ender], Ender, FALSE)
    BY <1>4, <2>2, <2>4
  <2>6. g[Ender] = f[Ender] /\ s # Ender
    BY <2>2, Detaches
  <2>7. Begins(f[s], s, FALSE)
    BY <1>7, <2>1, <2>2, <2>5, <2>6 DEF Begins
  <2>8. \A t \in Detached : thread'[t] = f[t] \/ Begins(f[t], t, FALSE)
    BY <2>2, <2>5, <2>6, <2>7, Detaches
  <2> QED BY <1>1, <1>2, <2>4, <2>5, <2>8
<1> QED BY <1>5, <1>6, <1>7 DEF MasterControl

LEMMA ThreadStep ==
  ASSUME ThreadInv, terms' = terms, params' = params, thread' \in [Detached -> Jobs],
         memory' \in {"fine", "out", "ending"}, terms.ends # "memory" => memory' = "fine",
         skipping' \in BOOLEAN,
         \A t \in Savers : thread'[t].at \in SavePlaces \cup {"none", "saved", "check"},
         thread'[Ender].at \in SavePlaces \cup {"none", "end", "stop", "stopping", "clearing"},
         \A t \in Savers : thread'[t].ended = TRUE => thread[t].ended = TRUE \/ params.saves
  PROVE  ThreadInv'
<1>1. \A t \in Savers : thread'[t].ended \in BOOLEAN
  BY Detaches DEF Jobs
<1>2. terms \in Endings /\ params = terms.session
      /\ (~params.saves => \A t \in Savers : thread[t].ended = FALSE)
  BY DEF ThreadInv
<1>3. ~params.saves => \A t \in Savers : thread'[t].ended = FALSE
  BY <1>1, <1>2
<1> QED BY <1>2, <1>3 DEF ThreadInv

\* Threads are detached in the middle of a generation, if at all.
Others == \A t \in Detached : thread'[t] = thread[t] \/ Begins(thread[t], t, FALSE)

LEMMA OthersStep ==
  ASSUME ThreadInv, terms' = terms, params' = params, thread' \in [Detached -> Jobs], Others,
         memory' \in {"fine", "out", "ending"}, terms.ends # "memory" => memory' = "fine",
         skipping' \in BOOLEAN
  PROVE  ThreadInv'
<1>1. \A t \in Savers : /\ thread[t].at \in SavePlaces \cup {"none", "saved", "check"}
                        /\ thread'[t] = thread[t]
                           \/ (thread'[t].at = "save" /\ thread'[t].ended = FALSE)
  BY Detaches DEF ThreadInv, Others, Begins
<1>2. /\ thread[Ender].at \in SavePlaces \cup {"none", "end", "stop", "stopping", "clearing"}
      /\ thread'[Ender] = thread[Ender] \/ thread'[Ender].at = "end"
  BY Detaches DEF ThreadInv, Others, Begins
<1>3. \A t \in Savers : thread'[t].at \in SavePlaces \cup {"none", "saved", "check"}
  BY <1>1 DEF SavePlaces
<1>4. thread'[Ender].at \in SavePlaces \cup {"none", "end", "stop", "stopping", "clearing"}
  BY <1>2
<1>5. \A t \in Savers : thread'[t].ended = TRUE => thread[t].ended = TRUE \/ params.saves
  BY <1>1
<1> QED BY <1>3, <1>4, <1>5, ThreadStep

\* What only saves and the end of the session change.
Unstopped == UNCHANGED <<terms, params, savelock, freezeVars, stopVars>>

LEMMA UnchangedOthers ==
  ASSUME ThreadInv, params' = params, UNCHANGED sessionVars
  PROVE  ThreadInv' /\ Others /\ Unstopped
<1>1. /\ terms' = terms /\ thread' = thread /\ memory' = memory /\ skipping' = skipping
      /\ UNCHANGED <<savelock, freezeVars, stopVars>>
  BY DEF sessionVars, checkVars
<1>2. ThreadInv'
  BY <1>1 DEF ThreadInv, SavePlaces
<1> QED BY <1>1, <1>2 DEF Others, Unstopped

LEMMA TasksOthers ==
  ASSUME ThreadInv, NEW w \in Workers,
         TakeTaskUnfrozen(w) \/ ReserveUnlessBlocked(w) \/ Refuse(w)
  PROVE  ThreadInv' /\ Others /\ Unstopped
<1>1. params' = params /\ UNCHANGED sessionVars
  BY DEF TakeTaskUnfrozen, TakeTask, ReserveUnlessBlocked, Reserve, Refuse
<1> QED BY <1>1, UnchangedOthers

LEMMA ProceedOthers ==
  ASSUME ThreadInv, NEW w \in Workers, Proceed(w), UNCHANGED sessionVars
  PROVE  ThreadInv' /\ Others /\ Unstopped
<1>1. params' = params
  BY DEF Proceed, MakeInput, GiveUp, NoRandomSource, TestEnd, RepeatTest, EndGeneration,
         EndSelection, StartScoreOptimization, LookAtController, AttachCallback, FinishGeneration,
         WaitForControllers, WaitForRest, Restart
<1> QED BY <1>1, UnchangedOthers

LEMMA RequestOthers ==
  ASSUME ThreadInv, NEW w \in Workers, RequestInputsAndCheck(w)
  PROVE  ThreadInv' /\ Others /\ Unstopped
<1>1. params' = params /\ MasterControl(thread, TRUE)
  BY DEF RequestInputsAndCheck, RequestInputs
<1>2. thread \in [Detached -> Jobs]
  BY DEF ThreadInv
<1>3. UNCHANGED <<savelock, freezeVars, stopVars>>
  BY <1>1 DEF MasterControl
<1>4. /\ thread' \in [Detached -> Jobs] /\ Others
      /\ memory' \in {"fine", "out", "ending"} /\ (terms.ends # "memory" => memory' = "fine")
      /\ skipping' \in BOOLEAN /\ terms' = terms
  BY <1>1, <1>2, MasterEffect DEF Others
<1> QED BY <1>1, <1>3, <1>4, OthersStep DEF Unstopped

LEMMA MakerOthers ==
  ASSUME ThreadInv, NEW w \in Workers, EndGeneratingAndCheck(w)
  PROVE  ThreadInv' /\ Others /\ Unstopped
<1>1. thread \in [Detached -> Jobs] /\ skipping \in BOOLEAN
      /\ memory \in {"fine", "out", "ending"} /\ (terms.ends # "memory" => memory = "fine")
  BY DEF ThreadInv
<1>2. params' = params
  BY DEF EndGeneratingAndCheck, EndGenerating
<1>3. CASE ~ChecksEnd(w) /\ UNCHANGED sessionVars
  BY <1>2, <1>3, UnchangedOthers
<1>4. CASE /\ EndCheck(FALSE)
           /\ UNCHANGED <<terms, number, due, tested, memory, thread, savelock, freezeVars,
                          stopVars>>
  <2>1. thread' = thread /\ memory' = memory /\ terms' = terms
        /\ UNCHANGED <<savelock, freezeVars, stopVars>>
    BY <1>4
  <2>2. skipping' \in BOOLEAN
    BY <1>4 DEF EndCheck
  <2>3. Others
    BY <2>1 DEF Others
  <2> QED BY <1>1, <1>2, <2>1, <2>2, <2>3, OthersStep DEF Unstopped
<1>5. CASE /\ ConditionMet(FALSE) /\ EndCheck(FALSE)
           /\ thread' = DetachEnder(thread, FALSE)
           /\ UNCHANGED <<terms, number, due, tested, memory, savelock, freezeVars, stopVars>>
  <2>1. memory' = memory /\ terms' = terms /\ UNCHANGED <<savelock, freezeVars, stopVars>>
    BY <1>5
  <2>2. skipping' \in BOOLEAN
    BY <1>5 DEF EndCheck
  <2>3. terms.ends = "timeout"
    BY <1>5 DEF ConditionMet, GoalReached
  <2>4. /\ thread' \in [Detached -> Jobs]
        /\ \A u \in Savers : thread'[u] = thread[u]
        /\ thread'[Ender] = thread[Ender] \/ Begins(thread[Ender], Ender, FALSE)
    BY <1>1, <1>5, <2>3, EnderDetached DEF Begins
  <2>5. Others
    BY <2>4, Detaches DEF Others
  <2> QED BY <1>1, <1>2, <2>1, <2>2, <2>4, <2>5, OthersStep DEF Unstopped
<1> QED BY <1>3, <1>4, <1>5 DEF EndGeneratingAndCheck

LEMMA NewGenerationOthers ==
  ASSUME ThreadInv, NEW w \in Workers, SetNextGeneration(w)
  PROVE  ThreadInv' /\ Others /\ Unstopped /\ skipping' = skipping /\ thread' = thread
<1>1. /\ terms' = terms /\ thread' = thread /\ memory' = memory /\ skipping' = skipping
      /\ UNCHANGED <<savelock, freezeVars, stopVars>> /\ params' = params
  BY DEF SetNextGeneration, SetNewGeneration, checkVars
<1>2. ThreadInv'
  BY <1>1 DEF ThreadInv, SavePlaces
<1> QED BY <1>1, <1>2 DEF Others, Unstopped

LEMMA SaveEffect ==
  ASSUME ThreadInv, NEW w \in Workers, SaveOrEnd(w)
  PROVE  /\ ThreadInv' /\ Unstopped
         /\ worker[w].at = "finishing" /\ Alone(w) /\ Ends(w)
         /\ \A c \in Controllers : ~Active(c)
         /\ UNCHANGED <<flagVars, tests, light, controller>>
         /\ \/ Others /\ heavy' = heavy \o <<"renew">> /\ ~params.saves
            \/ /\ heavy' = heavy \/ heavy' = heavy \o <<>>
               /\ \E s \in Detached :
                    /\ thread'[s] = thread[s] \/ Begins(thread[s], s, TRUE)
                    /\ \A t \in Detached \ {s} :
                         thread'[t] = thread[t] \/ Begins(thread[t], t, FALSE)
<1>1. /\ thread \in [Detached -> Jobs] /\ skipping \in BOOLEAN
      /\ memory \in {"fine", "out", "ending"} /\ (terms.ends # "memory" => memory = "fine")
      /\ \A t \in Savers : thread[t].at \in SavePlaces \cup {"none", "saved", "check"}
      /\ thread[Ender].at \in SavePlaces \cup {"none", "end", "stop", "stopping", "clearing"}
  BY DEF ThreadInv
<1>2. CASE ~ConditionMet(TRUE) /\ SaveCheck(w) /\ ~params.saves /\ MasterControl(thread, tested)
  <2>1. /\ worker[w].at = "finishing" /\ Alone(w) /\ Ends(w)
        /\ \A c \in Controllers : ~Active(c)
        /\ UNCHANGED <<params, flagVars, tests, light, controller>>
        /\ heavy' = heavy \o <<"renew">>
    BY <1>2 DEF SaveCheck, AddTasks
  <2>2. UNCHANGED <<savelock, freezeVars, stopVars>>
    BY <1>2 DEF MasterControl
  <2>3. /\ thread' \in [Detached -> Jobs] /\ Others
        /\ memory' \in {"fine", "out", "ending"} /\ (terms.ends # "memory" => memory' = "fine")
        /\ skipping' \in BOOLEAN /\ terms' = terms
    BY <1>1, <1>2, MasterEffect DEF Others
  <2> QED BY <1>2, <2>1, <2>2, <2>3, OthersStep DEF Unstopped
<1>3. CASE /\ ~ConditionMet(TRUE) /\ SaveCheck(w) /\ params.saves
           /\ \E s \in Savers : /\ thread[s].at = "none"
                                /\ MasterControl(Detach(thread, s, "save", TRUE), tested)
  <2>1. /\ worker[w].at = "finishing" /\ Alone(w) /\ Ends(w)
        /\ \A c \in Controllers : ~Active(c)
        /\ UNCHANGED <<params, flagVars, tests, light, controller>>
        /\ heavy' = heavy
    BY <1>3 DEF SaveCheck
  <2>2. PICK s \in Savers : /\ thread[s].at = "none"
                            /\ MasterControl(Detach(thread, s, "save", TRUE), tested)
    BY <1>3
  <2> DEFINE f == Detach(thread, s, "save", TRUE)
  <2>3. /\ f \in [Detached -> Jobs] /\ f[s].at = "save" /\ f[s].ended = TRUE
        /\ \A u \in Detached \ {s} : f[u] = thread[u]
    <3> DEFINE job == [at |-> "save", ended |-> TRUE]
    <3>1. job \in Jobs /\ job.at = "save" /\ job.ended = TRUE
      BY DEF Jobs, SavePlaces
    <3>2. f = [thread EXCEPT ![s] = job] /\ s \in Detached
      BY Detaches DEF Detach
    <3> HIDE DEF f, job
    <3> QED BY <1>1, <3>1, <3>2
  <2>4. MasterControl(f, tested) /\ UNCHANGED <<savelock, freezeVars, stopVars>>
    BY <2>2 DEF MasterControl
  <2> HIDE DEF f
  <2>5. /\ thread' \in [Detached -> Jobs]
        /\ \A t \in Detached : thread'[t] = f[t] \/ Begins(f[t], t, FALSE)
        /\ memory' \in {"fine", "out", "ending"} /\ (terms.ends # "memory" => memory' = "fine")
        /\ skipping' \in BOOLEAN /\ terms' = terms
    BY <2>3, <2>4, MasterEffect
  <2>6. s \in Detached /\ s # Ender
    BY Detaches
  <2>7. thread'[s] = f[s]
    BY <2>3, <2>5, <2>6 DEF Begins
  <2>8. Begins(thread[s], s, TRUE)
    BY <2>2, <2>3, <2>6, <2>7 DEF Begins
  <2>9. \A t \in Detached \ {s} : thread'[t] = thread[t] \/ Begins(thread[t], t, FALSE)
    BY <2>3, <2>5
  <2>10. \A t \in Savers : thread'[t].at \in SavePlaces \cup {"none", "saved", "check"}
    BY <1>1, <2>6, <2>8, <2>9, Detaches DEF Begins, SavePlaces
  <2>11. thread'[Ender].at \in SavePlaces \cup {"none", "end", "stop", "stopping", "clearing"}
    BY <1>1, <2>6, <2>9, Detaches DEF Begins
  <2>12. ThreadInv'
    BY <1>3, <2>1, <2>5, <2>10, <2>11, ThreadStep
  <2> QED BY <2>1, <2>4, <2>5, <2>6, <2>8, <2>9, <2>12 DEF Unstopped
<1>4. CASE /\ ConditionMet(TRUE)
           /\ worker[w].at = "finishing" /\ Alone(w) /\ ~DeltaDebuggingActive
           /\ Ends(w) /\ EndCheck(TRUE)
           /\ thread' = DetachEnder(thread, TRUE)
           /\ UNCHANGED <<params, countVars, flagVars, tests, poolVars, controller, saving,
                          mishaps, terms, number, due, tested, memory, savelock, freezeVars,
                          stopVars>>
  <2>1. /\ params' = params /\ UNCHANGED <<flagVars, tests, light, controller>>
        /\ heavy' = heavy /\ memory' = memory /\ terms' = terms
        /\ UNCHANGED <<savelock, freezeVars, stopVars>>
    BY <1>4 DEF poolVars
  <2>2. \A c \in Controllers : ~Active(c)
    BY <1>4 DEF DeltaDebuggingActive
  <2>3. skipping' \in BOOLEAN
    BY <1>4 DEF EndCheck
  <2>4. terms.ends \in {"timeout", "generations"}
    BY <1>4 DEF ConditionMet, GoalReached
  <2>5. /\ thread' \in [Detached -> Jobs]
        /\ \A u \in Savers : thread'[u] = thread[u]
        /\ thread'[Ender] = thread[Ender] \/ Begins(thread[Ender], Ender, TRUE)
    <3> DEFINE g == DetachEnder(thread, TRUE)
    <3>1. /\ g \in [Detached -> Jobs]
          /\ \A u \in Savers : g[u] = thread[u]
          /\ \/ g[Ender] = thread[Ender]
             \/ /\ thread[Ender].at = "none" /\ ~abort
                /\ g[Ender].at = "end" /\ g[Ender].ended = TRUE
      <4>1. CASE thread[Ender].at = "none" /\ ~abort
        <5> DEFINE job == [at |-> "end", ended |-> TRUE]
        <5>1. job \in Jobs /\ job.at = "end" /\ job.ended = TRUE
          BY DEF Jobs, SavePlaces
        <5>2. g = [thread EXCEPT ![Ender] = job] /\ Ender \in Detached /\ Ender \notin Savers
          BY <4>1, Detaches DEF DetachEnder, Detach
        <5>3. Savers \subseteq Detached
          BY DEF Detached
        <5> HIDE DEF g, job
        <5> QED BY <1>1, <4>1, <5>1, <5>2, <5>3
      <4>2. CASE ~(thread[Ender].at = "none" /\ ~abort)
        <5>1. g = thread
          BY <4>2 DEF DetachEnder
        <5> HIDE DEF g
        <5> QED BY <1>1, <5>1
      <4> QED BY <4>1, <4>2
    <3>2. thread' = g
      BY <1>4
    <3> HIDE DEF g
    <3> QED BY <2>4, <3>1, <3>2 DEF Begins
  <2>6. \A t \in Savers : thread'[t].at \in SavePlaces \cup {"none", "saved", "check"}
    BY <1>1, <2>5
  <2>7. thread'[Ender].at \in SavePlaces \cup {"none", "end", "stop", "stopping", "clearing"}
    BY <1>1, <2>5 DEF Begins
  <2>8. ThreadInv'
    BY <1>1, <2>1, <2>3, <2>5, <2>6, <2>7, ThreadStep
  <2>9. \A t \in Detached \ {Ender} : thread'[t] = thread[t]
    BY <2>5, Detaches
  <2> QED BY <1>4, <2>1, <2>2, <2>5, <2>8, <2>9, Detaches DEF Unstopped
<1> QED BY <1>2, <1>3, <1>4 DEF SaveOrEnd

-----------------------------------------------------------------------------
(* Who goes on with the end of a generation.                               *)

\* The session is saved at the end of the generation that may be its last one.
SavedAtEnd == params.saves /\ terms.ends = "generations"

\* The look for the end after a save comes in time, and so does the save.
Regular ==
  /\ ~params.slowSave
  /\ params.saves => \/ terms.ends \in {"never", "memory"}
                     \/ terms.ends = "generations" /\ terms.prompt /\ ~terms.autosaves

\* A thread of the pool in GenerationFinishedCallback, past the test of
\* _generationFinishing.
Renews(w) == worker[w].at \in {"finishing", "renew", "replacing", "restarting"}

\* A detached thread whose save is to call GenerationFinishedCallback.
CallsBack(t) ==
  /\ thread[t].ended = TRUE
  /\ \/ thread[t].at \in SavePlaces
     \/ thread[t].at = "end" /\ ~(SavedAtEnd /\ skipping = TRUE)

RenewQueued == heavy = <<"renew">>

\* There is one at most.
OneRenews ==
  /\ \A v, w \in Workers : Renews(v) /\ Renews(w) => v = w
  /\ \A t, u \in Detached : CallsBack(t) /\ CallsBack(u) => t = u
  /\ \A w \in Workers, t \in Detached : ~(Renews(w) /\ CallsBack(t))
  /\ RenewQueued => \A w \in Workers : ~Renews(w)
  /\ RenewQueued => \A t \in Detached : ~CallsBack(t)
  /\ \A i \in 1 .. Len(heavy) : heavy[i] = "renew" => RenewQueued

\* Everything of the generation has been waited for.
Settled ==
  \/ RenewQueued
  \/ \E w \in Workers : worker[w].at \in {"renew", "replacing"}
  \/ \E t \in Detached : CallsBack(t)

Quiet ==
  /\ ending = TRUE
  /\ tests = 0 /\ light = 0
  /\ \A c \in Controllers : ~Active(c)
  /\ heavy = <<>> \/ RenewQueued
  /\ \A w \in Workers : worker[w].at \in {"waiting", "renew", "replacing"}

\* What is there only once the generation is ending.
EndPlaces ==
  {"end", "optimizing", "selecting", "attaching", "finish", "finishing", "renew", "replacing"}

ChainInv ==
  /\ OneRenews
  /\ (\E w \in Workers : Renews(w)) \/ Settled => finishing = TRUE
  /\ Settled => Quiet
  /\ ending = FALSE =>
       /\ \A i \in 1 .. Len(heavy) : heavy[i] = "generate"
       /\ \A w \in Workers : worker[w].at \notin EndPlaces
       /\ \A c \in Controllers : controller[c].listed = FALSE
       /\ finishing = TRUE => \E w \in Workers : worker[w].at = "restarting"

-----------------------------------------------------------------------------
(* Saves at the end of a generation that may be the last one.              *)

Alive(t) == thread[t].at # "none"

\* One thread at a time, and the pool waits for it.
PromptInv ==
  SavedAtEnd =>
    /\ \A t, u \in Detached : Alive(t) /\ Alive(u) => t = u
    /\ \A t \in Detached : Alive(t) =>
         /\ Quiet /\ AllWait
         /\ thread[t].ended = TRUE
         /\ thread[t].at = "check" => skipping = TRUE
         /\ \/ heavy = <<>>
            \/ GoesOn(t)
            \/ thread[t].at \in {"stopping", "clearing"} /\ frozen = TRUE

-----------------------------------------------------------------------------
(* What keeps the chain.                                                   *)

\* The saves, the end of the session, and time only take away from what is to
\* be done.
LEMMA Fewer ==
  ASSUME TypeInv, ChainInv, worker' = worker, ending' = ending, finishing' = finishing,
         tests' = tests \/ tests' = 0, light' = light \/ light' = 0,
         heavy' = heavy \/ heavy' = <<>>,
         \A t \in Detached : CallsBack(t)' => CallsBack(t),
         \A c \in Controllers : /\ Active(c)' => Active(c)
                                /\ controller'[c].listed = controller[c].listed
  PROVE  ChainInv' /\ (Settled' => Settled) /\ (Quiet => Quiet')
<1>1. RenewQueued' => RenewQueued /\ heavy' = heavy
  BY DEF RenewQueued
<1>2. \A w \in Workers : worker'[w] = worker[w] /\ (Renews(w)' <=> Renews(w))
  BY DEF Renews
<1>3. Settled' => Settled
  BY <1>1 DEF Settled
<1>4. Quiet => Quiet'
  BY DEF Quiet, RenewQueued
<1>5. OneRenews'
  <2>1. OneRenews
    BY DEF ChainInv
  <2>2. \A i \in 1 .. Len(heavy') : heavy'[i] = "renew" => RenewQueued'
    <3>1. CASE heavy' = heavy
      BY <2>1, <3>1 DEF OneRenews, RenewQueued
    <3>2. CASE heavy' = <<>>
      BY <3>2
    <3> QED BY <3>1, <3>2
  <2> QED BY <1>1, <1>2, <2>1, <2>2 DEF OneRenews
<1>6. (\E w \in Workers : Renews(w)') \/ Settled' => finishing' = TRUE
  BY <1>2, <1>3 DEF ChainInv
<1>7. ending' = FALSE =>
        /\ \A i \in 1 .. Len(heavy') : heavy'[i] = "generate"
        /\ \A w \in Workers : worker'[w].at \notin EndPlaces
        /\ \A c \in Controllers : controller'[c].listed = FALSE
        /\ finishing' = TRUE => \E w \in Workers : worker'[w].at = "restarting"
  BY DEF ChainInv
<1>8. Settled' => Quiet'
  BY <1>3, <1>4 DEF ChainInv
<1> QED BY <1>3, <1>4, <1>5, <1>6, <1>7, <1>8 DEF ChainInv

\* As long as not everything has been waited for.
LEMMA Unsettled ==
  ASSUME TypeInv, TypeInv', ChainInv, ~Settled,
         \A v \in Workers : worker'[v].at \notin {"renew", "replacing"},
         \A v, u \in Workers : Renews(v)' /\ Renews(u)' => v = u,
         (\E v \in Workers : Renews(v)') => finishing' = TRUE,
         \A t \in Detached : ~CallsBack(t)',
         \A i \in 1 .. Len(heavy') : heavy'[i] # "renew",
         ending' = FALSE =>
           /\ \A i \in 1 .. Len(heavy') : heavy'[i] = "generate"
           /\ \A v \in Workers : worker'[v].at \notin EndPlaces
           /\ \A c \in Controllers : controller'[c].listed = FALSE
           /\ finishing' = TRUE => \E v \in Workers : worker'[v].at = "restarting"
  PROVE  ChainInv' /\ ~Settled'
<1>1. ~RenewQueued'
  <2> SUFFICES ASSUME heavy' = <<"renew">> PROVE FALSE
    BY DEF RenewQueued
  <2>1. Len(heavy') = 1 /\ heavy'[1] = "renew"
    OBVIOUS
  <2> QED BY <2>1
<1>2. ~Settled'
  BY <1>1 DEF Settled
<1>3. OneRenews'
  BY <1>1 DEF OneRenews
<1> QED BY <1>2, <1>3 DEF ChainInv

LEMMA Appended ==
  ASSUME NEW h \in Seq(Kinds), NEW k \in Kinds, NEW g, g = h \/ g = h \o <<>> \/ g = h \o <<k>>,
         NEW i \in 1 .. Len(g)
  PROVE  (i \in 1 .. Len(h) /\ g[i] = h[i]) \/ (g # h /\ g[i] = k)
<1>1. h \o <<>> = h
  BY NoMoreTask
<1>2. CASE g = h
  BY <1>2
<1>3. CASE g = h \o <<k>>
  <2>1. /\ Len(g) = Len(h) + 1 /\ g[Len(h) + 1] = k /\ Len(h) \in Nat
        /\ \A j \in 1 .. Len(h) : g[j] = h[j]
    BY <1>3, OneMoreTask
  <2>2. g # h
    BY <2>1
  <2>3. i \in 1 .. Len(h) \/ i = Len(h) + 1
    BY <2>1
  <2> QED BY <2>1, <2>2, <2>3
<1> QED BY <1>1, <1>2, <1>3

\* A thread at work, and what it may queue.
LEMMA Working ==
  ASSUME TypeInv, TypeInv', ChainInv, NEW w \in Workers,
         worker[w].at \notin {"waiting", "renew", "replacing", "restarting"},
         NEW at \in Places, NEW left, Moves(w, at, left), ~(at \in {"finishing", "renew", "replacing", "restarting"}),
         NEW k \in Kinds \ {"renew"}, heavy' = heavy \/ heavy' = heavy \o <<>> \/ heavy' = heavy \o <<k>>,
         finishing' = finishing \/ (finishing' = TRUE /\ worker[w].at = "finish"),
         ending' = ending \/ ending' = TRUE,
         \A t \in Detached : CallsBack(t)' => CallsBack(t),
         ending' = FALSE /\ ending = FALSE =>
           /\ heavy' = heavy \/ heavy' = heavy \o <<>> \/ k = "generate"
           /\ at \notin EndPlaces
           /\ \A c \in Controllers : controller[c].listed = FALSE => controller'[c].listed = FALSE
  PROVE  ChainInv' /\ ~Settled'
<1>1. ~Settled
  BY DEF ChainInv, Quiet
<1>2. /\ worker'[w].at = at /\ \A v \in Workers \ {w} : worker'[v] = worker[v]
  BY DEF Moves
<1>3. OneRenews /\ ~RenewQueued
  BY <1>1 DEF ChainInv, Settled
<1>4. heavy \in Seq(Kinds)
  BY TypeFacts
<1>5. \A i \in 1 .. Len(heavy') :
        (i \in 1 .. Len(heavy) /\ heavy'[i] = heavy[i]) \/ (heavy' # heavy /\ heavy'[i] = k)
  BY <1>4, Appended
<1>6. \A i \in 1 .. Len(heavy') : heavy'[i] # "renew"
  BY <1>3, <1>5 DEF OneRenews
<1>7. \A v \in Workers : Renews(v)' => Renews(v) /\ v # w
  BY <1>2 DEF Renews
<1>8. \A v \in Workers : worker'[v].at \notin {"renew", "replacing"}
  BY <1>1, <1>2 DEF Settled
<1>9. \A v, u \in Workers : Renews(v)' /\ Renews(u)' => v = u
  BY <1>3, <1>7 DEF OneRenews
<1>10. (\E v \in Workers : Renews(v)') => finishing' = TRUE
  BY <1>7 DEF ChainInv
<1>11. \A t \in Detached : ~CallsBack(t)'
  BY <1>1 DEF Settled
<1>12. ASSUME ending' = FALSE
       PROVE  /\ \A i \in 1 .. Len(heavy') : heavy'[i] = "generate"
              /\ \A v \in Workers : worker'[v].at \notin EndPlaces
              /\ \A c \in Controllers : controller'[c].listed = FALSE
              /\ finishing' = TRUE => \E v \in Workers : worker'[v].at = "restarting"
  <2>1. ending = FALSE
    BY <1>12
  <2>2. /\ \A i \in 1 .. Len(heavy) : heavy[i] = "generate"
        /\ \A v \in Workers : worker[v].at \notin EndPlaces
        /\ \A c \in Controllers : controller[c].listed = FALSE
        /\ finishing = TRUE => \E v \in Workers : worker[v].at = "restarting"
    BY <2>1 DEF ChainInv
  <2>3. heavy' = heavy \/ k = "generate"
    BY <1>4, <1>12, <2>1, NoMoreTask
  <2>4. \A i \in 1 .. Len(heavy') : heavy'[i] = "generate"
    BY <1>5, <2>2, <2>3
  <2>5. \A v \in Workers : worker'[v].at \notin EndPlaces
    BY <1>2, <1>12, <2>1, <2>2
  <2>6. finishing' = finishing
    BY <2>2 DEF EndPlaces
  <2>7. finishing' = TRUE => \E v \in Workers : worker'[v].at = "restarting"
    BY <1>2, <2>2, <2>6
  <2> QED BY <1>12, <2>1, <2>2, <2>4, <2>5, <2>7
<1> QED BY <1>1, <1>6, <1>8, <1>9, <1>10, <1>11, <1>12, Unsettled

-----------------------------------------------------------------------------
(* The threads of the pool.                                                *)

Going == TypeInv /\ ThreadInv /\ Regular /\ ChainInv /\ PromptInv

\* A generation that may be the last one is saved while nothing else is done.
LEMMA NobodySaves ==
  ASSUME Going, NEW w \in Workers, worker[w].at # "waiting", SavedAtEnd
  PROVE  \A t \in Detached : ~Alive(t)
BY DEF Going, PromptInv, AllWait

LEMMA SameEnding == ASSUME Unstopped PROVE (SavedAtEnd' <=> SavedAtEnd) /\ (Regular' <=> Regular)
BY DEF Unstopped, SavedAtEnd, Regular

LEMMA OthersCall ==
  ASSUME Going, Others, Unstopped, SavedAtEnd => \A t \in Detached : ~Alive(t)
  PROVE  /\ \A t \in Detached : CallsBack(t)' => CallsBack(t)
         /\ SavedAtEnd => \A t \in Detached : ~Alive(t)'
<1>1. SavedAtEnd' <=> SavedAtEnd
  BY SameEnding
<1>2. CASE SavedAtEnd
  <2>1. terms.ends = "generations" /\ ~terms.autosaves
    BY <1>2 DEF SavedAtEnd, Going, Regular
  <2>2. \A t \in Detached : ~Begins(thread[t], t, FALSE)
    BY <2>1 DEF Begins
  <2>3. \A t \in Detached : thread'[t] = thread[t] /\ thread[t].at = "none"
    BY <1>2, <2>2 DEF Others, Alive
  <2> QED BY <2>3 DEF Alive, CallsBack, SavePlaces
<1>3. CASE ~SavedAtEnd
  <2>1. \A t \in Detached : thread'[t].ended = TRUE => thread'[t] = thread[t]
    BY DEF Others, Begins
  <2> QED BY <1>1, <1>3, <2>1 DEF CallsBack
<1> QED BY <1>2, <1>3

LEMMA NobodyPrompt ==
  ASSUME Unstopped, SavedAtEnd => \A t \in Detached : ~Alive(t)'
  PROVE  PromptInv'
<1>1. SavedAtEnd' <=> SavedAtEnd
  BY SameEnding
<1> QED BY <1>1 DEF PromptInv

LEMMA WorkStep ==
  ASSUME Going, TypeInv', Others, Unstopped, NEW w \in Workers,
         worker[w].at \notin {"waiting", "renew", "replacing", "restarting"},
         NEW at \in Places \ {"finishing", "renew", "replacing", "restarting"}, NEW left,
         Moves(w, at, left),
         NEW k \in Kinds \ {"renew"}, heavy' = heavy \/ heavy' = heavy \o <<>> \/ heavy' = heavy \o <<k>>,
         finishing' = finishing \/ (finishing' = TRUE /\ worker[w].at = "finish"),
         ending' = ending \/ ending' = TRUE,
         ending' = FALSE /\ ending = FALSE =>
           /\ heavy' = heavy \/ heavy' = heavy \o <<>> \/ k = "generate"
           /\ at \notin EndPlaces
           /\ \A c \in Controllers : controller[c].listed = FALSE => controller'[c].listed = FALSE
  PROVE  ChainInv' /\ PromptInv'
<1>1. TypeInv /\ ChainInv
  BY DEF Going
<1>2. SavedAtEnd => \A t \in Detached : ~Alive(t)
  BY NobodySaves
<1>3. /\ \A t \in Detached : CallsBack(t)' => CallsBack(t)
      /\ SavedAtEnd => \A t \in Detached : ~Alive(t)'
  BY <1>2, OthersCall
<1>4. PromptInv'
  BY <1>3, NobodyPrompt
<1>5. ChainInv'
  BY <1>1, <1>3, Working
<1> QED BY <1>4, <1>5

\* Threads that look for the end of a generation.
LEMMA Checked ==
  ASSUME TypeInv, NEW fails \in BOOLEAN, CheckGenerationEnd(fails)
  PROVE  /\ ending' = ending \/ ending' = TRUE
         /\ heavy' = heavy \/ heavy' = heavy \o <<>> \/ heavy' = heavy \o <<"end">>
         /\ ending' = FALSE /\ ending = FALSE => heavy' = heavy \/ heavy' = heavy \o <<>>
<1> DEFINE ends == UsedUp(fails) /\ ~ending
<1>1. /\ ending' = (ending \/ ends)
      /\ heavy' = heavy \o (IF ends THEN <<"end">> ELSE <<>>)
  BY DEF CheckGenerationEnd, AddTasks
<1>2. ending \in BOOLEAN
  BY Typed
<1> HIDE DEF ends
<1> QED BY <1>1, <1>2

LEMMA ReserveChain ==
  ASSUME Going, TypeInv', Others, Unstopped, NEW w \in Workers, Reserve(w) \/ Refuse(w)
  PROVE  ChainInv' /\ PromptInv'
<1>1. /\ UNCHANGED <<flagVars, heavy, controller>> /\ worker[w].at = "generate"
  BY DEF Reserve, Refuse
<1>2. \E at \in {"waiting", "making"}, left \in 0 .. Step : Moves(w, at, left)
  <2>1. TypeInv /\ Step \in Nat
    BY TypeFacts DEF Going
  <2>2. Moves(w, "waiting", 0) \/ \E n \in 1 .. Step : Moves(w, "making", n)
    BY <2>1, ReserveTypes, RefuseTypes
  <2> QED BY <2>1, <2>2
<1>3. PICK at \in {"waiting", "making"}, left \in 0 .. Step : Moves(w, at, left)
  BY <1>2
<1>4. /\ at \in Places \ {"finishing", "renew", "replacing", "restarting"}
      /\ at \notin EndPlaces /\ "end" \in Kinds \ {"renew"}
  BY DEF Places, EndPlaces, Kinds
<1>5. worker[w].at \notin {"waiting", "renew", "replacing", "restarting"}
  BY <1>1
<1>6. finishing' = finishing /\ ending' = ending /\ heavy' = heavy /\ controller' = controller
  BY <1>1 DEF flagVars
<1> QED BY <1>3, <1>4, <1>5, <1>6, WorkStep

LEMMA MakeInputChain ==
  ASSUME Going, TypeInv', Others, Unstopped, NEW w \in Workers, MakeInput(w) \/ GiveUp(w)
  PROVE  ChainInv' /\ PromptInv'
<1>1. /\ UNCHANGED <<flagVars, poolVars, controller>> /\ worker[w].at = "making"
  BY DEF MakeInput, GiveUp
<1>2. PICK at \in {"making", "failed"}, left \in {worker[w].left - 1, worker[w].left} : Moves(w, at, left)
  BY MakeInputTypes, GiveUpTypes DEF Going
<1>4. /\ at \in Places \ {"finishing", "renew", "replacing", "restarting"}
      /\ at \notin EndPlaces /\ "end" \in Kinds \ {"renew"}
  BY DEF Places, EndPlaces, Kinds
<1>5. worker[w].at \notin {"waiting", "renew", "replacing", "restarting"}
  BY <1>1
<1>6. finishing' = finishing /\ ending' = ending /\ heavy' = heavy /\ controller' = controller
  BY <1>1 DEF flagVars, poolVars
<1> QED BY <1>2, <1>4, <1>5, <1>6, WorkStep

LEMMA WaitingPlace ==
  /\ "waiting" \in Places \ {"finishing", "renew", "replacing", "restarting"}
  /\ "waiting" \notin EndPlaces
  /\ {"generate", "end", "finish"} \subseteq Kinds \ {"renew"}
BY DEF Places, EndPlaces, Kinds

\* The task of a maker ends.
LEMMA MakerChain ==
  ASSUME Going, TypeInv', Others, Unstopped, NEW w \in Workers,
         worker[w].at \in {"making", "failed"}, Moves(w, "waiting", 0),
         UNCHANGED <<finishing, controller>>,
         \/ UNCHANGED <<ending, heavy>>
         \/ CheckGenerationEnd(TRUE)
  PROVE  ChainInv' /\ PromptInv'
<1>1. TypeInv
  BY DEF Going
<1>2. /\ ending' = ending \/ ending' = TRUE
      /\ heavy' = heavy \/ heavy' = heavy \o <<>> \/ heavy' = heavy \o <<"end">>
      /\ ending' = FALSE /\ ending = FALSE => heavy' = heavy \/ heavy' = heavy \o <<>>
  <2>1. CASE UNCHANGED <<ending, heavy>>
    BY <2>1
  <2>2. CASE CheckGenerationEnd(TRUE)
    BY <1>1, <2>2, Checked
  <2> QED BY <2>1, <2>2
<1>3. worker[w].at \notin {"waiting", "renew", "replacing", "restarting"}
  OBVIOUS
<1>4. finishing' = finishing /\ controller' = controller
  OBVIOUS
<1>5. "end" \in Kinds \ {"renew"}
  BY WaitingPlace
<1> QED BY <1>2, <1>3, <1>4, <1>5, WaitingPlace, WorkStep

LEMMA NoSourceChain ==
  ASSUME Going, TypeInv', Others, Unstopped, NEW w \in Workers, NoRandomSource(w)
  PROVE  ChainInv' /\ PromptInv'
<1>1. /\ CheckGenerationEnd(TRUE) /\ UNCHANGED <<finishing, controller>>
      /\ worker[w].at \in {"making", "failed"}
  BY DEF NoRandomSource
<1>2. Moves(w, "waiting", 0)
  BY NoSourceTypes DEF Going
<1> QED BY <1>1, <1>2, MakerChain

LEMMA EndGeneratingChain ==
  ASSUME Going, TypeInv', Others, Unstopped, NEW w \in Workers, EndGeneratingAndCheck(w)
  PROVE  ChainInv' /\ PromptInv'
<1>1. CASE EndGenerating(w)
  <2>1. /\ CheckGenerationEnd(TRUE) \/ UNCHANGED <<ending, heavy>>
        /\ UNCHANGED <<finishing, controller>>
    BY <1>1 DEF EndGenerating
  <2>2. Moves(w, "waiting", 0) /\ worker[w].at \in {"making", "failed"}
    BY <1>1, EndGeneratingTypes DEF Going
  <2> QED BY <2>1, <2>2, MakerChain
<1>2. CASE /\ ChecksEnd(w) /\ Ends(w)
           /\ generated' = generated - worker[w].left
           /\ active' = Larger(active - worker[w].left, 0) /\ callbacks' = callbacks - 1
           /\ UNCHANGED <<params, flagVars, tests, light, heavy, controller, saving, mishaps>>
  <2>1. UNCHANGED <<ending, heavy>> /\ UNCHANGED <<finishing, controller>>
    BY <1>2 DEF flagVars
  <2>2. Moves(w, "waiting", 0) /\ worker[w].at \in {"making", "failed"}
    BY <1>2, LastMakerTypes DEF Going
  <2> QED BY <2>1, <2>2, MakerChain
<1> QED BY <1>1, <1>2 DEF EndGeneratingAndCheck

LEMMA TestEndChain ==
  ASSUME Going, TypeInv', Others, Unstopped, NEW w \in Workers, TestEnd(w)
  PROVE  ChainInv' /\ PromptInv'
<1>1. /\ CheckGenerationEnd(FALSE) /\ finishing' = finishing /\ controller' = controller
      /\ worker[w].at = "test end"
  BY DEF TestEnd
<1>2. Moves(w, "request", worker[w].left)
  BY TestEndTypes DEF Going
<1>3. /\ ending' = ending \/ ending' = TRUE
      /\ heavy' = heavy \/ heavy' = heavy \o <<>> \/ heavy' = heavy \o <<"end">>
      /\ ending' = FALSE /\ ending = FALSE => heavy' = heavy \/ heavy' = heavy \o <<>>
  BY <1>1, Checked DEF Going
<1>4. "request" \in Places \ {"finishing", "renew", "replacing", "restarting"}
      /\ "request" \notin EndPlaces /\ "end" \in Kinds \ {"renew"}
  BY DEF Places, EndPlaces, Kinds
<1>5. worker[w].at \notin {"waiting", "renew", "replacing", "restarting"}
  BY <1>1
<1> QED BY <1>1, <1>2, <1>3, <1>4, <1>5, WorkStep

LEMMA RepeatTestChain ==
  ASSUME Going, TypeInv', Others, Unstopped, NEW w \in Workers, RepeatTest(w)
  PROVE  ChainInv' /\ PromptInv'
<1>1. /\ UNCHANGED <<flagVars, poolVars>> /\ controller' = controller
      /\ worker[w].at = "test end"
  BY DEF RepeatTest
<1>2. Moves(w, "waiting", 0)
  BY RepeatTestTypes DEF Going
<1>3. finishing' = finishing /\ ending' = ending /\ heavy' = heavy
  BY <1>1 DEF flagVars, poolVars
<1>4. "end" \in Kinds \ {"renew"}
  BY WaitingPlace
<1>5. worker[w].at \notin {"waiting", "renew", "replacing", "restarting"}
  BY <1>1
<1> QED BY <1>1, <1>2, <1>3, <1>4, <1>5, WaitingPlace, WorkStep

LEMMA RequestChain ==
  ASSUME Going, TypeInv', Others, Unstopped, NEW w \in Workers, RequestInputs(w)
  PROVE  ChainInv' /\ PromptInv'
<1>1. /\ UNCHANGED flagVars /\ GenerateTests
      /\ worker[w].at = "request"
      /\ \/ controller' = controller
         \/ \E c \in Controllers : controller' = [controller EXCEPT ![c].state = "busy"]
  BY DEF RequestInputs
<1>2. Moves(w, "waiting", 0)
  BY RequestTypes DEF Going
<1>3. finishing' = finishing /\ ending' = ending
      /\ (heavy' = heavy \/ heavy' = heavy \o <<"generate">>)
  BY <1>1 DEF flagVars, GenerateTests, AddTasks
<1>4. "generate" \in Kinds \ {"renew"}
  BY WaitingPlace
<1>5. worker[w].at \notin {"waiting", "renew", "replacing", "restarting"}
  BY <1>1
<1>6. \A c \in Controllers : controller'[c].listed = controller[c].listed
  <2>1. controller \in [Controllers -> DeltaStates]
    BY Typed DEF Going
  <2> QED BY <1>1, <2>1 DEF DeltaStates
<1> QED BY <1>2, <1>3, <1>4, <1>5, <1>6, WaitingPlace, WorkStep

\* A thread that ends a generation knows that it is ending.
LEMMA EndsOnlyEnding ==
  ASSUME Going, NEW w \in Workers, worker[w].at \in EndPlaces
  PROVE  ending = TRUE
<1>1. ending \in BOOLEAN
  BY Typed DEF Going
<1> QED BY <1>1 DEF Going, ChainInv

\* A step of such a thread before GenerationFinishedCallback.
LEMMA EndingChain ==
  ASSUME Going, TypeInv', Others, Unstopped, NEW w \in Workers,
         worker[w].at \in {"end", "optimizing", "selecting", "attaching", "finish", "finishing"},
         NEW at \in {"waiting", "optimizing", "selecting", "attaching"}, NEW left, Moves(w, at, left),
         NEW k \in {"end", "finish"}, heavy' = heavy \/ heavy' = heavy \o <<>> \/ heavy' = heavy \o <<k>>,
         ending' = ending, finishing' = finishing \/ (finishing' = TRUE /\ worker[w].at = "finish")
  PROVE  ChainInv' /\ PromptInv'
<1>1. worker[w].at \in EndPlaces
  BY DEF EndPlaces
<1>2. ending = TRUE
  BY <1>1, EndsOnlyEnding
<1>3. at \in Places \ {"finishing", "renew", "replacing", "restarting"}
      /\ k \in Kinds \ {"renew"}
  BY DEF Places, Kinds
<1>4. worker[w].at \notin {"waiting", "renew", "replacing", "restarting"}
  OBVIOUS
<1> QED BY <1>2, <1>3, <1>4, WorkStep

LEMMA EndGenerationChain ==
  ASSUME Going, TypeInv', Others, Unstopped, NEW w \in Workers, EndGeneration(w)
  PROVE  ChainInv' /\ PromptInv'
<1>1. /\ UNCHANGED flagVars /\ worker[w].at = "end"
      /\ heavy' = heavy \/ heavy' = heavy \o <<"end">>
  BY DEF EndGeneration, AddTasks
<1>2. PICK at \in {"waiting", "optimizing", "selecting"} : Moves(w, at, 0)
  BY EndGenerationTypes DEF Going
<1>3. ending' = ending /\ finishing' = finishing
  BY <1>1 DEF flagVars
<1> QED BY <1>1, <1>2, <1>3, EndingChain

LEMMA EndSelectionChain ==
  ASSUME Going, TypeInv', Others, Unstopped, NEW w \in Workers, EndSelection(w)
  PROVE  ChainInv' /\ PromptInv'
<1>1. /\ UNCHANGED flagVars /\ worker[w].at \in {"optimizing", "selecting"}
  BY DEF EndSelection
<1>2. Moves(w, "waiting", 0) /\ (heavy' = heavy \/ heavy' = heavy \o <<"finish">>)
  BY EndSelectionTypes DEF Going
<1>3. ending' = ending /\ finishing' = finishing
  BY <1>1 DEF flagVars
<1> QED BY <1>1, <1>2, <1>3, EndingChain

LEMMA SelectionChain ==
  ASSUME Going, TypeInv', Others, Unstopped, NEW w \in Workers, NEW c \in Controllers,
         StartScoreOptimization(w, c) \/ LookAtController(w, c) \/ AttachCallback(w, c)
  PROVE  ChainInv' /\ PromptInv'
<1>1. /\ UNCHANGED flagVars /\ UNCHANGED poolVars
      /\ worker[w].at \in {"optimizing", "selecting", "attaching"}
  BY DEF StartScoreOptimization, LookAtController, AttachCallback
<1>2. PICK at \in {"optimizing", "selecting", "attaching"} : Moves(w, at, worker[w].left)
  BY ScoreTypes, LookTypes, AttachTypes DEF Going
<1>3. ending' = ending /\ finishing' = finishing /\ heavy' = heavy
  BY <1>1 DEF flagVars, poolVars
<1>4. "end" \in {"end", "finish"}
  OBVIOUS
<1> QED BY <1>1, <1>2, <1>3, <1>4, EndingChain

LEMMA WaitForControllersChain ==
  ASSUME Going, TypeInv', Others, Unstopped, NEW w \in Workers, WaitForControllers(w)
  PROVE  ChainInv' /\ PromptInv'
<1>1. /\ UNCHANGED flagVars /\ UNCHANGED poolVars
      /\ worker[w].at = "finishing"
  BY DEF WaitForControllers
<1>2. Moves(w, "waiting", 0)
  BY WaitForControllersTypes DEF Going
<1>3. ending' = ending /\ finishing' = finishing /\ heavy' = heavy
  BY <1>1 DEF flagVars, poolVars
<1>4. "end" \in {"end", "finish"}
  OBVIOUS
<1> QED BY <1>1, <1>2, <1>3, <1>4, EndingChain

\* One GenerationFinishedCallback gets past the test of _generationFinishing.
LEMMA FinishChain ==
  ASSUME Going, TypeInv', Others, Unstopped, NEW w \in Workers, FinishGeneration(w)
  PROVE  ChainInv' /\ PromptInv'
<1>1. /\ worker[w].at = "finish" /\ finishing' = TRUE /\ ending' = ending
      /\ controller' = controller
  BY DEF FinishGeneration
<1>2. \/ /\ Moves(w, "waiting", 0)
         /\ IF finishing THEN heavy' = heavy ELSE heavy' = heavy \o <<"finish">>
      \/ Moves(w, "finishing", 0) /\ heavy' = heavy /\ ~finishing
  BY FinishTypes DEF Going
<1>3. CASE Moves(w, "waiting", 0) /\ (heavy' = heavy \/ heavy' = heavy \o <<"finish">>)
  BY <1>1, <1>3, EndingChain
<1>4. CASE Moves(w, "finishing", 0) /\ heavy' = heavy /\ ~finishing
  <2>1. worker[w].at \in EndPlaces
    BY <1>1 DEF EndPlaces
  <2>2. ending = TRUE
    BY <2>1, EndsOnlyEnding
  <2>3. SavedAtEnd => \A t \in Detached : ~Alive(t)
    BY <1>1, NobodySaves
  <2>4. /\ \A t \in Detached : CallsBack(t)' => CallsBack(t)
        /\ SavedAtEnd => \A t \in Detached : ~Alive(t)'
    BY <2>3, OthersCall
  <2>5. TypeInv /\ ChainInv /\ OneRenews
    BY DEF Going, ChainInv
  <2>6. ~Settled /\ \A v \in Workers : ~Renews(v)
    BY <1>4, <2>5 DEF ChainInv
  <2>7. \A v \in Workers \ {w} : worker'[v] = worker[v]
    BY <1>4 DEF Moves
  <2>8. worker'[w].at = "finishing"
    BY <1>4 DEF Moves
  <2>9. \A v \in Workers : worker'[v].at \notin {"renew", "replacing"} /\ (Renews(v)' => v = w)
    BY <2>6, <2>7, <2>8 DEF Renews
  <2>10. \A t \in Detached : ~CallsBack(t)'
    BY <2>4, <2>6 DEF Settled
  <2>11. \A i \in 1 .. Len(heavy') : heavy'[i] # "renew"
    BY <1>4, <2>5, <2>6 DEF OneRenews, Settled
  <2>12. ChainInv'
    BY <1>1, <2>2, <2>5, <2>6, <2>9, <2>10, <2>11, Unsettled
  <2> QED BY <2>4, <2>12, NobodyPrompt
<1> QED BY <1>2, <1>3, <1>4

LEMMA TailFacts ==
  ASSUME NEW h \in Seq(Kinds), h # <<>>
  PROVE  /\ 1 \in 1 .. Len(h) /\ h[1] = Head(h)
         /\ \A i \in 1 .. Len(Tail(h)) : i + 1 \in 1 .. Len(h) /\ Tail(h)[i] = h[i + 1]
         /\ h = <<"renew">> => Tail(h) = <<>> /\ Head(h) = "renew"
<1>1. Len(h) \in Nat /\ Len(h) > 0 /\ Len(Tail(h)) = Len(h) - 1
  OBVIOUS
<1>2. 1 \in 1 .. Len(h) /\ h[1] = Head(h)
  BY <1>1
<1>3. \A i \in 1 .. Len(Tail(h)) : i + 1 \in 1 .. Len(h) /\ Tail(h)[i] = h[i + 1]
  BY <1>1
<1>4. h = <<"renew">> => Tail(h) = <<>> /\ Head(h) = "renew"
  OBVIOUS
<1> QED BY <1>2, <1>3, <1>4

\* The task before the last step of a generation is taken while nobody saves.
LEMMA NobodySavesWhenTaken ==
  ASSUME Going, NEW w \in Workers, TakeTaskUnfrozen(w), SavedAtEnd
  PROVE  \A t \in Detached : ~Alive(t)
<1> SUFFICES ASSUME NEW t \in Detached, Alive(t) PROVE FALSE
  OBVIOUS
<1>1. terms.prompt /\ ThreadInv
  BY DEF SavedAtEnd, Going, Regular
<1>2. ~frozen /\ ~GoesOn(t) /\ TakeTask(w)
  BY <1>1 DEF TakeTaskUnfrozen
<1>3. Quiet /\ heavy = <<>>
  BY <1>2 DEF Going, PromptInv
<1>4. light = 0
  BY <1>3 DEF Quiet
<1> QED BY <1>2, <1>3, <1>4 DEF TakeTask

LEMMA TakeTaskChain ==
  ASSUME Going, TypeInv', Others, Unstopped, NEW w \in Workers, TakeTaskUnfrozen(w)
  PROVE  ChainInv' /\ PromptInv'
<1>1. TypeInv /\ ChainInv /\ OneRenews /\ TakeTask(w)
  BY DEF Going, ChainInv, TakeTaskUnfrozen
<1>2. SavedAtEnd => \A t \in Detached : ~Alive(t)
  BY NobodySavesWhenTaken
<1>3. /\ \A t \in Detached : CallsBack(t)' => CallsBack(t)
      /\ SavedAtEnd => \A t \in Detached : ~Alive(t)'
  BY <1>2, OthersCall
<1>4. PromptInv'
  BY <1>3, NobodyPrompt
<1>5. /\ ending' = ending /\ finishing' = finishing /\ tests' = tests /\ controller' = controller
      /\ worker[w].at = "waiting"
  BY <1>1 DEF TakeTask, flagVars
<1>6. heavy \in Seq(Kinds)
  BY <1>1, TypeFacts
<1>7. ASSUME NEW at \in Places \ {"finishing", "renew", "replacing", "restarting"}, Moves(w, at, 0),
             ~Settled, \A i \in 1 .. Len(heavy') : heavy'[i] # "renew",
             ending = FALSE => /\ at \notin EndPlaces
                               /\ \A i \in 1 .. Len(heavy') : heavy'[i] = "generate"
      PROVE  ChainInv'
  <2>1. worker'[w].at = at /\ \A v \in Workers \ {w} : worker'[v] = worker[v]
    BY <1>7 DEF Moves
  <2>2. \A v \in Workers : worker'[v].at \notin {"renew", "replacing"} /\ (Renews(v)' => Renews(v))
    BY <1>7, <2>1 DEF Settled, Renews
  <2>3. \A v, u \in Workers : Renews(v)' /\ Renews(u)' => v = u
    BY <1>1, <2>2 DEF OneRenews
  <2>4. (\E v \in Workers : Renews(v)') => finishing' = TRUE
    BY <1>1, <1>5, <2>2 DEF ChainInv
  <2>5. \A t \in Detached : ~CallsBack(t)'
    BY <1>3, <1>7 DEF Settled
  <2>6. ASSUME ending' = FALSE
        PROVE  /\ \A i \in 1 .. Len(heavy') : heavy'[i] = "generate"
               /\ \A v \in Workers : worker'[v].at \notin EndPlaces
               /\ \A c \in Controllers : controller'[c].listed = FALSE
               /\ finishing' = TRUE => \E v \in Workers : worker'[v].at = "restarting"
    <3>1. /\ \A v \in Workers : worker[v].at \notin EndPlaces
          /\ \A c \in Controllers : controller[c].listed = FALSE
          /\ finishing = TRUE => \E v \in Workers : worker[v].at = "restarting"
      BY <1>1, <1>5, <2>6 DEF ChainInv
    <3>2. \A v \in Workers : worker'[v].at \notin EndPlaces
      BY <1>5, <1>7, <2>1, <2>6, <3>1
    <3>3. finishing' = TRUE => \E v \in Workers : worker'[v].at = "restarting"
      BY <1>5, <2>1, <3>1
    <3> QED BY <1>5, <1>7, <2>6, <3>1, <3>2, <3>3
  <2> QED BY <1>1, <1>7, <2>2, <2>3, <2>4, <2>5, <2>6, Unsettled
<1>8. CASE Moves(w, "test end", 0) /\ heavy' = heavy /\ light > 0
  <2>1. ~Settled
    <3>1. light # 0
      <4>1. light \in Nat
        BY <1>1, Typed
      <4>2. light > 0
        BY <1>8
      <4> QED BY <4>1, <4>2
    <3> QED BY <1>1, <3>1 DEF ChainInv, Quiet
  <2>2. "test end" \in Places \ {"finishing", "renew", "replacing", "restarting"}
        /\ "test end" \notin EndPlaces
    BY DEF Places, EndPlaces
  <2>3. \A i \in 1 .. Len(heavy') : heavy'[i] # "renew"
    BY <1>1, <1>8, <2>1 DEF OneRenews, Settled
  <2>4. ending = FALSE => \A i \in 1 .. Len(heavy') : heavy'[i] = "generate"
    BY <1>1, <1>8 DEF ChainInv
  <2>5. ChainInv'
    BY <1>7, <1>8, <2>1, <2>2, <2>3, <2>4
  <2> QED BY <1>4, <2>5
<1>9. CASE /\ Moves(w, Head(heavy), 0) /\ heavy # <<>> /\ heavy' = Tail(heavy) /\ light' = light
           /\ Head(heavy) # "renew"
  <2>1. /\ 1 \in 1 .. Len(heavy) /\ heavy[1] = Head(heavy) /\ heavy # <<"renew">>
        /\ \A i \in 1 .. Len(heavy') : i + 1 \in 1 .. Len(heavy) /\ heavy'[i] = heavy[i + 1]
    BY <1>6, <1>9, TailFacts
  <2>2. ~Settled
    BY <1>1, <1>9, <2>1 DEF ChainInv, Quiet, RenewQueued
  <2>3. Head(heavy) \in Places \ {"finishing", "renew", "replacing", "restarting"}
    <3>1. Head(heavy) \in Kinds
      BY <1>6, <1>9, TaskTaken
    <3> QED BY <1>9, <3>1 DEF Kinds, Places
  <2>4. \A i \in 1 .. Len(heavy') : heavy'[i] # "renew"
    BY <1>1, <2>1 DEF OneRenews, RenewQueued
  <2>5. ending = FALSE => /\ Head(heavy) \notin EndPlaces
                          /\ \A i \in 1 .. Len(heavy') : heavy'[i] = "generate"
    BY <1>1, <2>1 DEF ChainInv, EndPlaces
  <2>6. ChainInv'
    BY <1>7, <1>9, <2>2, <2>3, <2>4, <2>5
  <2> QED BY <1>4, <2>6
<1>10. CASE /\ Moves(w, Head(heavy), 0) /\ heavy # <<>> /\ heavy' = Tail(heavy) /\ light' = light
            /\ Head(heavy) = "renew"
  <2>1. 1 \in 1 .. Len(heavy) /\ heavy[1] = "renew"
    BY <1>6, <1>10, TailFacts
  <2>2. heavy = <<"renew">>
    BY <1>1, <2>1 DEF OneRenews, RenewQueued
  <2>3. heavy' = <<>>
    BY <1>6, <1>10, <2>2, TailFacts
  <2>4. worker'[w].at = "renew" /\ \A v \in Workers \ {w} : worker'[v] = worker[v]
    BY <1>10 DEF Moves
  <2>5. Quiet /\ finishing = TRUE /\ (\A v \in Workers : ~Renews(v)) /\ \A t \in Detached : ~CallsBack(t)
    BY <1>1, <2>2 DEF ChainInv, Settled, OneRenews, RenewQueued
  <2>6. ~RenewQueued' /\ \A i \in 1 .. Len(heavy') : heavy'[i] # "renew"
    BY <2>3 DEF RenewQueued
  <2>7. \A v \in Workers : Renews(v)' => v = w
    BY <2>4, <2>5 DEF Renews
  <2>8. \A t \in Detached : ~CallsBack(t)'
    BY <1>3, <2>5
  <2>9. OneRenews'
    BY <2>6, <2>7, <2>8 DEF OneRenews
  <2>10. Quiet'
    BY <1>5, <1>10, <2>3, <2>4, <2>5 DEF Quiet, Active
  <2>11. finishing' = TRUE /\ ending' # FALSE
    BY <1>5, <2>5 DEF Quiet
  <2>12. ChainInv'
    BY <2>9, <2>10, <2>11 DEF ChainInv
  <2> QED BY <1>4, <2>12
<1>11. \/ Moves(w, "test end", 0) /\ heavy' = heavy /\ light > 0
       \/ Moves(w, Head(heavy), 0) /\ heavy # <<>> /\ heavy' = Tail(heavy) /\ light' = light
  BY <1>1, TakeTaskTypes
<1> QED BY <1>8, <1>9, <1>10, <1>11

\* What is waited for by a thread that goes on with the end of a generation.
LEMMA NothingElse ==
  ASSUME Going, NEW w \in Workers, Alone(w)
  PROVE  /\ tests = 0 /\ light = 0 /\ heavy = <<>>
         /\ \A v \in Workers \ {w} : worker[v].at = "waiting"
BY DEF Alone, Idle

LEMMA SaveChain ==
  ASSUME Going, TypeInv', NEW w \in Workers, SaveOrEnd(w)
  PROVE  ChainInv' /\ PromptInv'
<1>1. TypeInv /\ ThreadInv /\ ChainInv /\ OneRenews
  BY DEF Going, ChainInv
<1>2. /\ Unstopped
      /\ worker[w].at = "finishing" /\ Alone(w) /\ Ends(w)
      /\ \A c \in Controllers : ~Active(c)
      /\ UNCHANGED <<flagVars, tests, light, controller>>
      /\ \/ Others /\ heavy' = heavy \o <<"renew">> /\ ~params.saves
         \/ /\ heavy' = heavy \/ heavy' = heavy \o <<>>
            /\ \E s \in Detached :
                 /\ thread'[s] = thread[s] \/ Begins(thread[s], s, TRUE)
                 /\ \A t \in Detached \ {s} :
                      thread'[t] = thread[t] \/ Begins(thread[t], t, FALSE)
  BY <1>1, SaveEffect
<1>3. /\ tests' = 0 /\ light' = 0 /\ heavy = <<>>
      /\ \A v \in Workers \ {w} : worker[v].at = "waiting"
  BY <1>2, NothingElse
<1>4. Moves(w, "waiting", 0)
  BY <1>1, <1>2, EndsMoves
<1>5. AllWait'
  BY <1>3, <1>4 DEF Moves, AllWait
<1>6. ending' = TRUE /\ ending' # FALSE
  <2>1. ending = TRUE
    BY <1>2, EndsOnlyEnding DEF EndPlaces
  <2> QED BY <1>2, <2>1 DEF flagVars
<1>7. Renews(w)
  BY <1>2 DEF Renews
<1>8. finishing' = TRUE
  BY <1>1, <1>2, <1>7 DEF flagVars, ChainInv
<1>9. \A t \in Detached : ~CallsBack(t)
  BY <1>1, <1>7 DEF OneRenews
<1>10. SavedAtEnd => \A t \in Detached : ~Alive(t)
  BY <1>2, NobodySaves
<1>11. \A c \in Controllers : ~Active(c)'
  BY <1>2 DEF Active
<1>12. \A v \in Workers : ~Renews(v)'
  BY <1>5 DEF AllWait, Renews
<1>13. heavy' = <<>> \/ RenewQueued' => Quiet'
  BY <1>3, <1>5, <1>6, <1>11 DEF Quiet, AllWait
<1>14. CASE Others /\ heavy' = heavy \o <<"renew">> /\ ~params.saves
  <2>1. RenewQueued' /\ heavy' = <<"renew">>
    BY <1>3, <1>14 DEF RenewQueued
  <2>2. /\ \A t \in Detached : CallsBack(t)' => CallsBack(t)
        /\ SavedAtEnd => \A t \in Detached : ~Alive(t)'
    BY <1>2, <1>10, <1>14, OthersCall
  <2>3. OneRenews'
    BY <1>9, <1>12, <2>1, <2>2 DEF OneRenews
  <2>4. ChainInv'
    BY <1>6, <1>8, <1>13, <2>1, <2>3 DEF ChainInv
  <2>5. PromptInv'
    BY <1>2, <2>2, NobodyPrompt
  <2> QED BY <2>4, <2>5
<1>15. CASE /\ heavy' = heavy \/ heavy' = heavy \o <<>>
            /\ \E s \in Detached :
                 /\ thread'[s] = thread[s] \/ Begins(thread[s], s, TRUE)
                 /\ \A t \in Detached \ {s} :
                      thread'[t] = thread[t] \/ Begins(thread[t], t, FALSE)
  <2>1. PICK s \in Detached :
          /\ thread'[s] = thread[s] \/ Begins(thread[s], s, TRUE)
          /\ \A t \in Detached \ {s} : thread'[t] = thread[t] \/ Begins(thread[t], t, FALSE)
    BY <1>15
  <2>2. heavy' = <<>> /\ ~RenewQueued' /\ \A i \in 1 .. Len(heavy') : heavy'[i] # "renew"
    BY <1>3, <1>15 DEF RenewQueued
  <2>3. SavedAtEnd' <=> SavedAtEnd
    BY <1>2, SameEnding
  <2>4. \A t \in Detached \ {s} : thread'[t].ended = TRUE => thread'[t] = thread[t]
    BY <2>1 DEF Begins
  <2>5. \A t \in Detached : CallsBack(t)' => t = s
    BY <1>9, <1>10, <2>3, <2>4 DEF CallsBack, Alive, SavePlaces
  <2>6. OneRenews'
    BY <1>12, <2>2, <2>5 DEF OneRenews
  <2>7. Quiet'
    BY <1>13, <2>2
  <2>8. ChainInv'
    BY <1>6, <1>8, <2>6, <2>7 DEF ChainInv
  <2>9. ASSUME SavedAtEnd
        PROVE  \A t \in Detached : Alive(t)' => t = s /\ thread'[t].ended = TRUE
                                                /\ thread'[t].at # "check"
    <3>1. terms.ends = "generations" /\ ~terms.autosaves
      BY <2>9 DEF SavedAtEnd, Going, Regular
    <3>2. \A t \in Detached : thread[t].at = "none" /\ ~Begins(thread[t], t, FALSE)
      BY <1>10, <2>9, <3>1 DEF Begins, Alive
    <3>3. \A t \in Detached \ {s} : thread'[t].at = "none"
      BY <2>1, <3>2
    <3>4. thread'[s].at = "none" \/ Begins(thread[s], s, TRUE)
      BY <2>1, <3>2
    <3> QED BY <3>3, <3>4 DEF Begins, Alive
  <2>10. PromptInv'
    BY <1>5, <2>2, <2>3, <2>7, <2>9 DEF PromptInv
  <2> QED BY <2>8, <2>10
<1> QED BY <1>2, <1>14, <1>15

LEMMA WaitForRestChain ==
  ASSUME Going, TypeInv', Others, Unstopped, NEW w \in Workers, WaitForRest(w)
  PROVE  ChainInv' /\ PromptInv'
<1>1. TypeInv /\ ChainInv /\ OneRenews
  BY DEF Going, ChainInv
<1>2. /\ worker[w].at = "renew" /\ UNCHANGED <<flagVars, tests, poolVars, controller>>
  BY DEF WaitForRest
<1>3. Moves(w, "replacing", 0)
  BY <1>1, WaitForRestTypes
<1>4. SavedAtEnd => \A t \in Detached : ~Alive(t)
  BY <1>2, NobodySaves
<1>5. /\ \A t \in Detached : CallsBack(t)' => CallsBack(t)
      /\ SavedAtEnd => \A t \in Detached : ~Alive(t)'
  BY <1>4, OthersCall
<1>6. PromptInv'
  BY <1>5, NobodyPrompt
<1>7. worker'[w].at = "replacing" /\ \A v \in Workers \ {w} : worker'[v] = worker[v]
  BY <1>3 DEF Moves
<1>8. ending' = ending /\ finishing' = finishing /\ heavy' = heavy /\ light' = light
      /\ tests' = tests /\ controller' = controller
  BY <1>2 DEF flagVars, poolVars
<1>9. Renews(w) /\ Settled /\ Quiet /\ finishing = TRUE
  BY <1>1, <1>2 DEF Renews, Settled, ChainInv
<1>10. \A v \in Workers : Renews(v)' => Renews(v)
  BY <1>7, <1>9 DEF Renews
<1>11. RenewQueued' <=> RenewQueued
  BY <1>8 DEF RenewQueued
<1>12. OneRenews'
  BY <1>1, <1>5, <1>8, <1>10, <1>11 DEF OneRenews
<1>13. Quiet'
  BY <1>7, <1>8, <1>9, <1>11 DEF Quiet, Active
<1>14. ChainInv'
  BY <1>8, <1>9, <1>12, <1>13 DEF ChainInv, Quiet
<1> QED BY <1>6, <1>14

LEMMA NewGenerationChain ==
  ASSUME Going, TypeInv', Unstopped, thread' = thread, skipping' = skipping,
         NEW w \in Workers, SetNewGeneration(w)
  PROVE  ChainInv' /\ PromptInv'
<1>1. TypeInv /\ ChainInv /\ OneRenews
  BY DEF Going, ChainInv
<1>2. /\ worker[w].at = "replacing" /\ finishing' = finishing /\ heavy' = heavy
      /\ controller' = [c \in Controllers |-> NoController]
  BY DEF SetNewGeneration, poolVars
<1>3. Moves(w, "restarting", 0)
  BY <1>1, NewGenerationTypes
<1>4. SavedAtEnd => \A t \in Detached : ~Alive(t)
  BY <1>2, NobodySaves
<1>5. Others
  BY DEF Others
<1>6. /\ \A t \in Detached : CallsBack(t)' => CallsBack(t)
      /\ SavedAtEnd => \A t \in Detached : ~Alive(t)'
  BY <1>4, <1>5, OthersCall
<1>7. PromptInv'
  BY <1>6, NobodyPrompt
<1>8. worker'[w].at = "restarting" /\ \A v \in Workers \ {w} : worker'[v] = worker[v]
  BY <1>3 DEF Moves
<1>9. Renews(w) /\ Settled /\ Quiet /\ finishing = TRUE
  BY <1>1, <1>2 DEF Renews, Settled, ChainInv
<1>10. (\A v \in Workers : Renews(v) => v = w) /\ (\A t \in Detached : ~CallsBack(t)) /\ ~RenewQueued
  BY <1>1, <1>9 DEF OneRenews
<1>11. heavy' = <<>> /\ ~RenewQueued' /\ \A i \in 1 .. Len(heavy') : heavy'[i] # "renew"
  BY <1>2, <1>9, <1>10 DEF Quiet, RenewQueued
<1>12. \A v \in Workers \ {w} : worker'[v].at = "waiting"
  BY <1>8, <1>9, <1>10 DEF Quiet, Renews
<1>13. \A v \in Workers : Renews(v)' => v = w
  BY <1>12 DEF Renews
<1>14. OneRenews' /\ ~Settled'
  BY <1>6, <1>8, <1>10, <1>11, <1>12, <1>13 DEF OneRenews, Settled
<1>15. \A v \in Workers : worker'[v].at \notin EndPlaces
  BY <1>8, <1>12 DEF EndPlaces
<1>16. \A c \in Controllers : controller'[c].listed = FALSE
  BY <1>2 DEF NoController
<1>17. \A i \in 1 .. Len(heavy') : heavy'[i] = "generate"
  BY <1>11
<1>18. ChainInv'
  BY <1>2, <1>8, <1>9, <1>14, <1>15, <1>16, <1>17 DEF ChainInv
<1> QED BY <1>7, <1>18

LEMMA RestartChain ==
  ASSUME Going, TypeInv', Others, Unstopped, NEW w \in Workers, Restart(w)
  PROVE  ChainInv' /\ PromptInv'
<1>1. TypeInv /\ ChainInv /\ OneRenews
  BY DEF Going, ChainInv
<1>2. /\ worker[w].at = "restarting" /\ finishing' = FALSE /\ ending' = ending
      /\ controller' = controller
      /\ heavy' = heavy \/ heavy' = heavy \o <<>> \/ heavy' = heavy \o <<"generate">>
  BY DEF Restart, GenerateTests, AddTasks
<1>3. Moves(w, "waiting", 0)
  BY <1>1, RestartTypes
<1>4. SavedAtEnd => \A t \in Detached : ~Alive(t)
  BY <1>2, NobodySaves
<1>5. /\ \A t \in Detached : CallsBack(t)' => CallsBack(t)
      /\ SavedAtEnd => \A t \in Detached : ~Alive(t)'
  BY <1>4, OthersCall
<1>6. PromptInv'
  BY <1>5, NobodyPrompt
<1>7. worker'[w].at = "waiting" /\ \A v \in Workers \ {w} : worker'[v] = worker[v]
  BY <1>3 DEF Moves
<1>8. ~Settled
  BY <1>1, <1>2 DEF ChainInv, Quiet
<1>9. \A v \in Workers : Renews(v) => v = w
  BY <1>1, <1>2 DEF OneRenews, Renews
<1>10. \A v \in Workers : ~Renews(v)'
  BY <1>7, <1>9 DEF Renews
<1>11. heavy \in Seq(Kinds) /\ "generate" \in Kinds
  BY <1>1, TypeFacts DEF Kinds
<1>12. \A i \in 1 .. Len(heavy') :
         (i \in 1 .. Len(heavy) /\ heavy'[i] = heavy[i]) \/ (heavy' # heavy /\ heavy'[i] = "generate")
  BY <1>2, <1>11, Appended
<1>13. \A i \in 1 .. Len(heavy') : heavy'[i] # "renew"
  BY <1>1, <1>8, <1>12 DEF OneRenews, Settled
<1>14. \A v \in Workers : worker'[v].at \notin {"renew", "replacing"}
  BY <1>10 DEF Renews
<1>15. \A t \in Detached : ~CallsBack(t)'
  BY <1>5, <1>8 DEF Settled
<1>16. ending' = FALSE =>
         /\ \A i \in 1 .. Len(heavy') : heavy'[i] = "generate"
         /\ \A v \in Workers : worker'[v].at \notin EndPlaces
         /\ \A c \in Controllers : controller'[c].listed = FALSE
  BY <1>1, <1>2, <1>7, <1>12 DEF ChainInv, EndPlaces
<1>17. finishing' # TRUE
  BY <1>2
<1>18. ChainInv'
  BY <1>1, <1>8, <1>10, <1>13, <1>14, <1>15, <1>16, <1>17, Unsettled
<1> QED BY <1>6, <1>18

\* Every step of a thread of the pool.
LEMMA PoolChain ==
  ASSUME Going, TypeInv', NEW w \in Workers, PoolThread(w)
  PROVE  ThreadInv' /\ Unstopped /\ ChainInv' /\ PromptInv'
<1>1. ThreadInv
  BY DEF Going
<1>2. CASE TakeTaskUnfrozen(w)
  BY <1>1, <1>2, TasksOthers, TakeTaskChain
<1>3. CASE ReserveUnlessBlocked(w) \/ Refuse(w)
  <2>1. Reserve(w) \/ Refuse(w)
    BY <1>3 DEF ReserveUnlessBlocked
  <2> QED BY <1>1, <1>3, <2>1, TasksOthers, ReserveChain
<1>4. CASE RequestInputsAndCheck(w)
  <2>1. RequestInputs(w)
    BY <1>4 DEF RequestInputsAndCheck
  <2> QED BY <1>1, <1>4, <2>1, RequestOthers, RequestChain
<1>5. CASE EndGeneratingAndCheck(w)
  BY <1>1, <1>5, MakerOthers, EndGeneratingChain
<1>6. CASE SaveOrEnd(w)
  BY <1>1, <1>6, SaveEffect, SaveChain
<1>7. CASE SetNextGeneration(w)
  <2>1. SetNewGeneration(w)
    BY <1>7 DEF SetNextGeneration
  <2> QED BY <1>1, <1>7, <2>1, NewGenerationOthers, NewGenerationChain
<1>8. CASE Proceed(w) /\ UNCHANGED sessionVars
  <2>1. ThreadInv' /\ Others /\ Unstopped
    BY <1>1, <1>8, ProceedOthers
  <2>2. CASE MakeInput(w) \/ GiveUp(w) \/ NoRandomSource(w) \/ TestEnd(w) \/ RepeatTest(w)
    BY <2>1, <2>2, MakeInputChain, NoSourceChain, TestEndChain, RepeatTestChain
  <2>3. CASE \/ EndGeneration(w) \/ EndSelection(w) \/ FinishGeneration(w)
             \/ WaitForControllers(w) \/ WaitForRest(w) \/ Restart(w)
    BY <2>1, <2>3, EndGenerationChain, EndSelectionChain, FinishChain, WaitForControllersChain,
       WaitForRestChain, RestartChain
  <2>4. CASE \E c \in Controllers :
               StartScoreOptimization(w, c) \/ LookAtController(w, c) \/ AttachCallback(w, c)
    BY <2>1, <2>4, SelectionChain
  <2> QED BY <1>8, <2>1, <2>2, <2>3, <2>4 DEF Proceed
<1> QED BY <1>2, <1>3, <1>4, <1>5, <1>6, <1>7, <1>8 DEF PoolThread

-----------------------------------------------------------------------------
(* Tests, delta controllers and the watchdog.                              *)

LEMMA NobodySavesWhileBusy ==
  ASSUME Going, SavedAtEnd, tests # 0 \/ \E c \in Controllers : Active(c)
  PROVE  \A t \in Detached : ~Alive(t)
BY DEF Going, PromptInv, Quiet

LEMMA UnsettledWhileBusy ==
  ASSUME Going, tests # 0 \/ \E c \in Controllers : Active(c)
  PROVE  ~Settled
BY DEF Going, ChainInv, Quiet

LEMMA BusyChain ==
  ASSUME Going, TypeInv', params' = params, UNCHANGED sessionVars,
         tests # 0 \/ \E c \in Controllers : Active(c),
         worker' = worker, finishing' = finishing, ending' = ending,
         heavy' = heavy \/ heavy' = heavy \o <<>> \/ heavy' = heavy \o <<"finish">>,
         ending = FALSE =>
           /\ heavy' = heavy \/ heavy' = heavy \o <<>>
           /\ \A c \in Controllers : controller'[c].listed = controller[c].listed
  PROVE  ThreadInv' /\ Unstopped /\ ChainInv' /\ PromptInv'
<1>1. ThreadInv' /\ Others /\ Unstopped
  BY UnchangedOthers DEF Going
<1>2. TypeInv /\ ChainInv /\ OneRenews
  BY DEF Going, ChainInv
<1>3. ~Settled /\ (SavedAtEnd => \A t \in Detached : ~Alive(t))
  BY NobodySavesWhileBusy, UnsettledWhileBusy
<1>4. /\ \A t \in Detached : CallsBack(t)' => CallsBack(t)
      /\ SavedAtEnd => \A t \in Detached : ~Alive(t)'
  BY <1>1, <1>3, OthersCall
<1>5. PromptInv'
  BY <1>1, <1>4, NobodyPrompt
<1>6. heavy \in Seq(Kinds) /\ "finish" \in Kinds
  BY <1>2, TypeFacts DEF Kinds
<1>7. \A i \in 1 .. Len(heavy') :
        (i \in 1 .. Len(heavy) /\ heavy'[i] = heavy[i]) \/ (heavy' # heavy /\ heavy'[i] = "finish")
  BY <1>6, Appended
<1>8. \A i \in 1 .. Len(heavy') : heavy'[i] # "renew"
  BY <1>2, <1>3, <1>7 DEF OneRenews, Settled
<1>9. \A v \in Workers : worker'[v].at \notin {"renew", "replacing"} /\ (Renews(v)' <=> Renews(v))
  BY <1>3 DEF Settled, Renews
<1>10. \A v, u \in Workers : Renews(v)' /\ Renews(u)' => v = u
  BY <1>2, <1>9 DEF OneRenews
<1>11. (\E v \in Workers : Renews(v)') => finishing' = TRUE
  BY <1>2, <1>9 DEF ChainInv
<1>12. \A t \in Detached : ~CallsBack(t)'
  BY <1>3, <1>4 DEF Settled
<1>13. ASSUME ending' = FALSE
       PROVE  /\ \A i \in 1 .. Len(heavy') : heavy'[i] = "generate"
              /\ \A v \in Workers : worker'[v].at \notin EndPlaces
              /\ \A c \in Controllers : controller'[c].listed = FALSE
              /\ finishing' = TRUE => \E v \in Workers : worker'[v].at = "restarting"
  <2>1. heavy' = heavy /\ \A c \in Controllers : controller'[c].listed = controller[c].listed
    BY <1>6, <1>13, NoMoreTask
  <2> QED BY <1>2, <1>13, <2>1 DEF ChainInv
<1>14. ChainInv'
  BY <1>2, <1>3, <1>8, <1>9, <1>10, <1>11, <1>12, <1>13, Unsettled
<1> QED BY <1>1, <1>5, <1>14

LEMMA HandlerChain ==
  ASSUME Going, TypeInv', HandlerStep
  PROVE  ThreadInv' /\ Unstopped /\ ChainInv' /\ PromptInv'
<1>1. /\ UNCHANGED sessionVars /\ UNCHANGED <<params, flagVars, heavy, worker, controller>>
      /\ tests > 0
  BY DEF HandlerStep, ExecuteTests, StopTest, FailTest
<1>2. tests # 0
  <2>1. tests \in Nat
    BY Typed DEF Going
  <2> QED BY <1>1, <2>1
<1>3. params' = params /\ worker' = worker /\ finishing' = finishing /\ ending' = ending
      /\ heavy' = heavy /\ controller' = controller
  BY <1>1 DEF flagVars
<1> QED BY <1>1, <1>2, <1>3, BusyChain

LEMMA DeltaChain ==
  ASSUME Going, TypeInv', NEW c \in Controllers, DeltaStep(c)
  PROVE  ThreadInv' /\ Unstopped /\ ChainInv' /\ PromptInv'
<1>1. /\ UNCHANGED sessionVars /\ UNCHANGED <<params, flagVars, worker>>
      /\ Busy(c)
      /\ \E s \in {"finished", "hung"} : controller' = [controller EXCEPT ![c].state = s]
      /\ \/ heavy' = heavy
         \/ heavy' = heavy \o IF controller[c].listed THEN <<"finish">> ELSE <<>>
  BY DEF DeltaStep, DeltaDebugging, EndDeltaDebugging, HangDeltaDebugging, AddTasks, poolVars
<1>2. \E d \in Controllers : Active(d)
  BY <1>1 DEF Busy, Active
<1>3. params' = params /\ worker' = worker /\ finishing' = finishing /\ ending' = ending
  BY <1>1 DEF flagVars
<1>4. heavy' = heavy \/ heavy' = heavy \o <<>> \/ heavy' = heavy \o <<"finish">>
  BY <1>1
<1>5. \A d \in Controllers : controller'[d].listed = controller[d].listed
  <2>1. controller \in [Controllers -> DeltaStates]
    BY Typed DEF Going
  <2> QED BY <1>1, <2>1 DEF DeltaStates
<1>6. ending = FALSE => heavy' = heavy \/ heavy' = heavy \o <<>>
  <2>1. ending = FALSE => controller[c].listed = FALSE
    BY DEF Going, ChainInv
  <2> QED BY <1>1, <2>1
<1> QED BY <1>1, <1>2, <1>3, <1>4, <1>5, <1>6, BusyChain

\* Nothing changes when the watchdog looks while the end of a generation goes on
\* after a save.
LEMMA LookAtQuiet ==
  ASSUME Going, Quiet, SessionControl(FALSE)
  PROVE  /\ worker' = worker /\ ending' = ending /\ finishing' = finishing
         /\ tests' = tests /\ light' = light /\ heavy' = heavy
         /\ \A c \in Controllers : Active(c)' = Active(c) /\ controller'[c].listed = controller[c].listed
<1>1. /\ worker' = worker /\ tests' = tests /\ light' = light
      /\ ending' = Push.ending /\ heavy' = heavy \o (Push.task \o <<>>)
      /\ finishing' = (finishing /\ ~FALSE)
      /\ controller' = [c \in Controllers |-> Awake(c)]
  BY DEF SessionControl, Look, AddTasks
<1>2. TypeInv /\ ending = TRUE
  BY DEF Going, Quiet
<1>3. Push.ending = TRUE /\ Push.task = <<>>
  BY <1>2 DEF Push
<1>4. heavy' = heavy
  <2>1. heavy \in Seq(Kinds)
    BY <1>2, TypeFacts
  <2>2. <<>> \o <<>> = <<>>
    OBVIOUS
  <2> QED BY <1>1, <1>3, <2>1, <2>2, NoMoreTask
<1>5. finishing' = finishing /\ ending' = ending
  BY <1>1, <1>2, <1>3, Typed
<1>6. \A c \in Controllers : controller'[c] = controller[c]
  BY <1>1 DEF Awake, Quiet, Active
<1> QED BY <1>1, <1>4, <1>5, <1>6 DEF Active

\* Nothing of the chain or of the saves has changed.
LEMMA SameChain ==
  ASSUME Going, params' = params, UNCHANGED sessionVars,
         worker' = worker, ending' = ending, finishing' = finishing,
         tests' = tests, light' = light, heavy' = heavy,
         \A c \in Controllers : /\ Active(c)' = Active(c)
                                /\ controller'[c].listed = controller[c].listed
  PROVE  ChainInv' /\ PromptInv'
<1>1. TypeInv /\ ChainInv /\ PromptInv
  BY DEF Going
<1>2. terms' = terms /\ thread' = thread /\ skipping' = skipping /\ frozen' = frozen
  BY DEF sessionVars, checkVars, freezeVars
<1>3. SavedAtEnd' <=> SavedAtEnd
  BY <1>2 DEF SavedAtEnd
<1>4. \A t \in Detached : CallsBack(t)' => CallsBack(t)
  BY <1>2, <1>3 DEF CallsBack
<1>5. ChainInv' /\ (Quiet => Quiet')
  BY <1>1, <1>4, Fewer
<1>6. \A t \in Detached : (Alive(t)' <=> Alive(t)) /\ (GoesOn(t)' <=> GoesOn(t))
  BY <1>2 DEF Alive, GoesOn
<1>7. PromptInv'
  BY <1>1, <1>2, <1>3, <1>5, <1>6 DEF PromptInv, AllWait
<1> QED BY <1>5, <1>7

LEMMA LookAtWork ==
  ASSUME Going, TypeInv', NEW late \in BOOLEAN, SessionControl(late), ~Quiet \/ late = TRUE
  PROVE  ThreadInv' /\ Unstopped /\ ChainInv' /\ PromptInv'
<1>1. /\ heavy = <<>>
      /\ late => finishing /\ \A w \in Workers : worker[w].at = "waiting"
      /\ late /\ ~params.slowSave => \A t \in Detached : thread[t].at = "none"
      /\ ending' = Push.ending /\ finishing' = (finishing /\ ~late)
      /\ controller' = [c \in Controllers |-> Awake(c)]
      /\ worker' = worker /\ params' = params
      /\ UNCHANGED sessionVars /\ Look(late)
  BY DEF SessionControl, Look, Idle
<1>2. ThreadInv' /\ Others /\ Unstopped
  BY <1>1, UnchangedOthers DEF Going
<1>3. TypeInv /\ ChainInv /\ OneRenews /\ ending \in BOOLEAN /\ finishing \in BOOLEAN
  BY Typed DEF Going, ChainInv
<1>4. ~Settled /\ (SavedAtEnd => \A t \in Detached : ~Alive(t))
  <2>1. CASE late = TRUE
    <3>1. \A t \in Detached : thread[t].at = "none"
      BY <1>1, <2>1 DEF Going, Regular
    <3>2. ~RenewQueued
      BY <1>1 DEF RenewQueued
    <3>3. ~Settled
      BY <1>1, <2>1, <3>1, <3>2 DEF Settled, CallsBack, SavePlaces
    <3> QED BY <3>1, <3>3 DEF Alive
  <2>2. CASE ~Quiet
    BY <2>2 DEF Going, ChainInv, PromptInv
  <2> QED BY <2>1, <2>2
<1>5. /\ \A t \in Detached : CallsBack(t)' => CallsBack(t)
      /\ SavedAtEnd => \A t \in Detached : ~Alive(t)'
  BY <1>2, <1>4, OthersCall
<1>6. PromptInv'
  BY <1>2, <1>5, NobodyPrompt
<1>7. PICK n \in {0, 1}, first \in {<<>>, <<"end">>, <<"generate">>} :
        /\ heavy' = first \o IF late THEN <<"finish">> ELSE <<>>
        /\ first \in Seq(Kinds)
        /\ first = <<"end">> => ending' = TRUE
  BY <1>1, <1>3, Pushed
<1>8. \A i \in 1 .. Len(first) : first[i] \in {"end", "generate"}
                                  /\ (ending' = FALSE => first[i] = "generate")
  <2>1. CASE first = <<>>
    BY <2>1
  <2>2. CASE first = <<"end">>
    BY <1>7, <2>2
  <2>3. CASE first = <<"generate">>
    BY <2>3
  <2> QED BY <1>7, <2>1, <2>2, <2>3
<1>9. \A i \in 1 .. Len(heavy') :
         (i \in 1 .. Len(first) /\ heavy'[i] = first[i]) \/ (heavy' # first /\ heavy'[i] = "finish")
  <2>1. "finish" \in Kinds
    BY DEF Kinds
  <2>2. heavy' = first \o <<>> \/ heavy' = first \o <<"finish">>
    BY <1>7
  <2> QED BY <1>7, <2>1, <2>2, Appended
<1>10. \A i \in 1 .. Len(heavy') : heavy'[i] # "renew"
  BY <1>8, <1>9
<1>11. \A v \in Workers : worker'[v].at \notin {"renew", "replacing"} /\ (Renews(v)' <=> Renews(v))
  BY <1>1, <1>4 DEF Settled, Renews
<1>12. \A v, u \in Workers : Renews(v)' /\ Renews(u)' => v = u
  BY <1>3, <1>11 DEF OneRenews
<1>13. (\E v \in Workers : Renews(v)') => finishing' = TRUE
  <2>1. (\E v \in Workers : Renews(v)') => ~late
    BY <1>1, <1>11 DEF Renews
  <2> QED BY <1>1, <1>3, <1>11, <2>1 DEF ChainInv
<1>14. \A t \in Detached : ~CallsBack(t)'
  BY <1>4, <1>5 DEF Settled
<1>15. ASSUME ending' = FALSE
       PROVE  /\ \A i \in 1 .. Len(heavy') : heavy'[i] = "generate"
              /\ \A v \in Workers : worker'[v].at \notin EndPlaces
              /\ \A c \in Controllers : controller'[c].listed = FALSE
              /\ finishing' = TRUE => \E v \in Workers : worker'[v].at = "restarting"
  <2>1. ending = FALSE
    BY <1>1, <1>3, <1>15 DEF Push
  <2>2. /\ \A v \in Workers : worker[v].at \notin EndPlaces
        /\ \A c \in Controllers : controller[c].listed = FALSE
        /\ finishing = TRUE => \E v \in Workers : worker[v].at = "restarting"
    BY <1>3, <2>1 DEF ChainInv
  <2>3. ~late
    BY <1>1, <1>3, <2>2
  <2>4. heavy' = first
    BY <1>7, <2>3, NoMoreTask
  <2>5. \A c \in Controllers : controller'[c].listed = FALSE
    <3>1. controller \in [Controllers -> DeltaStates]
      BY <1>3, Typed
    <3> QED BY <1>1, <2>2, <3>1 DEF Awake, DeltaStates
  <2> QED BY <1>1, <1>3, <1>8, <1>15, <2>2, <2>4, <2>5
<1>16. ChainInv'
  BY <1>3, <1>4, <1>10, <1>11, <1>12, <1>13, <1>14, <1>15, Unsettled
<1> QED BY <1>2, <1>6, <1>16

LEMMA LookAroundChain ==
  ASSUME Going, TypeInv', NEW late \in BOOLEAN, SessionControl(late)
  PROVE  ThreadInv' /\ Unstopped /\ ChainInv' /\ PromptInv'
<1>1. CASE ~Quiet \/ late = TRUE
  BY <1>1, LookAtWork
<1>2. CASE Quiet /\ SessionControl(FALSE)
  <2>1. params' = params /\ UNCHANGED sessionVars
    BY <1>2 DEF SessionControl, Look
  <2>2. ChainInv' /\ PromptInv'
    BY <1>2, <2>1, LookAtQuiet, SameChain
  <2>3. ThreadInv' /\ Unstopped
    BY <2>1, UnchangedOthers DEF Going
  <2> QED BY <2>2, <2>3
<1> QED BY <1>1, <1>2

-----------------------------------------------------------------------------
(* The detached threads: saving.                                           *)

\* One that may be saving the last generation is alone.
LEMMA PromptMoves ==
  ASSUME Going, terms' = terms, params' = params, NEW t \in Detached, Alive(t), worker' = worker,
         \A u \in Detached \ {t} : thread'[u] = thread[u],
         Quiet => Quiet', SavedAtEnd /\ thread[t].ended = TRUE /\ Alive(t)' =>
           /\ thread'[t].ended = TRUE
           /\ thread'[t].at = "check" => skipping' = TRUE
           /\ \/ heavy' = <<>>
              \/ GoesOn(t)'
              \/ thread'[t].at \in {"stopping", "clearing"} /\ frozen' = TRUE
  PROVE  PromptInv'
<1>1. SavedAtEnd' <=> SavedAtEnd
  BY DEF SavedAtEnd
<1> SUFFICES ASSUME SavedAtEnd
             PROVE  /\ \A u, v \in Detached : Alive(u)' /\ Alive(v)' => u = v
                    /\ \A u \in Detached : Alive(u)' =>
                         /\ Quiet' /\ AllWait'
                         /\ thread'[u].ended = TRUE
                         /\ thread'[u].at = "check" => skipping' = TRUE
                         /\ \/ heavy' = <<>>
                            \/ GoesOn(u)'
                            \/ thread'[u].at \in {"stopping", "clearing"} /\ frozen' = TRUE
  BY <1>1 DEF PromptInv
<1>2. /\ \A u \in Detached : Alive(u) => u = t
      /\ Quiet /\ AllWait /\ thread[t].ended = TRUE
  BY DEF Going, PromptInv
<1>3. \A u \in Detached : Alive(u)' => u = t
  BY <1>2 DEF Alive
<1>4. AllWait'
  BY <1>2 DEF AllWait
<1> QED BY <1>2, <1>3, <1>4

\* A save goes on, and leaves the rest alone.
LEMMA SavePlaceStep ==
  ASSUME Going, NEW t \in Detached, thread[t].at \in SavePlaces,
         NEW at \in SavePlaces \cup {"stop", "saved"}, t = Ender => at # "saved",
         t \in Savers => at # "stop", Continues(t, at),
         terms' = terms, params' = params, memory' = memory, skipping' = skipping,
         worker' = worker, ending' = ending, finishing' = finishing, tests' = tests,
         light' = light, heavy' = heavy, controller' = controller
  PROVE  ThreadInv' /\ ChainInv' /\ PromptInv'
<1>1. TypeInv /\ ThreadInv /\ ChainInv /\ PromptInv /\ thread \in [Detached -> Jobs]
  BY DEF Going, ThreadInv
<1>2. /\ thread' \in [Detached -> Jobs]
      /\ thread'[t].at = at /\ thread'[t].ended = thread[t].ended
      /\ \A u \in Detached \ {t} : thread'[u] = thread[u]
  <2>1. at \in SavePlaces \cup {"none", "saved", "check", "end", "stop", "stopping", "clearing"}
    OBVIOUS
  <2> QED BY <1>1, <2>1, JobContinued
<1>3. ThreadInv'
  <2>1. \A u \in Savers : thread[u].at \in SavePlaces \cup {"none", "saved", "check"}
    BY <1>1 DEF ThreadInv
  <2>2. thread[Ender].at \in SavePlaces \cup {"none", "end", "stop", "stopping", "clearing"}
    BY <1>1 DEF ThreadInv
  <2>3. \A u \in Savers : thread'[u].at \in SavePlaces \cup {"none", "saved", "check"}
    BY <1>2, <2>1, Detaches
  <2>4. thread'[Ender].at \in SavePlaces \cup {"none", "end", "stop", "stopping", "clearing"}
    BY <1>2, <2>2, Detaches
  <2>5. \A u \in Savers : thread'[u].ended = TRUE => thread[u].ended = TRUE \/ params.saves
    BY <1>2, Detaches
  <2>6. /\ memory' \in {"fine", "out", "ending"} /\ (terms.ends # "memory" => memory' = "fine")
        /\ skipping' \in BOOLEAN
    BY <1>1 DEF ThreadInv
  <2> QED BY <1>1, <1>2, <2>3, <2>4, <2>5, <2>6, ThreadStep
<1>4. \A u \in Detached : CallsBack(u)' => CallsBack(u)
  BY <1>2 DEF CallsBack, SavedAtEnd
<1>5. ChainInv' /\ (Quiet => Quiet')
  <2>1. \A c \in Controllers : /\ Active(c)' => Active(c)
                               /\ controller'[c].listed = controller[c].listed
    BY DEF Active
  <2> QED BY <1>1, <1>4, <2>1, Fewer
<1>6. Alive(t) /\ thread[t].at \notin {"saved", "check", "end", "stop", "stopping", "clearing"}
  BY DEF Alive, SavePlaces
<1>7. ASSUME SavedAtEnd
      PROVE  /\ thread'[t].at # "check" /\ (thread[t].ended = TRUE => thread'[t].ended = TRUE)
             /\ heavy' = <<>>
  <2>1. heavy = <<>>
    BY <1>1, <1>6, <1>7 DEF PromptInv, GoesOn
  <2> QED BY <1>2, <2>1 DEF SavePlaces
<1>8. PromptInv'
  BY <1>2, <1>5, <1>6, <1>7, PromptMoves
<1> QED BY <1>3, <1>5, <1>8

LEMMA Saving ==
  ASSUME Going, NEW t \in Detached,
         \/ BeginSave(t) \/ SkipSave(t) \/ FreezeHandler(t) \/ WaitFrozen(t) \/ Thaw(t)
         \/ CallBack(t) /\ ~thread[t].ended
  PROVE  terms' = terms /\ params' = params /\ ThreadInv' /\ ChainInv' /\ PromptInv'
<1>1. thread[t].at \in SavePlaces
  BY DEF BeginSave, SkipSave, FreezeHandler, WaitFrozen, Thaw, CallBack, SavePlaces
<1>2. /\ terms' = terms /\ params' = params /\ memory' = memory /\ skipping' = skipping
      /\ worker' = worker /\ ending' = ending /\ finishing' = finishing /\ tests' = tests
      /\ light' = light /\ heavy' = heavy /\ controller' = controller
  BY DEF BeginSave, SkipSave, FreezeHandler, WaitFrozen, Thaw, CallBack, SaveIsSkipped, vars,
         flagVars, poolVars, checkVars
<1>3. \/ \E at \in {"freeze", "call", "wait", "write"} : Continues(t, at)
      \/ Continues(t, After(t))
  BY DEF BeginSave, SkipSave, FreezeHandler, WaitFrozen, Thaw, CallBack
<1>4. \E at \in SavePlaces \cup {"stop", "saved"} :
         /\ Continues(t, at) /\ (t = Ender => at # "saved") /\ (t \in Savers => at # "stop")
  BY <1>3, Detaches DEF SavePlaces, After
<1> QED BY <1>1, <1>2, <1>4, SavePlaceStep

\* The callback of the save that goes on with the end of a generation.
LEMMA CallBackChain ==
  ASSUME Going, NEW t \in Detached, CallBack(t), thread[t].ended
  PROVE  terms' = terms /\ params' = params /\ ThreadInv' /\ ChainInv' /\ PromptInv'
<1>1. /\ TypeInv /\ ThreadInv /\ ChainInv /\ PromptInv /\ OneRenews
      /\ thread \in [Detached -> Jobs]
  BY DEF Going, ThreadInv, ChainInv
<1>2. /\ thread[t].at = "call" /\ Continues(t, After(t))
      /\ terms' = terms /\ params' = params /\ memory' = memory /\ skipping' = skipping
      /\ worker' = worker /\ ending' = ending /\ finishing' = finishing /\ tests' = tests
      /\ light' = light /\ heavy' = heavy \o <<"renew">> /\ controller' = controller
  BY DEF CallBack, SaveEnds, AddTasks, flagVars, checkVars
<1>3. thread[t].ended = TRUE
  BY <1>1 DEF Jobs
<1>4. /\ thread' \in [Detached -> Jobs]
      /\ thread'[t].at = After(t) /\ thread'[t].ended = thread[t].ended
      /\ \A u \in Detached \ {t} : thread'[u] = thread[u]
  <2>1. After(t) \in SavePlaces \cup {"none", "saved", "check", "end", "stop", "stopping", "clearing"}
    BY DEF After
  <2> QED BY <1>1, <1>2, <2>1, JobContinued
<1>5. CallsBack(t)
  BY <1>2, <1>3 DEF CallsBack, SavePlaces
<1>6. /\ Quiet /\ finishing = TRUE /\ ~RenewQueued
      /\ \A w \in Workers : ~Renews(w)
      /\ \A u \in Detached : CallsBack(u) => u = t
  BY <1>1, <1>5 DEF ChainInv, Settled, OneRenews
<1>7. heavy' = <<"renew">> /\ RenewQueued'
  <2>1. heavy = <<>>
    BY <1>6 DEF Quiet
  <2>2. <<>> \o <<"renew">> = <<"renew">>
    OBVIOUS
  <2>3. heavy' = <<"renew">>
    BY <1>2, <2>1, <2>2
  <2> QED BY <2>3 DEF RenewQueued
<1>8. \A u \in Detached : ~CallsBack(u)'
  <2>1. \A u \in Detached \ {t} : ~CallsBack(u)'
    BY <1>2, <1>4, <1>6 DEF CallsBack, SavedAtEnd
  <2>2. ~CallsBack(t)'
    BY <1>4 DEF CallsBack, After, SavePlaces
  <2> QED BY <2>1, <2>2
<1>9. Quiet'
  BY <1>2, <1>6, <1>7 DEF Quiet, Active
<1>10. OneRenews'
  BY <1>2, <1>6, <1>7, <1>8 DEF OneRenews, Renews
<1>11. ending' # FALSE /\ finishing' = TRUE
  BY <1>2, <1>6 DEF Quiet
<1>12. ChainInv'
  BY <1>9, <1>10, <1>11 DEF ChainInv
<1>13. ThreadInv'
  <2>1. \A u \in Savers : thread[u].at \in SavePlaces \cup {"none", "saved", "check"}
    BY <1>1 DEF ThreadInv
  <2>2. thread[Ender].at \in SavePlaces \cup {"none", "end", "stop", "stopping", "clearing"}
    BY <1>1 DEF ThreadInv
  <2>3. \A u \in Savers : thread'[u].at \in SavePlaces \cup {"none", "saved", "check"}
    BY <1>4, <2>1, Detaches DEF After
  <2>4. thread'[Ender].at \in SavePlaces \cup {"none", "end", "stop", "stopping", "clearing"}
    BY <1>4, <2>2, Detaches DEF After
  <2>5. \A u \in Savers : thread'[u].ended = TRUE => thread[u].ended = TRUE \/ params.saves
    BY <1>4, Detaches
  <2>6. /\ memory' \in {"fine", "out", "ending"} /\ (terms.ends # "memory" => memory' = "fine")
        /\ skipping' \in BOOLEAN
    BY <1>1, <1>2 DEF ThreadInv
  <2> QED BY <1>1, <1>2, <1>4, <2>3, <2>4, <2>5, <2>6, ThreadStep
<1>14. GoesOn(t)' /\ thread'[t].at # "check" /\ Alive(t)
  BY <1>2, <1>4 DEF GoesOn, After, Alive
<1>15. PromptInv'
  BY <1>1, <1>2, <1>3, <1>4, <1>9, <1>14, PromptMoves
<1> QED BY <1>2, <1>12, <1>13, <1>15

-----------------------------------------------------------------------------
(* The detached threads: after the save, and the end of the session.       *)

LEMMA SavedChain ==
  ASSUME Going, NEW t \in Savers, Saved(t)
  PROVE  terms' = terms /\ params' = params /\ ThreadInv' /\ ChainInv' /\ PromptInv'
<1>1. /\ TypeInv /\ ThreadInv /\ ChainInv /\ PromptInv /\ thread \in [Detached -> Jobs]
      /\ t \in Detached /\ t # Ender
  BY Detaches DEF Going, ThreadInv
<1>2. /\ thread[t].at = "saved" /\ Continues(t, "check") /\ skipping' = TRUE
      /\ terms' = terms /\ params' = params /\ memory' = memory
      /\ worker' = worker /\ ending' = ending /\ finishing' = finishing /\ tests' = tests
      /\ light' = light /\ heavy' = heavy /\ controller' = controller
  BY DEF Saved, vars, flagVars, poolVars
<1>3. /\ thread' \in [Detached -> Jobs]
      /\ thread'[t].at = "check" /\ thread'[t].ended = thread[t].ended
      /\ \A u \in Detached \ {t} : thread'[u] = thread[u]
  BY <1>1, <1>2, JobContinued
<1>4. \A u \in Detached : CallsBack(u)' => CallsBack(u)
  BY <1>2, <1>3 DEF CallsBack, SavePlaces, SavedAtEnd
<1>5. ChainInv' /\ (Quiet => Quiet')
  <2>1. \A c \in Controllers : /\ Active(c)' => Active(c)
                               /\ controller'[c].listed = controller[c].listed
    BY <1>2 DEF Active
  <2> QED BY <1>1, <1>2, <1>4, <2>1, Fewer
<1>6. ThreadInv'
  <2>1. \A u \in Savers : thread'[u].at \in SavePlaces \cup {"none", "saved", "check"}
    BY <1>1, <1>3, Detaches DEF ThreadInv
  <2>2. thread'[Ender].at \in SavePlaces \cup {"none", "end", "stop", "stopping", "clearing"}
    BY <1>1, <1>3, Detaches DEF ThreadInv
  <2>3. \A u \in Savers : thread'[u].ended = TRUE => thread[u].ended = TRUE \/ params.saves
    BY <1>3, Detaches
  <2>4. /\ memory' \in {"fine", "out", "ending"} /\ (terms.ends # "memory" => memory' = "fine")
        /\ skipping' \in BOOLEAN
    BY <1>1, <1>2 DEF ThreadInv
  <2> QED BY <1>1, <1>2, <1>3, <2>1, <2>2, <2>3, <2>4, ThreadStep
<1>7. PromptInv'
  <2>1. Alive(t) /\ GoesOn(t)'
    BY <1>2, <1>3 DEF Alive, GoesOn
  <2> QED BY <1>1, <1>2, <1>3, <1>5, <2>1, PromptMoves
<1> QED BY <1>2, <1>5, <1>6, <1>7

\* The thread of SaveSession_Async ends, and may detach the end of the session.
LEMMA CheckEffect ==
  ASSUME ThreadInv, NEW t \in Savers, CheckAfterSave(t)
  PROVE  /\ thread[t].at = "check" /\ UNCHANGED vars
         /\ terms' = terms /\ memory' = memory /\ abort' = abort /\ finished' = finished
         /\ savelock' = savelock /\ frozen' = frozen
         /\ skipping' = (skipping /\ ConditionMet(thread[t].ended))
         /\ thread' \in [Detached -> Jobs] /\ thread'[t].at = "none" /\ thread'[t].ended = FALSE
         /\ \A u \in Detached \ {t, Ender} : thread'[u] = thread[u]
         /\ \/ thread'[Ender] = thread[Ender]
            \/ /\ ConditionMet(thread[t].ended)
               /\ Begins(thread[Ender], Ender, thread[t].ended)
<1> DEFINE others == [thread EXCEPT ![t] = NoThread]
<1>1. thread \in [Detached -> Jobs] /\ t \in Detached /\ t # Ender /\ Ender \in Detached
  BY Detaches DEF ThreadInv
<1>2. NoThread \in Jobs /\ NoThread.at = "none" /\ NoThread.ended = FALSE
  BY DEF NoThread, Jobs
<1>3. /\ others \in [Detached -> Jobs] /\ others[t] = NoThread
      /\ \A u \in Detached \ {t} : others[u] = thread[u]
  BY <1>1, <1>2
<1>4. /\ thread[t].at = "check" /\ UNCHANGED vars
      /\ terms' = terms /\ memory' = memory /\ UNCHANGED stopVars
      /\ savelock' = savelock /\ UNCHANGED freezeVars
      /\ skipping' = (skipping /\ ConditionMet(thread[t].ended))
      /\ thread' = IF ConditionMet(thread[t].ended) THEN DetachEnder(others, thread[t].ended)
                                                    ELSE others
  BY DEF CheckAfterSave, EndCheck
<1> HIDE DEF others
<1>5. thread[t].ended \in BOOLEAN
  BY <1>1 DEF Jobs
<1>6. CASE ~ConditionMet(thread[t].ended)
  BY <1>1, <1>2, <1>3, <1>4, <1>6 DEF stopVars, freezeVars
<1>7. CASE ConditionMet(thread[t].ended)
  <2>1. thread' = DetachEnder(others, thread[t].ended)
    BY <1>4, <1>7
  <2>2. /\ thread' \in [Detached -> Jobs]
        /\ \A u \in Savers : thread'[u] = others[u]
        /\ \/ thread'[Ender] = others[Ender]
           \/ /\ others[Ender].at = "none" /\ ~abort
              /\ thread'[Ender].at = "end"
              /\ thread'[Ender].ended = thread[t].ended
    BY <1>3, <1>5, <2>1, EnderDetached
  <2>3. terms.ends = "timeout" \/ (thread[t].ended /\ terms.ends = "generations")
    BY <1>7 DEF ConditionMet, GoalReached
  <2>4. thread'[Ender] = thread[Ender] \/ Begins(thread[Ender], Ender, thread[t].ended)
    BY <1>1, <1>3, <2>2, <2>3 DEF Begins
  <2> QED BY <1>1, <1>2, <1>3, <1>4, <1>7, <2>2, <2>4, Detaches DEF stopVars, freezeVars
<1> QED BY <1>6, <1>7

LEMMA CheckChain ==
  ASSUME Going, NEW t \in Savers, CheckAfterSave(t)
  PROVE  terms' = terms /\ params' = params /\ ThreadInv' /\ ChainInv' /\ PromptInv'
<1>1. /\ TypeInv /\ ThreadInv /\ ChainInv /\ PromptInv /\ thread \in [Detached -> Jobs]
      /\ t \in Detached /\ t # Ender /\ Ender \in Detached
  BY Detaches DEF Going, ThreadInv
<1>2. /\ thread[t].at = "check" /\ UNCHANGED vars
      /\ terms' = terms /\ memory' = memory
      /\ skipping' = (skipping /\ ConditionMet(thread[t].ended))
      /\ thread' \in [Detached -> Jobs] /\ thread'[t].at = "none" /\ thread'[t].ended = FALSE
      /\ \A u \in Detached \ {t, Ender} : thread'[u] = thread[u]
      /\ \/ thread'[Ender] = thread[Ender]
         \/ /\ ConditionMet(thread[t].ended)
            /\ Begins(thread[Ender], Ender, thread[t].ended)
  BY <1>1, CheckEffect
<1>3. /\ params' = params /\ worker' = worker /\ ending' = ending /\ finishing' = finishing
      /\ tests' = tests /\ light' = light /\ heavy' = heavy /\ controller' = controller
  BY <1>2 DEF vars, flagVars, poolVars
<1>4. thread[t].ended \in BOOLEAN /\ skipping \in BOOLEAN /\ params.saves \in BOOLEAN
  BY <1>1, TermsKnown DEF Jobs, ThreadInv
<1>5. (SavedAtEnd' <=> SavedAtEnd) /\ Alive(t)
  BY <1>2, <1>3 DEF SavedAtEnd, Alive
<1>6. ASSUME SavedAtEnd
      PROVE  /\ Quiet /\ AllWait /\ thread[t].ended = TRUE /\ skipping = TRUE
             /\ \A u \in Detached : Alive(u) => u = t
    BY <1>1, <1>2, <1>5, <1>6 DEF PromptInv
<1>7. ASSUME thread[t].ended = TRUE, Begins(thread[Ender], Ender, thread[t].ended),
             ConditionMet(thread[t].ended)
      PROVE  SavedAtEnd /\ skipping' = TRUE
  <2>1. params.saves
    BY <1>1, <1>4, <1>7 DEF ThreadInv
  <2>2. terms.ends \in {"timeout", "generations"}
    BY <1>7 DEF ConditionMet, GoalReached
  <2>3. SavedAtEnd
    BY <2>1, <2>2 DEF Going, Regular, SavedAtEnd
  <2> QED BY <1>2, <1>6, <1>7, <2>3
<1>8. \A u \in Detached : CallsBack(u)' => CallsBack(u)
  <2>1. ~CallsBack(t)'
    BY <1>2 DEF CallsBack
  <2>2. ASSUME NEW u \in Detached \ {t, Ender}, CallsBack(u)' PROVE CallsBack(u)
    <3>1. thread'[u] = thread[u]
      BY <1>2
    <3>2. thread[u].at # "end"
      <4>1. u \in Savers
        BY <2>2, Detaches
      <4> QED BY <1>1, <4>1 DEF ThreadInv, SavePlaces
    <3> QED BY <2>2, <3>1, <3>2 DEF CallsBack
  <2>3. ASSUME CallsBack(Ender)' PROVE CallsBack(Ender)
    <3>1. CASE thread'[Ender] = thread[Ender]
      <4>1. CASE SavedAtEnd
        <5>1. thread[Ender].at = "none"
          BY <1>1, <1>6, <4>1 DEF Alive
        <5> QED BY <2>3, <3>1, <5>1 DEF CallsBack, SavePlaces
      <4>2. CASE ~SavedAtEnd
        BY <2>3, <3>1, <4>2 DEF CallsBack
      <4> QED BY <4>1, <4>2
    <3>2. CASE /\ ConditionMet(thread[t].ended)
               /\ Begins(thread[Ender], Ender, thread[t].ended)
      <4>1. thread'[Ender].ended = TRUE /\ thread'[Ender].at = "end"
        BY <2>3, <3>2 DEF CallsBack, Begins
      <4>2. thread[t].ended = TRUE
        BY <3>2, <4>1 DEF Begins
      <4>3. SavedAtEnd' /\ skipping' = TRUE
        BY <1>5, <1>7, <3>2, <4>2
      <4> QED BY <2>3, <4>1, <4>3 DEF CallsBack, SavePlaces
    <3> QED BY <1>2, <3>1, <3>2
  <2> QED BY <2>1, <2>2, <2>3
<1>9. ChainInv' /\ (Quiet => Quiet')
  <2>1. \A c \in Controllers : /\ Active(c)' => Active(c)
                               /\ controller'[c].listed = controller[c].listed
    BY <1>3 DEF Active
  <2> QED BY <1>1, <1>3, <1>8, <2>1, Fewer
<1>10. ThreadInv'
  <2>1. \A u \in Savers : thread'[u].at \in SavePlaces \cup {"none", "saved", "check"}
    BY <1>1, <1>2, Detaches DEF ThreadInv
  <2>2. thread'[Ender].at \in SavePlaces \cup {"none", "end", "stop", "stopping", "clearing"}
    BY <1>1, <1>2 DEF ThreadInv, Begins
  <2>3. \A u \in Savers : thread'[u].ended = TRUE => thread[u].ended = TRUE \/ params.saves
    BY <1>2, Detaches
  <2>4. /\ memory' \in {"fine", "out", "ending"} /\ (terms.ends # "memory" => memory' = "fine")
        /\ skipping' \in BOOLEAN
    BY <1>1, <1>2 DEF ThreadInv
  <2> QED BY <1>1, <1>2, <1>3, <2>1, <2>2, <2>3, <2>4, ThreadStep
<1>11. PromptInv'
  <2> SUFFICES ASSUME SavedAtEnd
               PROVE  /\ \A u, v \in Detached : Alive(u)' /\ Alive(v)' => u = v
                      /\ \A u \in Detached : Alive(u)' =>
                           /\ Quiet' /\ AllWait'
                           /\ thread'[u].ended = TRUE
                           /\ thread'[u].at = "check" => skipping' = TRUE
                           /\ GoesOn(u)'
    BY <1>5 DEF PromptInv
  <2>1. \A u \in Detached : Alive(u)' => u = Ender /\ ~Alive(Ender)
    BY <1>1, <1>2, <1>6 DEF Alive
  <2>2. Alive(Ender)' => Begins(thread[Ender], Ender, thread[t].ended)
    BY <1>1, <1>2, <2>1 DEF Alive
  <2>3. Alive(Ender)' => thread'[Ender].at = "end" /\ thread'[Ender].ended = TRUE
    BY <1>6, <2>2 DEF Begins
  <2>4. Quiet' /\ AllWait'
    BY <1>3, <1>6, <1>9 DEF AllWait
  <2> QED BY <2>1, <2>3, <2>4 DEF GoesOn
<1> QED BY <1>2, <1>3, <1>9, <1>10, <1>11

LEMMA EnderStep ==
  ASSUME Going, thread[Ender].at \in {"end", "stop", "stopping", "clearing"},
         NEW at \in {"none", "save", "stop", "stopping", "clearing"}, Continues(Ender, at),
         terms' = terms, params' = params, memory' = memory, skipping' \in {skipping, FALSE},
         worker' = worker, ending' = ending, finishing' = finishing,
         tests' = tests \/ tests' = 0, light' = light \/ light' = 0,
         heavy' = heavy \/ heavy' = <<>>,
         \A c \in Controllers : /\ Active(c)' => Active(c)
                                /\ controller'[c].listed = controller[c].listed,
         at = "save" /\ thread[Ender].ended = TRUE => CallsBack(Ender) /\ heavy' = heavy,
         at \in {"stopping", "clearing"} => frozen' = TRUE \/ (frozen' = frozen /\ heavy' = heavy
                                                            /\ thread[Ender].at = "stopping")
  PROVE  ThreadInv' /\ ChainInv' /\ PromptInv'
<1>1. /\ TypeInv /\ ThreadInv /\ ChainInv /\ PromptInv /\ OneRenews
      /\ thread \in [Detached -> Jobs] /\ Ender \in Detached /\ skipping \in BOOLEAN
  BY Detaches DEF Going, ThreadInv, ChainInv
<1>2. /\ thread' \in [Detached -> Jobs]
      /\ thread'[Ender].at = at /\ thread'[Ender].ended = thread[Ender].ended
      /\ \A u \in Detached \ {Ender} : thread'[u] = thread[u]
  <2>1. at \in SavePlaces \cup {"none", "saved", "check", "end", "stop", "stopping", "clearing"}
    BY DEF SavePlaces
  <2> QED BY <1>1, <2>1, JobContinued
<1>3. ThreadInv'
  <2>1. \A u \in Savers : thread'[u].at \in SavePlaces \cup {"none", "saved", "check"}
    BY <1>1, <1>2, Detaches DEF ThreadInv
  <2>2. thread'[Ender].at \in SavePlaces \cup {"none", "end", "stop", "stopping", "clearing"}
    BY <1>2 DEF SavePlaces
  <2>3. \A u \in Savers : thread'[u].ended = TRUE => thread[u].ended = TRUE \/ params.saves
    BY <1>2, Detaches
  <2>4. /\ memory' \in {"fine", "out", "ending"} /\ (terms.ends # "memory" => memory' = "fine")
        /\ skipping' \in BOOLEAN
    BY <1>1 DEF ThreadInv
  <2> QED BY <1>1, <1>2, <2>1, <2>2, <2>3, <2>4, ThreadStep
<1>4. \A u \in Detached : CallsBack(u)' => CallsBack(u)
  <2>1. ASSUME NEW u \in Detached \ {Ender}, CallsBack(u)' PROVE CallsBack(u)
    <3>1. thread'[u] = thread[u]
      BY <1>2
    <3>2. thread[u].at # "end"
      <4>1. u \in Savers
        BY <2>1, Detaches
      <4> QED BY <1>1, <4>1 DEF ThreadInv, SavePlaces
    <3> QED BY <2>1, <3>1, <3>2 DEF CallsBack
  <2>2. ASSUME CallsBack(Ender)' PROVE CallsBack(Ender)
    <3>1. at = "save" /\ thread[Ender].ended = TRUE
      BY <1>2, <2>2 DEF CallsBack, SavePlaces
    <3> QED BY <3>1
  <2> QED BY <2>1, <2>2
<1>5. ChainInv' /\ (Quiet => Quiet')
  BY <1>1, <1>4, Fewer
<1>6. Alive(Ender)
  BY DEF Alive
<1>7. ASSUME SavedAtEnd, thread[Ender].ended = TRUE, Alive(Ender)'
      PROVE  /\ thread'[Ender].ended = TRUE /\ thread'[Ender].at # "check"
             /\ \/ heavy' = <<>>
                \/ GoesOn(Ender)'
                \/ thread'[Ender].at \in {"stopping", "clearing"} /\ frozen' = TRUE
  <2>1. CASE at = "save"
    <3>1. CallsBack(Ender) /\ heavy' = heavy
      BY <1>7, <2>1
    <3>2. Quiet /\ ~RenewQueued
      BY <1>1, <3>1 DEF ChainInv, Settled, OneRenews
    <3>3. heavy' = <<>>
      BY <3>1, <3>2 DEF Quiet
    <3> QED BY <1>2, <1>7, <2>1, <3>3
  <2>2. CASE at = "stop"
    BY <1>2, <1>7, <2>2 DEF GoesOn
  <2>3. CASE at \in {"stopping", "clearing"}
    <3>1. CASE frozen' = TRUE
      BY <1>2, <1>7, <2>3, <3>1
    <3>2. CASE frozen' = frozen /\ heavy' = heavy /\ thread[Ender].at = "stopping"
      <4>1. heavy = <<>> \/ frozen = TRUE
        BY <1>1, <1>6, <1>7, <3>2 DEF PromptInv, GoesOn
      <4> QED BY <1>2, <1>7, <2>3, <3>2, <4>1
    <3> QED BY <2>3, <3>1, <3>2
  <2>4. CASE at = "none"
    BY <1>2, <1>7, <2>4 DEF Alive
  <2> QED BY <2>1, <2>2, <2>3, <2>4
<1>8. PromptInv'
  BY <1>1, <1>2, <1>5, <1>6, <1>7, PromptMoves
<1> QED BY <1>3, <1>5, <1>8

LEMMA BeginEndChain ==
  ASSUME Going, BeginEnd
  PROVE  terms' = terms /\ params' = params /\ ThreadInv' /\ ChainInv' /\ PromptInv'
<1>1. /\ thread[Ender].at = "end"
      /\ Continues(Ender, IF skipping THEN "stop" ELSE "save")
      /\ UNCHANGED vars /\ terms' = terms /\ memory' = memory /\ skipping' = skipping
  BY DEF BeginEnd, checkVars
<1>2. /\ params' = params /\ worker' = worker /\ ending' = ending /\ finishing' = finishing
      /\ tests' = tests /\ light' = light /\ heavy' = heavy /\ controller' = controller
  BY <1>1 DEF vars, flagVars, poolVars
<1>3. skipping \in BOOLEAN
  BY DEF Going, ThreadInv
<1>4. PICK at \in {"stop", "save"} : Continues(Ender, at) /\ (at = "save" => skipping = FALSE)
  BY <1>1, <1>3
<1>5. at = "save" /\ thread[Ender].ended = TRUE => CallsBack(Ender)
  BY <1>1, <1>4 DEF CallsBack
<1>6. \A c \in Controllers : /\ Active(c)' => Active(c)
                             /\ controller'[c].listed = controller[c].listed
  BY <1>2 DEF Active
<1> QED BY <1>1, <1>2, <1>4, <1>5, <1>6, EnderStep

LEMMA StopChain ==
  ASSUME Going, Stop
  PROVE  terms' = terms /\ params' = params /\ ThreadInv' /\ ChainInv' /\ PromptInv'
<1>1. /\ thread[Ender].at = "stop" /\ Continues(Ender, "stopping") /\ frozen' = TRUE
      /\ UNCHANGED vars /\ terms' = terms /\ memory' = memory /\ skipping' = FALSE
  BY DEF Stop
<1>2. /\ params' = params /\ worker' = worker /\ ending' = ending /\ finishing' = finishing
      /\ tests' = tests /\ light' = light /\ heavy' = heavy /\ controller' = controller
  BY <1>1 DEF vars, flagVars, poolVars
<1>3. \A c \in Controllers : /\ Active(c)' => Active(c)
                             /\ controller'[c].listed = controller[c].listed
  BY <1>2 DEF Active
<1> QED BY <1>1, <1>2, <1>3, EnderStep

LEMMA ControllersCleared ==
  ASSUME TypeInv, ClearTests, NEW c \in Controllers
  PROVE  /\ Active(c)' = Active(c) /\ controller'[c].listed = controller[c].listed
         /\ ~Busy(c)'
<1>1. controller[c] \in DeltaStates
  BY Typed
<1>2. controller'[c] = IF Busy(c) THEN [controller[c] EXCEPT !.state = "hung"] ELSE controller[c]
  BY DEF ClearTests
<1>3. CASE Busy(c)
  BY <1>1, <1>2, <1>3 DEF Busy, Active, DeltaStates
<1>4. CASE ~Busy(c)
  BY <1>1, <1>2, <1>4 DEF Busy, Active
<1> QED BY <1>3, <1>4

LEMMA ClearTestsChain ==
  ASSUME Going, ClearTests
  PROVE  terms' = terms /\ params' = params /\ ThreadInv' /\ ChainInv' /\ PromptInv'
<1>1. /\ thread[Ender].at = "stopping" /\ Continues(Ender, "clearing") /\ frozen' = frozen
      /\ terms' = terms /\ params' = params /\ memory' = memory /\ skipping' = skipping
      /\ worker' = worker /\ ending' = ending /\ finishing' = finishing
      /\ tests' = 0 /\ light' = light /\ heavy' = heavy
  BY DEF ClearTests, checkVars, flagVars, poolVars
<1>2. \A c \in Controllers : /\ Active(c)' => Active(c)
                             /\ controller'[c].listed = controller[c].listed
  BY ControllersCleared DEF Going
<1> QED BY <1>1, <1>2, EnderStep

LEMMA ClearTasksChain ==
  ASSUME Going, ClearTasks
  PROVE  terms' = terms /\ params' = params /\ ThreadInv' /\ ChainInv' /\ PromptInv'
<1>1. /\ thread[Ender].at = "clearing" /\ Continues(Ender, "none")
      /\ terms' = terms /\ params' = params /\ memory' = memory /\ skipping' = skipping
      /\ worker' = worker /\ ending' = ending /\ finishing' = finishing
      /\ tests' = tests /\ light' = 0 /\ heavy' = <<>> /\ controller' = controller
  BY DEF ClearTasks, checkVars, flagVars
<1>2. \A c \in Controllers : /\ Active(c)' => Active(c)
                             /\ controller'[c].listed = controller[c].listed
  BY <1>1 DEF Active
<1> QED BY <1>1, <1>2, EnderStep

LEMMA DetachedChain ==
  ASSUME Going, NEW t \in Detached, (t \in Savers /\ Saver(t)) \/ (t = Ender /\ EndSession)
  PROVE  terms' = terms /\ params' = params /\ ThreadInv' /\ ChainInv' /\ PromptInv'
<1>1. Ender \in Detached /\ Savers \subseteq Detached
  BY DEF Detached
<1>2. CASE Saver(t) /\ t \in Savers
  BY <1>1, <1>2, Saving, CallBackChain, SavedChain, CheckChain DEF Saver
<1>3. CASE EndSession
  BY <1>1, <1>3, Saving, CallBackChain, BeginEndChain, StopChain, ClearTestsChain,
     ClearTasksChain DEF EndSession
<1> QED BY <1>2, <1>3

LEMMA TimeChain ==
  ASSUME Going, TimePasses \/ UNCHANGED allVars
  PROVE  terms' = terms /\ params' = params /\ ThreadInv' /\ ChainInv' /\ PromptInv'
<1>1. /\ UNCHANGED vars /\ terms' = terms /\ UNCHANGED checkVars /\ thread' = thread
      /\ UNCHANGED freezeVars
  BY DEF TimePasses, allVars, sessionVars
<1>2. TypeInv /\ ThreadInv /\ ChainInv /\ PromptInv
  BY DEF Going
<1>3. /\ params' = params /\ worker' = worker /\ ending' = ending /\ finishing' = finishing
      /\ tests' = tests /\ light' = light /\ heavy' = heavy /\ controller' = controller
      /\ memory' = memory /\ skipping' = skipping /\ frozen' = frozen
  BY <1>1 DEF vars, flagVars, poolVars, checkVars, freezeVars
<1>4. ThreadInv'
  BY <1>1, <1>2, <1>3 DEF ThreadInv, SavePlaces
<1>5. \A t \in Detached : CallsBack(t)' => CallsBack(t)
  BY <1>1, <1>3 DEF CallsBack, SavedAtEnd
<1>6. ChainInv' /\ (Quiet => Quiet')
  <2>1. \A c \in Controllers : /\ Active(c)' => Active(c)
                               /\ controller'[c].listed = controller[c].listed
    BY <1>3 DEF Active
  <2> QED BY <1>2, <1>3, <1>5, <2>1, Fewer
<1>7. PromptInv'
  <2>1. SavedAtEnd' <=> SavedAtEnd
    BY <1>1, <1>3 DEF SavedAtEnd
  <2>2. \A t \in Detached : (Alive(t)' <=> Alive(t)) /\ (GoesOn(t)' <=> GoesOn(t))
    BY <1>1 DEF Alive, GoesOn
  <2> QED BY <1>1, <1>2, <1>3, <1>6, <2>1, <2>2 DEF PromptInv, AllWait
<1> QED BY <1>1, <1>3, <1>4, <1>6, <1>7

-----------------------------------------------------------------------------
(* Generations are replaced when they are done.                            *)

LEMMA InitGoing == SessionInit /\ Regular => Going
<1> SUFFICES ASSUME SessionInit, Regular PROVE Going
  OBVIOUS
<1>1. TypeInv
  BY InitTypes
<1>2. /\ terms \in Endings /\ params = terms.session
      /\ thread = [t \in Detached |-> NoThread] /\ memory = "fine" /\ skipping = FALSE
      /\ Init
  BY DEF SessionInit
<1>3. NoThread \in Jobs /\ NoThread.at = "none" /\ NoThread.ended = FALSE
  BY DEF NoThread, Jobs
<1>4. \A t \in Detached : thread[t] = NoThread
  BY <1>2
<1>5. ThreadInv
  <2>1. thread \in [Detached -> Jobs]
    BY <1>2, <1>3
  <2> QED BY <1>2, <1>3, <1>4, <2>1, Detaches DEF ThreadInv
<1>6. PromptInv
  BY <1>3, <1>4 DEF PromptInv, Alive
<1>7. /\ heavy = <<"generate">> /\ ending = FALSE /\ finishing = FALSE
      /\ \A w \in Workers : worker[w].at = "waiting"
      /\ \A c \in Controllers : controller[c].listed = FALSE
  BY <1>2 DEF Init, Waiting, NoController
<1>8. \A i \in 1 .. Len(heavy) : heavy[i] = "generate"
  BY <1>7
<1>9. ~RenewQueued
  <2>1. <<"generate">>[1] # <<"renew">>[1]
    OBVIOUS
  <2> QED BY <1>7, <2>1 DEF RenewQueued
<1>10. \A t \in Detached : ~CallsBack(t)
  BY <1>3, <1>4 DEF CallsBack
<1>11. ~Settled /\ OneRenews /\ \A w \in Workers : ~Renews(w)
  BY <1>7, <1>8, <1>9, <1>10 DEF Settled, OneRenews, Renews
<1>12. ChainInv
  BY <1>7, <1>8, <1>11 DEF ChainInv, EndPlaces
<1> QED BY <1>1, <1>5, <1>6, <1>12 DEF Going

LEMMA StepGoing == Going /\ [SessionNext]_allVars => Going'
<1> SUFFICES ASSUME Going, [SessionNext]_allVars PROVE Going'
  OBVIOUS
<1>1. TypeInv'
  BY StepTypes DEF Going
<1>2. ASSUME terms' = terms, params' = params PROVE Regular'
  BY <1>2 DEF Going, Regular
<1>3. ASSUME NEW w \in Workers, PoolThread(w) PROVE Going'
  BY <1>1, <1>2, <1>3, PoolChain DEF Going, Unstopped
<1>4. ASSUME NEW t \in Detached, (t \in Savers /\ Saver(t)) \/ (t = Ender /\ EndSession)
      PROVE  Going'
  BY <1>1, <1>2, <1>4, DetachedChain DEF Going
<1>5. CASE HandlerStep
  BY <1>1, <1>2, <1>5, HandlerChain DEF Going, Unstopped
<1>6. ASSUME NEW c \in Controllers, DeltaStep(c) PROVE Going'
  BY <1>1, <1>2, <1>6, DeltaChain DEF Going, Unstopped
<1>7. ASSUME NEW late \in BOOLEAN, SessionControl(late) PROVE Going'
  BY <1>1, <1>2, <1>7, LookAroundChain DEF Going, Unstopped
<1>8. CASE TimePasses \/ UNCHANGED allVars
  BY <1>1, <1>2, <1>8, TimeChain DEF Going
<1>9. Savers \subseteq Detached /\ Ender \in Detached
  BY DEF Detached
<1> QED BY <1>3, <1>4, <1>5, <1>6, <1>7, <1>8, <1>9 DEF SessionNext

\* The thread that replaces a generation has had everything of it waited for.
LEMMA ReplacesWhenDone ==
  ASSUME Going, NEW w \in Workers, SetNewGeneration(w)
  PROVE  /\ ending /\ finishing
         /\ tests = 0 /\ light = 0
         /\ \A c \in Controllers : ~Active(c)
         /\ ~Generating
<1>1. worker[w].at = "replacing" /\ ~Generating
  BY DEF SetNewGeneration
<1>2. Renews(w) /\ Settled
  BY <1>1 DEF Renews, Settled
<1>3. Quiet /\ finishing = TRUE
  BY <1>2 DEF Going, ChainInv
<1> QED BY <1>1, <1>3 DEF Quiet

\* When no save takes so long that the watchdog calls back for it, and the look
\* for the end after a save comes before the next generation, a generation is
\* replaced only after it was ended, by one callback, when all its tests and all
\* its delta debugging are done and nobody generates inputs for it.
THEOREM NothingIsCutShort == SessionSpec /\ Regular => ReplacedWhenDone
<1>1. SessionInit /\ Regular => Going
  BY InitGoing
<1>2. Going /\ [SessionNext]_allVars => Going'
  BY StepGoing
<1>3. Going => [(\E w \in Workers : SetNewGeneration(w)) =>
                  /\ ending /\ finishing
                  /\ tests = 0 /\ light = 0
                  /\ \A c \in Controllers : ~Active(c)
                  /\ ~Generating]_vars
  BY ReplacesWhenDone
<1> QED BY <1>1, <1>2, <1>3, PTL DEF SessionSpec, ReplacedWhenDone

-----------------------------------------------------------------------------
(* The end of a session.                                                   *)

\* No save is going on when the session is to end, but for the one that looks for
\* the end.
EndsAlone ==
  terms.ends # "never" => ~terms.autosaves /\ (terms.ends = "memory" => ~params.saves)

\* Nothing is done for the session.
AtRest == tests = 0 /\ AllWait /\ \A c \in Controllers : ~Busy(c)

\* Who has _savelock.
Holding == {"freeze", "wait", "write", "call"}

EndInv ==
  /\ finished \in BOOLEAN
  /\ terms.ends = "never" => ~Alive(Ender)
  /\ ~params.saves /\ ~terms.autosaves => \A t \in Savers : ~Alive(t)
  /\ savelock # Nobody => savelock \in Detached /\ thread[savelock].at \in Holding
  /\ thread[Ender].at \in {"stopping", "clearing"} => frozen = TRUE /\ abort = TRUE
  /\ thread[Ender].at = "clearing" => AtRest
  /\ finished = TRUE => /\ AtRest /\ light = 0 /\ heavy = <<>> /\ abort = TRUE
                        /\ \A t \in Detached : ~Alive(t)

Closing == Going /\ EndsAlone /\ EndInv

LEMMA EndsOfItself ==
  ASSUME Closing, Alive(Ender)
  PROVE  \A t \in Detached : Alive(t) => t = Ender
<1>1. /\ terms.ends \in {"never", "generations", "timeout", "memory"}
      /\ terms.autosaves \in BOOLEAN /\ params.saves \in BOOLEAN
  BY TermsKnown DEF Closing, Going
<1>2. terms.ends # "never" /\ ~terms.autosaves /\ (terms.ends = "memory" => ~params.saves)
  BY DEF Closing, EndInv, EndsAlone
<1>3. CASE ~params.saves
  BY <1>2, <1>3, Detaches DEF Closing, EndInv
<1>4. CASE params.saves
  <2>1. SavedAtEnd
    BY <1>1, <1>2, <1>4 DEF Closing, Going, Regular, SavedAtEnd
  <2> QED BY <2>1, Detaches DEF Closing, Going, PromptInv
<1> QED BY <1>3, <1>4

\* Nobody but EndSession_Async does anything while it clears the tasks, and nobody
\* at all once it has.
Over == finished = TRUE \/ thread[Ender].at = "clearing"

LEMMA NothingMoves ==
  ASSUME Closing, Over
  PROVE  /\ \A w \in Workers : ~PoolThread(w)
         /\ ~HandlerStep
         /\ \A c \in Controllers : ~DeltaStep(c)
         /\ \A late \in BOOLEAN : ~SessionControl(late)
<1>1. /\ AtRest /\ abort = TRUE
      /\ frozen = TRUE \/ (light = 0 /\ heavy = <<>>)
  BY DEF Closing, EndInv, Over
<1>2. ASSUME NEW w \in Workers PROVE ~PoolThread(w)
  <2>1. worker[w].at = "waiting"
    BY <1>1 DEF AtRest, AllWait
  <2>2. ~TakeTaskUnfrozen(w)
    <3> SUFFICES ASSUME TakeTaskUnfrozen(w) PROVE FALSE
      OBVIOUS
    <3>1. ~frozen /\ (light > 0 \/ heavy # <<>>)
      BY DEF TakeTaskUnfrozen, TakeTask
    <3>2. ~(0 > 0)
      OBVIOUS
    <3> QED BY <1>1, <3>1, <3>2
  <2>3. ~ReserveUnlessBlocked(w) /\ ~Refuse(w) /\ ~RequestInputsAndCheck(w)
    BY <2>1 DEF ReserveUnlessBlocked, Reserve, Refuse, RequestInputsAndCheck, RequestInputs
  <2>4. ~EndGeneratingAndCheck(w) /\ ~SaveOrEnd(w) /\ ~SetNextGeneration(w)
    BY <2>1 DEF EndGeneratingAndCheck, EndGenerating, ChecksEnd, SaveOrEnd, SaveCheck,
       SetNextGeneration, SetNewGeneration
  <2>5. ~Proceed(w)
    BY <2>1 DEF Proceed, MakeInput, GiveUp, NoRandomSource, TestEnd, RepeatTest, EndGeneration,
       EndSelection, StartScoreOptimization, LookAtController, AttachCallback, FinishGeneration,
       WaitForControllers, WaitForRest, Restart
  <2> QED BY <2>2, <2>3, <2>4, <2>5 DEF PoolThread
<1>3. ~HandlerStep
  BY <1>1 DEF AtRest, HandlerStep, ExecuteTests, StopTest, FailTest
<1>4. \A c \in Controllers : ~DeltaStep(c)
  BY <1>1 DEF AtRest, DeltaStep, DeltaDebugging, EndDeltaDebugging, HangDeltaDebugging
<1>5. \A late \in BOOLEAN : ~SessionControl(late)
  BY <1>1 DEF SessionControl
<1> QED BY <1>2, <1>3, <1>4, <1>5

\* A step that may detach threads, before the end is over.
LEMMA BeforeTheEnd ==
  ASSUME Closing, ThreadInv', Unstopped, ~Over,
         \A t \in Detached : \/ thread'[t] = thread[t]
                             \/ Begins(thread[t], t, FALSE) \/ Begins(thread[t], t, TRUE)
  PROVE  EndInv'
<1>1. EndInv /\ ThreadInv /\ Ender \in Detached
  BY Detaches DEF Closing, Going
<1>2. /\ terms' = terms /\ params' = params /\ savelock' = savelock /\ frozen' = frozen
      /\ abort' = abort /\ finished' = finished
  BY DEF Unstopped, freezeVars, stopVars
<1>3. terms.ends = "never" => ~Alive(Ender)'
  BY <1>1 DEF EndInv, Begins, Alive
<1>4. ASSUME ~params.saves, ~terms.autosaves, NEW t \in Savers PROVE ~Alive(t)'
  <2>1. thread[t].at = "none" /\ t \in Detached /\ t # Ender
    BY <1>1, <1>4, Detaches DEF EndInv, Alive
  <2>2. thread'[t].ended = FALSE
    BY <1>2, <1>4 DEF ThreadInv
  <2>3. ~Begins(thread[t], t, FALSE)
    BY <1>4, <2>1 DEF Begins
  <2>4. ~Begins(thread[t], t, TRUE)
    BY <2>2 DEF Begins
  <2> QED BY <2>1, <2>3, <2>4 DEF Alive
<1>5. ASSUME savelock # Nobody PROVE savelock \in Detached /\ thread'[savelock].at \in Holding
  <2>1. savelock \in Detached /\ thread[savelock].at \in Holding
    BY <1>1, <1>5 DEF EndInv
  <2>2. thread[savelock].at # "none"
    BY <2>1 DEF Holding
  <2> QED BY <2>1, <2>2 DEF Begins
<1>6. thread'[Ender] = thread[Ender] \/ thread'[Ender].at = "end"
  BY <1>1 DEF Begins
<1>7. thread'[Ender].at \in {"stopping", "clearing"} => frozen' = TRUE /\ abort' = TRUE
  BY <1>1, <1>2, <1>6 DEF EndInv
<1>8. thread'[Ender].at # "clearing" /\ finished' # TRUE /\ finished' \in BOOLEAN
  BY <1>1, <1>2, <1>6 DEF Over, EndInv
<1> QED BY <1>2, <1>3, <1>4, <1>5, <1>7, <1>8 DEF EndInv

LEMMA PoolEnd == ASSUME Closing, NEW w \in Workers, PoolThread(w) PROVE EndInv'
<1>1. ~Over /\ ThreadInv
  BY NothingMoves DEF Closing, Going
<1>2. /\ ThreadInv' /\ Unstopped
      /\ \A t \in Detached : \/ thread'[t] = thread[t]
                             \/ Begins(thread[t], t, FALSE) \/ Begins(thread[t], t, TRUE)
  <2>1. CASE TakeTaskUnfrozen(w) \/ ReserveUnlessBlocked(w) \/ Refuse(w)
    BY <1>1, <2>1, TasksOthers DEF Others
  <2>2. CASE RequestInputsAndCheck(w) \/ EndGeneratingAndCheck(w)
    BY <1>1, <2>2, RequestOthers, MakerOthers DEF Others
  <2>3. CASE SaveOrEnd(w)
    <3>1. /\ ThreadInv' /\ Unstopped
          /\ \/ Others
             \/ \E s \in Detached :
                  /\ thread'[s] = thread[s] \/ Begins(thread[s], s, TRUE)
                  /\ \A t \in Detached \ {s} :
                       thread'[t] = thread[t] \/ Begins(thread[t], t, FALSE)
      BY <1>1, <2>3, SaveEffect
    <3> QED BY <3>1 DEF Others
  <2>4. CASE SetNextGeneration(w)
    BY <1>1, <2>4, NewGenerationOthers DEF Others
  <2>5. CASE Proceed(w) /\ UNCHANGED sessionVars
    BY <1>1, <2>5, ProceedOthers DEF Others
  <2> QED BY <2>1, <2>2, <2>3, <2>4, <2>5 DEF PoolThread
<1> QED BY <1>1, <1>2, BeforeTheEnd

\* Tests, controllers and the watchdog.
LEMMA RestEnd ==
  ASSUME Closing, \/ HandlerStep \/ (\E c \in Controllers : DeltaStep(c))
                  \/ (\E late \in BOOLEAN : SessionControl(late))
  PROVE  EndInv'
<1>1. ~Over
  BY NothingMoves
<1>2. params' = params /\ UNCHANGED sessionVars
  BY DEF HandlerStep, ExecuteTests, StopTest, FailTest, DeltaStep, DeltaDebugging,
     EndDeltaDebugging, HangDeltaDebugging, SessionControl, Look
<1>3. ThreadInv' /\ Others /\ Unstopped
  BY <1>2, UnchangedOthers DEF Closing, Going
<1> QED BY <1>1, <1>3, BeforeTheEnd DEF Others

LEMMA TimeEnd == ASSUME Closing, TimePasses \/ UNCHANGED allVars PROVE EndInv'
<1>1. /\ UNCHANGED vars /\ terms' = terms /\ thread' = thread /\ savelock' = savelock
      /\ UNCHANGED <<freezeVars, stopVars>>
  BY DEF TimePasses, allVars, sessionVars
<1>2. /\ params' = params /\ worker' = worker /\ tests' = tests /\ light' = light
      /\ heavy' = heavy /\ controller' = controller
      /\ frozen' = frozen /\ abort' = abort /\ finished' = finished
  BY <1>1 DEF vars, poolVars, freezeVars, stopVars
<1> QED BY <1>1, <1>2 DEF Closing, EndInv, Alive, Holding, AtRest, AllWait, Busy

\* A detached thread saves: what becomes of the lock.
LEMMA SaveLock ==
  ASSUME Closing, NEW t \in Detached,
         \/ BeginSave(t) \/ SkipSave(t) \/ FreezeHandler(t) \/ WaitFrozen(t) \/ Thaw(t)
         \/ CallBack(t)
  PROVE  /\ \E at \in Holding \cup {"saved", "stop"} :
              /\ thread'[t].at = at
              /\ \/ savelock' = Nobody
                 \/ savelock' = t /\ at \in Holding
                 \/ savelock' = savelock /\ (savelock = t => at \in Holding)
         /\ \A u \in Detached \ {t} : thread'[u] = thread[u]
         /\ terms' = terms /\ params' = params /\ abort' = abort /\ finished' = finished
         /\ Alive(t)
<1>1. /\ thread \in [Detached -> Jobs] /\ ThreadInv
      /\ savelock # Nobody => thread[savelock].at \in Holding
  BY DEF Closing, Going, ThreadInv, EndInv
<1>2. /\ terms' = terms /\ params' = params /\ abort' = abort /\ finished' = finished
  BY DEF BeginSave, SkipSave, FreezeHandler, WaitFrozen, Thaw, CallBack, SaveIsSkipped, SaveEnds,
         vars, stopVars
<1>3. Alive(t)
  BY DEF BeginSave, SkipSave, FreezeHandler, WaitFrozen, Thaw, CallBack, Alive
<1>4. ASSUME NEW at \in Holding \cup {"saved", "stop"}, Continues(t, at)
      PROVE  thread'[t].at = at /\ \A u \in Detached \ {t} : thread'[u] = thread[u]
  <2>1. at \in SavePlaces \cup {"none", "saved", "check", "end", "stop", "stopping", "clearing"}
    BY DEF Holding, SavePlaces
  <2> QED BY <1>1, <1>4, <2>1, JobContinued
<1>5. \E at \in Holding \cup {"saved", "stop"} :
         /\ Continues(t, at)
         /\ \/ savelock' = Nobody
            \/ savelock' = t /\ at \in Holding
            \/ savelock' = savelock /\ (savelock = t => at \in Holding)
  <2>1. CASE BeginSave(t)
    BY <2>1 DEF BeginSave, Holding
  <2>2. CASE SkipSave(t)
    <3>1. savelock # Nobody /\ savelock' = savelock /\ thread[t].at = "save" /\ Continues(t, After(t))
      BY <2>2 DEF SkipSave
    <3>2. savelock # t
      BY <1>1, <3>1 DEF Holding
    <3> QED BY <3>1, <3>2 DEF After
  <2>3. CASE FreezeHandler(t) \/ WaitFrozen(t) \/ Thaw(t)
    BY <2>3 DEF FreezeHandler, WaitFrozen, Thaw, Holding
  <2>4. CASE CallBack(t)
    BY <2>4 DEF CallBack, After
  <2> QED BY <2>1, <2>2, <2>3, <2>4
<1> QED BY <1>2, <1>3, <1>4, <1>5

LEMMA SavingEnd ==
  ASSUME Closing, NEW t \in Detached,
         \/ BeginSave(t) \/ SkipSave(t) \/ FreezeHandler(t) \/ WaitFrozen(t) \/ Thaw(t)
         \/ CallBack(t)
  PROVE  EndInv'
<1>1. EndInv /\ Ender \in Detached /\ Savers \subseteq Detached
  BY Detaches DEF Closing
<1>2. PICK at \in Holding \cup {"saved", "stop"} :
        /\ thread'[t].at = at
        /\ \/ savelock' = Nobody
           \/ savelock' = t /\ at \in Holding
           \/ savelock' = savelock /\ (savelock = t => at \in Holding)
  BY SaveLock
<1>3. /\ \A u \in Detached \ {t} : thread'[u] = thread[u]
      /\ terms' = terms /\ params' = params /\ abort' = abort /\ finished' = finished
      /\ Alive(t)
  BY SaveLock
<1>4. \A u \in Detached : Alive(u)' => Alive(u)
  BY <1>3 DEF Alive
<1>5. thread'[Ender].at \notin {"stopping", "clearing"}
  <2>1. CASE t = Ender
    BY <1>2, <2>1 DEF Holding
  <2>2. CASE t # Ender
    <3>1. ~Alive(Ender)
      BY <1>3, <2>2, EndsOfItself
    <3> QED BY <1>1, <1>4, <3>1 DEF Alive
  <2> QED BY <2>1, <2>2
<1>6. finished' # TRUE
  BY <1>1, <1>3 DEF EndInv
<1>7. savelock' # Nobody => savelock' \in Detached /\ thread'[savelock'].at \in Holding
  <2> SUFFICES ASSUME savelock' # Nobody
               PROVE  savelock' \in Detached /\ thread'[savelock'].at \in Holding
    OBVIOUS
  <2>1. CASE savelock' = t /\ at \in Holding
    BY <1>2, <2>1
  <2>2. CASE savelock' = savelock /\ (savelock = t => at \in Holding)
    <3>1. savelock \in Detached /\ thread[savelock].at \in Holding
      BY <1>1, <2>2 DEF EndInv
    <3> QED BY <1>2, <1>3, <2>2, <3>1
  <2> QED BY <1>2, <2>1, <2>2
<1> QED BY <1>1, <1>3, <1>4, <1>5, <1>6, <1>7 DEF EndInv

LEMMA AfterSaveEnd ==
  ASSUME Closing, NEW t \in Savers, Saved(t) \/ CheckAfterSave(t)
  PROVE  EndInv'
<1>1. /\ EndInv /\ ThreadInv /\ thread \in [Detached -> Jobs] /\ t \in Detached /\ t # Ender
      /\ Ender \in Detached /\ Savers = Detached \ {Ender}
  BY Detaches DEF Closing, Going, ThreadInv
<1>2. /\ thread[t].at \in {"saved", "check"} /\ thread'[t].at \in {"check", "none"}
      /\ \A u \in Detached \ {t, Ender} : thread'[u] = thread[u]
      /\ \/ thread'[Ender] = thread[Ender]
         \/ Begins(thread[Ender], Ender, thread[t].ended)
      /\ terms' = terms /\ params' = params /\ savelock' = savelock
      /\ abort' = abort /\ finished' = finished
  <2>1. CASE CheckAfterSave(t)
    BY <1>1, <2>1, CheckEffect DEF vars
  <2>2. CASE Saved(t)
    <3>1. /\ thread[t].at = "saved" /\ Continues(t, "check")
          /\ terms' = terms /\ params' = params /\ savelock' = savelock
          /\ abort' = abort /\ finished' = finished
      BY <2>2 DEF Saved, vars, stopVars
    <3>2. thread'[t].at = "check" /\ \A u \in Detached \ {t} : thread'[u] = thread[u]
      BY <1>1, <3>1, JobContinued
    <3> QED BY <1>1, <3>1, <3>2
  <2> QED BY <2>1, <2>2
<1>3. Alive(t)
  BY <1>2 DEF Alive
<1>4. ~Alive(Ender) /\ thread[Ender].at = "none"
  BY <1>1, <1>3, EndsOfItself DEF Alive
<1>5. thread'[Ender].at \in {"none", "end"}
  BY <1>2, <1>4 DEF Begins
<1>6. terms.ends = "never" => ~Alive(Ender)'
  BY <1>2, <1>4 DEF Begins, Alive
<1>7. ~params.saves /\ ~terms.autosaves => FALSE
  BY <1>1, <1>3 DEF EndInv
<1>8. savelock # Nobody => savelock \in Detached /\ thread'[savelock].at \in Holding
  <2> SUFFICES ASSUME savelock # Nobody
               PROVE  savelock \in Detached /\ thread'[savelock].at \in Holding
    OBVIOUS
  <2>1. savelock \in Detached /\ thread[savelock].at \in Holding
    BY <1>1 DEF EndInv
  <2>2. savelock # t /\ savelock # Ender
    BY <1>2, <1>4, <2>1 DEF Holding
  <2> QED BY <1>2, <2>1, <2>2
<1>9. finished' # TRUE /\ finished' \in BOOLEAN
  BY <1>1, <1>2, <1>3 DEF EndInv
<1> QED BY <1>2, <1>5, <1>6, <1>7, <1>8, <1>9 DEF EndInv

LEMMA EnderEnd ==
  ASSUME Closing, BeginEnd \/ Stop \/ ClearTests \/ ClearTasks
  PROVE  EndInv'
<1>1. /\ EndInv /\ ThreadInv /\ TypeInv /\ thread \in [Detached -> Jobs]
      /\ Ender \in Detached /\ Ender \notin Savers /\ Savers = Detached \ {Ender}
  BY Detaches DEF Closing, Going, ThreadInv
<1>2. /\ Alive(Ender) /\ terms' = terms /\ params' = params /\ savelock' = savelock
      /\ thread[Ender].at \in {"end", "stop", "stopping", "clearing"}
      /\ worker' = worker
  BY DEF BeginEnd, Stop, ClearTests, ClearTasks, Alive, vars
<1>3. \A u \in Savers : ~Alive(u) /\ thread[u].at = "none"
  BY <1>1, <1>2, EndsOfItself DEF Alive
<1>4. savelock = Nobody
  <2> SUFFICES ASSUME savelock # Nobody PROVE FALSE
    OBVIOUS
  <2>1. savelock \in Detached /\ thread[savelock].at \in Holding
    BY <1>1 DEF EndInv
  <2> QED BY <1>1, <1>2, <1>3, <2>1 DEF Holding
<1>5. terms.ends # "never" /\ finished # TRUE /\ finished \in BOOLEAN
  BY <1>1, <1>2 DEF EndInv
<1>6. ASSUME NEW at \in {"none", "save", "stop", "stopping", "clearing"}, Continues(Ender, at)
      PROVE  thread'[Ender].at = at /\ \A u \in Savers : thread'[u].at = "none"
  <2>1. at \in SavePlaces \cup {"none", "saved", "check", "end", "stop", "stopping", "clearing"}
    BY DEF SavePlaces
  <2>2. thread'[Ender].at = at /\ \A u \in Detached \ {Ender} : thread'[u] = thread[u]
    BY <1>1, <1>6, <2>1, JobContinued
  <2> QED BY <1>1, <1>3, <2>2
<1>7. CASE BeginEnd
  <2>1. PICK at \in {"stop", "save"} : Continues(Ender, at)
    BY <1>7 DEF BeginEnd
  <2>2. thread'[Ender].at \notin {"stopping", "clearing"} /\ \A u \in Savers : thread'[u].at = "none"
    BY <1>6, <2>1
  <2>3. finished' = finished
    BY <1>7 DEF BeginEnd, stopVars
  <2> QED BY <1>2, <1>4, <1>5, <2>2, <2>3 DEF EndInv, Alive
<1>8. CASE Stop
  <2>1. /\ Continues(Ender, "stopping") /\ abort' = TRUE /\ frozen' = TRUE /\ finished' = finished
    BY <1>8 DEF Stop
  <2>2. thread'[Ender].at = "stopping" /\ \A u \in Savers : thread'[u].at = "none"
    BY <1>6, <2>1
  <2> QED BY <1>2, <1>4, <1>5, <2>1, <2>2 DEF EndInv, Alive
<1>9. CASE ClearTests
  <2>1. /\ Continues(Ender, "clearing") /\ abort' = abort /\ frozen' = frozen
        /\ finished' = finished /\ thread[Ender].at = "stopping" /\ tests' = 0 /\ AllWait
    BY <1>9 DEF ClearTests, stopVars
  <2>2. thread'[Ender].at = "clearing" /\ \A u \in Savers : thread'[u].at = "none"
    BY <1>6, <2>1
  <2>3. frozen' = TRUE /\ abort' = TRUE
    BY <1>1, <2>1 DEF EndInv
  <2>4. AtRest'
    BY <1>1, <1>2, <1>9, <2>1, ControllersCleared DEF AtRest, AllWait
  <2> QED BY <1>2, <1>4, <1>5, <2>1, <2>2, <2>3, <2>4 DEF EndInv, Alive
<1>10. CASE ClearTasks
  <2>1. /\ Continues(Ender, "none") /\ abort' = abort /\ thread[Ender].at = "clearing"
        /\ light' = 0 /\ heavy' = <<>> /\ tests' = tests /\ controller' = controller
        /\ finished' = TRUE
    BY <1>10 DEF ClearTasks
  <2>2. thread'[Ender].at = "none" /\ \A u \in Savers : thread'[u].at = "none"
    BY <1>6, <2>1
  <2>3. AtRest /\ abort' = TRUE
    BY <1>1, <2>1 DEF EndInv
  <2>4. AtRest'
    BY <1>2, <2>1, <2>3 DEF AtRest, AllWait, Busy
  <2>5. \A t \in Detached : ~Alive(t)'
    BY <1>1, <2>2 DEF Alive
  <2> QED BY <1>2, <1>4, <2>1, <2>2, <2>3, <2>4, <2>5, <1>1 DEF EndInv
<1> QED BY <1>7, <1>8, <1>9, <1>10

LEMMA DetachedEnd ==
  ASSUME Closing, NEW t \in Detached, (t \in Savers /\ Saver(t)) \/ (t = Ender /\ EndSession)
  PROVE  EndInv'
<1>1. Ender \in Detached /\ Savers \subseteq Detached
  BY DEF Detached
<1>2. CASE Saver(t) /\ t \in Savers
  BY <1>1, <1>2, SavingEnd, AfterSaveEnd DEF Saver
<1>3. CASE EndSession
  BY <1>1, <1>3, SavingEnd, EnderEnd DEF EndSession
<1> QED BY <1>2, <1>3

LEMMA InitClosing == SessionInit /\ Regular /\ EndsAlone => Closing
<1> SUFFICES ASSUME SessionInit, Regular, EndsAlone PROVE Closing
  OBVIOUS
<1>1. Going
  BY InitGoing
<1>2. thread = [t \in Detached |-> NoThread] /\ savelock = Nobody /\ finished = FALSE
  BY DEF SessionInit
<1>3. \A t \in Detached : thread[t].at = "none"
  BY <1>2 DEF NoThread
<1>4. EndInv
  BY <1>2, <1>3, Detaches DEF EndInv, Alive
<1> QED BY <1>1, <1>4 DEF Closing

LEMMA StepClosing == Closing /\ [SessionNext]_allVars => Closing'
<1> SUFFICES ASSUME Closing, [SessionNext]_allVars PROVE Closing'
  OBVIOUS
<1>1. Going'
  BY StepGoing DEF Closing
<1>2. EndInv'
  <2>1. Savers \subseteq Detached /\ Ender \in Detached
    BY DEF Detached
  <2> QED BY <2>1, PoolEnd, RestEnd, TimeEnd, DetachedEnd DEF SessionNext
<1>3. terms' = terms /\ params' = params
  <2>1. terms' = terms
    <3>1. ASSUME NEW w \in Workers, PoolThread(w) PROVE terms' = terms
      BY <3>1, <1>1, PoolChain DEF Closing, Going, Unstopped
    <3>2. ASSUME NEW t \in Detached, (t \in Savers /\ Saver(t)) \/ (t = Ender /\ EndSession)
          PROVE  terms' = terms
      BY <3>2, DetachedChain DEF Closing
    <3>3. CASE HandlerStep \/ (\E c \in Controllers : DeltaStep(c))
               \/ (\E late \in BOOLEAN : SessionControl(late))
      BY <3>3 DEF HandlerStep, DeltaStep, SessionControl, sessionVars
    <3>4. CASE TimePasses \/ UNCHANGED allVars
      BY <3>4 DEF TimePasses, allVars, sessionVars
    <3>5. Savers \subseteq Detached /\ Ender \in Detached
      BY DEF Detached
    <3> QED BY <3>1, <3>2, <3>3, <3>4, <3>5 DEF SessionNext
  <2> QED BY <1>1, <2>1 DEF Closing, Going, ThreadInv
<1>4. EndsAlone'
  BY <1>3 DEF Closing, EndsAlone
<1> QED BY <1>1, <1>2, <1>4 DEF Closing

LEMMA StopsForGood == Closing => StoppedForGood
<1> SUFFICES ASSUME Closing, finished
             PROVE  /\ tests = 0 /\ light = 0 /\ heavy = <<>> /\ AllWait
                    /\ \A c \in Controllers : ~Busy(c)
                    /\ savelock = Nobody
  BY DEF StoppedForGood
<1>1. finished = TRUE
  BY DEF Closing, EndInv
<1>2. /\ AtRest /\ light = 0 /\ heavy = <<>>
      /\ \A t \in Detached : ~Alive(t)
      /\ savelock # Nobody => savelock \in Detached /\ thread[savelock].at \in Holding
  BY <1>1 DEF Closing, EndInv
<1>3. savelock = Nobody
  BY <1>2 DEF Alive, Holding
<1> QED BY <1>2, <1>3 DEF AtRest

\* After the end of a session is announced nothing is done for it any more
\* (Session::StopSession, SaveSession_Async, Data::Save): no test, no task and no
\* delta debugging is left, every thread of the pool waits, and nobody saves.
\* This holds when saves are quick and the one that saves before the end is the
\* one that ends the session.
THEOREM EndIsFinal == SessionSpec /\ Regular /\ EndsAlone => []StoppedForGood
<1>1. SessionInit /\ Regular /\ EndsAlone => Closing
  BY InitClosing
<1>2. Closing /\ [SessionNext]_allVars => Closing'
  BY StepClosing
<1>3. Closing => StoppedForGood
  BY StopsForGood
<1> QED BY <1>1, <1>2, <1>3, PTL DEF SessionSpec
=============================================================================
