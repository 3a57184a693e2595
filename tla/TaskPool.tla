------------------------------ MODULE TaskPool ------------------------------
(***************************************************************************)
(* What a pool of worker threads promises about the tasks given to it,     *)
(* whatever its queues, locks and condition variables look like: a task is *)
(* submitted at most once, is begun at most once, and ends either executed *)
(* or dropped without having been begun, never both and never neither.     *)
(* TaskController is shown to implement this module.                       *)
(***************************************************************************)
EXTENDS Naturals, FiniteSets

CONSTANTS Tasks,     \* the tasks that can be submitted
          Capacity   \* the number of worker threads

VARIABLES pending,   \* submitted, neither begun nor dropped
          running,   \* taken by a worker
          finished,  \* executed to completion
          dropped    \* discarded before a worker took them

poolVars == <<pending, running, finished, dropped>>

PoolInit ==
  /\ pending = {}
  /\ running = {}
  /\ finished = {}
  /\ dropped = {}

Submit(t) ==
  /\ t \notin pending \cup running \cup finished \cup dropped
  /\ pending' = pending \cup {t}
  /\ UNCHANGED <<running, finished, dropped>>

Begin(t) ==
  /\ t \in pending
  /\ Cardinality(running) < Capacity
  /\ pending' = pending \ {t}
  /\ running' = running \cup {t}
  /\ UNCHANGED <<finished, dropped>>

Complete(t) ==
  /\ t \in running
  /\ running' = running \ {t}
  /\ finished' = finished \cup {t}
  /\ UNCHANGED <<pending, dropped>>

DropAll ==
  /\ pending # {}
  /\ dropped' = dropped \cup pending
  /\ pending' = {}
  /\ UNCHANGED <<running, finished>>

PoolNext ==
  \/ \E t \in Tasks : Submit(t) \/ Begin(t) \/ Complete(t)
  \/ DropAll

PoolSafety == PoolInit /\ [][PoolNext]_poolVars

\* A task that waits is taken up, or dropped, in the end; one that was taken
\* up completes.
PoolFairness ==
  /\ \A t \in Tasks : WF_poolVars(Complete(t))
  /\ \A t \in Tasks : SF_poolVars(Begin(t))

PoolSpec == PoolSafety /\ PoolFairness
=============================================================================
