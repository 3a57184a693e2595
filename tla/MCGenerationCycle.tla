------------------------- MODULE MCGenerationCycle --------------------------
(***************************************************************************)
(* Small sessions for TLC.                                                 *)
(***************************************************************************)
EXTENDS SessionEnd

CONSTANTS w1, w2

Session(workers, optimize, hangs, saves, target, limit) ==
  [workers |-> workers, target |-> target, mishaps |-> limit, optimize |-> optimize,
   hangs |-> hangs, saves |-> saves, slowSave |-> FALSE]

Ending(ends, autosaves, prompt, session) ==
  [ends |-> ends, autosaves |-> autosaves, prompt |-> prompt, session |-> session]

\* One thread and two, with and without saves; controllers hang, or the best
\* inputs are optimized; sessions that go on for ever and that end.
GoodEndings ==
  {Ending("never", TRUE, FALSE, Session({w1}, FALSE, FALSE, TRUE, 2, 0)),
   Ending("never", FALSE, FALSE, Session({w1, w2}, FALSE, TRUE, FALSE, 2, 3)),
   Ending("never", FALSE, FALSE, Session({w1, w2}, TRUE, FALSE, TRUE, 2, 0)),
   Ending("generations", FALSE, TRUE, Session({w1}, TRUE, FALSE, TRUE, 2, 1)),
   Ending("generations", FALSE, TRUE, Session({w1, w2}, FALSE, FALSE, TRUE, 2, 1)),
   Ending("generations", FALSE, FALSE, Session({w1}, FALSE, FALSE, TRUE, 2, 0)),
   Ending("timeout", FALSE, FALSE, Session({w1}, TRUE, FALSE, FALSE, 2, 1)),
   Ending("memory", FALSE, FALSE, Session({w1}, FALSE, FALSE, FALSE, 2, 1))}

\* Two threads and autosaves.
AutosaveEndings == {Ending("never", TRUE, TRUE, Session({w1, w2}, FALSE, FALSE, FALSE, 2, 1))}

Sessions == {e.session : e \in GoodEndings \cup AutosaveEndings}
=============================================================================
