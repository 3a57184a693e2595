---------------------------- MODULE MCSaveFiles ----------------------------
(***************************************************************************)
(* Small stores for TLC: one or two forms, two values, up to three saves.  *)
(***************************************************************************)
EXTENDS SaveFiles

CONSTANTS v1, v2, t1

TwoValues == {v1, v2}
OneTask   == {t1}

Full == [incremental |-> FALSE, fullEvery |-> 0, openFails |-> TRUE, diesInSave |-> FALSE,
         maxId |-> 4, maxSaves |-> 2, maxQueue |-> 1]

FullTorn ==
  [Full EXCEPT !.openFails = FALSE, !.diesInSave = TRUE, !.maxId = 3, !.maxQueue = 0]

EverySecondFull ==
  [incremental |-> TRUE, fullEvery |-> 2, openFails |-> FALSE, diesInSave |-> TRUE,
   maxId |-> 3, maxSaves |-> 3, maxQueue |-> 0]

FullOrIncremental == {Full, FullTorn, EverySecondFull}

OnlyIncremental ==
  {[EverySecondFull EXCEPT !.fullEvery = 0, !.diesInSave = FALSE, !.maxId = 4]}
=============================================================================
