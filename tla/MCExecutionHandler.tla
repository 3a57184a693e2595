------------------------ MODULE MCExecutionHandler ------------------------
(***************************************************************************)
(* Small handlers for TLC.                                                 *)
(***************************************************************************)
EXTENDS ExecutionHandler

CONSTANTS a, b, p1

TwoTests == {a, b}

\* A save and then perhaps a stop; or the end of the session; or the watchdog
\* replaces the loop.
SavedEndedOrReinitialised ==
  {[stops |-> BOOLEAN, ends |-> FALSE, reinits |-> FALSE, saves |-> 1],
   [stops |-> {}, ends |-> TRUE, reinits |-> FALSE, saves |-> 0],
   [stops |-> {}, ends |-> FALSE, reinits |-> TRUE, saves |-> 0]}

=============================================================================
