----------------------------- MODULE Snapshots -----------------------------
(***************************************************************************)
(* What saving and loading promise, whatever the layout of the files: a    *)
(* save is a picture of everything that is alive at that moment, a picture *)
(* is never altered, and loading one gives back what it shows: exactly, or *)
(* at least every object that it shows.                                    *)
(***************************************************************************)
CONSTANTS Ids,      \* identities of the objects that are saved
          Values,   \* what an object can hold
          Numbers   \* the numbers a save can have

VARIABLES exact,    \* whether pictures are exact
          tears,    \* whether taking one may be cut short
          up,       \* the program runs
          live,     \* what every live object holds
          shots     \* the pictures taken, by number

snapVars == <<exact, tears, up, live, shots>>

Pictures == UNION {[S -> Values] : S \in SUBSET Ids}

SnapInit ==
  /\ exact \in BOOLEAN /\ tears \in BOOLEAN
  /\ up = TRUE
  /\ live \in Pictures
  /\ shots = <<>>

\* The program creates, changes or deletes objects.
Work ==
  /\ up /\ up'
  /\ live' \in Pictures
  /\ UNCHANGED <<exact, tears, shots>>

Take(n) ==
  /\ up /\ up'
  /\ n \notin DOMAIN shots
  /\ shots' = [k \in DOMAIN shots \cup {n} |->
                 IF k = n THEN live ELSE shots[k]]
  /\ UNCHANGED <<exact, tears, live>>

Stop ==
  /\ up /\ ~up'
  /\ live' = <<>>
  /\ UNCHANGED <<exact, tears, shots>>

\* What may be alive after a load of a picture.
Shows(picture) ==
  {p \in Pictures : IF exact THEN p = picture ELSE DOMAIN picture \subseteq DOMAIN p}

Restore(n) ==
  /\ ~up /\ up'
  /\ n \in DOMAIN shots
  /\ live' \in Shows(shots[n])
  /\ UNCHANGED <<exact, tears, shots>>

\* A save that was cut short is no picture, and its file shows anything.
RestoreTorn(n) ==
  /\ ~up /\ up'
  /\ tears
  /\ n \notin DOMAIN shots
  /\ live' \in Pictures
  /\ UNCHANGED <<exact, tears, shots>>

SnapNext ==
  \/ Work \/ Stop
  \/ \E n \in Numbers : Take(n) \/ Restore(n) \/ RestoreTorn(n)

SnapSpec == SnapInit /\ [][SnapNext]_snapVars
=============================================================================
