------------------------------ MODULE SaveFiles ------------------------------
(***************************************************************************)
(* The store of forms of src/src/Data.cpp and its save files: CreateForm,  *)
(* DeleteForm, the change flag of a form, Save with full and incremental   *)
(* files, and Load, which reads the chain of files a save depends on.      *)
(*                                                                         *)
(* Two forms with a fixed id stand for the singletons: Tree for those that *)
(* are saved when they changed, Controller for the task controller, whose  *)
(* change flag is never cleared and whose record is its queue of tasks.    *)
(* Forms do not change while a save is written: that is what Save freezes  *)
(* the task controller for (SaveIsQuiescent of TaskController).            *)
(***************************************************************************)
EXTENDS Records, FiniteSets

CONSTANTS
  Values,        \* what a form can hold
  Initial,       \* what a singleton holds when it is created
  Tasks,         \* the tasks that wait in the controller
  Regimes,       \* values of regime
  MaxId,         \* bound on the ids given out
  MaxSaves       \* bound on the number of the last save

Tree       == 1
Controller == 2
Static     == {Tree, Controller}
BaseId     == 3    \* _baseformid

Ids     == 1 .. MaxId
Numbers == 1 .. MaxSaves

ASSUME SaveAssumption ==
  /\ Initial \in Values
  /\ MaxSaves \in Nat
  /\ MaxId \in Nat /\ MaxId >= BaseId
  /\ Regimes \subseteq
       [incremental : BOOLEAN, fullEvery : Nat, openFails : BOOLEAN,
        diesInSave : BOOLEAN, maxId : BaseId .. MaxId, maxSaves : 0 .. MaxSaves,
        maxQueue : Nat]

VARIABLES
  regime,       \* the settings incrementalSaveFiles and createFullSaveEvery;
                \* whether a new file may fail to open, and the process die
                \* while it writes one; bounds on the ids, the saves and the
                \* queue of the controller in this behaviour
  phase,        \* "running", "saving" or "down"
  forms,        \* _hashmap: the value of a form and its flags; saved holds if a
                \* save file has a record of it
  queue,        \* the deque of the task controller
  nextformid,   \* _nextformid
  savenumber,   \* _savenumber
  loadednumber, \* _loadedsavenumber
  priorsaves,   \* _priorsaves
  todo,         \* the forms Save has still to write
  files,        \* the save files on disk
  shots         \* history: what was alive at the end of each complete save

memory == <<forms, queue, nextformid>>
chain  == <<savenumber, loadednumber, priorsaves>>
vars   == <<regime, phase, forms, queue, nextformid, savenumber, loadednumber,
            priorsaves, todo, files, shots>>

Live == {id \in DOMAIN forms : ~forms[id].deleted}
Picture == [id \in Live \ {Controller} |-> forms[id].value]

NewForm(v) == [value |-> v, deleted |-> FALSE, saved |-> FALSE,
               changed |-> TRUE]
Put(f, id, x) == [k \in DOMAIN f \cup {id} |-> IF k = id THEN x ELSE f[k]]

Init ==
  /\ regime \in Regimes
  /\ phase = "running"
  /\ forms = [id \in Static |-> NewForm(Initial)]
  /\ queue = <<>>
  /\ nextformid = BaseId
  /\ savenumber = 1
  /\ loadednumber = 0
  /\ priorsaves = <<>>
  /\ todo = {}
  /\ files = <<>>
  /\ shots = <<>>

-----------------------------------------------------------------------------
(* The program at work.                                                    *)

CreateForm(v) ==
  /\ phase = "running"
  /\ nextformid \in 1 .. regime.maxId
  /\ forms' = Put(forms, nextformid, NewForm(v))
  /\ nextformid' = nextformid + 1
  /\ UNCHANGED <<regime, phase, queue, chain, todo, files, shots>>

\* A member of the form is assigned and SetChanged called.
ChangeForm(id, v) ==
  /\ phase = "running"
  /\ id \in Live \ {Controller}
  /\ forms[id].value # v
  /\ forms' = [forms EXCEPT ![id].value = v, ![id].changed = TRUE]
  /\ UNCHANGED <<regime, phase, queue, nextformid, chain, todo, files, shots>>

\* A form that is in an earlier file stays, marked, for the next file; setting
\* the flag makes its flag hash differ, which counts as a change.
DeleteForm(id) ==
  /\ phase = "running"
  /\ id \in Live \ Static
  /\ forms' = IF forms[id].saved
                THEN [forms EXCEPT ![id].deleted = TRUE, ![id].changed = TRUE]
                ELSE [k \in DOMAIN forms \ {id} |-> forms[k]]
  /\ UNCHANGED <<regime, phase, queue, nextformid, chain, todo, files, shots>>

AddTask(t) ==
  /\ phase = "running"
  /\ Len(queue) < regime.maxQueue
  /\ queue' = Append(queue, t)
  /\ UNCHANGED <<regime, phase, forms, nextformid, chain, todo, files, shots>>

TakeTask ==
  /\ phase = "running"
  /\ queue # <<>>
  /\ queue' = Tail(queue)
  /\ UNCHANGED <<regime, phase, forms, nextformid, chain, todo, files, shots>>

-----------------------------------------------------------------------------
(* Save.                                                                   *)

WritesIncrement ==
  /\ regime.incremental
  /\ regime.fullEvery = 0 \/ savenumber % regime.fullEvery # 0

\* Mutant of NextPriors: the last save is forgotten.
ForgetsLast == priorsaves

\* GetSaveName: the save last loaded or written becomes a prior save.
NextPriors ==
  IF loadednumber > 0 THEN Append(priorsaves, loadednumber) ELSE priorsaves

\* GetSaveName: the number of the save and of the next one.
TakeNumber ==
  /\ savenumber \in 1 .. regime.maxSaves
  /\ savenumber' = savenumber + 1
  /\ loadednumber' = savenumber

ToWrite ==
  IF WritesIncrement THEN {id \in DOMAIN forms : forms[id].changed}
                     ELSE DOMAIN forms

\* The file is opened and its header written; a full save depends on none.
BeginSave ==
  LET prior == IF WritesIncrement THEN NextPriors ELSE <<>> IN
  /\ phase = "running"
  /\ TakeNumber
  /\ priorsaves' = prior
  /\ phase' = "saving"
  /\ todo' = ToWrite
  /\ files' = Put(files, savenumber,
                  [prior |-> prior, nextid |-> nextformid, queue |-> <<>>,
                   records |-> <<>>])
  /\ UNCHANGED <<regime, memory, shots>>

\* The file cannot be opened: its name is taken all the same.
BeginSaveFails ==
  /\ regime.openFails
  /\ phase = "running"
  /\ TakeNumber
  /\ priorsaves' = NextPriors
  /\ UNCHANGED <<regime, phase, memory, todo, files, shots>>

\* A file with the record of a form after those it has.
WithRecord(file, id) ==
  [file EXCEPT !.records = Put(@, id, [value   |-> forms[id].value,
                                       deleted |-> forms[id].deleted]),
               !.queue = IF id = Controller THEN queue ELSE @]

\* One record; ClearChanged, which the controller undoes at once.
WriteRecord(id) ==
  /\ phase = "saving"
  /\ id \in todo
  /\ todo' = todo \ {id}
  /\ files' = [files EXCEPT ![loadednumber] = WithRecord(@, id)]
  /\ forms' = [forms EXCEPT ![id].saved = TRUE,
                            ![id].changed = (id = Controller)]
  /\ UNCHANGED <<regime, phase, queue, nextformid, chain, shots>>

EndSave ==
  /\ phase = "saving"
  /\ todo = {}
  /\ phase' = "running"
  /\ shots' = Put(shots, loadednumber, Picture)
  /\ UNCHANGED <<regime, memory, chain, todo, files>>

\* The process ends, by itself or by a crash; the next one starts with the
\* members of Data as they are declared.
Die ==
  /\ phase = "running" \/ (regime.diesInSave /\ phase = "saving")
  /\ phase' = "down"
  /\ forms' = <<>>
  /\ queue' = <<>>
  /\ nextformid' = BaseId
  /\ savenumber' = 1
  /\ loadednumber' = 0
  /\ priorsaves' = <<>>
  /\ todo' = {}
  /\ UNCHANGED <<regime, files, shots>>

-----------------------------------------------------------------------------
(* Load, in a new process.                                                 *)

\* The files LoadIntern reads for save n, in its order.
Chain(n) == Append(files[n].prior, n)

PriorsExist(n) == \A k \in ToSet(files[n].prior) : k \in DOMAIN files

\* The files of the chain with a record of id, by their place in it.
Places(n, id) == {i \in DOMAIN Chain(n) : id \in DOMAIN files[Chain(n)[i]].records}

RecordAt(n, id, i) == files[Chain(n)[i]].records[id]

\* A record marked deleted is not registered.
Registered(n, id) == {i \in Places(n, id) : ~RecordAt(n, id, i).deleted}

LoadedIds(n) == Static \cup {id \in Ids \ Static : Registered(n, id) # {}}

\* RegisterForm inserts into _hashmap, which keeps what it has: of several
\* records of a form the first one stays.  A singleton is read in place: the
\* last one stays.
LoadedValue(n, id) ==
  IF id \in Static
    THEN IF Places(n, id) = {} THEN Initial
                               ELSE RecordAt(n, id, Max(Places(n, id))).value
    ELSE RecordAt(n, id, Min(Registered(n, id))).value

\* A form that was read is unchanged; a singleton was created by CreateForm.
LoadedForm(n, id) ==
  [value |-> LoadedValue(n, id), deleted |-> FALSE,
   saved |-> Places(n, id) # {}, changed |-> id \in Static]

\* Every record of the controller empties the deques before it is read, so the
\* tasks of file n remain; but they are only taken when finalsave is TRUE, which
\* LoadIntern sets for prior saves and never resets: not without a prior save.
LoadedQueue(n) == IF files[n].prior = <<>> THEN <<>> ELSE files[n].queue

LoadedNextId(n) == files[n].nextid

\* Mutant of NextNumber: one more than the number that was loaded.
NumberAfterLoaded(n) == n + 1

NextNumber(n) == CHOOSE m \in 1 .. MaxSaves + 1 :
  /\ m - 1 \in DOMAIN files
  /\ \A k \in DOMAIN files : k < m

Load(n) ==
  /\ phase = "down"
  /\ n \in DOMAIN files
  /\ PriorsExist(n)
  /\ phase' = "running"
  /\ forms' = [id \in LoadedIds(n) |-> LoadedForm(n, id)]
  /\ queue' = LoadedQueue(n)
  /\ nextformid' = LoadedNextId(n)
  /\ savenumber' = NextNumber(n)
  /\ loadednumber' = n
  /\ priorsaves' = files[n].prior
  /\ todo' = {}
  /\ UNCHANGED <<regime, files, shots>>

-----------------------------------------------------------------------------
Next ==
  \/ \E v \in Values : CreateForm(v) \/ \E id \in Ids : ChangeForm(id, v)
  \/ \E id \in Ids : DeleteForm(id) \/ WriteRecord(id)
  \/ \E t \in Tasks : AddTask(t)
  \/ TakeTask
  \/ BeginSave \/ BeginSaveFails \/ EndSave
  \/ Die
  \/ \E n \in Numbers : Load(n)

Spec == Init /\ [][Next]_vars
-----------------------------------------------------------------------------
(* Properties.                                                             *)

\* What a save writes comes back, whatever kinds of form there are: ReadData finds
\* each member where WriteData put it, the size that GetDynamicSize announces is
\* never exceeded, and no record is refused (CreateRecord and ReadRecord of Record.h).
RecordsComeBack == phase = "saving" => RecordsAreRead

\* No two forms ever get one id, over any number of saves, restarts and loads
\* of an older save (CreateForm and LoadIntern keep _nextformid), and a save
\* never overwrites an earlier one (Load takes the highest number there is).
NamesAreFresh ==
  phase = "running" =>
    /\ \A id \in DOMAIN forms : id < nextformid
    /\ savenumber \notin DOMAIN files

Loads == phase = "down" /\ phase' = "running"

\* A form that was loaded holds what it held when the save was written
\* (src/Data.cpp:720: all prior saves are loaded in order).
LoadGivesSavedValues ==
  [][Loads /\ loadednumber' \in DOMAIN shots
       => \A id \in DOMAIN shots[loadednumber'] \cap DOMAIN forms' :
            forms'[id].value = shots[loadednumber'][id]]_vars

\* The store with its files implements Snapshots: with full files a load gives
\* back exactly what was saved; with incremental ones, over chains of files and
\* torn saves, at least every form that was alive, wherever its last record is.
Store == INSTANCE Snapshots WITH
  exact <- ~regime.incremental, tears <- regime.diesInSave,
  up <- phase # "down", live <- Picture

StoreSpec == Store!SnapSpec
=============================================================================
